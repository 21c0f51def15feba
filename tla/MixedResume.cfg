\* One of two calls is confirmed, the other one denied, and a tool returns a hint.
SPECIFICATION Spec
CONSTANTS
    MaxCalls = 2
    MaxTurns = 2
    MaxUsers = 2
    MaxHints = 1
    MaxCrashes = 0
    Reports = {TRUE}
    Host = "first block"
    PreserveReasoning = TRUE
CHECK_DEADLOCK FALSE
INVARIANT SettledBatchSent
