\* The host of the documentation, and a reply with two messages.
SPECIFICATION Spec
CONSTANTS
    MaxCalls = 1
    MaxTurns = 2
    MaxUsers = 2
    MaxHints = 0
    MaxCrashes = 0
    Reports = {TRUE}
    Host = "reply start"
    PreserveReasoning = TRUE
CHECK_DEADLOCK FALSE
INVARIANT SnapshotComplete
