\* Truncated responses, provider calls without output items or without a
\* segment of their own, tools that return an event and no text.
SPECIFICATION Spec
CONSTANTS
    MaxCalls = 2
    MaxTurns = 2
    MaxUsers = 2
    MaxHints = 1
    MaxCrashes = 1
    Reports = {TRUE, FALSE}
    Host = "first block"
    PreserveReasoning = TRUE
CHECK_DEADLOCK FALSE
INVARIANTS
    CopyAlwaysFaithful
    GroupsAlwaysFollow
    ResultsHaveText
