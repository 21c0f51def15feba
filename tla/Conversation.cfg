\* Two calls in two provider calls, with a hint, two user messages and a crash.
SPECIFICATION Spec
CONSTANTS
    MaxCalls = 2
    MaxTurns = 2
    MaxUsers = 2
    MaxHints = 1
    MaxCrashes = 1
    Reports = {TRUE}
    Host = "first block"
    PreserveReasoning = TRUE
CHECK_DEADLOCK FALSE
INVARIANTS
    RequestWellFormed
    AnsweredCallsSent
    CopyFaithful
    PauseSurvives
    AnsweredOnce
    GroupsFollowSegments
