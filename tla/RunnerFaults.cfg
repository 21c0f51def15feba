\* The host crashes, restarts, cancels during the cleanup; the rules deny calls.
SPECIFICATION Spec
CONSTANTS
    Runs = {r1, r2}
    NoRun = NoRun
    Behaviors = {"ALLOW", "ASK", "DENY"}
    Host = {"cancel", "checkpoint", "crash"}
    MaxBatch = 2
    MaxCrashes = 1
    MaxCalls = 3
    MaxReplies = 2
    MaxMsgs = 3
    MaxIterations = 1
    MaxContinuations = 1
    MAX_EMPTY_RESPONSE_RETRIES = 1
SYMMETRY Symmetry
CHECK_DEADLOCK FALSE
INVARIANTS
    AtMostOnce
    ExecutedResultInOwner
    EndedOnce
PROPERTIES
    NoToolAfterEnd
