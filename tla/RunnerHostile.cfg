\* A host that answers at any time, twice, drops generators and crashes.
SPECIFICATION Spec
CONSTANTS
    Runs = {r1, r2}
    NoRun = NoRun
    Behaviors = {"ALLOW", "ASK", "DENY"}
    Host = {"overlap", "abandon", "cancel", "checkpoint", "crash"}
    MaxBatch = 2
    MaxCrashes = 1
    MaxCalls = 2
    MaxReplies = 1
    MaxMsgs = 1
    MaxIterations = 1
    MaxContinuations = 0
    MAX_EMPTY_RESPONSE_RETRIES = 0
SYMMETRY Symmetry
CHECK_DEADLOCK FALSE
INVARIANTS
    ConsentInv
