\* A cancellation that reaches the approved tools of a resumed run.
SPECIFICATION Spec
CONSTANTS
    Runs = {r1, r2}
    NoRun = NoRun
    Behaviors = {"ASK"}
    Host = {"cancel"}
    MaxBatch = 2
    MaxCrashes = 0
    MaxCalls = 1
    MaxReplies = 2
    MaxMsgs = 2
    MaxIterations = 1
    MaxContinuations = 1
    MAX_EMPTY_RESPONSE_RETRIES = 1
SYMMETRY Symmetry
CHECK_DEADLOCK FALSE
INVARIANT CancelInterrupts
