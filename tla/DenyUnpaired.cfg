\* A batch that the rules only deny: it is neither answered nor paused.
SPECIFICATION Spec
CONSTANTS
    Runs = {r1, r2}
    NoRun = NoRun
    Behaviors = {"DENY"}
    Host = {}
    MaxBatch = 1
    MaxCrashes = 0
    MaxCalls = 1
    MaxReplies = 2
    MaxMsgs = 2
    MaxIterations = 2
    MaxContinuations = 1
    MAX_EMPTY_RESPONSE_RETRIES = 1
SYMMETRY Symmetry
CHECK_DEADLOCK FALSE
INVARIANT PairedBeforeReasoning
