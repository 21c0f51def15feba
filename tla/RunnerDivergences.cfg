\* An allowed call that shares its batch with a confirmation; empty responses
\* that are retried beyond max_iterations.
SPECIFICATION Spec
CONSTANTS
    Runs = {r1, r2}
    NoRun = NoRun
    Behaviors = {"ALLOW", "ASK"}
    Host = {}
    MaxBatch = 2
    MaxCrashes = 0
    MaxCalls = 2
    MaxReplies = 2
    MaxMsgs = 2
    MaxIterations = 1
    MaxContinuations = 1
    MAX_EMPTY_RESPONSE_RETRIES = 1
SYMMETRY Symmetry
CHECK_DEADLOCK FALSE
INVARIANTS
    DeniedOnlyIfRefused
    IterationLimit
