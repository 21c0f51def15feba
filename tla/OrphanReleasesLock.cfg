\* A dropped generator is closed while the next run is in flight.
SPECIFICATION Spec
CONSTANTS
    Runs = {r1, r2}
    NoRun = NoRun
    Behaviors = {"ALLOW", "ASK"}
    Host = {"abandon"}
    MaxBatch = 2
    MaxCrashes = 0
    MaxCalls = 2
    MaxReplies = 3
    MaxMsgs = 3
    MaxIterations = 1
    MaxContinuations = 1
    MAX_EMPTY_RESPONSE_RETRIES = 1
SYMMETRY Symmetry
CHECK_DEADLOCK FALSE
INVARIANT MutualExclusion
