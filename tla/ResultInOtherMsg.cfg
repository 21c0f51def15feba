\* An unanswered call of an ended reply is answered by a later resume.
SPECIFICATION Spec
CONSTANTS
    Runs = {r1, r2}
    NoRun = NoRun
    Behaviors = {"ASK", "DENY"}
    Host = {}
    MaxBatch = 1
    MaxCrashes = 0
    MaxCalls = 2
    MaxReplies = 2
    MaxMsgs = 3
    MaxIterations = 3
    MaxContinuations = 1
    MAX_EMPTY_RESPONSE_RETRIES = 1
SYMMETRY Symmetry
CHECK_DEADLOCK FALSE
INVARIANT ResultInOwner
