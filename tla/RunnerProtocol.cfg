\* One agent, a host that follows the protocol and may cancel, fair tasks.
SPECIFICATION FairSpec
CONSTANTS
    Runs = {r1, r2}
    NoRun = NoRun
    Behaviors = {"ALLOW", "ASK"}
    Host = {"cancel", "checkpoint"}
    MaxBatch = 2
    MaxCrashes = 0
    MaxCalls = 2
    MaxReplies = 2
    MaxMsgs = 3
    MaxIterations = 2
    MaxContinuations = 1
    MAX_EMPTY_RESPONSE_RETRIES = 1
CHECK_DEADLOCK FALSE
INVARIANTS
    TypeOK
    PairedBeforeReasoning
    MutualExclusion
    PauseIsResumable
    IterationBudget
    CancelInLoopInterrupts
PROPERTIES
    RunsEnd
    RefinesLifecycle
