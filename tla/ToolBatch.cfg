\* A sync tool, an asynchronous tool and a malformed call, cancelled up to twice.
SPECIFICATION FairSpec
CONSTANTS
    N = 3
    Ids = {1, 2, 3}
    IdOf <- MCDistinct
    SyncTools = {1}
    Malformed = {3}
    MaxCancels = 2
CHECK_DEADLOCK FALSE
INVARIANTS
    InvokedOnceIfLet
    HooksAndSpansPaired
    NothingOutlivesBatch
    EveryCallAnswered
PROPERTIES
    CancelledBatchEnds
    BatchEnds
