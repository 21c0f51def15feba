\* Two calls of one response carry the same id.
SPECIFICATION Spec
CONSTANTS
    N = 2
    Ids = {1, 2, 3}
    IdOf <- MCRepeated
    SyncTools = {}
    Malformed = {}
    MaxCancels = 0
CHECK_DEADLOCK FALSE
INVARIANT NothingOutlivesBatch
