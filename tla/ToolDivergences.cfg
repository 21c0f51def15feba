\* A tool cut short by a cancellation; one whose exception has no message.
SPECIFICATION Spec
CONSTANTS
    N = 1
    Ids = {1, 2, 3}
    IdOf <- MCDistinct
    SyncTools = {}
    Malformed = {}
    MaxCancels = 1
CHECK_DEADLOCK FALSE
INVARIANTS
    CancelledNotSuccess
    FailedNotSuccess
