\* What a failed or aborted attempt leaves behind.
SPECIFICATION Spec
CONSTANTS
    Indexes = {0}
    Deltas = {a}
    None = None
    MaxRetries = 1
    MaxChunks = 4
CHECK_DEADLOCK FALSE
INVARIANTS
    ToolCallsClosed
    CleanRetry
    AbortedNotReported
