\* A provider call that fails after the cancellation.
SPECIFICATION Spec
CONSTANTS
    Indexes = {0}
    Deltas = {a}
    None = None
    MaxRetries = 1
    MaxChunks = 4
CHECK_DEADLOCK FALSE
PROPERTY CancellationStopsRetries
