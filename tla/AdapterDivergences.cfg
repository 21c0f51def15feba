\* A stream that cancel() breaks off; a block whose end carries other content
\* than its deltas.
SPECIFICATION Spec
CONSTANTS
    Indexes = {0, 1, 2}
    Deltas = {a, b}
    None = None
    MaxStreams = 1
    Apis = {"completions", "responses", "any"}
    Wires = {0, 1}
    MaxItems = 3
    Ids = {0, 1}
    MaxEvents = 4
    Conformant = TRUE
    MaxChunks = 3
CHECK_DEADLOCK FALSE
INVARIANT WireIsAuthority
PROPERTY CancelledIsAborted
