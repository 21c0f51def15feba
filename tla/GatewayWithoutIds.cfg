\* A gateway that sends no item ids: all its items are one.
SPECIFICATION Spec
CONSTANTS
    Indexes = {0, 1, 2}
    Deltas = {a, b}
    None = None
    MaxStreams = 1
    Apis = {"responses"}
    Wires = {0, 1}
    MaxItems = 3
    Ids = {0}
    MaxEvents = 4
    Conformant = FALSE
    MaxChunks = 3
CHECK_DEADLOCK FALSE
INVARIANT ProtocolKept
