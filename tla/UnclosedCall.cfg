\* Calls of a chat completion that never get a name.
SPECIFICATION Spec
CONSTANTS
    Indexes = {0, 1, 2}
    Deltas = {a, b}
    None = None
    MaxStreams = 1
    Apis = {"completions"}
    Wires = {0, 1}
    MaxItems = 3
    Ids = {0, 1}
    MaxEvents = 4
    Conformant = TRUE
    MaxChunks = 3
CHECK_DEADLOCK FALSE
INVARIANT EveryBlockEnds
