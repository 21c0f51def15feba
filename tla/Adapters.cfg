\* Two streams of an adapter, one after the other, of up to three items of a
\* chat completion or five events of a Responses stream; or one stream of any
\* chunks.
SPECIFICATION Spec
CONSTANTS
    Indexes = {0, 1, 2}
    Deltas = {a, b}
    None = None
    MaxStreams = 2
    Apis = {"completions", "responses", "any"}
    Wires = {0, 1}
    MaxItems = 3
    Ids = {0, 1}
    MaxEvents = 5
    Conformant = TRUE
    MaxChunks = 6
CHECK_DEADLOCK FALSE
INVARIANTS
    ProtocolEnforced
    BlocksAssembled
    ProtocolKept
    ValidIfCallsClosed
    NothingLost
    CancelReaches
