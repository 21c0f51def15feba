\* Two blocks, one retry.
SPECIFICATION FairSpec
CONSTANTS
    Indexes = {0, 1}
    Deltas = {a}
    None = None
    MaxRetries = 1
    MaxChunks = 4
CHECK_DEADLOCK FALSE
INVARIANTS
    AttemptSettled
    NothingLeaks
PROPERTIES
    RetryJustified
    ReasoningEnds
