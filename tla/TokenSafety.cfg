\* Two threads cancel, three register (one callback uses the token), one
\* observes; all are scheduled fairly.
SPECIFICATION FairSpec
CONSTANTS
    Cancellers = {c1, c2}
    Listeners = {l1, l2, l3}
    Observers = {o1}
    Nested = {l3}
    Free = Free
    Default = Default
CHECK_DEADLOCK FALSE
INVARIANTS
    TokenInv
PROPERTIES
    RegisteredIsCalled
