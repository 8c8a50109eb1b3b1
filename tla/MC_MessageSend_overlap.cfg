SPECIFICATION Spec
CHECK_DEADLOCK FALSE
CONSTANTS
    Msgs = {m1}
    NoMsg = NoMsg
    Workers = {w1}
    Prefetch = 3
    MaxAttempts = 3
    Limit = 1
    MaxStops = 0
SYMMETRY Symmetry
INVARIANTS
    SingleCopy
    OutcomeRecorded
    AttemptCountBounded
PROPERTIES
    PermanentIsFinal
