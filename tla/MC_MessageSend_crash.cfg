SPECIFICATION Spec
CHECK_DEADLOCK FALSE
CONSTANTS
    Msgs = {m1}
    NoMsg = NoMsg
    Workers = {w1, w2}
    Prefetch = 1
    MaxAttempts = 2
    Limit = 1
    MaxStops = 1
SYMMETRY Symmetry
INVARIANTS
    TypeOK
    NoJobLost
    ParkedAfterMaxAttempts
    BoundedSends
PROPERTIES
    AtLeastOnceSpec
