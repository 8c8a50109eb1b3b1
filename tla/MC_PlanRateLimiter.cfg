SPECIFICATION Spec
CHECK_DEADLOCK FALSE
CONSTANTS
    Callers = {c1, c2}
    Limit = 1
    Window = 2
    Ttl = 4
    MaxSkew = 1
    MaxWait = 4
    MaxTime = 4
    MaxGrants = 3
    MaxLost = 1
SYMMETRY Symmetry
CONSTRAINT Bounded
INVARIANTS
    TypeOK
    KeyLimit
    NoImmortalKey
    MinuteBound
