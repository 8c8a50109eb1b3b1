SPECIFICATION Spec
CHECK_DEADLOCK FALSE
CONSTANTS
    Callers = {c1, c2}
    Limit = 2
    Window = 2
    Ttl = 4
    MaxSkew = 0
    MaxWait = 0
    MaxTime = 6
    MaxGrants = 4
    MaxLost = 1
SYMMETRY Symmetry
CONSTRAINT Bounded
INVARIANTS
    TokenBucketBound
