SPECIFICATION FairSpec
CHECK_DEADLOCK FALSE
CONSTANTS
    Msgs = {m1, m2}
    NoMsg = NoMsg
    Workers = {w1}
    Prefetch = 1
    MaxAttempts = 2
    Limit = 1
    MaxStops = 0
PROPERTIES
    EventuallySettled
