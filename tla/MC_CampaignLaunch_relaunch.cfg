SPECIFICATION Spec
CHECK_DEADLOCK FALSE
CONSTANTS
    Contacts = {c1, c2}
    NoContact = NoContact
    Requests = {r1, r2}
    Workers = {w1, w2}
    Prefetch = 1
    MaxAttempts = 2
    MaxChanges = 0
    MaxStops = 1
SYMMETRY Symmetry
INVARIANTS
    TypeOK
    LaunchComplete
    QueuedHasJob
    IssuedBounded
