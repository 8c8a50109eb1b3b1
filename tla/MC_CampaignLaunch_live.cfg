SPECIFICATION FairSpec
CHECK_DEADLOCK FALSE
CONSTANTS
    Contacts = {c1, c2}
    NoContact = NoContact
    Requests = {r1}
    Workers = {w1}
    Prefetch = 1
    MaxAttempts = 2
    MaxChanges = 1
    MaxStops = 1
INVARIANTS
    JobHasRows
PROPERTIES
    EventuallyExpanded
