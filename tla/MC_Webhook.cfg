SPECIFICATION Spec
CHECK_DEADLOCK FALSE
CONSTANTS
    Msgs = {m1}
    Handlers = {h1, h2}
    Reports = {"delivered", "read", "failed"}
    MaxBatch = 2
    MaxReceipts = 2
    MaxAccepts = 2
    MaxTries = 2
    MaxOwed = 1
SYMMETRY Symmetry
INVARIANTS
    TypeOK
    CountedPerReport
    NoMissedBilling
    BilledOnceWhenClean
    TablesAgree
    ShownIsBilled
