SPECIFICATION Spec
CHECK_DEADLOCK FALSE
CONSTANTS
    Msgs = {m1}
    Handlers = {h1, h2}
    Reports = {"delivered"}
    MaxBatch = 1
    MaxReceipts = 2
    MaxAccepts = 1
    MaxTries = 1
    MaxOwed = 0
SYMMETRY Symmetry
INVARIANTS
    Idempotent
