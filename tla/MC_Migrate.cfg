SPECIFICATION FairSpec
CHECK_DEADLOCK FALSE
CONSTANTS
    Runners = {r1, r2}
    NoRunner = NoRunner
    N = 3
    MaxStarts = 4
    MaxFaults = 2
INVARIANTS
    TypeOK
    SuccessMeansApplied
PROPERTIES
    HistorySpec
    EveryRunnerEnds
