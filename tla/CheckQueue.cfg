SPECIFICATION FairSpec
CONSTANTS
    Workers = {w1, w2}
    Master = master
    Checks = {c1, c2, c3, c4}
    MayFail = {c1}
    BatchSize = 2
    MaxMasterThrows = 1
INVARIANTS
    QueueConsistent
    WaitTellsTheTruth
    MasterNeverStranded
PROPERTIES
    WaitReturns
