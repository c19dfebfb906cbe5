SPECIFICATION Spec
CONSTANTS
    g = g
    a1 = a1
    a2 = a2
    a3 = a3
    b1 = b1
    b2 = b2
    c2 = c2
    Blocks <- TreeBlocks
    Genesis <- g
    Parent <- TreeParent
    Anc <- TreeAnc
    Work <- TreeWork
    Verdicts <- OneBad
    Threads = {t1}
    MinBlocksToKeep = 2
    MaxInvalidate = 1
    MaxReconsider = 1
    NULL = NULL
INVARIANTS
    BlockIndexConsistent
    CandidatesExact
    ActiveChainValid
    BestChainActive
PROPERTIES
    NoWorkLost
    ReconsiderRestores
\* Once every block of the instance is known or refused nothing is left to do.
CHECK_DEADLOCK FALSE
