SPECIFICATION Spec
CONSTANTS
    g = g
    a1 = a1
    a2 = a2
    a3 = a3
    b1 = b1
    b2 = b2
    c2 = c2
    Blocks <- TreeBlocks
    Genesis <- g
    Parent <- TreeParent
    Anc <- TreeAnc
    Work <- TreeWork
    Verdicts <- OneError
    Threads = {t1}
    MinBlocksToKeep = 2
    MaxInvalidate = 0
    MaxReconsider = 0
    NULL = NULL
INVARIANTS
    TipIsCandidate
\* Once every block of the instance is known or refused nothing is left to do.
CHECK_DEADLOCK FALSE
