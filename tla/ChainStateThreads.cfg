SPECIFICATION FairSpec
CONSTANTS
    g = g
    a1 = a1
    a2 = a2
    a3 = a3
    b1 = b1
    b2 = b2
    c2 = c2
    Blocks <- TreeBlocks
    Genesis <- g
    Parent <- TreeParent
    Anc <- TreeAnc
    Work <- TreeWork
    Verdicts <- OneInvalid
    Threads = {t1, t2}
    MinBlocksToKeep = 2
    MaxInvalidate = 0
    MaxReconsider = 0
    NULL = NULL
PROPERTIES
    ActivationEnds
\* Once every block of the instance is known or refused nothing is left to do.
CHECK_DEADLOCK FALSE
