SPECIFICATION FairSpec
CONSTANTS
    g = g
    b1 = b1
    c1 = c1
    c2 = c2
    c3 = c3
    Blocks <- MCBlocks
    Genesis = g
    NoBlock = NoBlock
    NoPos = NoPos
    Parent <- MCParent
    WitnessBlocks = {b1, c1, c2, c3}
    OldChain <- MCOldChain
    MaxFile = 3
    FileSlots = 2
    MinBlocksToKeep = 1
    PruneAfterHeight = 1
    CheckBlocks = 2
    KillWindows = {}
    MaxKills = 1
INVARIANTS
    StoreConsistent
    NeverAborts
PROPERTIES
    ComesUp
