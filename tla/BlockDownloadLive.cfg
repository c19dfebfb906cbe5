SPECIFICATION FairSpec
CONSTANTS
    g = g
    a1 = a1
    a2 = a2
    b1 = b1
    p1 = p1
    p2 = p2
    Blocks <- ChainBlocks
    Genesis <- g
    Parent <- ChainParent
    Anc <- ChainAnc
    Work <- ChainWork
    Bad = {}
    WitnessEnabled = {a1}
    LocalBlocks = {}
    Peers = {p1, p2}
    Has <- ChainHas
    Outbound = {p1, p2}
    Clients = {}
    HaveWitness = {p1, p2}
    Whitelisted = {p1}
    Compact = {}
    Prompt = {p1}
    MaxInTransit = 2
    Window = 1
    MinBlocksToKeep = 1
    NULL = NULL
PROPERTIES
    CatchesUp
    RequestedOnce
CHECK_DEADLOCK FALSE
