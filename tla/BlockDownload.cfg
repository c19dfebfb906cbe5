SPECIFICATION Spec
CONSTANTS
    g = g
    a1 = a1
    a2 = a2
    b1 = b1
    p1 = p1
    p2 = p2
    Blocks <- ForkBlocks
    Genesis <- g
    Parent <- ForkParent
    Anc <- ForkAnc
    Work <- ForkWork
    Bad = {b1}
    WitnessEnabled = {a1}
    LocalBlocks = {a1}
    Peers = {p1, p2}
    Has <- ForkHas
    Outbound = {p1}
    Clients = {}
    HaveWitness = {p1}
    Whitelisted = {}
    Compact = {p2}
    Prompt = {p1}
    MaxInTransit = 1
    Window = 1
    MinBlocksToKeep = 1
    NULL = NULL
INVARIANTS
    RequestsConsistent
    StallersOweBlocks
    NothingSkipped
PROPERTIES
    RequestedOnce
CHECK_DEADLOCK FALSE
