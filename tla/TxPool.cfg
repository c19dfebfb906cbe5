SPECIFICATION FairSpec
CONSTANTS
    c = c
    a = a
    b = b
    d = d
    x = x
    e = e
    y = y
    NoPeer = NoPeer
    NoTx = NoTx
    Txs <- MCTxs
    Coinbases = {c}
    Ins <- MCIns
    Outs <- MCOuts
    Fee <- MCFee
    Replaceable = {a, x}
    NonStandard = {}
    BadScript = {e}
    GenesisBlock <- MCGenesis
    MaxBlockTxs = 2
    MaxHeight = 3
    Maturity = 2
    Peers = {p1}
    Relayed = {a, b, d, e}
    Submitted = {x, y}
    Prioritised = {b}
    Deltas = {2}
    MaxDelta = 2
    RelayFee = 1
    MaxPool = 3
    MaxOrphans = 2
    AncestorLimit = 3
    DescendantLimit = 3
INVARIANTS
    PoolConsistent
    TotalsExact
    OrphanIndexExact
PROPERTIES
    InputsSpendable
    OrphansResolved
    HandlerEnds
