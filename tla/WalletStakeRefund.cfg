SPECIFICATION Spec
CONSTANTS
    p = p
    w = w
    v = v
    t = t
    s = s
    base = base
    b1 = b1
    c1 = c1
    c2 = c2
    Txs <- MCTxs
    TxOrder <- MCTxOrder
    Outs <- MCOuts
    Inputs <- MCInputs
    Ours <- MCOurs
    Stakes = {s}
    Coinbases = {}
    Payments = {w}
    Blocks <- MCBlocks
    Base = base
    Chain <- MCChain
    Vtx <- MCVtx
    Null = Null
    Abandoned = Abandoned
    NotCached = NotCached
    Maturity = 1
    ReorgFlush = FALSE
INVARIANT NoSpentOffered
