CONSTANTS
    base = base
    stake = stake
    Txs = {base, stake}
    Outputs = {1, 2}
    Vout <- MCVout
    Coinbases = {base}
    Coinstakes = {stake}
    Genesis = g
    Blocks = {g, b1, b2}
    NoEntry = NoEntry
    NoBlock = NoBlock
    NoState = NoState
SPECIFICATION Spec
INVARIANTS
    FlagsTrue
    StateToldUntilFailure
PROPERTIES
    ImplementsUTXOSet
SYMMETRY Symmetry
