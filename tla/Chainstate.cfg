CONSTANTS
    g = g
    a1 = a1
    a2 = a2
    a3 = a3
    b2 = b2
    b3 = b3
    c1 = c1
    c2 = c2
    x = x
    y = y
    NoBlock = NoBlock
    Spent = Spent
    Genesis = g
    Blocks <- MCBlocks
    OutPoints <- MCOutPoints
    Parent <- MCParent
    nHeight <- MCHeight
    Txs <- MCTxs
    Coins <- MCCoins
    MaxCrashes = 2
SPECIFICATION Spec
INVARIANTS
    CoinsMatchChain
    NeverStuck
    DiskIsRecoverable
CHECK_DEADLOCK TRUE
