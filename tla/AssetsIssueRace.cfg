SPECIFICATION Spec
CONSTANTS
    A = A  B = B  U = U  p = p  q = q
    g = g  a1 = a1  a2 = a2  a3 = a3  b1 = b1  b2 = b2  b3 = b3  c2 = c2
    Assets = {A, B, U}
    Addresses = {p, q}
    Genesis = g
    Blocks <- RaceBlocks
    Parent <- RaceParent
    Txs <- RaceTxs
    MAX_MONEY = 10
    LruSize = 2
INVARIANT
    BalancesMatchChain
