SPECIFICATION Spec
CONSTANTS
    g = g  a1 = a1  a2 = a2  b1 = b1  b2 = b2
    cg = cg  ca = ca  ca2 = ca2  cb = cb  cb2 = cb2
    f = f  k = k  j = j  r = r  s = s  t = t  u = u  v = v  w = w  x = x  y = y  z = z
    A = A  B = B
    None = None
    Txs <- WithChild
    Coinbases <- Rewards
    Assets = {A, B}
    Ins <- InsOf
    Outs <- OutsOf
    Fee <- FeeOf
    LockHeight <- LockOf
    Issues <- IssueOf
    Reissues <- ReissueOf
    Replaceable = {}
    Blocks <- AllBlocks
    Genesis = g
    Parent <- ParentOf
    vtx <- ShortTransactions
    CoinbaseMaturity = 2
    LimitAncestors = 3
    LimitDescendants = 3
    MaxPool = 3
    MaxDisconnected = 4
    Ranks <- Orders
    Prioritised = {}
    FeeDelta = 2
    MaxDelta = 2
    MaxExpired = 1
    MaxRestarts = 0
INVARIANT InputsAvailable
