SPECIFICATION Spec
CONSTANTS
    g = g
    c = c
    a1 = a1
    a2 = a2
    b1 = b1
    b2 = b2
    f = f
    k1 = k1
    k2 = k2
    k3 = k3
    k4 = k4
    r = r
    s = s
    t = t
    X = X
    Y = Y
    None = None
    Blocks <- MCBlocks
    Genesis = g
    Parent <- MCParent
    nHeight <- MCHeight
    vtx <- MCvtx
    vin <- MCvin
    vout <- MCvout
    MaxCrashes = 2
INVARIANTS
    
    
    SpenderIsInChain
