SPECIFICATION Spec
CONSTANTS
    g = g  a1 = a1  a2 = a2  b1 = b1  b2 = b2  c = c  t1 = t1  t2 = t2
    Genesis = g
    None = None
    Blocks <- TreeBlocks
    Parent <- TreeParent
    nHeight <- TreeHeight
    nChainWork <- TreeWork
    FailsCheck = {c}
    FailsConnect = {b2}
    Threads = {t1, t2}
    Setups <- AllSetups
INVARIANTS
    
    AloneFindsBest
    LastPreciousIsTip
PROPERTIES
    LessWorkOnlyForInvalid
    ActivationEnds
CHECK_DEADLOCK FALSE
