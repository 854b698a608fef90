SPECIFICATION Spec
SYMMETRY Symmetry
CONSTANTS
    o1 = o1
    o2 = o2
    c1 = c1
    c2 = c2
    b1 = b1
    b2 = b2
    OutPoints = {o1, o2}
    Coins = {c1, c2}
    Blocks = {b1, b2}
    Spent = Spent
    NoBlock = NoBlock
INVARIANTS FlagsSound
PROPERTY CachingIsInvisible
