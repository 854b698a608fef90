SPECIFICATION Spec
CONSTANTS
    g = g  a1 = a1  a2 = a2  a3 = a3  b1 = b1
    p1 = p1  p2 = p2
    None = None
    Blocks <- AllBlocks
    Genesis = g
    Parent <- ParentOf
    nHeight <- HeightOf
    Peers = {p1, p2}
    Known <- KnownTo
    Announced <- Tells
    OwnBlocks = {a1}
    Prompt = {p1}
    MAX_BLOCKS_IN_TRANSIT_PER_PEER = 2
    BLOCK_DOWNLOAD_WINDOW = 2
    MIN_BLOCKS_TO_KEEP = 2
    MaxConnections = 1
INVARIANTS TypeOK InFlightAgrees StallerOwesBlock CommonIsLinked
PROPERTY TipCatchesUp
