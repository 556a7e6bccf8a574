SPECIFICATION Spec
CONSTANTS
    c1 = c1
    c2 = c2
    c3 = c3
    c4 = c4
    Conns = {c1, c2, c3, c4}
    Redirected = {c1, c2, c3}
    Capacity = 2
    Scarce = TRUE
    MaxBatch = 2
    NoConn = NoConn
SYMMETRY ConnSymmetry
INVARIANTS TypeOK SlabConsistent HoldingsMatchState PoolBounded
