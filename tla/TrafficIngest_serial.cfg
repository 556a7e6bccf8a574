SPECIFICATION IngestSpec
CONSTANTS
    j = j
    k = k
    p1 = p1
    p2 = p2
    Pairs = {k}
    Pollers = {p1}
    Interval = 1
    HalfSecond = 1
    Skewed = TRUE
    None = None
    MaxClock = 2
    MaxCount = 3
    MaxStarted = 2
SYMMETRY IngestSymmetry
INVARIANT NeverOvercounts
PROPERTY CursorAndRollupMoveTogether
