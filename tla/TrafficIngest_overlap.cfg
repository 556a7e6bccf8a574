SPECIFICATION IngestSpec
CONSTANTS
    j = j
    k = k
    p1 = p1
    p2 = p2
    Pairs = {k}
    Pollers = {p1, p2}
    Interval = 1
    HalfSecond = 1
    Skewed = FALSE
    None = None
    MaxClock = 3
    MaxCount = 1
    MaxStarted = 1
SYMMETRY IngestSymmetry
INVARIANT NeverOvercounts
