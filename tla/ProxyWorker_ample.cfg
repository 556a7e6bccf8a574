SPECIFICATION FairSpec
CONSTANTS
    c1 = c1
    c2 = c2
    c3 = c3
    Conns = {c1, c2, c3}
    Redirected = {c1, c2, c3}
    Capacity = 2
    Scarce = FALSE
    MaxBatch = 1
    NoConn = NoConn
INVARIANT PoolExact
PROPERTIES ImplementsAdmission QueuedIsAccepted QuietFlowIsReaped
