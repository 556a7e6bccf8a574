SPECIFICATION FairSpec
CONSTANTS
    e1 = e1
    e2 = e2
    c1 = c1
    c2 = c2
    Entities = {e1}
    Callers = {c1, c2}
    Threshold = 2
    Overruns = TRUE
    Nobody = Nobody
    MaxRuns = 3
INVARIANTS SweepReconcilesInTime RemovedOnlyAfterMisses
PROPERTIES LockIsReleased
