SPECIFICATION FairSpec
CONSTANTS
    t = t
    u = u
    a = a
    b = b
    c = c
    d = d
    Nodes = {t, u, a, b, c, d}
    Workflows <- SomeWorkflows
    MaxParallel = 2
    Faults = TRUE
    NoTrigger = NoTrigger
INVARIANTS ActionsRunWhenReached RunAgreesWithSteps SuccessIsExact
PROPERTIES FinalIsFinal RunEnds
CHECK_DEADLOCK FALSE
