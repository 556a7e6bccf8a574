SPECIFICATION FairSpec
CONSTANTS
    PipeCap = 2
    SendBuffer = 1
    Burst = 1
    MaxOut = 3
    MaxIn = 1
CHECK_DEADLOCK FALSE
INVARIANTS NoLostWakeup StreamsEndInOrder CountedBetweenPasses
PROPERTIES RateHolds StreamArrives
