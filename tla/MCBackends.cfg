SPECIFICATION FairSpec
CONSTANTS
    Size = 3
    Base = 1
    Cap = 3
    Jitter = 50
    Threshold = 3
    QuarantineTime = 6
    ReprobeTime = 4
    Floor = 1
    FailsBound = 3
INVARIANTS
    DeadRarelyTried
    NoOnePassedOver
PROPERTIES
    BackoffEndsInTime
    EveryBackendGetsItsTurn
