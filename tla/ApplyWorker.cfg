SPECIFICATION FairSpec
CONSTANTS
    MaxIndex = 4
    Interval = 2
INVARIANT
    InOrder
PROPERTY
    Forward
    Delivers
    KillEnds
CHECK_DEADLOCK FALSE
