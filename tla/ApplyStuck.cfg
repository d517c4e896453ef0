SPECIFICATION FairSpec
CONSTANTS
    MaxIndex = 3
    Interval = 2
PROPERTY
    SkipsToSnapshot
CHECK_DEADLOCK FALSE
