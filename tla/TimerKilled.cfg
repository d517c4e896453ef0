SPECIFICATION FairSpec
CONSTANTS
    Peers = 3
PROPERTY KilledStops
CHECK_DEADLOCK FALSE
