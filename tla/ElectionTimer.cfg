SPECIFICATION FairSpec
CHECK_DEADLOCK FALSE
CONSTANTS
    Peers = 3
INVARIANT TypeOK
INVARIANT CandidateCounts
PROPERTY Stands
PROPERTY LockReleased
PROPERTY KilledEnds
