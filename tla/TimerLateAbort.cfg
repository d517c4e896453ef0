SPECIFICATION FairSpec
CONSTANTS
    Peers = 3
PROPERTY AbortStartsAnew
CHECK_DEADLOCK FALSE
