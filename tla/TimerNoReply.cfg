SPECIFICATION FairSpec
CONSTANTS
    Peers = 3
PROPERTY ExpiryStartsAnew
CHECK_DEADLOCK FALSE
