SPECIFICATION Spec
CHECK_DEADLOCK FALSE
CONSTANTS
    NShards = 5
    Gid = {1, 2, 3, 4}
    Clash = {{3, 4}}
    MaxNum = 4
INVARIANT Balanced
PROPERTY MovedOnce
PROPERTY Completes
