SPECIFICATION FairLockSpec
CHECK_DEADLOCK FALSE
CONSTANTS
    Client = {c1, c2}
    Key = {l}
    Value = {c1, c2, none}
    Version = {0, 1, 2, 3, 4, 5, 6, 7}
    Empty = none
    LockKey = l
    MaxVersion = 5
INVARIANT VerdictSound
INVARIANT MutualExclusion
PROPERTY Linearizable
PROPERTY ImplementsLock
PROPERTY Available
PROPERTY ReleaseReturns
