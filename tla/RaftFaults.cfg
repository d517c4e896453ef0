SPECIFICATION Spec
SYMMETRY Symmetry
VIEW View
CHECK_DEADLOCK FALSE
CONSTANTS
    s1 = s1
    s2 = s2
    s3 = s3
    a = a
    Server = {s1, s2, s3}
    Command = {a}
    Nil = Nil
    MaxTerm = 2
    MaxIndex = 1
    MaxCalls = 1
    SnapshotAt = {1}
    CanRestart = {s1, s2, s3}
    Lossy = TRUE
    LateDelivery = TRUE
    Preempt = TRUE
INVARIANT TypeOK
INVARIANT ElectionSafety
INVARIANT VotesSound
INVARIANT PersistedInTime
INVARIANT MedianInLog
PROPERTY VoteStable
