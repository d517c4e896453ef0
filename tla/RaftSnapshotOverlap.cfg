SPECIFICATION Spec
SYMMETRY Symmetry
VIEW View
CHECK_DEADLOCK FALSE
CONSTANTS
    s1 = s1
    s2 = s2
    s3 = s3
    a = a
    Server = {s1, s2, s3}
    Command = {a}
    Nil = Nil
    MaxTerm = 1
    MaxIndex = 2
    MaxCalls = 1
    SnapshotAt = {1, 2}
    CanRestart = {}
    Lossy = TRUE
    LateDelivery = FALSE
    Preempt = FALSE
INVARIANT NoPanic
