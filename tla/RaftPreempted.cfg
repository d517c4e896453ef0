SPECIFICATION Spec
SYMMETRY Symmetry
VIEW View
CHECK_DEADLOCK FALSE
CONSTANTS
    s1 = s1
    s2 = s2
    s3 = s3
    a = a
    Server = {s1, s2, s3}
    Command = {a}
    Nil = Nil
    MaxTerm = 2
    MaxIndex = 2
    MaxCalls = 2
    SnapshotAt = {}
    CanRestart = {}
    Lossy = FALSE
    LateDelivery = FALSE
    Preempt = TRUE
INVARIANT Durable
