SPECIFICATION FairSpec
CHECK_DEADLOCK FALSE
CONSTANTS
    MapTask = {m1, m2}
    ReduceTask = {r1, r2}
    Worker = {w1, w2}
    CanCrash = {w1}
    MaxSlow = 2
INVARIANT AssignSound
PROPERTY TimeOutOwn
PROPERTY ImplementsJob
PROPERTY JobFinishes
