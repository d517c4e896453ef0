SPECIFICATION FairSpec
CONSTANTS
    Server = {s1, s2, s3}
    Client = {k1}
    Call = {c1}
    MaxInstance = 2
    CanStop = {s1}
INVARIANT
    ReplyMeansSaved
    FalseMeansBroken
    LinksSound
PROPERTY
    PartitionExact
    CallReturns
CHECK_DEADLOCK FALSE
