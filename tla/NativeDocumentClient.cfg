CONSTANTS
    Document = {d1, d2}
    Context = {k1, k2}
    Start = d1
    Home = k1
    Command = {c1}
    Other = Other
    None = None
    Asked = Asked
    Failed = Failed
    Room = 1
    MaxRevision = 2
    MaxEpoch = 2
    MaxSession = 2
SPECIFICATION FairSpec
INVARIANTS
    EditsLandWhereMade
    ClientKnowsHost
    UnresolvedIsKept
PROPERTIES
    EveryCallerHears
CHECK_DEADLOCK FALSE
