SPECIFICATION FairSpec
CONSTANTS
    i1 = i1
    i2 = i2
    p1 = p1
    p2 = p2
    Instances = {i1, i2}
    LiveProcs = {p1, p2}
    OtherProcs = {p2}
    Home <- MCHome
    LockTtl = 2
    PauseTime = 1
    MaxFaults = 1
INVARIANTS
    TypeOK
    NoDoublePoll
PROPERTIES
    LiveRowsEnd
    PollingStops
CHECK_DEADLOCK FALSE
