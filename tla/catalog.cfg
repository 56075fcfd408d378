SPECIFICATION Spec
CONSTANTS
    Fixtures = {m1, r1}
    Mock = {m1}
    Bets = {b1, b2}
    Procs = {p1, p2}
    Offered = TRUE
    Demo = TRUE
    Null = Null
    MaxId = 2
INVARIANTS
    TypeOK
    PurgeSparesOpenBets
PROPERTIES
    LockYieldsToPlatformOnly
CHECK_DEADLOCK FALSE
