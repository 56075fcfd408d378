\* Four calls may overlap; two failures open the circuit.
SPECIFICATION FairSpec
CONSTANTS
    c1 = c1
    c2 = c2
    c3 = c3
    c4 = c4
    Calls = {c1, c2, c3, c4}
    Threshold = 2
    Cooldown = 2
    MaxFailures = 3
INVARIANTS
    TypeOK
    ClosedBelowThreshold
    HalfOpenHasTrial
PROPERTIES
    RecoveryCloses
