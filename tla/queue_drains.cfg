\* A run reads two bets; at most one of three never gets a result.
SPECIFICATION QueueFairSpec
CONSTANTS
    MaxBets = 3
    BatchSize = 2
    MaxHopeless = 1
\* Every bet placed, closed or hopeless: nothing more to do.
CHECK_DEADLOCK FALSE
INVARIANTS
    QueueTypeOK
PROPERTIES
    NoGradableBetStuck
