\* Two bets; a debit handler beside a handler that settles, voids and delivers; a
\* merchant that answers a batch with one known transaction as a duplicate.
SPECIFICATION RacesSpec
CONSTANTS
    b1 = b1
    b2 = b2
    h1 = h1
    h2 = h2
    Bets = {b1, b2}
    DebitProcs = {h1}
    OutcomeProcs = {h2}
    DeliveryProcs = {h2}
    MaxRuns = 2
    Duplicate = "anyCode"
SYMMETRY BetSymmetry
\* The system is at rest when every bet is closed and delivered.
CHECK_DEADLOCK FALSE
INVARIANTS
    CompletedRowsBooked
