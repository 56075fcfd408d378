\* Two handlers of any kind overlap on one bet.
SPECIFICATION RacesSpec
CONSTANTS
    b1 = b1
    h1 = h1
    h2 = h2
    Bets = {b1}
    DebitProcs = {h1, h2}
    OutcomeProcs = {h1, h2}
    DeliveryProcs = {h1, h2}
    MaxRuns = 2
    Duplicate = "everyCode"
SYMMETRY Handlers
\* The system is at rest when every bet is closed and delivered.
CHECK_DEADLOCK FALSE
INVARIANTS
    TypeOK
    NoCreditBeforeDebit
    OneSettlementOutcome
    CompletedRowsBooked
    OutcomeHasItsRow
    CreditMatchesStatus
PROPERTIES
    ImplementsAccount
