\* One bet; two handlers that debit, of which one also settles and voids and the
\* other delivers: a grading handler that finds no batch id left (MaxRuns) stays
\* where it is.  Crashes and timeouts at any time.
SPECIFICATION FairSpec
CONSTANTS
    b1 = b1
    h1 = h1
    h2 = h2
    Bets = {b1}
    DebitProcs = {h1, h2}
    OutcomeProcs = {h1}
    DeliveryProcs = {h2}
    MaxRuns = 2
    Duplicate = "everyCode"
\* The system is at rest when every bet is closed and delivered.
CHECK_DEADLOCK FALSE
PROPERTIES
    PlacementResolved
    ClosedBetPaid
