\* One bet; a handler of any kind beside a settlement run or staff void.
SPECIFICATION RacesSpec
CONSTANTS
    b1 = b1
    h1 = h1
    h2 = h2
    Bets = {b1}
    DebitProcs = {h1}
    OutcomeProcs = {h1, h2}
    DeliveryProcs = {h1}
    MaxRuns = 1
    Duplicate = "everyCode"
CHECK_DEADLOCK FALSE
PROPERTIES
    VoidsOnlyAccepted
