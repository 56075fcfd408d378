\* Two handlers, each of any kind.
SPECIFICATION FairSpec
CONSTANTS
    Requests = {p1}
    Staff = {p2}
    Ingests = {p1, p2}
    Settings = {eur}
    Disabled = Disabled
    Null = Null
    MaxVersion = 2
    MaxChannel = 1
INVARIANTS
    TypeOK
    StaleOnlyByOverlap
PROPERTIES
    GroupCatchesUp
    SubscriberCatchesUp
