\* One catalog or live ingest, one results tick and one user handler at a time;
\* one staff call; crashes and failed calls at any time.
SPECIFICATION FairSpec
CONSTANTS
    c1 = c1
    r1 = r1
    u1 = u1
    CatalogProcs = {c1}
    ResultsProcs = {r1}
    UserProcs = {u1}
    F = F
    InPlay = InPlay
    Null = Null
    Finals = {F}
    MaxCalls = 1
INVARIANTS
    TypeOK
    GradedOnFinalScore
PROPERTIES
    AcceptedBetGraded
    BookCloses
