SPECIFICATION FairSpec
CONSTANTS
    Admins = {a1}
    Users = {u1}
    Groups = {g1, g2}
    Procs = {p1, p2}
    Null = Null
    Sessions = {s1, s2, s3}
    MaxPasswords = 2
INVARIANTS
    TypeOK
    PasswordEndsSessions
    ReplacedIsSpent
PROPERTIES
    DisabledLosesAccess
CHECK_DEADLOCK FALSE
