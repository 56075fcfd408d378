\* All market types; whole and half points, negative ones too; up to 3 goals.
SPECIFICATION Spec
CONSTANTS
    Null = Null
    Types = {"MATCH_RESULT", "TOTAL", "HANDICAP", "BOTH_TEAMS_SCORE"}
    Points <- HalfPoints
    MaxGoals = 3
\* A void market with no leg, or a graded leg, is the end.
CHECK_DEADLOCK FALSE
INVARIANTS
    TypeOK
    OneSideWins
PROPERTIES
    GradedAsLabelled
