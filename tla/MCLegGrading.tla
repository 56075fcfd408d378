---------------------------- MODULE MCLegGrading ----------------------------
EXTENDS LegGrading

HalfPoints == {-3, -2, 0, 1, 4}
=============================================================================
