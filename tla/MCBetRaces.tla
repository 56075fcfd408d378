----------------------------- MODULE MCBetRaces -----------------------------
EXTENDS BetRaces, TLC

Handlers == Permutations(Procs)
BetSymmetry == Permutations(Bets)
=============================================================================
