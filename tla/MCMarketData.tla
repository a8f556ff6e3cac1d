----------------------------- MODULE MCMarketData -----------------------------
(* Above zero a score does not clear the margin over its equal; below zero *)
(* the margin works the other way, and the lower score clears it.          *)
EXTENDS MarketData, TLC

ScoreValues == {-11, -10, 20}
Symmetry    == Permutations(Symbols)
=============================================================================
