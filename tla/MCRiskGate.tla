----------------------------- MODULE MCRiskGate -----------------------------
(* The risk gate for TLC.                                                  *)
EXTENDS RiskGate, TLC

\* No action or property tells two symbols apart.
Symmetry == Permutations(Symbols)
=============================================================================
