--------------------------- MODULE MCOrderManager ---------------------------
EXTENDS OrderManager, TLC

CONSTANTS AAPL, c1, c2, p1

MCSymbols == {AAPL}
MCCycles == {c1, c2}
MCProtectTags == {p1}

\* Cycle ids are interchangeable names.
Names == Permutations(MCCycles)
=============================================================================
