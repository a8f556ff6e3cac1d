SPECIFICATION Spec
CONSTANTS
  AAPL = AAPL
  c1 = c1
  c2 = c2
  p1 = p1
  Symbols <- MCSymbols
  Cycles = {c1, c2}
  ProtectTags = {}
  Qty = 1
  MaxCrashes = 1
  MaxDisconnects = 0
SYMMETRY Names
INVARIANTS LoneEntry CancelledIsDead
CHECK_DEADLOCK FALSE
