SPECIFICATION FairSpec
CONSTANTS
  AAPL = AAPL
  c1 = c1
  c2 = c2
  p1 = p1
  Symbols <- MCSymbols
  Cycles = {c1}
  ProtectTags = {p1}
  Qty = 1
  MaxCrashes = 1
  MaxDisconnects = 1
INVARIANTS TypeOK WriteAhead StoreMirrorsMemory FillsOnce
PROPERTIES ReconcileProtects AtMostOnce ReconcileTerminates
CHECK_DEADLOCK FALSE
