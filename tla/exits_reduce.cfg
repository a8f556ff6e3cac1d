SPECIFICATION Spec
CONSTANTS
  Qty = 1
  Flatteners = {"fast"}
  Closers = {}
  LastSecond = 2
  MaxExits = 2
PROPERTY ClosingIsNotNewRisk
CHECK_DEADLOCK FALSE
