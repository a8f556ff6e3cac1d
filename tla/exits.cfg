SPECIFICATION FairSpec
CONSTANTS
  Qty = 2
  Flatteners = {"fast"}
  Closers = {"model"}
  LastSecond = 1
  MaxExits = 2
INVARIANTS TypeOK CancelsComeFirst StopStays
PROPERTIES EntryExpires
CHECK_DEADLOCK FALSE
