SPECIFICATION Spec
CONSTANTS
  Symbols = {s1, s2}
  NoSymbol = NoSymbol
  Cycle = Cycle
  Approvers = {a1}
  MaxPositions = 1
  MaxEntries = 1
  MaxTrades = 2
  MaxPerMinute = 1
  Minute = 1
  Cooldown = 2
  FlipFlop = 1
  ApprovalTimeout = 0
  MaxProposals = 1
  MaxPending = 1
  MaxLots = 1
  MaxShort = 0
SYMMETRY Symmetry
INVARIANTS TypeOK OneOrder CapsBounded
PROPERTIES CooldownKept ManualHolds
