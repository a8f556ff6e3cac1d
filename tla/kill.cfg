SPECIFICATION FairSpec
CONSTANTS
  MaxEquity = 3
  LossLimit = 1
  CfgAction = "halt"
  MaxCrashes = 1
  MaxWriteFails = 1
  MaxCloseFails = 1
INVARIANTS TypeOK
PROPERTIES HaltHolds FlattenHappens
