SPECIFICATION Spec
CONSTANTS
  LastDay = 3
  TradingDays = {1, 3}
  OpenAt <- Opens
  CloseAt <- Closes
  Midnight <- Midnights
  PremarketMinutes = 3
  OpeningRangeMinutes = 1
  ClosingMinutes = 2
  PremarketStart = 2
  NoEntry = 3
  Flatten = 2
  MaxAccountAge = 1
  MaxTrades = 2
  MaxRestarts = 1
PROPERTY PlanOfTheDay
CHECK_DEADLOCK FALSE
