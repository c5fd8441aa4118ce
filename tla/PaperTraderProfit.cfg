SPECIFICATION Spec
CONSTANTS
  Capital = 100
  PairPct = 5
  SoftPct = 8
  HardPct = 10
  None = None
  Prices = {0, 6, 12}
  Fee = 1
  DailyLimit = 5
  Room = 1
  DropThreshold = 2
  Warmup = 1
  MaxPairs = 2
  MaxTrades = 2
CHECK_DEADLOCK FALSE
PROPERTY HardStopMeansDrawdown
