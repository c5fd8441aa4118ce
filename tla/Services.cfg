SPECIFICATION ServicesSpec
CONSTANTS
  None = None
  Tasks = {t1, t2, t3, t4}
  Threshold = 3
  MaxHalf = 2
  Manual = TRUE
  Processes = {m1, m2, m3}
  Pids = {k1, k2}
  Runners = {r1, r2}
  Allocator = None
  CrossingPairs = {q0}
  CrossingSlots = {1, 2}
  HaltingPairs = {q1, q2}
  HaltingSlots = {1}
  Callers = {w, c1}
  Watchdog = w
  Full = 4
  MaxRegistered = 2
  Legs = {y, x}
  MaxReconnects = 1
  MaxDead = 2
  FeedRoom = 1
  AdapterRoom = 1
  Capital = 100
  PairPct = 5
  SoftPct = 8
  HardPct = 10
  Prices = {0, 6, 12}
  Fee = 1
  DailyLimit = 5
  Room = 1
  DropThreshold = 2
  Warmup = 1
  MaxPairs = 2
  MaxTrades = 2
CHECK_DEADLOCK FALSE
INVARIANTS HalfOpenHasProbe BlocksAfterFailures LockIsKept
  HaltStopsAll ExposureIsReal StopsAreFinal BooksAgree
SYMMETRY Symmetry
