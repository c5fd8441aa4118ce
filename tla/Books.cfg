SPECIFICATION BooksSpec
CONSTANTS
  None = None
  ZScores <- MCZScores
  Thresholds = {20, 21}
  HalfLives = {1, 3}
  ZExit = 5
  ZStop = 35
  ZPartial = 0
  BaseCooldown = 1
  CooldownMin = 2
  CooldownMax = 3
  TimeStopMin = 4
  MaxBars = 9
  MaxEvents = 1
  Recorders = {u1, u2}
  Strategies = {"pairs_futures", "spot_hodl"}
  TakePct <- MCTakePct
  SharePct = 10
  SweepPct = 3
  Equity = 500
  Gains <- MCGains
  MinTransfer = 2
  MinSweep = 4
  Proposals = {u1, u2}
  Operators = {v1, v2}
  Addresses = {a1}
  Chains = {"ERC20", "TRC20"}
  Amounts = {2}
  DailyLimit = 3
  Jobs = {1, 2, 3}
  MaxJobs = 2
  Batch = 1
  Manual = {u1, u2}
  Scheduled = {s1}
  Pairs = {q1}
  Orders = {u1, u2}
  Symbols = {v1, v2}
  Quantities = {1, 2}
  MaxHeld = 2
  Alerts = {u1, u2, v1, v2}
  Limited = {v1, v2}
  Room = 2
  Threads = {u1, u2}
  End = 2
  MaxPage = 2
  LastBar = 2
  Torn = Torn
  Part = Part
  Raised = Raised
CHECK_DEADLOCK FALSE
INVARIANTS NothingLost MovedWithinProfit MovesAreSpaced ConfirmedOnce LimitUnlessCrowded
  JobsAreServed TablesSurvive ReportIsTrue NoAlertLost
  CandlesAreWhole CandlesAreFresh PauseAfterExit TradesTimeOut FoldFollowsSignals
SYMMETRY Symmetry
