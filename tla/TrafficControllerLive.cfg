SPECIFICATION FairSpec
CONSTANTS
  t1 = t1
  t2 = t2
  t3 = t3
  k1 = k1
  k2 = k2
  Tasks <- MCTasks3
  Keys <- MCKeys
  None = None
  Burst = 1
  MaxConcurrent = 1
  CriticalRetries = 1
  OtherRetries = 1
  MayCancel = FALSE
  Limit429 = 1
  LimitErrors = 1
  Enabled = TRUE
  MayForce = FALSE
PROPERTY CallsReturn
