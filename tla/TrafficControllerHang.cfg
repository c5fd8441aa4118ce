SPECIFICATION Spec
CONSTANTS
  t1 = t1
  t2 = t2
  t3 = t3
  k1 = k1
  k2 = k2
  Tasks <- MCTasks2
  Keys <- MCKeys
  None = None
  Burst = 1
  MaxConcurrent = 1
  CriticalRetries = 1
  OtherRetries = 0
  MayCancel = TRUE
  Limit429 = 2
  LimitErrors = 3
  Enabled = TRUE
  MayForce = FALSE
INVARIANT WaiterHasLeader
