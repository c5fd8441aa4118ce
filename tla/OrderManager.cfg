SPECIFICATION Spec
CONSTANTS
  o1 = o1
  o2 = o2
  i1 = i1
  i2 = i2
  u1 = u1
  Orders <- MCOrders
  Ids <- MCIds
  Users <- MCUsers
  Monitor = Monitor
  None = None
  Modes <- AllModes
SYMMETRY Symmetry
INVARIANTS OpenIsReachable Reported CancelHasCause ContradictionNeedsARace
PROPERTY LedgerSpec
