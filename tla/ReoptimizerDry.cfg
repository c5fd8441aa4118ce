SPECIFICATION Spec
CONSTANTS
  Manual = {u1}
  Scheduled = {s1}
  Pairs = {q1}
  None = None
CHECK_DEADLOCK FALSE
INVARIANT DryRunWritesNothing
