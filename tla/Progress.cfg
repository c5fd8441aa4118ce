SPECIFICATION Spec
CONSTANTS
  m1 = m1
  m2 = m2
  k1 = k1
  k2 = k2
  r1 = r1
  al = al
  q1 = q1
  w = w
  c1 = c1
  y = y
  x = x
  o1 = o1
  o2 = o2
  i1 = i1
  i2 = i2
  Monitor = Monitor
  None = None
CHECK_DEADLOCK FALSE
PROPERTIES StopEnds DrawdownHalts SilenceIsNoticed OrdersSettle
