SPECIFICATION Spec
CONSTANTS
  a = a
  b = b
  c = c
  NoRow = NoRow
  Failed = Failed
  Symbols <- MCSymbols
  MaxQty = 1
  Rows <- NoneOrPair
  DiskFails = TRUE
  MaxStarts = 2
  MaxMoves = 1
INVARIANTS NeverClosesItsOwn  
CHECK_DEADLOCK FALSE
