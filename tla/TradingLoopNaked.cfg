SPECIFICATION Spec
CONSTANTS
  Base = 1
  Ratios <- EqualPrices
  MaxRetries = 2
  Lossy = TRUE
  MaxNet = 1
  None = None
INVARIANT FailedEntryIsUndone
