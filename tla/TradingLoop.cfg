SPECIFICATION FairSpec
CONSTANTS
  Base = 1
  Ratios <- TwoPrices
  MaxRetries = 2
  Lossy = TRUE
  MaxNet = 1
  None = None
INVARIANTS RecordMatchesVenue LegsHedge
PROPERTY StopEnds
