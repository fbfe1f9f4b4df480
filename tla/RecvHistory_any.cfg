SPECIFICATION FairSpec
CONSTANTS
  MaxPn = 4
  DelayCount = 2
  UseDelay = TRUE
  MaxAcks = 5
CHECK_DEADLOCK FALSE
INVARIANT TypeOK
INVARIANT RangesExact
INVARIANT ProcessedOnce
INVARIANT AcksOnlyProcessed
PROPERTY AckedEventually
