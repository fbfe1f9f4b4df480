SPECIFICATION Spec
CONSTANTS
  MaxPn = 4
  DelayCount = 2
  UseDelay = TRUE
  MaxAcks = 1
CHECK_DEADLOCK FALSE
INVARIANT AckNeverFatal
