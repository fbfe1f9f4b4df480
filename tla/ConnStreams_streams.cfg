SPECIFICATION Spec
CONSTANTS
  Border8 = 100
  User = "user"
  AutoUni = FALSE
  AutoBidi = TRUE
  AutoData = FALSE
  RemoveAuto = TRUE
  IniStreams = 1
  IniData = 1
  Raise = {"uni"}
  MaxLimit = 2
  Types = {"uni", "bidi"}
  MaxSeq = 3
  MaxData = 1
  Rooms = {1}
  MaxPackets = 2
  MaxLosses = 1
CHECK_DEADLOCK FALSE
INVARIANT TypeOK
INVARIANT CreatedOnce
INVARIANT StreamLimitKnown
INVARIANT OpenBounded
