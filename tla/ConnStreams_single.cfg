SPECIFICATION FairSpec
CONSTANTS
  Border8 = 100
  User = "conn"
  AutoUni = FALSE
  AutoBidi = TRUE
  AutoData = TRUE
  RemoveAuto = TRUE
  IniStreams = 2
  IniData = 1
  Raise = {"data"}
  MaxLimit = 3
  Types = {"bidi"}
  MaxSeq = 3
  MaxData = 1
  Rooms = {0, 3}
  MaxPackets = 2
  MaxLosses = 1
CHECK_DEADLOCK FALSE
INVARIANT DataLimitKnown
PROPERTY BidiReplenished
INVARIANT OpenBounded
