SPECIFICATION Spec
CONSTANTS
  Border8 = 100
  User = "user"
  AutoUni = FALSE
  AutoBidi = FALSE
  AutoData = FALSE
  RemoveAuto = FALSE
  IniStreams = 1
  IniData = 1
  Raise = {"data"}
  MaxLimit = 4
  Types = {"bidi"}
  MaxSeq = 0
  MaxData = 0
  Rooms = {0, 3}
  MaxPackets = 3
  MaxLosses = 1
CHECK_DEADLOCK FALSE
INVARIANT DataLimitKnown
