SPECIFICATION Spec
CONSTANTS
  Border8 = 100
  Borders <- MCBorders
  Id = 0
  MaxData = 3
  MaxPackets = 3
  Codes = {}
  InitialLimit = 4
  ConnLimit = 4
  NewLimits = {}
  OtherUse = {}
  FairnessLimit = 100
  Rooms = {3, 4, 9}
CHECK_DEADLOCK FALSE
INVARIANT TransmittedMeansAcked
