SPECIFICATION Spec
CONSTANTS
  Border8 = 100
  Borders <- MCBorders
  Id = 0
  MaxData = 3
  MaxPackets = 2
  Codes = {}
  InitialLimit = 1
  ConnLimit = 4
  NewLimits = {3}
  OtherUse = {}
  FairnessLimit = 100
  Rooms = {9}
CHECK_DEADLOCK FALSE
INVARIANT FinCoversData
