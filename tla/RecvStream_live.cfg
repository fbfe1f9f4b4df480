SPECIFICATION FairSpec
CONSTANTS
  Border8 = 100
  Borders <- MCBorders
  Id = 0
  Size = 4
  Frames <- FinFrames
  Resets = {}
  InitialLimit = 2
  ConnLimit = 4
  OtherUse = {}
  Bufs = {2}
  Codes = {}
  Rooms = {6}
  MaxPackets = 6
  MaxLosses = 1
CHECK_DEADLOCK FALSE
PROPERTY EndReached
