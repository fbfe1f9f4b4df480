SPECIFICATION Spec
CONSTANTS
  Border8 = 100
  Borders <- MCBorders
  Id = 0
  Size = 4
  Frames <- SplitFrames
  Resets = {}
  InitialLimit = 9
  ConnLimit = 9
  OtherUse = {}
  Bufs = {1, 2}
  Codes = {}
  Rooms = {6}
  MaxPackets = 0
  MaxLosses = 0
CHECK_DEADLOCK FALSE
INVARIANT CheckOffset
