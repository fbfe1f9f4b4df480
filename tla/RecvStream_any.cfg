SPECIFICATION Spec
CONSTANTS
  Border8 = 100
  Borders <- MCBorders
  Id = 0
  Size = 4
  Frames <- SameFrames
  Resets = {7}
  InitialLimit = 3
  ConnLimit = 5
  OtherUse = {1}
  Bufs = {1, 3}
  Codes = {5}
  Rooms = {3, 6}
  MaxPackets = 2
  MaxLosses = 1
CHECK_DEADLOCK FALSE
INVARIANT TypeOK
INVARIANT ReadIsPrefix
INVARIANT HoldsWhatArrived
INVARIANT LegalPeerAccepted
INVARIANT EndIsComplete
INVARIANT WakeupLostOnlyToEmpty
INVARIANT WindowExact
INVARIANT ChargedOnce
INVARIANT LimitNotForgotten
INVARIANT CodesNotMixed
