SPECIFICATION RoomsSpec
CONSTANTS
  Border8 = 100
  Borders <- MCBorders
  Id = 0
  MaxData = 3
  MaxPackets = 3
  Codes = {1, 2}
  InitialLimit = 1
  ConnLimit = 2
  NewLimits = {3}
  OtherUse = {1}
  FairnessLimit = 100
  Rooms = {3, 4, 9}
CHECK_DEADLOCK FALSE
INVARIANT TypeOK
INVARIANT NoLibraryBug
INVARIANT ContentFaithful
INVARIANT FinalSizeAgreed
INVARIANT WithinCredit
INVARIANT RoomyNoDataForgotten
INVARIANT RoomyFinCoversData
PROPERTY ResetStopsData
