SPECIFICATION FairSpec
CONSTANTS
  OutCap = 2
  FramerCap = 1
  MaxPieces = 5
CHECK_DEADLOCK FALSE
INVARIANTS TypeOK NoSendOnClosed ErrorSeen
PROPERTY DisconnectEnds
