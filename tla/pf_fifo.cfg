SPECIFICATION FairSpec
CONSTANTS
  Base = 16
  PayloadSize = 4
  Messages <- PacketMessages
  MaxSends = 4
  ReadSize = 9
  ChanCap = 1
CHECK_DEADLOCK FALSE
PROPERTIES DeliversInOrder ImplementsChannel
