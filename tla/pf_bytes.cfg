SPECIFICATION Spec
CONSTANTS
  Base = 4
  PayloadSize = 2
  Messages <- PieceMessages
  MaxSends = 4
  ReadSize = 3
  ChanCap = 1
CHECK_DEADLOCK FALSE
INVARIANTS TypeOK StreamConserved FramerAssertions
