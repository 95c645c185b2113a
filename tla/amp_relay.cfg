SPECIFICATION FairSpec
CONSTANTS
  Conns = {c1}
  ChanCap = 1
  ClientPackets = {"message", "close"}
  GamePackets = {"item", "update", "close"}
  MaxPackets = 2
  PeersMayDie = TRUE
CHECK_DEADLOCK FALSE
INVARIANTS TypeOK RelayedInOrder NoHalfOpen CloseIsLast
PROPERTIES CloseArrives ClientAnswered
