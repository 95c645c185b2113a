SPECIFICATION FairSpec
CONSTANTS
  Conns = {c1, c2, c3, c4}
  MaxLoad = 2
  LoadBound = 0
  OldIds = {}
  DbMayFail = FALSE
  ServersChange = FALSE
CHECK_DEADLOCK FALSE
PROPERTY OnlyLostTokensUnserved
