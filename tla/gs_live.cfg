SPECIFICATION FairSpec
CONSTANTS
  Conns = {c1, c2}
  ChanCap = 1
  DbMayFail = FALSE
  MayCancel = FALSE
CHECK_DEADLOCK FALSE
INVARIANT OnlyLateWriteFails
PROPERTIES RowCatchesUp EventuallyExits
