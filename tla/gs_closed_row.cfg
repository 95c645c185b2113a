SPECIFICATION Spec
CONSTANTS
  Conns = {c1}
  ChanCap = 1
  DbMayFail = FALSE
  MayCancel = FALSE
CHECK_DEADLOCK FALSE
INVARIANT ClosedOnExit
