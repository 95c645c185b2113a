SPECIFICATION Spec
CONSTANTS
  Conns = {c1, c2}
  ChanCap = 1
  DbMayFail = TRUE
  MayCancel = TRUE
CHECK_DEADLOCK FALSE
SYMMETRY Symmetry
INVARIANTS TypeOK CountersMatchHandlers NeverPosition
PROPERTIES ClosedIsFinal ImplementsCountedServer
