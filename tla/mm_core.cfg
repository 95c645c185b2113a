SPECIFICATION Spec
CONSTANTS
  Conns = {c1, c2, c3}
  MaxLoad = 1
  LoadBound = 1
  OldIds = {0}
  DbMayFail = TRUE
  ServersChange = TRUE
CHECK_DEADLOCK FALSE
SYMMETRY Symmetry
INVARIANTS TypeOK SingleLeader UniqueServerIds WaiterGetsFreshServer OnlyWaiterMissesRow OnlyOldRowsMislead WaitersAccountedFor
