SPECIFICATION FairSpec
CONSTANTS
  Rounds = 2
  MaxChange = 3
  MaxBatch = 3
CHECK_DEADLOCK FALSE
INVARIANTS TypeOK BooksBalance OnlyConnectedRemoved FailsOnlyWhenLate
PROPERTY SimulationEnds
