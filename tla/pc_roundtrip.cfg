SPECIFICATION Spec
CONSTANTS
  Base = 20
  PayloadSize = 45
  Datas <- RampDatas
CHECK_DEADLOCK FALSE
INVARIANT RoundTrip
