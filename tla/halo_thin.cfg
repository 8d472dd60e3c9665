SPECIFICATION GridSpec
CONSTANTS
  NProc <- ThreeByOne
  NInt <- ThinCells
  NGhost = 2
  Bound <- PeriodicOutflow
  TwoPi = TRUE
  Stages = 1
INVARIANTS GhostsAreSerial
CHECK_DEADLOCK FALSE
