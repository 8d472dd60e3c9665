SPECIFICATION MCSpec
CONSTANTS
  NProc <- TwoByTwo
  NInt <- TwoCells
  NGhost = 1
  Bound <- PeriodicOutflow
  TwoPi = TRUE
  Stages = 2
INVARIANTS MCGhostsAreSerial MCEdgesMatch
PROPERTIES MCAllStagesDone
CHECK_DEADLOCK FALSE
