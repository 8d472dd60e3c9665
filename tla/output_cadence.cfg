SPECIFICATION Spec
CONSTANTS
  Streams = {"vtk", "analysis"}
  Periods <- CadencePeriods
  DumpPeriods <- CadenceDumpPeriods
  ClockDumps = TRUE
  AnyRestart = TRUE
  SameSecond = TRUE
  Tstop = 3
  MaxDt = 3
  MaxNum = 2
  MaxRuns = 2
  NoDump = NoDump
  Torn = Torn
INVARIANTS TypeOK NotOverdue NotAhead RestartPointIntact
CHECK_DEADLOCK FALSE
