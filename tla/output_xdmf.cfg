SPECIFICATION Spec
CONSTANTS
  Streams = {"xdmf"}
  Periods <- XdmfPeriods
  DumpPeriods = {2}
  ClockDumps = FALSE
  AnyRestart = FALSE
  SameSecond = FALSE
  Tstop = 3
  MaxDt = 2
  MaxNum = 4
  MaxRuns = 2
  NoDump = NoDump
  Torn = Torn
PROPERTIES AllFilesKept
CHECK_DEADLOCK FALSE
