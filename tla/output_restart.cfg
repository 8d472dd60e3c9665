SPECIFICATION Spec
CONSTANTS
  Streams = {"vtk", "slice", "python"}
  Periods <- RestartPeriods
  DumpPeriods = {2}
  ClockDumps = TRUE
  AnyRestart = FALSE
  SameSecond = FALSE
  Tstop = 4
  MaxDt = 3
  MaxNum = 6
  MaxRuns = 3
  NoDump = NoDump
  Torn = Torn
INVARIANTS DumpsAreUpToDate FilesInOrder
PROPERTIES FilesKept
CHECK_DEADLOCK FALSE
