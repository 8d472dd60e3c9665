SPECIFICATION Spec
CONSTANTS
  N = 2
  NStages = 2
  Tstop = 3
  FirstDt = 1
  MaxDt = 2
  DtMin = 1
  Growth = 2
  LogPeriod = 2
  NanPeriod = 2
  MaxRuntime = FALSE
  ClockDumps = FALSE
  Bad = {0}
  LocalFaults = FALSE
  Signals = {1}
  MaxCycles <- NoMaxCycles
PROPERTIES SignalHonoured
CHECK_DEADLOCK FALSE
