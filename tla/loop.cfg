SPECIFICATION Spec
CONSTANTS
  N = 2
  NStages = 2
  Tstop = 3
  FirstDt = 1
  MaxDt = 2
  DtMin = 1
  Growth = 2
  LogPeriod = 2
  NanPeriod = 2
  MaxRuntime = TRUE
  ClockDumps = TRUE
  Bad = {0, 1}
  LocalFaults = TRUE
  Signals = {0}
  MaxCycles = 2
INVARIANTS CollectivesMatch SameStep EmergencyIsCollective
PROPERTIES EndsTogether Termination
CHECK_DEADLOCK FALSE
