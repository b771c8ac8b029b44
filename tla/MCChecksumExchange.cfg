SPECIFICATION Spec
CONSTANTS
  Host = host
  Client = {c1, c2}
  Interval = 1
  Capacity = 1
  SampleAlone = TRUE
  EarlyReports = FALSE
  LateReporters = FALSE
  MaxTick = 2
  MaxJoins = 2
  MaxDrifts = 1
  None = None
SYMMETRY Symmetry
INVARIANTS
  NoFalseAlarm
  DriftIsFound
CHECK_DEADLOCK FALSE
