SPECIFICATION Spec
CONSTANTS
  Red = 2
  Window = 2
  MaxLead = 2
  Lead = 1
  MaxTick = 4
  MaxBehind = 2
  MaxFlight = 2
  MaxTurns = 1
INVARIANTS
  NewestIsUsed
  FewLossesCostNothing
CHECK_DEADLOCK FALSE
