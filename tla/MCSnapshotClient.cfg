SPECIFICATION Spec
CONSTANTS
  Id = {1, 2}
  Inputs = {"idle", "fire"}
  LocMod = 3
  Targets = {1, 2}
  Budget = 2
  SnapTicks = 2
  SnapBackTicks = 2
  Streak = 2
  Steered = FALSE
  PausesAhead = FALSE
  MaxHostTick = 3
  MaxClock = 5
  MaxPauses = 1
INVARIANTS
  PredictedFromTheWord
  NoTwins
  LeadsTheHost

CHECK_DEADLOCK FALSE
