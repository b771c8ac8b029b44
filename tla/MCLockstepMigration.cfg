SPECIFICATION Spec
CONSTANTS
  Old = old
  New = new
  Survivor = {s1, s2}
  Buffer = 1
  Grace = 1
  Horizon = 3
  TrustWindow = 1
  MaxTick = 4
  MaxDrops = 1
  Timeouts = TRUE
  EarlyHandover = FALSE
SYMMETRY SurvivorSymmetry
INVARIANTS
  SameRulings
  KeptActionsAreRuled
  NobodyIsStuck
CHECK_DEADLOCK FALSE
