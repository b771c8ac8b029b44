SPECIFICATION Spec
CONSTANTS
  Component = {c1}
  Resource = {r1}
  v1 = v1
  v2 = v2
  Value <- Values
  Worlds <- FewWorlds
  Absent = Absent
  None = None
  Ring = 2
  Keep = 2
  KeyframeEvery = 3
  SendEvery = 1
  HeldEvery = 2
  Rate <- AlwaysCarried
  MaxTick = 2
  MaxSeq = 4
  MaxFaults = 1
CHECK_DEADLOCK FALSE
INVARIANTS
  RebuiltIsSent
  BaselineIsHeld
  FreshestIsApplied
