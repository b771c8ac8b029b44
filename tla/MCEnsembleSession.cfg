SPECIFICATION FairSpec
CONSTANTS
  Client = {c1, c2}
  Slots = {1, 2}
  HostKind = {"match", "mismatch", "silent"}
  Timeout = 2
  HandBack = FALSE
  LossAtTheDoor = FALSE
  MaxEpoch = 2
  MaxFaults = 1
  MaxNews = 2
  None = None
INVARIANTS
  OnlyTheComparedHostsWord
  SlotsInStep
  FreshAfterLeaving
PROPERTIES
  ClientTicksInItsHostsWorld
  NotHeldForEver
CHECK_DEADLOCK FALSE
