SPECIFICATION FairSpec
CONSTANTS
  FrameLengths = {1, 5, 7}
  Step = 2
  FixedStep = 2
  MaxDelta = 4
  MaxTicks = 2
  Gap = 6
  Threshold = 2
  SendEvery = 1
  HeldEvery = 2
  Window = 1
  ByHand = {"forward", "back"}
  Focus = TRUE
  None = None
  MaxTick = 1
  MaxTurns = 4
INVARIANTS LossIsNoticed
PROPERTIES LiftedOnlyIfAsked AutomaticPauseEnds
CHECK_DEADLOCK FALSE
