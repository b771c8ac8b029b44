SPECIFICATION Spec
CONSTANTS
  Event <- Shots
  Said <- Sayings
  Window = 2
  MaxTick = 4
  MaxMoves = 2
  None = None
INVARIANTS
  LogIsTheTimeline
  NeverTwice
  TruthIsHeard
CHECK_DEADLOCK FALSE
