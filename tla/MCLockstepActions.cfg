SPECIFICATION Spec
CONSTANTS
  Host = host
  Client = {c1}
  None = None
  MaxTick = 5
  HostBuffers = {1, 2}
  StartBuffer = 1
  Buffers = {1, 2}
  Horizon = 3
  JoinWindow = 9
  TrustWindow = 0
  MaxActions <- OnceEach
  MaxJoins = 1
  MaxRequests = 0
  MenuClock = {0}
  LeaveMidJoin = FALSE
  Shrinks = FALSE
  Kicks = TRUE
  Hasty = FALSE
INVARIANTS
  SameRulings
  ActionsRunOnce
  NoActionLost
  WaitsAreAnswered
  RosterAgreement
  NoHoles
CHECK_DEADLOCK FALSE
