SPECIFICATION FairSpec
CONSTANTS
  Host = host
  Client = {c1}
  None = None
  MaxTick = 5
  HostBuffers = {1}
  StartBuffer = 1
  Buffers = {1}
  Horizon = 3
  JoinWindow = 9
  TrustWindow = 0
  MaxActions <- Nobody
  MaxJoins = 1
  MaxRequests = 2
  MenuClock = {0}
  LeaveMidJoin = FALSE
  Shrinks = FALSE
  Kicks = FALSE
  Hasty = FALSE
INVARIANTS
  PausedAsAsked
PROPERTIES
  Progress
  JoinersCatchUp
CHECK_DEADLOCK FALSE
