SPECIFICATION Spec
CONSTANTS
  Host = host
  Client = client
  Component <- Components
  Resource <- Resources
  Builds <- TheBuilds
  Late = 1
  Alone = {host}
  Window = 2
  Lead = 1
  MaxTick = 3
  MaxWrites = 1
  MaxJoins = 2
INVARIANTS
  ReadAsWritten
PROPERTIES
  GoesBackExactly
CHECK_DEADLOCK FALSE
