CONSTANTS
  Nodes = {n1}
  Clients = {c1, c2}
  Sockets = {s1, s2, s3, s4}
  recoverer = recoverer
  constructor = constructor
  None = None
  Min = 1
  Max = 1
  ConnectMayFail = TRUE
SPECIFICATION Spec
SYMMETRY PoolSymmetry
INVARIANTS
  TypeOK
  SocketsAreExclusive
  DeadNodeIsNoticed
  PoolBound
PROPERTIES
  LeaksOnlyInClears
CHECK_DEADLOCK FALSE
