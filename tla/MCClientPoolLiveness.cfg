CONSTANTS
  Nodes = {n1}
  Clients = {c1, c2}
  Sockets = {s1, s2}
  recoverer = recoverer
  constructor = constructor
  None = None
  Min = 0
  Max = 1
  ConnectMayFail = FALSE
SPECIFICATION FairSpec
PROPERTIES
  CallsReturn
  DeadNodesRecover
CHECK_DEADLOCK FALSE
