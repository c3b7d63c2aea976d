CONSTANTS
  Nodes = {n1}
  Clients = {c1, c2}
  Sockets = {s1, s2}
  recoverer = recoverer
  constructor = constructor
  None = None
  Min = 0
  Max = 1
  ConnectMayFail = TRUE
SPECIFICATION FairSpec
PROPERTIES
  DeadNodesAreChecked
CHECK_DEADLOCK FALSE
