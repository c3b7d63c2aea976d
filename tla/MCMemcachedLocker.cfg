CONSTANTS
  Clients = {c1, c2, c3}
  TimeOut = 1
  None = None
SPECIFICATION FairSpec
INVARIANTS
  TypeOK
  ExclusiveWithinLease
PROPERTIES
  TakenOverOnlyWhenStale
  DeletesItsOwn
  CallersAreAnswered
CHECK_DEADLOCK FALSE
