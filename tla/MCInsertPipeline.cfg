CONSTANTS
  Items = {i1, i2}
  Threads = {t1}
  MaxItemCount <- Capacity
  MaxUpdates = 1
  None = None
SPECIFICATION FairSpec
INVARIANTS
  TypeOK
  DescriptionComesFirst
PROPERTIES
  InsertedAtMostOnce
  OldThreadsEnd
  ItemsAreStored
CHECK_DEADLOCK FALSE
