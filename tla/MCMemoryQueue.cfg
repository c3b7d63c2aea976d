CONSTANTS
  i1 = i1
  i2 = i2
  i3 = i3
  c1 = c1
  c2 = c2
  Items = {i1, i2, i3}
  Hashes = {i1, i2, i3}
  HashOf <- DistinctHashes
  Consumers = {c1, c2}
  Batch = 2
  Configs <- SafetyConfigs
SPECIFICATION Spec
SYMMETRY ConsumerSymmetry
INVARIANTS
  TypeOK
  ItemInOnePlace
  BoundedQueue
  DeliveredAtMostThrice
  AdjustedAtMostOnce
PROPERTIES
  LossIsJustified
  OldestFirst
  ImplementsDelivery
CHECK_DEADLOCK FALSE
