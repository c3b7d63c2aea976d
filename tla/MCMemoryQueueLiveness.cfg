CONSTANTS
  i1 = i1
  i2 = i2
  i3 = i3
  c1 = c1
  c2 = c2
  Items = {i1, i2}
  Hashes = {i1}
  HashOf <- CollidingHashes
  Consumers = {c1, c2}
  Batch = 2
  Configs <- LivenessConfigs
SPECIFICATION FairSpec
INVARIANTS
  RetriesBoundedPerHash
PROPERTIES
  EveryItemLeaves
  DisposeStopsConsumers
CHECK_DEADLOCK FALSE
