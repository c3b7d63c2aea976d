CONSTANTS
  i1 = i1
  i2 = i2
  i3 = i3
  c1 = c1
  c2 = c2
  Items = {i1, i2}
  Hashes = {i1, i2}
  HashOf <- DistinctHashes
  Consumers = {c1}
  Batch = 2
  Configs <- DocConfigs
SPECIFICATION Spec
PROPERTIES
  EnqueueTwiceRetries
CHECK_DEADLOCK FALSE
