CONSTANTS
  t1 = t1
  t2 = t2
  Threads = {t1, t2}
  NV = 3
  NEtypes = 1
  EdgeBlockSize = 2
  MaxBlocks = 8
  MaxStamp = 10
  Work <- FirstInsertions
  Batches <- MCBatches
SPECIFICATION RFairSpec
INVARIANTS
  ConsistentAfterBatch
  RemovalOutcome
  NoDuplicateAfterReuse
  EveryBlockLinked
PROPERTIES
  EveryBatchProcessed
