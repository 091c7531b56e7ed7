CONSTANTS
  t1 = t1
  t2 = t2
  Threads = {t1, t2}
  NV = 3
  NEtypes = 1
  EdgeBlockSize = 2
  MaxBlocks = 8
  MaxStamp = 10
  Work <- FirstInsertions
  Batches <- LoopBatches
SPECIFICATION RFairSpec
PROPERTY EveryBatchProcessed
CHECK_DEADLOCK FALSE
