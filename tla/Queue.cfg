CONSTANTS
  c1 = c1
  c2 = c2
  Conns = {c1, c2}
  MaxBatches = 2
  Streams <- MCStreams
SPECIFICATION QFairSpec
INVARIANTS
  QueueBound
  NothingLostInOrder
  KeptBatchesAlive
PROPERTY EveryBatchReachesTheLoop
