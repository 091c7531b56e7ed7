CONSTANTS
  t1 = t1
  t2 = t2
  Absent = Absent
  Threads = {t1, t2}
  NV = 4
  NEtypes = 2
  NVtypes = 2
  EdgeBlockSize = 2
  MaxBlocks = 8
  MaxStamp = 10
  Work <- NoWork
  Batches <- MCFailedBatches
  LowerCase <- MCLowerCase
SPECIFICATION PFairSpec
INVARIANT FailedStaysFailed
