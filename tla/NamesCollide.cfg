CONSTANTS
  t1 = t1
  t2 = t2
  t3 = t3
  Threads = {t1, t2, t3}
  MaxTypes = 3
  StrMax = 2
  IntMax = 99
  Hash <- MCHash
  Calls <- CollidingCalls
SPECIFICATION NFairSpec
PROPERTY EveryNameCallReturns
CHECK_DEADLOCK FALSE
