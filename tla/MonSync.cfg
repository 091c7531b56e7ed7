CONSTANTS
  Readers = {r1, r2}
  MaxUpdates = 3
  MaxRequests = 3
SPECIFICATION SFairSpec
INVARIANTS
  TokensMatchWaiters
  ReadersUseLiveMapping
 
CHECK_DEADLOCK FALSE
