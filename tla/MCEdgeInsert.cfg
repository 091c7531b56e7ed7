CONSTANTS
  t1 = t1
  t2 = t2
  t3 = t3
  Threads <- MCThreads
  NV = 3
  NEtypes = 2
  EdgeBlockSize = 2
  MaxBlocks = 4
  MaxStamp = 10
  Work <- OneVertexWork
SYMMETRY ThreadSymmetry
SPECIFICATION Spec
INVARIANTS
  NoDuplicateEdge
  InsertInvariant
  WeightIsSumOfIncrements
PROPERTIES
  ImplementsAdjacency
