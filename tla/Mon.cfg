CONSTANTS
  m1 = m1
  m2 = m2
  again = again
  Null = Null
  Mons = {m1, m2, again}
  NameOf <- MCName
  Casts <- MCCasts
SPECIFICATION MFairSpec
INVARIANTS
  MappedGraphIsStatic
  EveryMonitorShown
  ShownInOrder
  MappedMonInVector
PROPERTY EveryRoundEnds
CHECK_DEADLOCK FALSE
