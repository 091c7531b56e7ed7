CONSTANTS
  base = base
  above = above
  other = other
  side = side
  Null = Null
  Clients = {base, above, other, side}
  Names <- MCNames
  NameOf <- MCNameOf
  Deps <- MCDeps
  Casts <- MCCasts
SPECIFICATION AFairSpec
INVARIANTS
  AlgInv
  
  EveryBatchShownInOrder
  DependenciesFirst
  
PROPERTIES
  EveryBatchApplied
  
CHECK_DEADLOCK FALSE
