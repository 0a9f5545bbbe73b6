CONSTANTS
  NExperts = 4
  NTokens = 3
  K = 2
  Cap = 3
SPECIFICATION Spec
INVARIANTS
  CacheSound
  RightWeights
PROPERTIES
  EvictsLru
CHECK_DEADLOCK FALSE
