CONSTANTS
  B = 64
  Gap = 11
  GarnerC = 16
  Setups = {"cpu", "cuda", "hetero"}
  MaxDim = 2
  Left <- MCLeft
  Right <- MCRight
  MaxCalls = 2
  MaxFaults = 1
SPECIFICATION Spec
INVARIANTS
  TypeOK
  ProductExact
PROPERTIES
  CallsReturn
CHECK_DEADLOCK FALSE
