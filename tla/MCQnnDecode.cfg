CONSTANTS
  Tokens = {a, eos}
  Eos = eos
  Nothing = Nothing
  NDraft = 3
  NTake = 1
  MaxPredict = 6
SPECIFICATION FairSpec
INVARIANTS
  OracleInStep
  ReplayHeals
  TextBounded
  EosIsLast
PROPERTIES
  CallsReturn
