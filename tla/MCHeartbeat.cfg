CONSTANTS
  MaxRun = 6
SPECIFICATION FairSpec
INVARIANTS
  CallbackInStep
PROPERTIES
  KeepsContract
  ClosedIsNoticed
  AnswersAreNoticed
  StopEndsIfHeard
CHECK_DEADLOCK FALSE
