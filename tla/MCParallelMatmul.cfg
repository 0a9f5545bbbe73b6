CONSTANTS
  NoTask = NoTask
  Drivers = {main}
  Main = main
  MaxThreads = 4
  MaxEpoch = 3
  MaxRows = 9
SPECIFICATION FairMatmulSpec
INVARIANTS
  ReturnsWhenAllDone
  TaskAliveAndOwed
  NoLostWakeup
  ReturnedWhole
  OneWriterPerRow
  WritesInsideCall
PROPERTIES
  ForksAndJoins
  CallsReturn
  ShutdownEnds
CHECK_DEADLOCK FALSE
