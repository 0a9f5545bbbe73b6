\* Two drivers: the handler threads of the HTTP server share one engine.
CONSTANTS
  NoTask = NoTask
  Drivers = {main, handler}
  Main = main
  MaxThreads = 2
  MaxEpoch = 2
SPECIFICATION ServerSpec
INVARIANTS
  ReturnsWhenAllDone
CHECK_DEADLOCK FALSE
