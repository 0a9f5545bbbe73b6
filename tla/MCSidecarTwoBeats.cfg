\* The two heartbeats that sp_beast_init and the CLI start on one socket.
CONSTANTS
  Monitors = {hb, hb2}
  Commander = {}
  Phone = phone
  MaxCalls = 3
  MaxPushes = 0
  MayClose = FALSE
SPECIFICATION FairSpec
INVARIANTS
  HealthyNeverMissed
CHECK_DEADLOCK FALSE
