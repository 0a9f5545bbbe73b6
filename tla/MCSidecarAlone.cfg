\* The main thread or one heartbeat, alone on the socket; the phone may hang up
\* and may push a packet.
CONSTANTS
  Monitors = {hb}
  Commander = {main}
  Phone = phone
  MaxCalls = 5
  MaxPushes = 1
  MayClose = TRUE
SPECIFICATION AloneSpec
INVARIANTS
  OwnReply
  HealthyNeverMissed
PROPERTIES
  CallsEnd
CHECK_DEADLOCK FALSE
