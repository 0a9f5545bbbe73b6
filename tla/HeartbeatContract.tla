--------------------------- MODULE HeartbeatContract ---------------------------
(***************************************************************************)
(* The transitions bridge/heartbeat/sp_bridge_heartbeat.h promises, from   *)
(* the results of the beats alone: 2 consecutive missed beats degrade the  *)
(* phone, 5 take it offline, 3 consecutive acknowledgements bring it back. *)
(* Consecutive beats are counted up to MaxRun.                             *)
(***************************************************************************)
EXTENDS Naturals

CONSTANT MaxRun   \* bound: longer runs of equal beats are not told apart

VARIABLES level, ackRun, missRun
vars == <<level, ackRun, missRun>>

Init == level = "ONLINE" /\ ackRun = 0 /\ missRun = 0

OneMore(run) == IF run < MaxRun THEN run + 1 ELSE run

Acked ==
  /\ ackRun' = OneMore(ackRun)
  /\ missRun' = 0
  /\ level' = IF ackRun' >= 3 THEN "ONLINE" ELSE level

Missed ==
  /\ ackRun' = 0
  /\ missRun' = OneMore(missRun)
  /\ level' = CASE level = "ONLINE" /\ missRun' >= 2 -> "DEGRADED"
                [] level = "DEGRADED" /\ missRun' >= 5 -> "OFFLINE"
                [] OTHER -> level

Next == Acked \/ Missed

Spec == Init /\ [][Next]_vars
=============================================================================
