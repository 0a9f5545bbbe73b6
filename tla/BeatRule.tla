------------------------------- MODULE BeatRule -------------------------------
(***************************************************************************)
(* What one heartbeat does to the liveness state the desktop publishes for *)
(* the phone (heartbeat_loop in bridge/heartbeat/sp_bridge_heartbeat.c).   *)
(***************************************************************************)
EXTENDS Naturals, Sequences

States == {"OFFLINE", "DEGRADED", "ONLINE"}

\* An acknowledged beat brings the phone back when it is the third in a row.
Recovers(state, streak) == state # "ONLINE" /\ streak + 1 >= 3

\* ack_streak after an acknowledged beat.
AckStreak(state, streak) ==
  IF state = "ONLINE" \/ Recovers(state, streak) THEN 0 ELSE streak + 1

\* Mutant: only a phone that was offline is brought back.
OnAckFromOffline(state, streak) ==
  IF state = "OFFLINE" /\ Recovers(state, streak) THEN <<"ONLINE">> ELSE <<>>

OnAck(state, streak) == IF Recovers(state, streak) THEN <<"ONLINE">> ELSE <<>>

\* What a missed beat publishes; `misses` counts it.  Both conditions look at
\* the state before either publication.
Degrades(state, misses) == state = "ONLINE" /\ misses >= 2

\* Mutant: only a phone that was online is taken offline.
OfflineFromOnline(state, misses) == state = "ONLINE" /\ misses >= 5

GoesOffline(state, misses) == state # "OFFLINE" /\ misses >= 5

OnMiss(state, misses) ==
  CASE Degrades(state, misses) /\ GoesOffline(state, misses) -> <<"DEGRADED", "OFFLINE">>
    [] Degrades(state, misses) /\ ~GoesOffline(state, misses) -> <<"DEGRADED">>
    [] ~Degrades(state, misses) /\ GoesOffline(state, misses) -> <<"OFFLINE">>
    [] OTHER -> <<>>

\* The state once everything due has been published.
Settled(state, due) == IF due = <<>> THEN state ELSE due[Len(due)]
=============================================================================
