------------------------------- MODULE Heartbeat -------------------------------
(***************************************************************************)
(* One heartbeat manager and the thread that uses it                       *)
(* (bridge/heartbeat/sp_bridge_heartbeat.c).  The worker exchanges a beat  *)
(* with the phone, judges it, publishes at most a change of state, fires   *)
(* the callback and sleeps; the owner stops it by a flag and a join.       *)
(*                                                                         *)
(* The phone (external) answers every beat, answers with an error, says    *)
(* nothing, or has closed the connection; the socket has no timeout, so a  *)
(* silent phone blocks the worker in recv.                                 *)
(***************************************************************************)
EXTENDS BeatRule

CONSTANT MaxRun   \* bound: longer runs of equal beats are not told apart

ASSUME HeartbeatAssumption == MaxRun \in Nat /\ MaxRun >= 5

VARIABLES
  pc,            \* where the worker is in heartbeat_loop
  state,         \* hb->state
  ack_streak,    \* hb->ack_streak
  miss_streak,   \* hb->miss_streak, counted up to MaxRun
  ok,            \* the result of exchange_one_beat
  due,           \* the publish_state calls the current beat still makes
  told,          \* the state the callback was last given
  stop_flag,     \* hb->stop_flag
  owner,         \* where the owner is: "running", "joining", "stopped"
  phone,         \* how the phone treats a beat
  ackRun,        \* history: the acknowledged beats in a row
  missRun        \* history: the missed beats in a row

loopVars == <<ack_streak, miss_streak, ackRun, missRun>>
vars == <<pc, state, loopVars, ok, due, told, stop_flag, owner, phone>>

OneMore(run) == IF run < MaxRun THEN run + 1 ELSE run

\* sp_bridge_heartbeat_start: the state is ONLINE before the first beat.
Init ==
  /\ pc = "top"
  /\ state = "ONLINE"
  /\ ack_streak = 0
  /\ miss_streak = 0
  /\ ok = FALSE
  /\ due = <<>>
  /\ told = "ONLINE"
  /\ stop_flag = FALSE
  /\ owner = "running"
  /\ phone = "answering"
  /\ ackRun = 0
  /\ missRun = 0

-----------------------------------------------------------------------------
(* The worker.                                                             *)

\* Mutant: the flag is not looked at between beats.
LoopEndsNever == FALSE

LoopEnds == stop_flag

ThreadReturns ==
  /\ pc = "top"
  /\ LoopEnds
  /\ pc' = "returned"
  /\ UNCHANGED <<state, loopVars, ok, due, told, stop_flag, owner, phone>>

\* The send of exchange_one_beat: it fails on a closed connection only.
SendBeat ==
  /\ pc = "top"
  /\ ~LoopEnds
  /\ IF phone = "closed"
     THEN pc' = "judge" /\ ok' = FALSE
     ELSE pc' = "recv" /\ UNCHANGED ok
  /\ UNCHANGED <<state, loopVars, due, told, stop_flag, owner, phone>>

\* The recv of exchange_one_beat: it returns with an answer or when the
\* connection is closed, and not before.
ReceiveReply ==
  /\ pc = "recv"
  /\ phone # "silent"
  /\ ok' = (phone = "answering")
  /\ pc' = "judge"
  /\ UNCHANGED <<state, loopVars, due, told, stop_flag, owner, phone>>

\* Mutant: an acknowledged beat leaves the misses counted.
JudgeAckKeepingMisses ==
  /\ pc = "judge"
  /\ ok
  /\ UNCHANGED miss_streak
  /\ ack_streak' = AckStreak(state, ack_streak)
  /\ due' = OnAck(state, ack_streak)
  /\ ackRun' = OneMore(ackRun)
  /\ missRun' = 0
  /\ pc' = "publish"
  /\ UNCHANGED <<state, ok, told, stop_flag, owner, phone>>

JudgeAck ==
  /\ pc = "judge"
  /\ ok
  /\ miss_streak' = 0
  /\ ack_streak' = AckStreak(state, ack_streak)
  /\ due' = OnAck(state, ack_streak)
  /\ ackRun' = OneMore(ackRun)
  /\ missRun' = 0
  /\ pc' = "publish"
  /\ UNCHANGED <<state, ok, told, stop_flag, owner, phone>>

JudgeMiss ==
  /\ pc = "judge"
  /\ ~ok
  /\ ack_streak' = 0
  /\ miss_streak' = OneMore(miss_streak)
  /\ due' = OnMiss(state, miss_streak')
  /\ ackRun' = 0
  /\ missRun' = OneMore(missRun)
  /\ pc' = "publish"
  /\ UNCHANGED <<state, ok, told, stop_flag, owner, phone>>

\* publish_state: store a new state, then fire the callback.
Publish ==
  /\ pc = "publish"
  /\ due # <<>>
  /\ due' = Tail(due)
  /\ state' = Head(due)
  /\ pc' = IF Head(due) = state THEN "publish" ELSE "callback"
  /\ UNCHANGED <<loopVars, ok, told, stop_flag, owner, phone>>

\* Mutant: the callback is not fired.
CallbackSkipped ==
  /\ pc = "callback"
  /\ pc' = "publish"
  /\ UNCHANGED <<told, state, loopVars, ok, due, stop_flag, owner, phone>>

Callback ==
  /\ pc = "callback"
  /\ told' = state
  /\ pc' = "publish"
  /\ UNCHANGED <<state, loopVars, ok, due, stop_flag, owner, phone>>

Sleep ==
  /\ pc = "publish"
  /\ due = <<>>
  /\ pc' = "top"
  /\ UNCHANGED <<state, loopVars, ok, due, told, stop_flag, owner, phone>>

-----------------------------------------------------------------------------
(* sp_bridge_heartbeat_stop: flag, join, free.                             *)

Stop ==
  /\ owner = "running"
  /\ stop_flag' = TRUE
  /\ owner' = "joining"
  /\ UNCHANGED <<pc, state, loopVars, ok, due, told, phone>>

Joined ==
  /\ owner = "joining"
  /\ pc = "returned"
  /\ owner' = "stopped"
  /\ UNCHANGED <<pc, state, loopVars, ok, due, told, stop_flag, phone>>

\* The phone: a closed connection stays closed.
PhoneChanges ==
  /\ phone # "closed"
  /\ phone' \in {"answering", "refusing", "silent", "closed"} \ {phone}
  /\ UNCHANGED <<pc, state, loopVars, ok, due, told, stop_flag, owner>>

-----------------------------------------------------------------------------
Worker ==
  \/ ThreadReturns \/ SendBeat \/ ReceiveReply \/ JudgeAck \/ JudgeMiss
  \/ Publish \/ Callback \/ Sleep

Next == Worker \/ Stop \/ Joined \/ PhoneChanges

Spec == Init /\ [][Next]_vars

\* The worker and a join that can go on do go on.  Nothing is assumed of the
\* phone, nor that anybody ever stops the manager.
FairSpec == Spec /\ WF_vars(Worker) /\ WF_vars(Joined)

-----------------------------------------------------------------------------
TypeOK ==
  /\ pc \in {"top", "recv", "judge", "publish", "callback", "returned"}
  /\ state \in States
  /\ ack_streak \in 0 .. 2
  /\ miss_streak \in 0 .. MaxRun
  /\ ok \in BOOLEAN
  /\ due \in {<<>>} \cup {<<s>> : s \in States}
  /\ told \in States
  /\ stop_flag \in BOOLEAN
  /\ owner \in {"running", "joining", "stopped"}
  /\ phone \in {"answering", "refusing", "silent", "closed"}
  /\ ackRun \in 0 .. MaxRun
  /\ missRun \in 0 .. MaxRun

\* The published state is the one the header promises for the results of the
\* beats so far, in every interleaving with the phone and the owner.
Contract == INSTANCE HeartbeatContract WITH level <- Settled(state, due)
KeepsContract == Contract!Spec

\* Between two beats the callback has been given the state everyone reads.
CallbackInStep == pc \in {"top", "recv", "judge"} => told = state

\* A phone that has closed the connection is found OFFLINE.
ClosedIsNoticed == phone = "closed" ~> state = "OFFLINE" \/ stop_flag

\* A phone that answers every beat from some moment on is found ONLINE.
AnswersAreNoticed == <>[](phone = "answering" /\ ~stop_flag) => <>[](state = "ONLINE")

\* sp_bridge_heartbeat_stop returns when the phone stops leaving
\* beats without an answer.
StopEndsIfHeard == <>[](phone # "silent") => (owner = "joining" ~> owner = "stopped")

=============================================================================
