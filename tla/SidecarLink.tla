------------------------------ MODULE SidecarLink ------------------------------
(***************************************************************************)
(* The one socket between the desktop and the phone, and the threads that  *)
(* make calls over it without a lock: the main thread's sidecar commands   *)
(* (desktop/beast_canyon/sp_beast_canyon.c) and the heartbeat workers      *)
(* (bridge/heartbeat/sp_bridge_heartbeat.c).  A frame is a header and, if  *)
(* it has one, a payload, which are sent and received one after the other  *)
(* (sp_sidecar_proto.h); a reply carries no name, so a caller takes the    *)
(* next frame for the answer to its own command.                           *)
(*                                                                         *)
(* The phone (external) answers the commands in order, may push an oracle  *)
(* packet, and closes the connection on a malformed stream.                *)
(***************************************************************************)
EXTENDS BeatRule, FiniteSets

CONSTANTS
  Monitors,    \* the heartbeat workers on the socket
  Commander,   \* {the main thread}, or {} when it makes no calls
  Phone,       \* the name of the phone, the origin of the packets it pushes
  MaxCalls,    \* bound: the calls of each client
  MaxPushes,   \* bound: the packets the phone pushes
  MayClose     \* whether the phone may close the connection by itself

Clients == Monitors \cup Commander

ASSUME LinkAssumption ==
  /\ Monitors \cap Commander = {}
  /\ Phone \notin Clients
  /\ MaxCalls \in Nat /\ MaxPushes \in Nat /\ MayClose \in BOOLEAN

VARIABLES
  toPhone,   \* the halves of frames on their way to the phone
  toHost,    \* the halves of frames on their way to the desktop
  closed,    \* the phone has closed the connection
  aligned,   \* the desktop's next read starts at the start of a header
  sidecar,   \* engine->sidecar.state
  pc,        \* where each client is in its call
  op,        \* the command of each client's call
  count,     \* each client's calls so far: a monitor's beat_counter
  hdr,       \* the header each client has read
  result,    \* how each client's last call ended
  origin,    \* history: whose command the last accepted reply answers
  level,     \* each monitor's hb->state
  ackStreak, \* each monitor's hb->ack_streak
  missStreak,\* each monitor's hb->miss_streak
  pushed,    \* the packets the phone has pushed
  starved    \* history: a payload has been left unread for lack of memory

wire == <<toPhone, toHost, closed, aligned>>
rule == <<level, ackStreak, missStreak>>
vars == <<wire, rule, sidecar, pc, op, count, hdr, result, origin, pushed, starved>>

Commands == {"ping", "prime_pe", "prefill", "draft", "accept", "reset"}

HasPayload(o) == o \notin {"ping", "reset"}

\* Mutant: the reset is not waited for either.
AwaitsNoReset(o) == o \notin {"accept", "reset"}

\* Mutant: the answer to an accept is waited for.
AwaitsAlways(o) == TRUE

\* The commands whose caller waits for an answer; accept is fire and forget.
Awaits(o) == o # "accept"

\* The phone's part: which commands it answers, and with what.
IsAnswered(o) == o # "accept"
AnswerHasPayload(o) == o \in {"beat", "prime_pe", "draft", "oracle"}

Half(part, o, from, n) == [part |-> part, op |-> o, from |-> from, n |-> n]
NoHalf == Half("none", "ping", Phone, 0)

\* The halves of the frame that answers a command; the status is OK.
Answer(cmd) ==
  IF ~IsAnswered(cmd.op) THEN <<>>
  ELSE IF AnswerHasPayload(cmd.op)
       THEN <<Half("header", cmd.op, cmd.from, cmd.n), Half("payload", cmd.op, cmd.from, cmd.n)>>
       ELSE <<Half("header", cmd.op, cmd.from, cmd.n)>>

Init ==
  /\ toPhone = <<>>
  /\ toHost = <<>>
  /\ closed = FALSE
  /\ aligned = TRUE
  /\ sidecar = "ONLINE"
  /\ pc = [c \in Clients |-> "idle"]
  /\ op = [c \in Clients |-> "ping"]
  /\ count = [c \in Clients |-> 0]
  /\ hdr = [c \in Clients |-> NoHalf]
  /\ result = [c \in Clients |-> "none"]
  /\ origin = [c \in Clients |-> <<c, 0>>]
  /\ level = [c \in Monitors |-> "ONLINE"]
  /\ ackStreak = [c \in Monitors |-> 0]
  /\ missStreak = [c \in Monitors |-> 0]
  /\ pushed = 0
  /\ starved = FALSE

-----------------------------------------------------------------------------
(* The end of a call, and what its caller makes of it.                     *)

\* heartbeat_loop judges a beat; the publications are instantaneous here.
Judge(c, good) ==
  LET misses == missStreak[c] + 1 IN
  IF good
  THEN /\ level' = [level EXCEPT ![c] = Settled(@, OnAck(@, ackStreak[c]))]
       /\ ackStreak' = [ackStreak EXCEPT ![c] = AckStreak(level[c], @)]
       /\ missStreak' = [missStreak EXCEPT ![c] = 0]
  ELSE /\ level' = [level EXCEPT ![c] = Settled(@, OnMiss(@, misses))]
       /\ ackStreak' = [ackStreak EXCEPT ![c] = 0]
       /\ missStreak' = [missStreak EXCEPT ![c] = misses]

\* The commands after whose bad reply the sidecar is in ERROR; the others
\* fail and leave it ONLINE.
ErrorOnBadReply(o) == o \in {"ping", "prime_pe"}

Finish(c, good, sendFailed) ==
  /\ pc' = [pc EXCEPT ![c] = "idle"]
  /\ result' = [result EXCEPT ![c] = IF good THEN "ok" ELSE "failed"]
  /\ IF c \in Monitors
     THEN Judge(c, good) /\ UNCHANGED sidecar
     ELSE /\ sidecar' = IF ~good /\ (sendFailed \/ ErrorOnBadReply(op[c]))
                        THEN "ERROR" ELSE sidecar
          /\ UNCHANGED rule

\* Mutant: the monitor compares the echo with the beat before.
BelievesStale(c, reply) == reply.op = op[c] /\ reply.n + 1 = count[c]

\* What each caller checks before it believes a frame with status OK: the
\* monitor compares the counter, draft and prime_pe look at the length only.
\* (An echoed counter passes for the number of drafted tokens when the eight
\* bytes of the frame are long enough for it.)
Believes(c, reply) ==
  CASE op[c] = "beat" -> reply.op = "beat" /\ reply.n = count[c]
    [] op[c] = "draft" -> \/ reply.op \in {"draft", "prime_pe"}
                          \/ reply.op = "beat" /\ reply.n <= 1
    [] op[c] = "prime_pe" -> reply.op = "prime_pe"
    [] OTHER -> reply.op # "oracle"

-----------------------------------------------------------------------------
(* A call.                                                                 *)

Begin(c, o) ==
  /\ pc[c] = "idle"
  /\ count[c] < MaxCalls
  /\ c \in Commander => sidecar = "ONLINE"
  /\ count' = [count EXCEPT ![c] = @ + 1]
  /\ op' = [op EXCEPT ![c] = o]
  /\ pc' = [pc EXCEPT ![c] = "sendHeader"]
  /\ UNCHANGED <<wire, rule, sidecar, hdr, result, origin, pushed, starved>>

\* After the last half: wait for the answer, or be done with an accept.
Sent(c) ==
  IF Awaits(op[c])
  THEN /\ pc' = [pc EXCEPT ![c] = "recvHeader"]
       /\ UNCHANGED <<result, sidecar, rule>>
  ELSE Finish(c, TRUE, FALSE)

SendHeader(c) ==
  /\ pc[c] = "sendHeader"
  /\ ~closed
  /\ toPhone' = Append(toPhone, Half("header", op[c], c, count[c]))
  /\ IF HasPayload(op[c])
     THEN /\ pc' = [pc EXCEPT ![c] = "sendPayload"]
          /\ UNCHANGED <<result, sidecar, rule>>
     ELSE Sent(c)
  /\ UNCHANGED <<toHost, closed, aligned, op, count, hdr, origin, pushed, starved>>

SendPayload(c) ==
  /\ pc[c] = "sendPayload"
  /\ ~closed
  /\ toPhone' = Append(toPhone, Half("payload", op[c], c, count[c]))
  /\ Sent(c)
  /\ UNCHANGED <<toHost, closed, aligned, op, count, hdr, origin, pushed, starved>>

SendFails(c) ==
  /\ pc[c] \in {"sendHeader", "sendPayload"}
  /\ closed
  /\ Finish(c, FALSE, TRUE)
  /\ UNCHANGED <<wire, op, count, hdr, origin, pushed, starved>>

\* recv on a closed connection with nothing left to read.
ReceiveFails(c) ==
  /\ pc[c] \in {"recvHeader", "recvPayload"}
  /\ toHost = <<>>
  /\ closed
  /\ Finish(c, FALSE, FALSE)
  /\ UNCHANGED <<wire, op, count, hdr, origin, pushed, starved>>

\* A header that is not one has no magic: the read fails, and the stream is out
\* of step from there on, unless the bytes taken happen to end where the next
\* header starts.
ReceiveHeader(c) ==
  LET head == Head(toHost)
      inStep == aligned /\ head.part = "header"
  IN
  /\ pc[c] = "recvHeader"
  /\ toHost # <<>>
  /\ toHost' = Tail(toHost)
  /\ aligned' \in IF inStep THEN {TRUE}
                 ELSE {FALSE, toHost' = <<>> \/ toHost'[1].part = "header"}
  /\ hdr' = [hdr EXCEPT ![c] = head]
  /\ IF inStep /\ AnswerHasPayload(head.op)
     THEN /\ pc' = [pc EXCEPT ![c] = "recvPayload"]
          /\ UNCHANGED <<result, sidecar, rule, origin>>
     ELSE LET good == inStep /\ Believes(c, head) IN
          /\ Finish(c, good, FALSE)
          /\ origin' = IF good THEN [origin EXCEPT ![c] = <<head.from, head.n>>] ELSE origin
  /\ UNCHANGED <<toPhone, closed, op, count, pushed, starved>>

\* There is no memory for the payload that the header announces: it stays on
\* the stream, where the next call looks for a header.
NoMemory(c) ==
  /\ pc[c] = "recvHeader"
  /\ toHost # <<>>
  /\ aligned /\ Head(toHost).part = "header" /\ AnswerHasPayload(Head(toHost).op)
  /\ toHost' = Tail(toHost)
  /\ starved' = TRUE
  /\ Finish(c, FALSE, FALSE)
  /\ UNCHANGED <<toPhone, closed, aligned, op, count, hdr, origin, pushed>>

\* The payload announced by the header, unless another thread has read in
\* between.
ReceivePayload(c) ==
  LET head == Head(toHost)
      good == /\ aligned
              /\ head.part = "payload"
              /\ Believes(c, [head EXCEPT !.op = hdr[c].op])
  IN
  /\ pc[c] = "recvPayload"
  /\ toHost # <<>>
  /\ toHost' = Tail(toHost)
  /\ aligned' = (aligned /\ head.part = "payload")
  /\ Finish(c, good, FALSE)
  /\ origin' = IF good THEN [origin EXCEPT ![c] = <<head.from, head.n>>] ELSE origin
  /\ UNCHANGED <<toPhone, closed, op, count, hdr, pushed, starved>>

-----------------------------------------------------------------------------
(* The phone.                                                              *)

WholeCommand ==
  /\ toPhone # <<>>
  /\ toPhone[1].part = "header"
  /\ HasPayload(toPhone[1].op) =>
       Len(toPhone) > 1 /\ toPhone[2] = [toPhone[1] EXCEPT !.part = "payload"]

Malformed ==
  /\ toPhone # <<>>
  /\ \/ toPhone[1].part = "payload"
     \/ /\ HasPayload(toPhone[1].op)
        /\ Len(toPhone) > 1
        /\ toPhone[2] # [toPhone[1] EXCEPT !.part = "payload"]

PhoneAnswers ==
  /\ ~closed
  /\ WholeCommand
  /\ toPhone' = SubSeq(toPhone, IF HasPayload(toPhone[1].op) THEN 3 ELSE 2, Len(toPhone))
  /\ toHost' = toHost \o Answer(toPhone[1])
  /\ UNCHANGED <<closed, aligned, rule, sidecar, pc, op, count, hdr, result, origin, pushed, starved>>

PhoneCloses ==
  /\ ~closed
  /\ MayClose \/ Malformed
  /\ closed' = TRUE
  /\ UNCHANGED <<toPhone, toHost, aligned, rule, sidecar, pc, op, count, hdr, result, origin, pushed, starved>>

PhonePushes ==
  /\ ~closed
  /\ pushed < MaxPushes
  /\ pushed' = pushed + 1
  /\ toHost' = toHost \o <<Half("header", "oracle", Phone, 0), Half("payload", "oracle", Phone, 0)>>
  /\ UNCHANGED <<toPhone, closed, aligned, rule, sidecar, pc, op, count, hdr, result, origin, starved>>

-----------------------------------------------------------------------------
Step(c) ==
  \/ SendHeader(c) \/ SendPayload(c) \/ SendFails(c)
  \/ ReceiveHeader(c) \/ NoMemory(c) \/ ReceivePayload(c) \/ ReceiveFails(c)

Next ==
  \/ \E c \in Monitors : Begin(c, "beat")
  \/ \E c \in Commander, o \in Commands : Begin(c, o)
  \/ \E c \in Clients : Step(c)
  \/ PhoneAnswers \/ PhoneCloses \/ PhonePushes

Spec == Init /\ [][Next]_vars

\* A call goes on when it can, and the phone answers what it has received.
Fairness ==
  /\ \A c \in Clients : WF_vars(Step(c))
  /\ WF_vars(PhoneAnswers)
  /\ WF_vars(PhoneCloses /\ Malformed)

FairSpec == Spec /\ Fairness

\* Only one of the clients ever makes a call.
Alone == \E c \in Clients : \A e \in Clients \ {c} : count'[e] = 0

AloneSafely == Init /\ [][Next /\ Alone]_vars

AloneSpec == AloneSafely /\ Fairness

-----------------------------------------------------------------------------
Ops == Commands \cup {"beat", "oracle"}

Halves == [part : {"header", "payload", "none"}, op : Ops,
           from : Clients \cup {Phone}, n : Nat]

TypeOK ==
  /\ toPhone \in Seq(Halves)
  /\ toHost \in Seq(Halves)
  /\ closed \in BOOLEAN
  /\ aligned \in BOOLEAN
  /\ sidecar \in {"ONLINE", "ERROR"}
  /\ pc \in [Clients -> {"idle", "sendHeader", "sendPayload", "recvHeader", "recvPayload"}]
  /\ op \in [Clients -> Ops]
  /\ count \in [Clients -> 0 .. MaxCalls]
  /\ hdr \in [Clients -> Halves]
  /\ result \in [Clients -> {"none", "ok", "failed"}]
  /\ origin \in [Clients -> (Clients \cup {Phone}) \X Nat]
  /\ level \in [Monitors -> States]
  /\ ackStreak \in [Monitors -> Nat]
  /\ missStreak \in [Monitors -> Nat]
  /\ pushed \in 0 .. MaxPushes
  /\ starved \in BOOLEAN

\* A caller that has received a reply it believes has received the reply to
\* its own, latest command, as long as the phone sends answers only
\* and the desktop has had the memory to read each of them to its end.
OwnReply ==
  pushed = 0 /\ ~starved => \A c \in Clients :
    pc[c] = "idle" /\ result[c] = "ok" /\ IsAnswered(op[c]) => origin[c] = <<c, count[c]>>

\* A phone that answers every command, never hangs up and pushes nothing is
\* never taken for a missing one by a desktop with the memory to read its
\* answers: no beat of any monitor is counted as missed.
HealthyNeverMissed ==
  ~closed /\ pushed = 0 /\ ~starved => \A c \in Monitors : missStreak[c] = 0

\* Every call over the socket comes back.
CallsEnd == \A c \in Clients : pc[c] # "idle" ~> pc[c] = "idle"
=============================================================================
