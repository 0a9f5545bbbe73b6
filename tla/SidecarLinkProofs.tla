--------------------------- MODULE SidecarLinkProofs ---------------------------
(***************************************************************************)
(* Proofs about SidecarLink, for any number of calls and pushed packets:   *)
(* what the one client of a socket may rely on as long as it is alone on   *)
(* it.                                                                     *)
(***************************************************************************)
EXTENDS SidecarLink, SequenceTheorems, TLAPS

\* Nobody but c has made a call.
OnlyCaller(c) == \A e \in Clients \ {c} : count[e] = 0

\* The half of c's current command that is its header or its payload.
Cmd(c, part) == Half(part, op[c], c, count[c])

\* A header whose payload comes next, on either way.
Opens(half) == half.part = "header" /\ HasPayload(half.op)
Announces(half) == half.part = "header" /\ AnswerHasPayload(half.op)

\* What the phone will read is whole frames, but for the one c is sending.
SentFramed(c) ==
  /\ \A p \in 1 .. Len(toPhone) :
       /\ toPhone[p].part \in {"header", "payload"}
       /\ toPhone[p].part = "payload" => p > 1 /\ Opens(toPhone[p - 1])
       /\ Opens(toPhone[p]) /\ p < Len(toPhone) =>
            toPhone[p + 1] = [toPhone[p] EXCEPT !.part = "payload"]
       /\ Opens(toPhone[p]) /\ p = Len(toPhone) => closed \/ pc[c] = "sendPayload"
  /\ pc[c] = "sendPayload" =>
       /\ HasPayload(op[c])
       /\ ~closed => toPhone # <<>> /\ toPhone[Len(toPhone)] = Cmd(c, "header")

\* Every header that announces a payload is followed by one, and no other is.
Chained(s) ==
  \A p \in 1 .. Len(s) :
    /\ s[p].part \in {"header", "payload"}
    /\ p < Len(s) => (s[p + 1].part = "payload" <=> Announces(s[p]))
    /\ p = Len(s) => ~Announces(s[p])

\* What the desktop will read is whole frames, but for the one c is reading.
ReadFramed(c) ==
  /\ aligned
  /\ Chained(toHost)
  /\ toHost # <<>> => (toHost[1].part = "payload" <=> pc[c] = "recvPayload")
  /\ pc[c] = "recvPayload" => toHost # <<>>

\* As long as the phone pushes nothing, what is under way is c's current
\* command or the answer to it, behind accepts that are not answered.
Owed(c) ==
  pushed = 0 =>
    /\ pc[c] \in {"recvHeader", "recvPayload"} => op[c] # "accept"
    /\ pc[c] = "recvPayload" => toHost = <<Cmd(c, "payload")>> /\ hdr[c] = Cmd(c, "header")
    /\ pc[c] = "recvHeader" => toHost = <<>> \/ toHost = Answer(Cmd(c, "header"))
    /\ pc[c] \notin {"recvHeader", "recvPayload"} => toHost = <<>>
    /\ ~closed =>
         /\ toHost # <<>> => toPhone = <<>>
         /\ \A p \in 1 .. Len(toPhone) : toPhone[p].op # "accept" =>
              /\ pc[c] \in {"sendPayload", "recvHeader"}
              /\ toPhone[p] = Cmd(c, toPhone[p].part)
              /\ toPhone[p].part = "header" =>
                   p = Len(toPhone) \/ (p + 1 = Len(toPhone) /\ Opens(toPhone[p]))

\* What c has made of the answers so far.
Heard(c) ==
  pushed = 0 =>
    /\ pc[c] = "idle" /\ result[c] = "ok" /\ IsAnswered(op[c]) => origin[c] = <<c, count[c]>>
    /\ ~closed /\ c \in Monitors => missStreak[c] = 0

LinkInv(c) == SentFramed(c) /\ ReadFramed(c) /\ Owed(c) /\ Heard(c)

\* A client without a call has nothing to show, and monitors only beat.
Untouched ==
  \A c \in Clients :
    /\ count[c] = 0 => pc[c] = "idle" /\ result[c] = "none"
    /\ count[c] = 0 /\ c \in Monitors => missStreak[c] = 0
    /\ c \in Monitors /\ pc[c] # "idle" => op[c] = "beat"

IInv ==
  /\ TypeOK
  /\ Untouched
  /\ ~starved => \A c \in Clients : OnlyCaller(c) => LinkInv(c)

-----------------------------------------------------------------------------
(* The sequences on the wire.                                              *)

LEMMA HalfType ==
  ASSUME NEW part \in {"header", "payload", "none"}, NEW o \in Ops,
         NEW e \in Clients \cup {Phone}, NEW k \in Nat
  PROVE  /\ Half(part, o, e, k) \in Halves
         /\ Half(part, o, e, k).part = part /\ Half(part, o, e, k).op = o
         /\ Half(part, o, e, k).from = e /\ Half(part, o, e, k).n = k
BY DEF Half, Halves

LEMMA OpsContain ==
  /\ Commands \subseteq Ops /\ "beat" \in Ops /\ "oracle" \in Ops /\ "ping" \in Ops
  /\ NoHalf \in Halves
<1>1. Commands \subseteq Ops /\ "beat" \in Ops /\ "oracle" \in Ops /\ "ping" \in Ops
  BY DEF Ops, Commands
<1> QED
  BY <1>1, HalfType DEF NoHalf

\* A half added at the end.
LEMMA AppendOne ==
  ASSUME NEW s \in Seq(Halves), NEW h \in Halves
  PROVE  /\ Append(s, h) \in Seq(Halves) /\ Append(s, h) # <<>>
         /\ Len(s) \in Nat /\ Len(Append(s, h)) = Len(s) + 1
         /\ \A p \in 1 .. Len(s) : Append(s, h)[p] = s[p] /\ s[p] \in Halves
         /\ Append(s, h)[Len(s) + 1] = h
BY AppendProperties, ElementOfSeq, LenProperties

\* The first half taken off.
LEMMA TakeOne ==
  ASSUME NEW s \in Seq(Halves), s # <<>>
  PROVE  /\ Tail(s) \in Seq(Halves) /\ Head(s) \in Halves /\ Head(s) = s[1]
         /\ Len(s) \in Nat /\ Len(s) >= 1 /\ Len(Tail(s)) = Len(s) - 1
         /\ \A p \in 1 .. Len(s) - 1 : Tail(s)[p] = s[p + 1]
         /\ \A p \in 1 .. Len(s) : s[p] \in Halves
         /\ Len(s) = 1 <=> Tail(s) = <<>>
<1>1. Len(s) \in Nat /\ Len(s) >= 1
  BY EmptySeq
<1>2. /\ Tail(s) \in Seq(Halves) /\ Head(s) \in Halves /\ Len(Tail(s)) = Len(s) - 1
      /\ \A p \in 1 .. Len(s) - 1 : Tail(s)[p] = s[p + 1]
  BY <1>1, HeadTailProperties
<1>3. \A p \in 1 .. Len(s) : s[p] \in Halves
  BY ElementOfSeq
<1>4. Len(s) = 1 <=> Tail(s) = <<>>
  BY <1>1, <1>2, EmptySeq
<1> QED
  BY <1>1, <1>2, <1>3, <1>4

\* The first k halves taken off.
LEMMA TakeMore ==
  ASSUME NEW s \in Seq(Halves), NEW k \in Nat, k <= Len(s)
  PROVE  /\ SubSeq(s, k + 1, Len(s)) \in Seq(Halves)
         /\ Len(SubSeq(s, k + 1, Len(s))) = Len(s) - k
         /\ \A p \in 1 .. Len(s) - k : SubSeq(s, k + 1, Len(s))[p] = s[p + k]
<1>1. Len(s) \in Nat /\ k + 1 \in Int
  BY LenProperties
<1>2. \A p \in k + 1 .. Len(s) : s[p] \in Halves
  BY <1>1, ElementOfSeq
<1>3. /\ SubSeq(s, k + 1, Len(s)) \in Seq(Halves)
      /\ Len(SubSeq(s, k + 1, Len(s))) = IF k + 1 <= Len(s) THEN Len(s) - (k + 1) + 1 ELSE 0
      /\ \A p \in 1 .. Len(s) - (k + 1) + 1 : SubSeq(s, k + 1, Len(s))[p] = s[(k + 1) + p - 1]
  BY <1>1, <1>2, SubSeqProperties
<1> QED
  BY <1>1, <1>3

\* What answers a command: nothing, a header, or a header and its payload.
LEMMA AnswerShape ==
  ASSUME NEW h \in Halves
  PROVE  /\ Answer(h) \in Seq(Halves)
         /\ ~IsAnswered(h.op) => Answer(h) = <<>>
         /\ IsAnswered(h.op) => Answer(h) # <<>> /\ Head(Answer(h)) = [h EXCEPT !.part = "header"]
         /\ IsAnswered(h.op) /\ AnswerHasPayload(h.op) =>
              Tail(Answer(h)) = <<[h EXCEPT !.part = "payload"]>>
         /\ IsAnswered(h.op) /\ ~AnswerHasPayload(h.op) => Tail(Answer(h)) = <<>>
<1> DEFINE a == Half("header", h.op, h.from, h.n)
           b == Half("payload", h.op, h.from, h.n)
<1>1. a = [h EXCEPT !.part = "header"] /\ b = [h EXCEPT !.part = "payload"]
  BY DEF Half, Halves
<1>2. a \in Halves /\ b \in Halves
  BY DEF Half, Halves
<1>3. Answer(h) = IF ~IsAnswered(h.op) THEN <<>>
                  ELSE IF AnswerHasPayload(h.op) THEN <<a, b>> ELSE <<a>>
  BY DEF Answer
<1> HIDE DEF a, b
<1> QED
  BY <1>1, <1>2, <1>3

-----------------------------------------------------------------------------
(* The end of a call.                                                      *)

\* The hysteresis keeps the monitors' states and streaks in their types.
LEMMA RuleTypes ==
  ASSUME NEW s \in States, NEW k \in Nat
  PROVE  /\ Settled(s, OnAck(s, k)) \in States
         /\ Settled(s, OnMiss(s, k)) \in States
         /\ AckStreak(s, k) \in Nat
<1>1. \A x \in States : Settled(s, <<x>>) = x /\ Settled(s, <<>>) = s
  BY DEF Settled
<1>2. Settled(s, <<"DEGRADED", "OFFLINE">>) = "OFFLINE"
  BY DEF Settled
<1>3. OnAck(s, k) \in {<<>>, <<"ONLINE">>}
  BY DEF OnAck
<1>4. OnMiss(s, k) \in {<<>>, <<"DEGRADED">>, <<"OFFLINE">>, <<"DEGRADED", "OFFLINE">>}
  BY DEF OnMiss
<1>5. {"ONLINE", "DEGRADED", "OFFLINE"} = States
  BY DEF States
<1>6. Settled(s, OnAck(s, k)) \in States
  BY <1>1, <1>3, <1>5
<1>7. Settled(s, OnMiss(s, k)) \in States
  BY <1>1, <1>2, <1>4, <1>5
<1> QED
  BY <1>6, <1>7 DEF AckStreak

\* What is left when a call has ended.
LEMMA FinishEffect ==
  ASSUME TypeOK, NEW c \in Clients, NEW good \in BOOLEAN, NEW sendFailed \in BOOLEAN,
         Finish(c, good, sendFailed)
  PROVE  /\ pc' = [pc EXCEPT ![c] = "idle"]
         /\ result' = [result EXCEPT ![c] = IF good THEN "ok" ELSE "failed"]
         /\ sidecar' \in {"ONLINE", "ERROR"}
         /\ level' \in [Monitors -> States]
         /\ ackStreak' \in [Monitors -> Nat]
         /\ missStreak' \in [Monitors -> Nat]
         /\ \A e \in Monitors \ {c} : missStreak'[e] = missStreak[e]
         /\ good /\ c \in Monitors => missStreak'[c] = 0
<1>1. CASE c \notin Monitors
  BY <1>1 DEF Finish, rule, TypeOK
<1>2. CASE c \in Monitors
  <2>1. Judge(c, good) /\ sidecar' = sidecar
    BY <1>2 DEF Finish
  <2>2. /\ level[c] \in States /\ ackStreak[c] \in Nat /\ missStreak[c] + 1 \in Nat
    BY <1>2 DEF TypeOK
  <2>3. CASE good
    <3>1. /\ level' = [level EXCEPT ![c] = Settled(level[c], OnAck(level[c], ackStreak[c]))]
          /\ ackStreak' = [ackStreak EXCEPT ![c] = AckStreak(level[c], ackStreak[c])]
          /\ missStreak' = [missStreak EXCEPT ![c] = 0]
      BY <2>1, <2>3 DEF Judge
    <3>2. /\ Settled(level[c], OnAck(level[c], ackStreak[c])) \in States
          /\ AckStreak(level[c], ackStreak[c]) \in Nat
      BY <2>2, RuleTypes
    <3> QED
      BY <1>2, <2>1, <2>3, <3>1, <3>2 DEF Finish, TypeOK
  <2>4. CASE ~good
    <3>1. /\ level' = [level EXCEPT ![c] = Settled(level[c], OnMiss(level[c], missStreak[c] + 1))]
          /\ ackStreak' = [ackStreak EXCEPT ![c] = 0]
          /\ missStreak' = [missStreak EXCEPT ![c] = missStreak[c] + 1]
      BY <2>1, <2>4 DEF Judge
    <3>2. Settled(level[c], OnMiss(level[c], missStreak[c] + 1)) \in States
      BY <2>2, RuleTypes
    <3> QED
      BY <1>2, <2>1, <2>2, <2>4, <3>1, <3>2 DEF Finish, TypeOK
  <2> QED
    BY <2>3, <2>4
<1> QED
  BY <1>1, <1>2

LEMMA FinishTypes ==
  ASSUME TypeOK, NEW c \in Clients, NEW good \in BOOLEAN, NEW sendFailed \in BOOLEAN,
         Finish(c, good, sendFailed)
  PROVE  /\ pc' \in [Clients -> {"idle", "sendHeader", "sendPayload", "recvHeader", "recvPayload"}]
         /\ result' \in [Clients -> {"none", "ok", "failed"}]
         /\ sidecar' \in {"ONLINE", "ERROR"}
         /\ level' \in [Monitors -> States]
         /\ ackStreak' \in [Monitors -> Nat]
         /\ missStreak' \in [Monitors -> Nat]
<1>1. /\ pc' = [pc EXCEPT ![c] = "idle"]
      /\ result' = [result EXCEPT ![c] = IF good THEN "ok" ELSE "failed"]
  BY FinishEffect
<1>2. /\ pc' \in [Clients -> {"idle", "sendHeader", "sendPayload", "recvHeader", "recvPayload"}]
      /\ result' \in [Clients -> {"none", "ok", "failed"}]
  BY <1>1 DEF TypeOK
<1> QED
  BY <1>2, FinishEffect

-----------------------------------------------------------------------------
(* Every variable keeps its type, whoever is on the socket.                *)

\* The command under way is a half that may be on the wire.
LEMMA CmdType ==
  ASSUME TypeOK, NEW c \in Clients, NEW part \in {"header", "payload"}
  PROVE  /\ Cmd(c, part) \in Halves
         /\ Cmd(c, part).part = part /\ Cmd(c, part).op = op[c]
         /\ Cmd(c, part).from = c /\ Cmd(c, part).n = count[c]
         /\ Cmd(c, part) = Half(part, op[c], c, count[c])
         /\ count[c] \in Nat
<1>1. op[c] \in Ops /\ count[c] \in Nat
  BY LinkAssumption DEF TypeOK
<1> QED
  BY <1>1, HalfType DEF Cmd

LEMMA BeginTypes ==
  ASSUME TypeOK, NEW c \in Clients, NEW o \in Ops, Begin(c, o)
  PROVE  TypeOK'
<1>1. count[c] + 1 \in 0 .. MaxCalls
  BY LinkAssumption DEF Begin, TypeOK
<1> QED
  BY <1>1 DEF Begin, TypeOK, wire, rule

\* The end of a send, with the half that was sent on its way.
LEMMA SendTypes ==
  ASSUME TypeOK, NEW c \in Clients, SendHeader(c) \/ SendPayload(c) \/ SendFails(c)
  PROVE  TypeOK'
<1>1. ASSUME Sent(c)
      PROVE  /\ pc' \in [Clients -> {"idle", "sendHeader", "sendPayload", "recvHeader", "recvPayload"}]
             /\ result' \in [Clients -> {"none", "ok", "failed"}]
             /\ sidecar' \in {"ONLINE", "ERROR"}
             /\ level' \in [Monitors -> States]
             /\ ackStreak' \in [Monitors -> Nat]
             /\ missStreak' \in [Monitors -> Nat]
  <2>1. CASE Awaits(op[c])
    BY <1>1, <2>1 DEF Sent, TypeOK, rule
  <2>2. CASE ~Awaits(op[c])
    <3>1. Finish(c, TRUE, FALSE)
      BY <1>1, <2>2 DEF Sent
    <3> QED
      BY <3>1, FinishTypes
  <2> QED
    BY <2>1, <2>2
<1>2. \A part \in {"header", "payload"} :
        Append(toPhone, Half(part, op[c], c, count[c])) \in Seq(Halves)
  BY CmdType, AppendOne DEF TypeOK
<1>3. CASE SendHeader(c)
  <2>1. CASE HasPayload(op[c])
    BY <1>2, <1>3, <2>1 DEF SendHeader, TypeOK, rule
  <2>2. CASE ~HasPayload(op[c])
    <3>1. Sent(c)
      BY <1>3, <2>2 DEF SendHeader
    <3> QED
      BY <1>1, <1>2, <1>3, <3>1 DEF SendHeader, TypeOK
  <2> QED
    BY <2>1, <2>2
<1>4. CASE SendPayload(c)
  BY <1>1, <1>2, <1>4 DEF SendPayload, TypeOK
<1>5. CASE SendFails(c)
  <2>1. Finish(c, FALSE, TRUE)
    BY <1>5 DEF SendFails
  <2> QED
    BY <1>5, <2>1, FinishTypes DEF SendFails, TypeOK, wire
<1> QED
  BY <1>3, <1>4, <1>5

LEMMA ReceiveTypes ==
  ASSUME TypeOK, NEW c \in Clients,
         ReceiveHeader(c) \/ NoMemory(c) \/ ReceivePayload(c) \/ ReceiveFails(c)
  PROVE  TypeOK'
<1>1. CASE ReceiveFails(c)
  <2>1. Finish(c, FALSE, FALSE)
    BY <1>1 DEF ReceiveFails
  <2> QED
    BY <1>1, <2>1, FinishTypes DEF ReceiveFails, TypeOK, wire
<1>2. ASSUME toHost # <<>>
      PROVE  /\ Tail(toHost) \in Seq(Halves) /\ Head(toHost) \in Halves
             /\ <<Head(toHost).from, Head(toHost).n>> \in (Clients \cup {Phone}) \X Nat
  BY <1>2, TakeOne DEF TypeOK, Halves
<1>3. CASE ReceiveHeader(c)
  <2> DEFINE head == Head(toHost)
             inStep == aligned /\ head.part = "header"
             good == inStep /\ Believes(c, head)
  <2>1. /\ toHost # <<>> /\ toHost' = Tail(toHost) /\ hdr' = [hdr EXCEPT ![c] = head]
        /\ UNCHANGED <<toPhone, closed, op, count, pushed, starved>>
    BY <1>3 DEF ReceiveHeader
  <2>2. aligned' \in BOOLEAN
    BY <1>3 DEF ReceiveHeader
  <2>3. CASE inStep /\ AnswerHasPayload(head.op)
    <3>1. pc' = [pc EXCEPT ![c] = "recvPayload"] /\ UNCHANGED <<result, sidecar, rule, origin>>
      BY <1>3, <2>3 DEF ReceiveHeader
    <3> QED
      BY <1>2, <2>1, <2>2, <3>1 DEF TypeOK, rule
  <2>4. CASE ~(inStep /\ AnswerHasPayload(head.op))
    <3>1. Finish(c, good, FALSE)
          /\ origin' = IF good THEN [origin EXCEPT ![c] = <<head.from, head.n>>] ELSE origin
      BY <1>3, <2>4 DEF ReceiveHeader
    <3>2. good \in BOOLEAN
      BY DEF Believes, TypeOK
    <3> HIDE DEF good
    <3> QED
      BY <1>2, <2>1, <2>2, <3>1, <3>2, FinishTypes DEF TypeOK
  <2> QED
    BY <2>3, <2>4
<1>4. CASE ReceivePayload(c)
  <2> DEFINE head == Head(toHost)
             good == /\ aligned
                     /\ head.part = "payload"
                     /\ Believes(c, [head EXCEPT !.op = hdr[c].op])
  <2>1. /\ toHost # <<>> /\ toHost' = Tail(toHost)
        /\ aligned' = (aligned /\ head.part = "payload")
        /\ Finish(c, good, FALSE)
        /\ origin' = IF good THEN [origin EXCEPT ![c] = <<head.from, head.n>>] ELSE origin
        /\ UNCHANGED <<toPhone, closed, op, count, hdr, pushed, starved>>
    BY <1>4 DEF ReceivePayload
  <2>2. good \in BOOLEAN /\ aligned' \in BOOLEAN
    BY <2>1 DEF Believes
  <2> HIDE DEF good
  <2> QED
    BY <1>2, <2>1, <2>2, FinishTypes DEF TypeOK
<1>5. CASE NoMemory(c)
  <2>1. /\ toHost # <<>> /\ toHost' = Tail(toHost) /\ starved' = TRUE
        /\ Finish(c, FALSE, FALSE)
        /\ UNCHANGED <<toPhone, closed, aligned, op, count, hdr, origin, pushed>>
    BY <1>5 DEF NoMemory
  <2> QED
    BY <1>2, <2>1, FinishTypes DEF TypeOK
<1> QED
  BY <1>1, <1>3, <1>4, <1>5

LEMMA PhoneTypes ==
  ASSUME TypeOK, PhoneAnswers \/ PhoneCloses \/ PhonePushes
  PROVE  TypeOK'
<1>1. CASE PhoneAnswers
  <2> DEFINE k == IF HasPayload(toPhone[1].op) THEN 2 ELSE 1
  <2>1. toPhone # <<>> /\ (HasPayload(toPhone[1].op) => Len(toPhone) > 1)
    BY <1>1 DEF PhoneAnswers, WholeCommand
  <2>2. k \in Nat /\ k <= Len(toPhone) /\ toPhone[1] \in Halves
    BY <2>1, TakeOne DEF TypeOK
  <2>3. toPhone' = SubSeq(toPhone, k + 1, Len(toPhone)) /\ toHost' = toHost \o Answer(toPhone[1])
    BY <1>1 DEF PhoneAnswers
  <2> HIDE DEF k
  <2>4. toPhone' \in Seq(Halves)
    BY <2>2, <2>3, TakeMore DEF TypeOK
  <2>5. toHost' \in Seq(Halves)
    BY <2>2, <2>3, AnswerShape, ConcatProperties DEF TypeOK
  <2> QED
    BY <1>1, <2>4, <2>5 DEF PhoneAnswers, TypeOK, rule
<1>2. CASE PhoneCloses
  BY <1>2 DEF PhoneCloses, TypeOK, rule
<1>3. CASE PhonePushes
  <2> DEFINE o == <<Half("header", "oracle", Phone, 0), Half("payload", "oracle", Phone, 0)>>
  <2>1. o \in Seq(Halves)
    BY HalfType, OpsContain
  <2>2. toHost' = toHost \o o
    BY <1>3 DEF PhonePushes
  <2> HIDE DEF o
  <2>3. toHost' \in Seq(Halves)
    BY <2>1, <2>2, ConcatProperties DEF TypeOK
  <2>4. pushed + 1 \in 0 .. MaxPushes
    BY <1>3, LinkAssumption DEF PhonePushes, TypeOK
  <2> QED
    BY <1>3, <2>3, <2>4 DEF PhonePushes, TypeOK, rule
<1> QED
  BY <1>1, <1>2, <1>3

LEMMA InitTypes ==
  ASSUME Init
  PROVE  TypeOK
<1>1. <<>> \in Seq(Halves) /\ "ONLINE" \in States
  BY EmptySeq DEF States
<1>2. 0 \in 0 .. MaxCalls /\ 0 \in 0 .. MaxPushes /\ 0 \in Nat
  BY LinkAssumption
<1> QED
  BY <1>1, <1>2, OpsContain DEF Init, TypeOK

\* Every variable keeps its type.
THEOREM TypeCorrect == Spec => []TypeOK
<1>1. Init => TypeOK
  BY InitTypes
<1>2. TypeOK /\ [Next]_vars => TypeOK'
  <2> SUFFICES ASSUME TypeOK, [Next]_vars PROVE TypeOK'
    OBVIOUS
  <2>1. CASE \E c \in Monitors : Begin(c, "beat")
    BY <2>1, OpsContain, BeginTypes DEF Clients
  <2>2. CASE \E c \in Commander, o \in Commands : Begin(c, o)
    BY <2>2, OpsContain, BeginTypes DEF Clients
  <2>3. CASE \E c \in Clients : Step(c)
    BY <2>3, SendTypes, ReceiveTypes DEF Step
  <2>4. CASE PhoneAnswers \/ PhoneCloses \/ PhonePushes
    BY <2>4, PhoneTypes
  <2>5. CASE UNCHANGED vars
    BY <2>5 DEF vars, wire, rule, TypeOK
  <2> QED
    BY <2>1, <2>2, <2>3, <2>4, <2>5 DEF Next
<1> QED
  BY <1>1, <1>2, PTL DEF Spec

-----------------------------------------------------------------------------
(* A client that is alone on the socket: its own steps.                    *)

\* The commands a caller does not wait for have a payload.
LEMMA WhoWaits ==
  ASSUME NEW o
  PROVE  /\ Awaits(o) <=> o # "accept"
         /\ IsAnswered(o) <=> o # "accept"
         /\ ~HasPayload(o) => Awaits(o)
BY DEF Awaits, IsAnswered, HasPayload

LEMMA BeginLink ==
  ASSUME TypeOK, NEW c \in Clients, LinkInv(c), NEW o \in Ops, Begin(c, o)
  PROVE  LinkInv(c)'
<1>1. /\ pc[c] = "idle" /\ pc'[c] = "sendHeader"
      /\ UNCHANGED <<toPhone, toHost, closed, aligned, missStreak, hdr, result, origin, pushed>>
  BY DEF Begin, TypeOK, wire, rule
<1>2. SentFramed(c)'
  BY <1>1 DEF LinkInv, SentFramed
<1>3. ReadFramed(c)'
  BY <1>1 DEF LinkInv, ReadFramed, Chained, Announces
<1>4. Owed(c)'
  BY <1>1 DEF LinkInv, Owed
<1>5. Heard(c)'
  BY <1>1 DEF LinkInv, Heard
<1> QED
  BY <1>2, <1>3, <1>4, <1>5 DEF LinkInv

\* A call that fails on a closed connection.
LEMMA FailsLink ==
  ASSUME TypeOK, NEW c \in Clients, LinkInv(c), SendFails(c) \/ ReceiveFails(c)
  PROVE  LinkInv(c)'
<1>1. /\ pc'[c] = "idle" /\ result'[c] = "failed" /\ closed
      /\ pc[c] \notin {"recvHeader", "recvPayload"} \/ toHost = <<>>
      /\ UNCHANGED <<toPhone, toHost, closed, aligned, op, count, hdr, origin, pushed>>
  <2>1. CASE SendFails(c)
    <3>1. Finish(c, FALSE, TRUE)
      BY <2>1 DEF SendFails
    <3> QED
      BY <2>1, <3>1, FinishEffect DEF SendFails, TypeOK, wire
  <2>2. CASE ReceiveFails(c)
    <3>1. Finish(c, FALSE, FALSE)
      BY <2>2 DEF ReceiveFails
    <3> QED
      BY <2>2, <3>1, FinishEffect DEF ReceiveFails, TypeOK, wire
  <2> QED
    BY <2>1, <2>2
<1>2. SentFramed(c)'
  BY <1>1 DEF LinkInv, SentFramed
<1>3. ReadFramed(c)'
  <2>1. pc[c] = "recvPayload" => toHost = <<>> /\ Len(toHost) = 0
    BY <1>1
  <2> QED
    BY <1>1, <2>1 DEF LinkInv, ReadFramed, Chained, Announces
<1>4. Owed(c)'
  BY <1>1 DEF LinkInv, Owed
<1>5. Heard(c)'
  BY <1>1 DEF LinkInv, Heard
<1> QED
  BY <1>2, <1>3, <1>4, <1>5 DEF LinkInv

LEMMA SendHeaderLink ==
  ASSUME TypeOK, NEW c \in Clients, LinkInv(c), SendHeader(c)
  PROVE  LinkInv(c)'
<1> DEFINE h == Cmd(c, "header")
           L == Len(toPhone)
<1>1. /\ pc[c] = "sendHeader" /\ ~closed
      /\ pc'[c] = IF HasPayload(op[c]) THEN "sendPayload" ELSE "recvHeader"
      /\ toPhone' = Append(toPhone, h)
      /\ UNCHANGED <<toHost, closed, aligned, op, count, hdr, result, origin, pushed, missStreak>>
  <2>1. CASE HasPayload(op[c])
    BY <2>1 DEF SendHeader, TypeOK, rule, Cmd
  <2>2. CASE ~HasPayload(op[c])
    <3>1. Sent(c) /\ Awaits(op[c])
      BY <2>2, WhoWaits DEF SendHeader
    <3> QED
      BY <2>2, <3>1 DEF SendHeader, Sent, TypeOK, rule, Cmd
  <2> QED
    BY <2>1, <2>2
<1>2. h \in Halves /\ h.part = "header" /\ h.op = op[c]
  BY CmdType
<1>3. h' = h /\ Cmd(c, "payload")' = Cmd(c, "payload")
  BY <1>1 DEF Cmd
<1> HIDE DEF h
<1>4. /\ toPhone' # <<>> /\ L \in Nat /\ Len(toPhone') = L + 1
      /\ \A p \in 1 .. L : toPhone'[p] = toPhone[p]
      /\ toPhone'[L + 1] = h
  BY <1>1, <1>2, AppendOne DEF TypeOK
<1> HIDE DEF L
<1>5. \A p \in 1 .. Len(toPhone') : p \in 1 .. L \/ p = L + 1
  BY <1>4
<1>6. /\ \A p \in 1 .. L : /\ toPhone[p].part \in {"header", "payload"}
                           /\ toPhone[p].part = "payload" => p > 1 /\ Opens(toPhone[p - 1])
                           /\ Opens(toPhone[p]) /\ p < L =>
                                toPhone[p + 1] = [toPhone[p] EXCEPT !.part = "payload"]
                           /\ Opens(toPhone[p]) => p < L
  BY <1>1, <1>4 DEF LinkInv, SentFramed, L
<1>7. SentFramed(c)'
  <2>1. ASSUME NEW p \in 1 .. Len(toPhone')
        PROVE  /\ toPhone'[p].part \in {"header", "payload"}
               /\ toPhone'[p].part = "payload" => p > 1 /\ Opens(toPhone'[p - 1])
               /\ Opens(toPhone'[p]) /\ p < Len(toPhone') =>
                    toPhone'[p + 1] = [toPhone'[p] EXCEPT !.part = "payload"]
               /\ Opens(toPhone'[p]) /\ p = Len(toPhone') => pc'[c] = "sendPayload"
    <3>1. CASE p \in 1 .. L
      <4>0. /\ toPhone[p].part = "payload" => p > 1
            /\ Opens(toPhone[p]) => p < L
        BY <1>6, <3>1, Zenon
      <4>1. toPhone[p].part = "payload" => p - 1 \in 1 .. L
        BY <1>4, <3>1, <4>0
      <4>2. Opens(toPhone[p]) => p + 1 \in 1 .. L
        BY <1>4, <3>1, <4>0
      <4> QED
        BY <1>4, <1>6, <3>1, <4>1, <4>2
    <3>2. CASE p = L + 1
      BY <1>1, <1>2, <1>4, <3>2 DEF Opens
    <3> QED
      BY <1>5, <3>1, <3>2
  <2>2. pc'[c] = "sendPayload" => HasPayload(op'[c]) /\ toPhone'[Len(toPhone')] = h
    BY <1>1, <1>4
  <2> QED
    BY <1>3, <1>4, <2>1, <2>2 DEF SentFramed, Opens, h
<1>8. ReadFramed(c)'
  BY <1>1 DEF LinkInv, ReadFramed, Chained, Announces
<1>9. Owed(c)'
  <2> SUFFICES ASSUME pushed = 0 PROVE Owed(c)'
    BY <1>1 DEF Owed
  <2>1. toHost = <<>> /\ \A p \in 1 .. L : toPhone[p].op = "accept"
    BY <1>1 DEF LinkInv, Owed, L
  <2>2. pc'[c] = "recvHeader" => op[c] # "accept"
    BY <1>1 DEF HasPayload
  <2>3. ASSUME NEW p \in 1 .. Len(toPhone'), toPhone'[p].op # "accept"
        PROVE  p = L + 1 /\ toPhone'[p] = h /\ toPhone'[p].part = "header"
    BY <1>2, <1>4, <1>5, <2>1, <2>3
  <2>4. ASSUME NEW p \in 1 .. Len(toPhone'), toPhone'[p].op # "accept"
        PROVE  /\ pc'[c] \in {"sendPayload", "recvHeader"}
               /\ toPhone'[p] = Cmd(c, toPhone[p].part)'
               /\ p = Len(toPhone')
    <3>1. p = L + 1 /\ toPhone'[p] = h /\ toPhone'[p].part = "header"
      BY <2>3, <2>4
    <3>2. Cmd(c, toPhone[p].part)' = h
      BY <1>1, <3>1 DEF h, Cmd
    <3> QED
      BY <1>1, <1>4, <3>1, <3>2
  <2>5. UNCHANGED <<toHost, op>> /\ pc'[c] \in {"sendPayload", "recvHeader"}
    BY <1>1
  <2> QED
    BY <2>1, <2>2, <2>4, <2>5 DEF Owed
<1>10. Heard(c)'
  BY <1>1 DEF LinkInv, Heard
<1> QED
  BY <1>7, <1>8, <1>9, <1>10 DEF LinkInv

LEMMA SendPayloadLink ==
  ASSUME TypeOK, NEW c \in Clients, LinkInv(c), SendPayload(c)
  PROVE  LinkInv(c)'
<1> DEFINE h == Cmd(c, "header")
           b == Cmd(c, "payload")
           L == Len(toPhone)
<1>1. /\ pc[c] = "sendPayload" /\ ~closed /\ toPhone' = Append(toPhone, b)
      /\ UNCHANGED <<toHost, closed, aligned, op, count, hdr, origin, pushed>>
      /\ Sent(c)
  BY DEF SendPayload, Cmd
<1>2. \/ op[c] # "accept" /\ pc'[c] = "recvHeader" /\ UNCHANGED <<result, missStreak>>
      \/ op[c] = "accept" /\ pc'[c] = "idle" /\ (c \in Monitors => missStreak'[c] = 0)
  <2>1. CASE op[c] # "accept"
    BY <1>1, <2>1, WhoWaits DEF Sent, TypeOK, rule
  <2>2. CASE op[c] = "accept"
    <3>1. Finish(c, TRUE, FALSE)
      BY <1>1, <2>2, WhoWaits DEF Sent
    <3> QED
      BY <2>2, <3>1, FinishEffect DEF TypeOK
  <2> QED
    BY <2>1, <2>2
<1>3. /\ h \in Halves /\ b \in Halves /\ h.part = "header" /\ b.part = "payload"
      /\ h.op = op[c] /\ b.op = op[c] /\ b = [h EXCEPT !.part = "payload"]
  BY CmdType DEF Half, Cmd
<1>4. \A part : Cmd(c, part)' = Cmd(c, part)
  BY <1>1 DEF Cmd
<1> HIDE DEF h, b
<1>5. /\ L \in Nat /\ L >= 1 /\ Len(toPhone') = L + 1
      /\ \A p \in 1 .. L : toPhone'[p] = toPhone[p]
      /\ toPhone'[L + 1] = b
      /\ toPhone[L] = h /\ Opens(h)
  <2>1. toPhone # <<>> /\ toPhone[Len(toPhone)] = h /\ HasPayload(op[c])
    BY <1>1 DEF LinkInv, SentFramed, h
  <2>2. /\ Len(toPhone) \in Nat /\ Len(toPhone') = Len(toPhone) + 1
        /\ \A p \in 1 .. Len(toPhone) : toPhone'[p] = toPhone[p]
        /\ toPhone'[Len(toPhone) + 1] = b
    BY <1>1, <1>3, AppendOne DEF TypeOK
  <2>3. Len(toPhone) >= 1
    BY <2>1, EmptySeq DEF TypeOK
  <2>4. Opens(h)
    BY <1>3, <2>1 DEF Opens
  <2> QED
    BY <2>1, <2>2, <2>3, <2>4
<1>6. /\ \A p \in 1 .. L : /\ toPhone[p].part \in {"header", "payload"}
                           /\ toPhone[p].part = "payload" => p > 1 /\ Opens(toPhone[p - 1])
                           /\ Opens(toPhone[p]) /\ p < L =>
                                toPhone[p + 1] = [toPhone[p] EXCEPT !.part = "payload"]
  BY DEF LinkInv, SentFramed
<1> HIDE DEF L
<1>7. \A p \in 1 .. Len(toPhone') : p \in 1 .. L \/ p = L + 1
  BY <1>5
<1>8. ~Opens(b)
  BY <1>3 DEF Opens
<1>9. SentFramed(c)'
  <2>1. ASSUME NEW p \in 1 .. Len(toPhone')
        PROVE  /\ toPhone'[p].part \in {"header", "payload"}
               /\ toPhone'[p].part = "payload" => p > 1 /\ Opens(toPhone'[p - 1])
               /\ Opens(toPhone'[p]) /\ p < Len(toPhone') =>
                    toPhone'[p + 1] = [toPhone'[p] EXCEPT !.part = "payload"]
               /\ ~(Opens(toPhone'[p]) /\ p = Len(toPhone'))
    <3>1. CASE p \in 1 .. L
      <4>1. /\ toPhone[p].part \in {"header", "payload"}
            /\ toPhone[p].part = "payload" => p > 1 /\ Opens(toPhone[p - 1])
            /\ Opens(toPhone[p]) /\ p < L =>
                 toPhone[p + 1] = [toPhone[p] EXCEPT !.part = "payload"]
            /\ toPhone'[p] = toPhone[p]
        BY <1>5, <1>6, <3>1, Zenon
      <4>2. p > 1 => toPhone'[p - 1] = toPhone[p - 1]
        <5>1. p > 1 => p - 1 \in 1 .. L
          BY <1>5, <3>1
        <5> QED
          BY <1>5, <5>1, Zenon
      <4>3. p < L => toPhone'[p + 1] = toPhone[p + 1]
        <5>1. p < L => p + 1 \in 1 .. L
          BY <1>5, <3>1
        <5> QED
          BY <1>5, <5>1, Zenon
      <4>4. p = L => toPhone'[p + 1] = [toPhone'[p] EXCEPT !.part = "payload"]
        BY <1>3, <1>5, <3>1
      <4>5. (p < L \/ p = L) /\ p # Len(toPhone')
        BY <1>5, <3>1
      <4> QED
        BY <4>1, <4>2, <4>3, <4>4, <4>5
    <3>2. CASE p = L + 1
      <4>1. p - 1 = L /\ p > 1 /\ p = Len(toPhone') /\ L \in 1 .. L
        BY <1>5, <3>2
      <4> QED
        BY <1>3, <1>5, <1>8, <3>2, <4>1
    <3> QED
      BY <1>7, <3>1, <3>2
  <2> QED
    BY <1>2, <2>1 DEF SentFramed, Opens
<1>10. ReadFramed(c)'
  BY <1>1, <1>2 DEF LinkInv, ReadFramed, Chained, Announces
<1>11. Owed(c)'
  <2> SUFFICES ASSUME pushed = 0 PROVE Owed(c)'
    BY <1>1 DEF Owed
  <2>1. toHost' = <<>>
    BY <1>1 DEF LinkInv, Owed
  <2>2. \A p \in 1 .. L : toPhone[p].op # "accept" =>
          /\ toPhone[p] = Cmd(c, toPhone[p].part)
          /\ toPhone[p].part = "header" => p = L \/ (p + 1 = L /\ Opens(toPhone[p]))
    BY <1>1 DEF LinkInv, Owed, L
  <2>3. ASSUME NEW p \in 1 .. Len(toPhone'), toPhone'[p].op # "accept"
        PROVE  /\ pc'[c] = "recvHeader"
               /\ toPhone'[p] = Cmd(c, toPhone'[p].part)
               /\ toPhone'[p].part = "header" => p + 1 = Len(toPhone') /\ Opens(toPhone'[p])
    <3>1. CASE p \in 1 .. L
      <4>1. /\ toPhone[p] = Cmd(c, toPhone[p].part)
            /\ toPhone[p].part = "header" => p = L \/ (p + 1 = L /\ Opens(toPhone[p]))
            /\ toPhone'[p] = toPhone[p]
        BY <1>5, <2>2, <2>3, <3>1
      <4>2. toPhone[p].op = op[c]
        <5>1. toPhone[p].part \in {"header", "payload"}
          BY <1>6, <3>1
        <5> QED
          BY <4>1, <5>1, CmdType
      <4>3. pc'[c] = "recvHeader"
        BY <1>2, <2>3, <4>1, <4>2
      <4>4. ~(p + 1 = L /\ Opens(toPhone[p]))
        <5> SUFFICES ASSUME p + 1 = L, Opens(toPhone[p]) PROVE FALSE
          OBVIOUS
        <5>1. p < L
          BY <1>5, <3>1
        <5>2. toPhone[p + 1] = [toPhone[p] EXCEPT !.part = "payload"]
          BY <1>6, <3>1, <5>1
        <5>3. toPhone[p] \in Halves
          BY <3>1, ElementOfSeq DEF TypeOK, L
        <5>4. toPhone[p + 1].part = "payload"
          BY <5>2, <5>3 DEF Halves
        <5> QED
          BY <1>3, <1>5, <5>4
      <4>5. p = L => p + 1 = Len(toPhone') /\ Opens(toPhone'[p])
        BY <1>5, <3>1
      <4> QED
        BY <4>1, <4>3, <4>4, <4>5
    <3>2. CASE p = L + 1
      BY <1>2, <1>3, <1>5, <2>3, <3>2 DEF b
    <3> QED
      BY <1>7, <3>1, <3>2
  <2>4. ASSUME NEW p \in 1 .. Len(toPhone'), toPhone'[p].op # "accept"
        PROVE  /\ pc'[c] \in {"sendPayload", "recvHeader"}
               /\ toPhone'[p] = Cmd(c, toPhone[p].part)'
               /\ toPhone'[p].part = "header" => p + 1 = Len(toPhone') /\ Opens(toPhone[p])'
    <3>1. Cmd(c, toPhone[p].part)' = Cmd(c, toPhone'[p].part)
      BY <1>1 DEF Cmd
    <3>2. Opens(toPhone[p])' <=> Opens(toPhone'[p])
      BY DEF Opens
    <3> QED
      BY <2>3, <2>4, <3>1, <3>2
  <2> QED
    BY <1>1, <1>2, <2>1, <2>4 DEF Owed
<1>12. Heard(c)'
  <2>1. op[c] = "accept" => ~IsAnswered(op'[c])
    BY <1>1, WhoWaits
  <2> QED
    BY <1>1, <1>2, <2>1 DEF LinkInv, Heard
<1> QED
  BY <1>9, <1>10, <1>11, <1>12 DEF LinkInv

\* Reading the first half leaves a chain; a payload comes next when announced.
LEMMA ChainRead ==
  ASSUME NEW s \in Seq(Halves), s # <<>>, Chained(s)
  PROVE  /\ Chained(Tail(s))
         /\ Tail(s) # <<>> => (Tail(s)[1].part = "payload" <=> Announces(s[1]))
         /\ Tail(s) = <<>> => ~Announces(s[1])
<1> DEFINE r == Tail(s)
           L == Len(s)
<1>1. /\ L \in Nat /\ L >= 1 /\ Len(r) = L - 1
      /\ \A p \in 1 .. L - 1 : r[p] = s[p + 1]
      /\ L = 1 <=> r = <<>>
  BY TakeOne
<1>2. \A p \in 1 .. L : /\ s[p].part \in {"header", "payload"}
                        /\ p < L => (s[p + 1].part = "payload" <=> Announces(s[p]))
                        /\ p = L => ~Announces(s[p])
  BY DEF Chained
<1> HIDE DEF r, L
<1>3. ASSUME NEW p \in 1 .. Len(r)
      PROVE  /\ r[p].part \in {"header", "payload"}
             /\ p < Len(r) => (r[p + 1].part = "payload" <=> Announces(r[p]))
             /\ p = Len(r) => ~Announces(r[p])
  <2>1. p + 1 \in 1 .. L /\ p \in 1 .. L - 1
    BY <1>1
  <2>2. r[p] = s[p + 1]
    BY <1>1, <2>1
  <2>3. /\ s[p + 1].part \in {"header", "payload"}
        /\ p + 1 < L => (s[(p + 1) + 1].part = "payload" <=> Announces(s[p + 1]))
        /\ p + 1 = L => ~Announces(s[p + 1])
    BY <1>2, <2>1
  <2>4. p < Len(r) => r[p + 1] = s[(p + 1) + 1] /\ p + 1 < L
    <3>1. p < Len(r) => p + 1 \in 1 .. L - 1 /\ p + 1 < L
      BY <1>1
    <3> QED
      BY <1>1, <3>1
  <2>5. p = Len(r) => p + 1 = L
    BY <1>1
  <2> QED
    BY <2>2, <2>3, <2>4, <2>5
<1>4. Chained(r)
  BY <1>3 DEF Chained
<1>5. 1 \in 1 .. L /\ (r # <<>> => 1 \in 1 .. L - 1 /\ 1 < L) /\ (r = <<>> => L = 1)
  BY <1>1
<1>6. r # <<>> => r[1] = s[1 + 1]
  BY <1>1, <1>5
<1>7. r # <<>> => (r[1].part = "payload" <=> Announces(s[1]))
  BY <1>2, <1>5, <1>6
<1>8. r = <<>> => ~Announces(s[1])
  BY <1>2, <1>5
<1> QED
  BY <1>4, <1>7, <1>8 DEF r

LEMMA ReceiveHeaderLink ==
  ASSUME TypeOK, NEW c \in Clients, LinkInv(c), c \in Monitors => op[c] = "beat",
         ReceiveHeader(c)
  PROVE  LinkInv(c)'
<1> DEFINE head == Head(toHost)
           good == aligned /\ head.part = "header" /\ Believes(c, head)
<1>1. /\ pc[c] = "recvHeader" /\ toHost # <<>> /\ toHost' = Tail(toHost)
      /\ aligned /\ head.part = "header" => aligned'
      /\ hdr' = [hdr EXCEPT ![c] = head]
      /\ UNCHANGED <<toPhone, closed, op, count, pushed>>
  BY DEF ReceiveHeader
<1>2. /\ head = toHost[1] /\ head \in Halves /\ Len(toHost) \in Nat /\ Len(toHost) >= 1
  BY <1>1, TakeOne DEF TypeOK
<1>3. aligned /\ Chained(toHost) /\ head.part = "header" /\ aligned'
  <2>1. /\ aligned /\ Chained(toHost) /\ head.part # "payload"
    BY <1>1, <1>2 DEF LinkInv, ReadFramed
  <2>2. head.part \in {"header", "payload"}
    BY <1>2, <2>1 DEF Chained
  <2> QED
    BY <1>1, <2>1, <2>2
<1>4. \/ /\ Announces(head) /\ pc'[c] = "recvPayload" /\ hdr'[c] = head
         /\ UNCHANGED <<result, origin, missStreak>>
      \/ /\ ~Announces(head) /\ pc'[c] = "idle"
         /\ result'[c] = IF Believes(c, head) THEN "ok" ELSE "failed"
         /\ Believes(c, head) => origin'[c] = <<head.from, head.n>>
         /\ c \in Monitors /\ Believes(c, head) => missStreak'[c] = 0
  <2>1. CASE AnswerHasPayload(head.op)
    BY <1>3, <2>1 DEF ReceiveHeader, TypeOK, rule, Announces
  <2>2. CASE ~AnswerHasPayload(head.op)
    <3>1. /\ Finish(c, good, FALSE)
          /\ origin' = IF good THEN [origin EXCEPT ![c] = <<head.from, head.n>>] ELSE origin
      BY <1>1, <2>2 DEF ReceiveHeader
    <3>2. good \in BOOLEAN
      BY DEF Believes
    <3>3. good <=> Believes(c, head)
      BY <1>3
    <3> HIDE DEF good
    <3>4. /\ pc' = [pc EXCEPT ![c] = "idle"]
          /\ result' = [result EXCEPT ![c] = IF good THEN "ok" ELSE "failed"]
          /\ good /\ c \in Monitors => missStreak'[c] = 0
      BY <3>1, <3>2, FinishEffect
    <3> QED
      BY <2>2, <3>1, <3>3, <3>4 DEF TypeOK, Announces
  <2> QED
    BY <2>1, <2>2
<1> HIDE DEF head, good
<1>5. SentFramed(c)'
  BY <1>1, <1>4 DEF LinkInv, SentFramed, Opens
<1>6. ReadFramed(c)'
  <2>1. /\ Chained(Tail(toHost))
        /\ Tail(toHost) # <<>> => (Tail(toHost)[1].part = "payload" <=> Announces(head))
        /\ Tail(toHost) = <<>> => ~Announces(head)
    BY <1>1, <1>2, <1>3, ChainRead DEF TypeOK
  <2>2. Chained(toHost)'
    BY <1>1, <2>1 DEF Chained, Announces
  <2> QED
    BY <1>1, <1>3, <1>4, <2>1, <2>2 DEF ReadFramed
<1>7. ASSUME pushed = 0
      PROVE  /\ head = Cmd(c, "header") /\ op[c] # "accept"
             /\ Announces(head) => Tail(toHost) = <<Cmd(c, "payload")>>
             /\ ~Announces(head) => Tail(toHost) = <<>>
  <2>1. /\ op[c] # "accept" /\ toHost = Answer(Cmd(c, "header"))
    BY <1>1, <1>7 DEF LinkInv, Owed
  <2>2. Cmd(c, "header") \in Halves /\ IsAnswered(op[c])
        /\ Cmd(c, "header").op = op[c] /\ Cmd(c, "header").part = "header"
    BY <2>1, CmdType, WhoWaits
  <2>3. [Cmd(c, "header") EXCEPT !.part = "header"] = Cmd(c, "header")
        /\ [Cmd(c, "header") EXCEPT !.part = "payload"] = Cmd(c, "payload")
    BY DEF Cmd, Half
  <2>4. /\ Head(toHost) = Cmd(c, "header")
        /\ AnswerHasPayload(op[c]) => Tail(toHost) = <<Cmd(c, "payload")>>
        /\ ~AnswerHasPayload(op[c]) => Tail(toHost) = <<>>
    BY <2>1, <2>2, <2>3, AnswerShape
  <2> QED
    BY <2>1, <2>2, <2>4 DEF head, Announces
<1>8. Owed(c)'
  <2> SUFFICES ASSUME pushed = 0 PROVE Owed(c)'
    BY <1>1 DEF Owed
  <2>1. /\ Announces(head) => toHost' = <<Cmd(c, "payload")'>> /\ hdr'[c] = Cmd(c, "header")'
        /\ ~Announces(head) => toHost' = <<>>
    <3>1. \A part : Cmd(c, part)' = Cmd(c, part)
      BY <1>1 DEF Cmd
    <3> QED
      BY <1>1, <1>4, <1>7, <3>1
  <2>2. ~closed => toPhone = <<>> /\ Len(toPhone) = 0
    BY <1>1 DEF LinkInv, Owed
  <2> QED
    BY <1>1, <1>4, <1>7, <2>1, <2>2 DEF Owed
<1>9. Heard(c)'
  <2> SUFFICES ASSUME pushed = 0 PROVE Heard(c)'
    BY <1>1 DEF Heard
  <2>1. head.from = c /\ head.n = count[c]
    BY <1>7, CmdType
  <2>2. c \in Monitors => Announces(head)
    BY <1>3, <1>7, CmdType DEF Announces, AnswerHasPayload
  <2> QED
    BY <1>1, <1>4, <2>1, <2>2 DEF LinkInv, Heard
<1> QED
  BY <1>5, <1>6, <1>8, <1>9 DEF LinkInv

LEMMA ReceivePayloadLink ==
  ASSUME TypeOK, NEW c \in Clients, LinkInv(c), c \in Monitors => op[c] = "beat",
         ReceivePayload(c)
  PROVE  LinkInv(c)'
<1> DEFINE head == Head(toHost)
           named == [head EXCEPT !.op = hdr[c].op]
           good == aligned /\ head.part = "payload" /\ Believes(c, named)
<1>1. /\ pc[c] = "recvPayload" /\ toHost # <<>> /\ toHost' = Tail(toHost)
      /\ aligned' = (aligned /\ head.part = "payload")
      /\ Finish(c, good, FALSE)
      /\ origin' = IF good THEN [origin EXCEPT ![c] = <<head.from, head.n>>] ELSE origin
      /\ UNCHANGED <<toPhone, closed, op, count, hdr, pushed>>
  BY DEF ReceivePayload
<1>2. /\ head = toHost[1] /\ head \in Halves
  BY <1>1, TakeOne DEF TypeOK
<1>3. aligned /\ Chained(toHost) /\ head.part = "payload" /\ aligned'
  BY <1>1, <1>2 DEF LinkInv, ReadFramed
<1>4. good \in BOOLEAN /\ (good <=> Believes(c, named))
  BY <1>3 DEF Believes
<1> HIDE DEF head, named, good
<1>5. /\ pc'[c] = "idle" /\ result'[c] = IF good THEN "ok" ELSE "failed"
      /\ good => origin'[c] = <<head.from, head.n>>
      /\ good /\ c \in Monitors => missStreak'[c] = 0
  <2>1. /\ pc' = [pc EXCEPT ![c] = "idle"]
        /\ result' = [result EXCEPT ![c] = IF good THEN "ok" ELSE "failed"]
        /\ good /\ c \in Monitors => missStreak'[c] = 0
    BY <1>1, <1>4, FinishEffect
  <2> QED
    BY <1>1, <2>1 DEF TypeOK
<1>6. SentFramed(c)'
  BY <1>1, <1>5 DEF LinkInv, SentFramed, Opens
<1>7. ReadFramed(c)'
  <2>1. ~Announces(head)
    BY <1>3 DEF Announces
  <2>2. /\ Chained(Tail(toHost))
        /\ Tail(toHost) # <<>> => Tail(toHost)[1].part # "payload"
    BY <1>1, <1>2, <1>3, <2>1, ChainRead DEF TypeOK
  <2>3. Chained(toHost)'
    BY <1>1, <2>2 DEF Chained, Announces
  <2> QED
    BY <1>1, <1>3, <1>5, <2>2, <2>3 DEF ReadFramed
<1>8. ASSUME pushed = 0
      PROVE  /\ op[c] # "accept" /\ Tail(toHost) = <<>>
             /\ head = Cmd(c, "payload") /\ hdr[c].op = op[c]
             /\ head.from = c /\ head.n = count[c] /\ head.op = op[c]
  <2>1. /\ op[c] # "accept" /\ toHost = <<Cmd(c, "payload")>> /\ hdr[c] = Cmd(c, "header")
    BY <1>1, <1>8 DEF LinkInv, Owed
  <2>2. Head(toHost) = Cmd(c, "payload") /\ Tail(toHost) = <<>>
    BY <2>1
  <2> QED
    BY <2>1, <2>2, CmdType DEF head
<1>9. Owed(c)'
  <2> SUFFICES ASSUME pushed = 0 PROVE Owed(c)'
    BY <1>1 DEF Owed
  <2>1. ~closed => toPhone = <<>> /\ Len(toPhone) = 0
    BY <1>1 DEF LinkInv, Owed
  <2> QED
    BY <1>1, <1>5, <1>8, <2>1 DEF Owed
<1>10. Heard(c)'
  <2> SUFFICES ASSUME pushed = 0 PROVE Heard(c)'
    BY <1>1 DEF Heard
  <2>1. c \in Monitors => good
    <3>1. named = head
      BY <1>2, <1>8 DEF named, Halves
    <3> QED
      BY <1>4, <1>8, <3>1 DEF Believes
  <2> QED
    BY <1>1, <1>5, <1>8, <2>1 DEF LinkInv, Heard
<1> QED
  BY <1>6, <1>7, <1>9, <1>10 DEF LinkInv

-----------------------------------------------------------------------------
(* A client that is alone on the socket: the steps of the phone.           *)

\* A chain that does not start with a payload can follow another.
LEMMA ChainConcat ==
  ASSUME NEW s \in Seq(Halves), NEW t \in Seq(Halves), Chained(s), Chained(t),
         t # <<>> => t[1].part = "header"
  PROVE  /\ Chained(s \o t)
         /\ s # <<>> => s \o t # <<>> /\ (s \o t)[1] = s[1]
         /\ s = <<>> => s \o t = t
<1> DEFINE u == s \o t
           L == Len(s)
           M == Len(t)
<1>1. /\ L \in Nat /\ M \in Nat /\ Len(u) = L + M /\ u \in Seq(Halves)
      /\ \A p \in 1 .. L + M : u[p] = IF p <= L THEN s[p] ELSE t[p - L]
      /\ s # <<>> => L >= 1
      /\ t # <<>> <=> M >= 1
  BY ConcatProperties, EmptySeq, LenProperties
<1>2. /\ \A p \in 1 .. L : /\ s[p].part \in {"header", "payload"}
                           /\ p < L => (s[p + 1].part = "payload" <=> Announces(s[p]))
                           /\ p = L => ~Announces(s[p])
      /\ \A p \in 1 .. M : /\ t[p].part \in {"header", "payload"}
                           /\ p < M => (t[p + 1].part = "payload" <=> Announces(t[p]))
                           /\ p = M => ~Announces(t[p])
  BY DEF Chained
<1>3. s = <<>> => u = t
  BY ConcatEmptySeq
<1> HIDE DEF u, L, M
<1>4. ASSUME NEW p \in 1 .. Len(u)
      PROVE  /\ u[p].part \in {"header", "payload"}
             /\ p < Len(u) => (u[p + 1].part = "payload" <=> Announces(u[p]))
             /\ p = Len(u) => ~Announces(u[p])
  <2>1. CASE p < L
    <3>1. p \in 1 .. L /\ p + 1 \in 1 .. L + M /\ p + 1 <= L /\ p <= L /\ p \in 1 .. L + M
          /\ p # Len(u)
      BY <1>1, <2>1
    <3>2. u[p] = s[p] /\ u[p + 1] = s[p + 1]
      BY <1>1, <3>1
    <3> QED
      BY <1>2, <2>1, <3>1, <3>2
  <2>2. CASE p = L
    <3>1. p \in 1 .. L /\ p <= L /\ p \in 1 .. L + M
      BY <1>1, <2>2
    <3>2. u[p] = s[p] /\ ~Announces(s[p]) /\ s[p].part \in {"header", "payload"}
      BY <1>1, <1>2, <2>2, <3>1
    <3>3. p < Len(u) => u[p + 1] = t[1] /\ t # <<>>
      <4>1. p < Len(u) => p + 1 \in 1 .. L + M /\ ~(p + 1 <= L) /\ p + 1 - L = 1 /\ M >= 1
        BY <1>1, <2>2
      <4> QED
        BY <1>1, <4>1
    <3> QED
      BY <3>2, <3>3
  <2>3. CASE p > L
    <3>1. /\ p - L \in 1 .. M /\ p \in 1 .. L + M /\ ~(p <= L)
          /\ p < Len(u) => /\ p - L < M /\ p + 1 \in 1 .. L + M /\ ~(p + 1 <= L)
                           /\ p + 1 - L = (p - L) + 1
          /\ p = Len(u) => p - L = M
      BY <1>1, <2>3
    <3>2. /\ u[p] = t[p - L]
          /\ p < Len(u) => u[p + 1] = t[(p - L) + 1]
      BY <1>1, <3>1
    <3>3. /\ t[p - L].part \in {"header", "payload"}
          /\ p - L < M => (t[(p - L) + 1].part = "payload" <=> Announces(t[p - L]))
          /\ p - L = M => ~Announces(t[p - L])
      BY <1>2, <3>1
    <3> QED
      BY <3>1, <3>2, <3>3
  <2> QED
    BY <1>1, <2>1, <2>2, <2>3
<1>5. Chained(u)
  BY <1>4 DEF Chained
<1>6. s # <<>> => 1 \in 1 .. L + M /\ 1 <= L /\ Len(u) >= 1
  BY <1>1
<1>7. s # <<>> => u # <<>> /\ u[1] = s[1]
  BY <1>1, <1>6, EmptySeq
<1> QED
  BY <1>3, <1>5, <1>7 DEF u

\* An answer is a chain of its own.
LEMMA AnswerChained ==
  ASSUME NEW h \in Halves
  PROVE  /\ Answer(h) \in Seq(Halves) /\ Chained(Answer(h))
         /\ Answer(h) # <<>> => Answer(h)[1].part = "header"
<1> DEFINE a == Half("header", h.op, h.from, h.n)
           b == Half("payload", h.op, h.from, h.n)
<1>1. /\ a.part = "header" /\ b.part = "payload" /\ a.op = h.op
      /\ a \in Halves /\ b \in Halves
  BY DEF Half, Halves
<1>2. \/ Answer(h) = <<>>
      \/ Answer(h) = <<a, b>> /\ AnswerHasPayload(h.op)
      \/ Answer(h) = <<a>> /\ ~AnswerHasPayload(h.op)
  BY DEF Answer
<1> HIDE DEF a, b
<1>3. Announces(b) = FALSE /\ (Announces(a) <=> AnswerHasPayload(h.op))
  BY <1>1 DEF Announces
<1>4. CASE Answer(h) = <<>>
  BY <1>4 DEF Chained
<1>5. CASE Answer(h) = <<a, b>> /\ AnswerHasPayload(h.op)
  <2>1. /\ Len(<<a, b>>) = 2 /\ <<a, b>>[1] = a /\ <<a, b>>[2] = b
        /\ \A p \in 1 .. 2 : p = 1 \/ p = 2
    OBVIOUS
  <2> QED
    BY <1>1, <1>3, <1>5, <2>1 DEF Chained
<1>6. CASE Answer(h) = <<a>> /\ ~AnswerHasPayload(h.op)
  <2>1. /\ Len(<<a>>) = 1 /\ <<a>>[1] = a /\ \A p \in 1 .. 1 : p = 1
    OBVIOUS
  <2> QED
    BY <1>1, <1>3, <1>6, <2>1 DEF Chained
<1> QED
  BY <1>2, <1>4, <1>5, <1>6

\* What the phone sends joins what is still to be read.
LEMMA HostGrows ==
  ASSUME TypeOK, NEW c \in Clients, ReadFramed(c), NEW t \in Seq(Halves), Chained(t),
         t # <<>> => t[1].part = "header", toHost' = toHost \o t, UNCHANGED <<aligned, pc>>
  PROVE  ReadFramed(c)'
<1>1. /\ Chained(toHost \o t)
      /\ toHost # <<>> => toHost \o t # <<>> /\ (toHost \o t)[1] = toHost[1]
      /\ toHost = <<>> => toHost \o t = t
  BY ChainConcat DEF TypeOK, ReadFramed
<1>2. Chained(toHost)'
  BY <1>1 DEF Chained, Announces
<1>3. toHost' # <<>> => (toHost'[1].part = "payload" <=> pc[c] = "recvPayload")
  BY <1>1 DEF ReadFramed
<1> QED
  BY <1>1, <1>2, <1>3 DEF ReadFramed

LEMMA PhoneAnswersLink ==
  ASSUME TypeOK, NEW c \in Clients, LinkInv(c), PhoneAnswers
  PROVE  LinkInv(c)'
<1> DEFINE s == toPhone
           L == Len(toPhone)
           k == IF HasPayload(s[1].op) THEN 2 ELSE 1
           r == toPhone'
<1>1. /\ ~closed /\ s # <<>> /\ s[1].part = "header"
      /\ HasPayload(s[1].op) => L > 1 /\ s[2] = [s[1] EXCEPT !.part = "payload"]
      /\ r = SubSeq(toPhone, k + 1, L)
      /\ toHost' = toHost \o Answer(s[1])
      /\ UNCHANGED <<closed, aligned, missStreak, pc, op, count, hdr, result, origin, pushed>>
  BY DEF PhoneAnswers, WholeCommand, rule
<1>2. /\ L \in Nat /\ L >= 1 /\ s[1] \in Halves /\ \A p \in 1 .. L : s[p] \in Halves
  BY <1>1, TakeOne DEF TypeOK
<1>3. /\ k \in {1, 2} /\ k <= L
      /\ k = 1 => ~Opens(s[1])
      /\ k = 2 => Opens(s[1]) /\ s[2].part = "payload"
  <2>1. HasPayload(s[1].op) => s[2].part = "payload"
    BY <1>1, <1>2 DEF Halves
  <2> QED
    BY <1>1, <1>2, <2>1 DEF Opens
<1> HIDE DEF k
<1>4. Len(r) = L - k /\ \A p \in 1 .. L - k : r[p] = s[p + k]
  <2>1. k \in Nat /\ k <= Len(toPhone) /\ toPhone \in Seq(Halves)
    BY <1>3 DEF TypeOK
  <2> QED
    BY <1>1, <2>1, TakeMore
<1>5. \A part : Cmd(c, part)' = Cmd(c, part)
  BY <1>1 DEF Cmd
<1>6. /\ \A p \in 1 .. L : /\ s[p].part \in {"header", "payload"}
                           /\ s[p].part = "payload" => p > 1 /\ Opens(s[p - 1])
                           /\ Opens(s[p]) /\ p < L => s[p + 1] = [s[p] EXCEPT !.part = "payload"]
                           /\ Opens(s[p]) /\ p = L => pc[c] = "sendPayload"
      /\ pc[c] = "sendPayload" => HasPayload(op[c]) /\ s[L] = Cmd(c, "header")
  BY <1>1 DEF LinkInv, SentFramed
<1> HIDE DEF s, L, k, r
<1>7. ~Opens(s[k])
  BY <1>3 DEF Opens
<1>8. SentFramed(c)'
  <2>1. ASSUME NEW p \in 1 .. Len(r)
        PROVE  /\ r[p].part \in {"header", "payload"}
               /\ r[p].part = "payload" => p > 1 /\ Opens(r[p - 1])
               /\ Opens(r[p]) /\ p < Len(r) => r[p + 1] = [r[p] EXCEPT !.part = "payload"]
               /\ Opens(r[p]) /\ p = Len(r) => pc[c] = "sendPayload"
    <3>1. p \in 1 .. L - k /\ p + k \in 1 .. L
      BY <1>2, <1>3, <1>4
    <3> PICK q \in 1 .. L : q = p + k
      BY <3>1
    <3>2. r[p] = s[q]
      BY <1>4, <3>1
    <3>3. /\ s[q].part \in {"header", "payload"}
          /\ s[q].part = "payload" => q > 1 /\ Opens(s[q - 1])
          /\ Opens(s[q]) /\ q < L => s[q + 1] = [s[q] EXCEPT !.part = "payload"]
          /\ Opens(s[q]) /\ q = L => pc[c] = "sendPayload"
      BY <1>6, Zenon
    <3>4. s[q].part = "payload" => p > 1 /\ Opens(r[p - 1])
      <4>1. p = 1 => q - 1 = k
        BY <1>3
      <4>2. p # 1 => p > 1 /\ p - 1 \in 1 .. L - k /\ (p - 1) + k = q - 1
        BY <1>2, <1>3, <3>1
      <4>3. p # 1 => r[p - 1] = s[q - 1]
        BY <1>4, <4>2
      <4> QED
        BY <1>7, <3>3, <4>1, <4>2, <4>3
    <3>5. p < Len(r) => q < L /\ r[p + 1] = s[q + 1]
      <4>1. p < Len(r) => q < L /\ p + 1 \in 1 .. L - k /\ (p + 1) + k = q + 1
        BY <1>2, <1>3, <1>4, <3>1
      <4> QED
        BY <1>4, <4>1
    <3>6. p = Len(r) => q = L
      BY <1>2, <1>3, <1>4
    <3> QED
      BY <3>2, <3>3, <3>4, <3>5, <3>6
  <2>2. pc[c] = "sendPayload" => HasPayload(op[c]) /\ r # <<>> /\ r[Len(r)] = Cmd(c, "header")
    <3> SUFFICES ASSUME pc[c] = "sendPayload"
                 PROVE  HasPayload(op[c]) /\ r # <<>> /\ r[Len(r)] = Cmd(c, "header")
      OBVIOUS
    <3>1. HasPayload(op[c]) /\ s[L] = Cmd(c, "header")
      BY <1>6
    <3>2. Opens(s[L])
      BY <3>1, CmdType DEF Opens
    <3>3. k # L
      BY <1>7, <3>2
    <3>4. L - k \in 1 .. L - k /\ (L - k) + k = L /\ Len(r) >= 1
      BY <1>2, <1>3, <1>4, <3>3
    <3>5. r[Len(r)] = s[L]
      BY <1>4, <3>4
    <3> QED
      BY <3>1, <3>4, <3>5
  <2> QED
    <3>1. \A p \in 1 .. Len(toPhone') :
            /\ toPhone'[p].part \in {"header", "payload"}
            /\ toPhone'[p].part = "payload" => p > 1 /\ Opens(toPhone[p - 1])'
            /\ Opens(toPhone[p])' /\ p < Len(toPhone') =>
                 toPhone'[p + 1] = [toPhone'[p] EXCEPT !.part = "payload"]
            /\ Opens(toPhone[p])' /\ p = Len(toPhone') => pc'[c] = "sendPayload"
      BY <1>1, <2>1 DEF Opens, r
    <3>2. pc'[c] = "sendPayload" =>
            /\ HasPayload(op'[c])
            /\ toPhone' # <<>> /\ toPhone'[Len(toPhone')] = Cmd(c, "header")'
      BY <1>1, <1>5, <2>2 DEF r
    <3> QED
      BY <3>1, <3>2 DEF SentFramed
<1>9. ReadFramed(c)'
  BY <1>1, <1>2, AnswerChained, HostGrows DEF LinkInv
<1>10. Owed(c)'
  <2> SUFFICES ASSUME pushed = 0 PROVE Owed(c)'
    BY <1>1 DEF Owed
  <2>1. /\ toHost = <<>> /\ pc[c] # "recvPayload"
        /\ pc[c] = "recvHeader" => op[c] # "accept"
        /\ \A p \in 1 .. L : s[p].op # "accept" =>
             /\ pc[c] \in {"sendPayload", "recvHeader"}
             /\ s[p] = Cmd(c, s[p].part)
             /\ s[p].part = "header" => p = L \/ (p + 1 = L /\ Opens(s[p]))
    BY <1>1 DEF LinkInv, Owed, ReadFramed, s, L
  <2>2. toHost' = Answer(s[1])
    BY <1>1, <1>2, <2>1, AnswerShape, ConcatEmptySeq
  <2>3. CASE s[1].op = "accept"
    <3>1. toHost' = <<>>
      BY <2>2, <2>3, <1>2, AnswerShape, WhoWaits
    <3>2. ASSUME NEW p \in 1 .. Len(r), r[p].op # "accept"
          PROVE  /\ pc[c] \in {"sendPayload", "recvHeader"}
                 /\ r[p] = Cmd(c, r[p].part)
                 /\ r[p].part = "header" => p = Len(r) \/ (p + 1 = Len(r) /\ Opens(r[p]))
      <4>1. p \in 1 .. L - k /\ p + k \in 1 .. L /\ (p + k = L => p = Len(r))
            /\ ((p + k) + 1 = L => p + 1 = Len(r))
        BY <1>2, <1>3, <1>4
      <4>2. r[p] = s[p + k]
        BY <1>4, <4>1
      <4>3. /\ pc[c] \in {"sendPayload", "recvHeader"}
            /\ s[p + k] = Cmd(c, s[p + k].part)
            /\ s[p + k].part = "header" =>
                 p + k = L \/ ((p + k) + 1 = L /\ Opens(s[p + k]))
        BY <2>1, <3>2, <4>1, <4>2
      <4> QED
        BY <4>1, <4>2, <4>3
    <3>3. ASSUME NEW p \in 1 .. Len(toPhone'), toPhone'[p].op # "accept"
          PROVE  /\ pc'[c] \in {"sendPayload", "recvHeader"}
                 /\ toPhone'[p] = Cmd(c, toPhone[p].part)'
                 /\ toPhone'[p].part = "header" =>
                      p = Len(toPhone') \/ (p + 1 = Len(toPhone') /\ Opens(toPhone[p])')
      <4>1. /\ pc[c] \in {"sendPayload", "recvHeader"}
            /\ toPhone'[p] = Cmd(c, toPhone'[p].part)
            /\ toPhone'[p].part = "header" =>
                 p = Len(toPhone') \/ (p + 1 = Len(toPhone') /\ Opens(toPhone'[p]))
        BY <3>2, <3>3 DEF r
      <4>2. Cmd(c, toPhone[p].part)' = Cmd(c, toPhone'[p].part)
        BY <1>1 DEF Cmd
      <4>3. Opens(toPhone[p])' <=> Opens(toPhone'[p])
        BY DEF Opens
      <4> QED
        BY <1>1, <4>1, <4>2, <4>3
    <3> QED
      BY <1>1, <2>1, <3>1, <3>3 DEF Owed
  <2>4. CASE s[1].op # "accept"
    <3>1. /\ pc[c] \in {"sendPayload", "recvHeader"} /\ s[1] = Cmd(c, "header")
          /\ 1 = L \/ (2 = L /\ Opens(s[1]))
      <4>1. 1 \in 1 .. L
        BY <1>2
      <4> QED
        BY <1>1, <2>1, <2>4, <4>1 DEF s
    <3>2. s[1].op = op[c]
      BY <3>1, CmdType
    <3>3. L = k
      BY <1>1, <1>3, <3>1 DEF Opens, k
    <3>4. pc[c] = "recvHeader"
      <4> SUFFICES ASSUME pc[c] = "sendPayload" PROVE FALSE
        BY <3>1
      <4>1. HasPayload(op[c]) /\ s[L] = Cmd(c, "header")
        BY <1>6
      <4> QED
        BY <1>7, <3>3, <4>1, CmdType DEF Opens
    <3>5. Len(toPhone') = 0
      BY <1>2, <1>4, <3>3 DEF r
    <3>6. \A p \in 1 .. Len(toPhone') : FALSE
      BY <3>5
    <3>7. toPhone' = <<>>
      <4>1. toPhone' \in Seq(Halves)
        BY PhoneTypes DEF TypeOK
      <4> QED
        BY <3>5, <4>1, EmptySeq
    <3>8. toHost' = Answer(Cmd(c, "header"))
      BY <2>2, <3>1
    <3>9. Answer(Cmd(c, "header"))' = Answer(Cmd(c, "header"))
      BY <1>1 DEF Cmd
    <3> QED
      BY <1>1, <2>4, <3>2, <3>4, <3>6, <3>7, <3>8, <3>9 DEF Owed
  <2> QED
    BY <2>3, <2>4
<1>11. Heard(c)'
  BY <1>1 DEF LinkInv, Heard
<1> QED
  BY <1>8, <1>9, <1>10, <1>11 DEF LinkInv

LEMMA PhoneClosesLink ==
  ASSUME TypeOK, NEW c \in Clients, LinkInv(c), PhoneCloses
  PROVE  LinkInv(c)'
<1>1. /\ closed'
      /\ UNCHANGED <<toPhone, toHost, aligned, missStreak, pc, op, count, hdr, result, origin, pushed>>
  BY DEF PhoneCloses, rule
<1>2. SentFramed(c)'
  BY <1>1 DEF LinkInv, SentFramed, Opens
<1>3. ReadFramed(c)'
  BY <1>1 DEF LinkInv, ReadFramed, Chained, Announces
<1>4. Owed(c)'
  BY <1>1 DEF LinkInv, Owed, Cmd
<1>5. Heard(c)'
  BY <1>1 DEF LinkInv, Heard
<1> QED
  BY <1>2, <1>3, <1>4, <1>5 DEF LinkInv

LEMMA PhonePushesLink ==
  ASSUME TypeOK, NEW c \in Clients, LinkInv(c), PhonePushes
  PROVE  LinkInv(c)'
<1> DEFINE a == Half("header", "oracle", Phone, 0)
           b == Half("payload", "oracle", Phone, 0)
<1>1. /\ pushed' = pushed + 1 /\ toHost' = toHost \o <<a, b>>
      /\ UNCHANGED <<toPhone, closed, aligned, missStreak, pc, op, count, hdr, result, origin>>
  BY DEF PhonePushes, rule
<1>2. pushed' # 0
  BY <1>1 DEF TypeOK
<1>3. a \in Halves /\ b \in Halves /\ a.part = "header" /\ b.part = "payload" /\ a.op = "oracle"
  BY HalfType, OpsContain
<1> HIDE DEF a, b
<1>4. <<a, b>> \in Seq(Halves) /\ <<a, b>>[1].part = "header" /\ Chained(<<a, b>>)
  <2>1. /\ Len(<<a, b>>) = 2 /\ <<a, b>>[1] = a /\ <<a, b>>[2] = b
        /\ \A p \in 1 .. 2 : p = 1 \/ p = 2
    OBVIOUS
  <2>2. Announces(a) /\ ~Announces(b)
    BY <1>3 DEF Announces, AnswerHasPayload
  <2> QED
    BY <1>3, <2>1, <2>2 DEF Chained
<1>5. SentFramed(c)'
  BY <1>1 DEF LinkInv, SentFramed, Opens, Cmd
<1>6. ReadFramed(c)'
  BY <1>1, <1>4, HostGrows DEF LinkInv
<1>7. Owed(c)' /\ Heard(c)'
  BY <1>2 DEF Owed, Heard
<1> QED
  BY <1>5, <1>6, <1>7 DEF LinkInv

-----------------------------------------------------------------------------
(* The invariant, for any clients.                                         *)

\* What a step of one client leaves to the others.
LEMMA OthersRest ==
  ASSUME TypeOK, NEW c \in Clients,
         Step(c) \/ (\E o \in Ops : Begin(c, o))
  PROVE  /\ \A e \in Clients \ {c} : pc'[e] = pc[e] /\ result'[e] = result[e] /\ op'[e] = op[e]
         /\ \A e \in Monitors \ {c} : missStreak'[e] = missStreak[e]
         /\ count[c] <= count'[c]
         /\ \A e \in Clients \ {c} : count'[e] = count[e]
         /\ Step(c) => pc[c] # "idle" /\ op' = op /\ count' = count
         /\ ~starved' => ~starved /\ ~NoMemory(c)
<1>1. CASE \E o \in Ops : Begin(c, o)
  <2> PICK o \in Ops : Begin(c, o)
    BY <1>1
  <2>1. /\ pc[c] = "idle" /\ count' = [count EXCEPT ![c] = count[c] + 1]
        /\ op' = [op EXCEPT ![c] = o] /\ pc' = [pc EXCEPT ![c] = "sendHeader"]
        /\ UNCHANGED <<result, missStreak>>
    BY DEF Begin, rule
  <2>2. count[c] \in Int /\ count'[c] = count[c] + 1
    BY <2>1, LinkAssumption DEF TypeOK
  <2>3. ~Step(c)
    BY <2>1 DEF Step, SendHeader, SendPayload, SendFails, ReceiveHeader, NoMemory,
                ReceivePayload, ReceiveFails
  <2>4. starved' = starved /\ ~NoMemory(c)
    BY <2>1 DEF Begin, NoMemory
  <2> QED
    BY <2>1, <2>2, <2>3, <2>4 DEF TypeOK
<1>2. ASSUME NEW good \in BOOLEAN, NEW f \in BOOLEAN, Finish(c, good, f)
      PROVE  /\ \A e \in Clients \ {c} : pc'[e] = pc[e] /\ result'[e] = result[e]
             /\ \A e \in Monitors \ {c} : missStreak'[e] = missStreak[e]
  BY <1>2, FinishEffect DEF TypeOK
<1>3. ASSUME Sent(c)
      PROVE  /\ \A e \in Clients \ {c} : pc'[e] = pc[e] /\ result'[e] = result[e]
             /\ \A e \in Monitors \ {c} : missStreak'[e] = missStreak[e]
  BY <1>2, <1>3 DEF Sent, TypeOK, rule
<1>4. ASSUME Step(c)
      PROVE  /\ pc[c] # "idle" /\ op' = op /\ count' = count
             /\ \A e \in Clients \ {c} : pc'[e] = pc[e] /\ result'[e] = result[e]
             /\ \A e \in Monitors \ {c} : missStreak'[e] = missStreak[e]
             /\ starved => starved'
  <2>1. CASE SendHeader(c)
    BY <1>3, <2>1 DEF SendHeader, TypeOK, rule
  <2>2. CASE SendPayload(c)
    BY <1>3, <2>2 DEF SendPayload
  <2>3. CASE SendFails(c)
    BY <1>2, <2>3 DEF SendFails
  <2>4. CASE ReceiveFails(c)
    BY <1>2, <2>4 DEF ReceiveFails
  <2>5. CASE ReceiveHeader(c)
    <3> DEFINE head == Head(toHost)
               good == aligned /\ head.part = "header" /\ Believes(c, head)
    <3>1. pc[c] = "recvHeader" /\ UNCHANGED <<op, count, starved>>
      BY <2>5 DEF ReceiveHeader
    <3>2. good \in BOOLEAN
      BY DEF Believes, TypeOK
    <3>3. \/ pc' = [pc EXCEPT ![c] = "recvPayload"] /\ UNCHANGED <<result, missStreak>>
          \/ Finish(c, good, FALSE)
      BY <2>5 DEF ReceiveHeader, rule
    <3> HIDE DEF good
    <3> QED
      BY <1>2, <3>1, <3>2, <3>3 DEF TypeOK
  <2>6. CASE ReceivePayload(c)
    <3> DEFINE head == Head(toHost)
               good == /\ aligned
                       /\ head.part = "payload"
                       /\ Believes(c, [head EXCEPT !.op = hdr[c].op])
    <3>1. pc[c] = "recvPayload" /\ UNCHANGED <<op, count, starved>> /\ Finish(c, good, FALSE)
      BY <2>6 DEF ReceivePayload
    <3>2. good \in BOOLEAN
      BY DEF Believes, TypeOK
    <3> HIDE DEF good
    <3> QED
      BY <1>2, <3>1, <3>2
  <2>7. CASE NoMemory(c)
    BY <1>2, <2>7 DEF NoMemory
  <2> QED
    BY <1>4, <2>1, <2>2, <2>3, <2>4, <2>5, <2>6, <2>7 DEF Step
<1>5. count[c] \in Nat
  BY LinkAssumption DEF TypeOK
<1>6. NoMemory(c) => starved'
  BY DEF NoMemory
<1> QED
  BY <1>1, <1>4, <1>5, <1>6

\* A step of a client keeps the invariant: the only caller it can be about
\* afterwards is that client.
LEMMA ClientKeeps ==
  ASSUME IInv, NEW c \in Clients,
         Step(c) \/ (\E o \in Ops : Begin(c, o) /\ (c \in Monitors => o = "beat"))
  PROVE  IInv'
<1> TypeOK /\ Untouched
  BY DEF IInv
<1>1. /\ \A e \in Clients \ {c} : /\ pc'[e] = pc[e] /\ result'[e] = result[e]
                                  /\ op'[e] = op[e] /\ count'[e] = count[e]
      /\ \A e \in Monitors \ {c} : missStreak'[e] = missStreak[e]
      /\ Step(c) => pc[c] # "idle" /\ op' = op /\ count' = count
      /\ ~starved' => ~starved /\ ~NoMemory(c)
  BY OthersRest
<1>2. TypeOK'
  BY BeginTypes, SendTypes, ReceiveTypes DEF Step
<1>3. count'[c] # 0 /\ (c \in Monitors => op'[c] = "beat")
  <2>1. CASE Step(c)
    BY <1>1, <2>1 DEF Untouched
  <2>2. CASE \E o \in Ops : Begin(c, o) /\ (c \in Monitors => o = "beat")
    <3>1. count' = [count EXCEPT ![c] = count[c] + 1] /\ (c \in Monitors => op'[c] = "beat")
      BY <2>2 DEF Begin, TypeOK
    <3>2. count[c] \in Nat
      BY LinkAssumption DEF TypeOK
    <3> QED
      BY <3>1, <3>2 DEF TypeOK
  <2> QED
    BY <2>1, <2>2
<1>4. Untouched'
  <2> SUFFICES ASSUME NEW e \in Clients
               PROVE  /\ count'[e] = 0 => pc'[e] = "idle" /\ result'[e] = "none"
                      /\ count'[e] = 0 /\ e \in Monitors => missStreak'[e] = 0
                      /\ e \in Monitors /\ pc'[e] # "idle" => op'[e] = "beat"
    BY DEF Untouched
  <2>1. CASE e = c
    BY <1>3, <2>1
  <2>2. CASE e # c
    BY <1>1, <2>2 DEF Untouched
  <2> QED
    BY <2>1, <2>2
<1>5. ASSUME ~starved', NEW e \in Clients, OnlyCaller(e)'
      PROVE  LinkInv(e)'
  <2>1. e = c
    BY <1>3, <1>5 DEF OnlyCaller
  <2>2. OnlyCaller(c)
    BY <1>1, <1>5, <2>1 DEF OnlyCaller
  <2>3. LinkInv(c) /\ ~NoMemory(c)
    BY <1>1, <1>5, <2>2 DEF IInv
  <2>4. Step(c) => (c \in Monitors => op[c] = "beat")
    BY <1>1 DEF Untouched
  <2>5. LinkInv(c)'
    BY <2>3, <2>4, BeginLink, SendHeaderLink, SendPayloadLink, FailsLink, ReceiveHeaderLink,
       ReceivePayloadLink DEF Step
  <2> QED
    BY <2>1, <2>5
<1> QED
  BY <1>2, <1>4, <1>5 DEF IInv

LEMMA PhoneKeeps ==
  ASSUME IInv, PhoneAnswers \/ PhoneCloses \/ PhonePushes
  PROVE  IInv'
<1> TypeOK /\ Untouched
  BY DEF IInv
<1>1. UNCHANGED <<pc, op, count, result, missStreak, starved>>
  BY DEF PhoneAnswers, PhoneCloses, PhonePushes, rule
<1>2. Untouched'
  BY <1>1 DEF Untouched
<1>3. ASSUME ~starved', NEW c \in Clients, OnlyCaller(c)'
      PROVE  LinkInv(c)'
  <2>1. LinkInv(c)
    BY <1>1, <1>3 DEF IInv, OnlyCaller
  <2> QED
    BY <2>1, PhoneAnswersLink, PhoneClosesLink, PhonePushesLink
<1> QED
  BY <1>2, <1>3, PhoneTypes DEF IInv

LEMMA InitInv == Init => IInv
<1> SUFFICES ASSUME Init PROVE IInv
  OBVIOUS
<1>1. TypeOK
  BY InitTypes
<1>2. Untouched
  BY DEF Init, Untouched
<1>3. ASSUME NEW c \in Clients PROVE LinkInv(c)
  <2>1. Len(toPhone) = 0 /\ Len(toHost) = 0 /\ \A p \in 1 .. 0 : FALSE
    BY DEF Init
  <2>2. SentFramed(c)
    BY <2>1 DEF Init, SentFramed
  <2>3. ReadFramed(c)
    BY <2>1 DEF Init, ReadFramed, Chained
  <2>4. Owed(c)
    BY <2>1 DEF Init, Owed
  <2>5. Heard(c)
    BY DEF Init, Heard
  <2> QED
    BY <2>2, <2>3, <2>4, <2>5 DEF LinkInv
<1> QED
  BY <1>1, <1>2, <1>3 DEF IInv

LEMMA StepInv == IInv /\ [Next]_vars => IInv'
<1> SUFFICES ASSUME IInv, [Next]_vars PROVE IInv'
  OBVIOUS
<1>1. CASE \E c \in Monitors : Begin(c, "beat")
  BY <1>1, OpsContain, ClientKeeps DEF Clients
<1>2. CASE \E c \in Commander, o \in Commands : Begin(c, o)
  <2> PICK c \in Commander, o \in Commands : Begin(c, o)
    BY <1>2
  <2>1. c \in Clients /\ c \notin Monitors /\ o \in Ops
    BY OpsContain, LinkAssumption DEF Clients
  <2> QED
    BY <2>1, ClientKeeps
<1>3. CASE \E c \in Clients : Step(c)
  BY <1>3, ClientKeeps
<1>4. CASE PhoneAnswers \/ PhoneCloses \/ PhonePushes
  BY <1>4, PhoneKeeps
<1>5. CASE UNCHANGED vars
  <2>1. UNCHANGED <<toPhone, toHost, closed, aligned, sidecar, pc, op, count, hdr, result, origin,
                    level, ackStreak, missStreak, pushed, starved>>
    BY <1>5 DEF vars, wire, rule
  <2>2. \A c \in Clients : OnlyCaller(c)' <=> OnlyCaller(c)
    BY <2>1 DEF OnlyCaller
  <2>3. ASSUME NEW c \in Clients, LinkInv(c) PROVE LinkInv(c)'
    <3>1. SentFramed(c)'
      BY <2>1, <2>3 DEF LinkInv, SentFramed, Opens, Cmd
    <3>2. ReadFramed(c)'
      BY <2>1, <2>3 DEF LinkInv, ReadFramed, Chained, Announces
    <3>3. Owed(c)'
      BY <2>1, <2>3 DEF LinkInv, Owed, Cmd, Opens
    <3>4. Heard(c)'
      BY <2>1, <2>3 DEF LinkInv, Heard
    <3> QED
      BY <3>1, <3>2, <3>3, <3>4 DEF LinkInv
  <2>4. TypeOK' /\ Untouched' /\ starved' = starved
    BY <2>1 DEF IInv, TypeOK, Untouched
  <2> QED
    BY <2>2, <2>3, <2>4 DEF IInv
<1> QED
  BY <1>1, <1>2, <1>3, <1>4, <1>5 DEF Next

\* Whoever calls: the types hold, monitors only beat, and a client that has
\* been alone so far has found everything as it should be.
THEOREM Invariance == Spec => []IInv
<1> QED
  BY InitInv, StepInv, PTL DEF Spec

-----------------------------------------------------------------------------
(* What a client that stays alone on the socket may rely on.               *)

\* Either one client has made all the calls, or nothing has happened at all.
AloneInv == IInv /\ (Init \/ \E c \in Clients : OnlyCaller(c))

LEMMA AloneInvariance == AloneSafely => []AloneInv
<1>1. Init => AloneInv
  BY InitInv DEF AloneInv
<1>2. AloneInv /\ [Next /\ Alone]_vars => AloneInv'
  <2> SUFFICES ASSUME AloneInv, [Next /\ Alone]_vars PROVE AloneInv'
    OBVIOUS
  <2>1. IInv'
    BY StepInv DEF AloneInv
  <2>2. CASE Next /\ Alone
    BY <2>1, <2>2 DEF AloneInv, Alone, OnlyCaller
  <2>3. CASE UNCHANGED vars
    <3>1. Init => Init'
      BY <2>3 DEF Init, vars, wire, rule
    <3>2. (\E c \in Clients : OnlyCaller(c)) => (\E c \in Clients : OnlyCaller(c)')
      BY <2>3 DEF OnlyCaller, vars
    <3> QED
      BY <2>1, <3>1, <3>2 DEF AloneInv
  <2> QED
    BY <2>2, <2>3
<1> QED
  BY <1>1, <1>2, PTL DEF AloneSafely

\* A reply that a caller alone on the socket has believed answers its own,
\* latest command.
THEOREM OwnReplies == AloneSafely => []OwnReply
<1>1. AloneInv => OwnReply
  <2>1. CASE Init
    BY <2>1 DEF Init, OwnReply
  <2>2. ASSUME IInv, NEW c \in Clients, OnlyCaller(c)
        PROVE  OwnReply
    <3>1. (~starved => Heard(c)) /\ \A e \in Clients \ {c} : result[e] = "none"
      BY <2>2 DEF IInv, LinkInv, Untouched, OnlyCaller
    <3> QED
      BY <3>1 DEF Heard, OwnReply
  <2> QED
    BY <2>1, <2>2 DEF AloneInv
<1> QED
  BY <1>1, AloneInvariance, PTL

\* A healthy phone is never taken for a missing one by a monitor that is alone
\* on the socket.
THEOREM NeverMissed == AloneSafely => []HealthyNeverMissed
<1>1. AloneInv => HealthyNeverMissed
  <2>1. CASE Init
    BY <2>1 DEF Init, HealthyNeverMissed
  <2>2. ASSUME IInv, NEW c \in Clients, OnlyCaller(c)
        PROVE  HealthyNeverMissed
    <3>1. (~starved => Heard(c)) /\ \A e \in Monitors \ {c} : missStreak[e] = 0
      BY <2>2 DEF IInv, LinkInv, Untouched, OnlyCaller, Clients
    <3> QED
      BY <3>1 DEF Heard, HealthyNeverMissed
  <2> QED
    BY <2>1, <2>2 DEF AloneInv
<1> QED
  BY <1>1, AloneInvariance, PTL

\* A client that is alone on the socket gives the phone nothing but whole
\* frames to read, and reads every header and payload where it starts, oracle
\* packets in between or not: as long as there is memory for the payloads,
\* neither side can lose its place in the stream.
THEOREM StreamsStayFramed == AloneSafely => [](~starved => aligned /\ ~Malformed)
<1>1. AloneInv => (~starved => aligned /\ ~Malformed)
  <2>1. CASE Init
    BY <2>1 DEF Init, Malformed
  <2>2. ASSUME IInv, ~starved, NEW c \in Clients, OnlyCaller(c)
        PROVE  aligned /\ ~Malformed
    <3>1. SentFramed(c) /\ aligned
      BY <2>2 DEF IInv, LinkInv, ReadFramed
    <3>2. ASSUME toPhone # <<>>
          PROVE  /\ toPhone[1].part = "header"
                 /\ HasPayload(toPhone[1].op) /\ Len(toPhone) > 1 =>
                      toPhone[2] = [toPhone[1] EXCEPT !.part = "payload"]
      <4>1. 1 \in 1 .. Len(toPhone) /\ Len(toPhone) \in Nat
        BY <2>2, <3>2, TakeOne DEF IInv, TypeOK
      <4>2. /\ toPhone[1].part \in {"header", "payload"}
            /\ toPhone[1].part = "payload" => 1 > 1 /\ Opens(toPhone[1 - 1])
            /\ Opens(toPhone[1]) /\ 1 < Len(toPhone) =>
                 toPhone[1 + 1] = [toPhone[1] EXCEPT !.part = "payload"]
        BY <3>1, <4>1 DEF SentFramed
      <4> QED
        BY <4>1, <4>2 DEF Opens
    <3> QED
      BY <3>1, <3>2 DEF Malformed
  <2> QED
    BY <2>1, <2>2 DEF AloneInv
<1> QED
  BY <1>1, AloneInvariance, PTL
=============================================================================
