---------------------------- MODULE HeartbeatProofs ----------------------------
(* Proofs about Heartbeat, for every length of a run of beats.             *)
EXTENDS Heartbeat, TLAPS

\* How the two streaks follow from the results of the beats so far.
StreakInv ==
  /\ miss_streak = missRun
  /\ missRun > 0 => ackRun = 0
  /\ ack_streak = IF state = "ONLINE" \/ due # <<>> THEN 0 ELSE ackRun

\* What the published state says about the latest beats.
LevelInv ==
  LET level == Settled(state, due) IN
  /\ level = "ONLINE" => missRun < 2
  /\ level = "DEGRADED" => missRun < 5 /\ ackRun < 3
  /\ level = "OFFLINE" => ackRun < 3

DueInv ==
  /\ pc # "publish" => due = <<>>
  /\ due # <<>> => Head(due) # state /\ (Head(due) # "ONLINE" => ackRun = 0)
  /\ pc # "callback" => told = state

IInv == TypeOK /\ StreakInv /\ LevelInv /\ DueInv

-----------------------------------------------------------------------------
\* A beat publishes nothing, or one state that is not the current one; from an
\* OFFLINE or DEGRADED phone acknowledgements lead to ONLINE only.
LEMMA PublishedByAck ==
  ASSUME NEW s \in States, NEW a \in 0 .. 2
  PROVE  /\ AckStreak(s, a) \in 0 .. 2
         /\ s = "ONLINE" => OnAck(s, a) = <<>> /\ AckStreak(s, a) = 0
         /\ s # "ONLINE" /\ a = 2 => OnAck(s, a) = <<"ONLINE">> /\ AckStreak(s, a) = 0
         /\ s # "ONLINE" /\ a < 2 => OnAck(s, a) = <<>> /\ AckStreak(s, a) = a + 1
  BY DEF AckStreak, OnAck, Recovers, States

\* What a missed beat publishes, by the state and the count of misses.
LEMMA PublishedByMiss ==
  ASSUME NEW s \in States, NEW n \in Nat, s = "ONLINE" => n <= 2
  PROVE  OnMiss(s, n) = IF s = "ONLINE" /\ n = 2 THEN <<"DEGRADED">>
                        ELSE IF s = "DEGRADED" /\ n >= 5 THEN <<"OFFLINE">>
                        ELSE <<>>
<1>1. CASE s = "ONLINE"
  BY <1>1 DEF OnMiss, Degrades, GoesOffline
<1>2. CASE s = "DEGRADED"
  BY <1>2 DEF OnMiss, Degrades, GoesOffline
<1>3. CASE s = "OFFLINE"
  BY <1>3 DEF OnMiss, Degrades, GoesOffline
<1> QED
  BY <1>1, <1>2, <1>3 DEF States

\* Nothing is due but at most one state, and Settled reads it.
LEMMA SettledState ==
  ASSUME NEW s, NEW d
  PROVE  Settled(s, <<>>) = s /\ Settled(s, <<d>>) = d
  BY DEF Settled

-----------------------------------------------------------------------------
\* The invariant holds when the manager starts.
LEMMA InitIInv == Init => IInv
<1> SUFFICES ASSUME Init PROVE IInv
  OBVIOUS
<1>1. TypeOK
  <2>1. 0 \in 0 .. 2 /\ 0 \in 0 .. MaxRun
    BY HeartbeatAssumption
  <2>2. due \in {<<>>} \cup {<<s>> : s \in States}
    BY DEF Init
  <2> QED
    BY <2>1, <2>2 DEF Init, TypeOK, States
<1>2. Settled(state, due) = "ONLINE"
  BY SettledState DEF Init
<1>3. StreakInv /\ LevelInv /\ DueInv
  BY <1>2 DEF Init, StreakInv, LevelInv, DueInv
<1> QED
  BY <1>1, <1>3 DEF IInv

\* An acknowledged beat keeps the invariant and is one of the contract.
LEMMA AckStep ==
  ASSUME IInv, JudgeAck
  PROVE  IInv' /\ Contract!Acked
<1> USE HeartbeatAssumption
<1>1. /\ due = <<>> /\ pc' = "publish" /\ state' = state /\ told' = state
      /\ miss_streak' = 0 /\ missRun' = 0 /\ ackRun' = OneMore(ackRun)
      /\ ack_streak' = AckStreak(state, ack_streak) /\ due' = OnAck(state, ack_streak)
      /\ state \in States /\ ack_streak \in 0 .. 2 /\ ackRun \in 0 .. MaxRun
      /\ OneMore(ackRun) \in 0 .. MaxRun
  BY DEF JudgeAck, IInv, TypeOK, DueInv, OneMore
<1>2. Settled(state, due) = state
  BY <1>1, SettledState
<1>3. TypeOK'
  BY <1>1, PublishedByAck DEF JudgeAck, IInv, TypeOK, States
<1>4. CASE state = "ONLINE"
  <2>1. due' = <<>> /\ ack_streak' = 0
    BY <1>1, <1>4, PublishedByAck
  <2>2. Settled(state', due') = "ONLINE"
    BY <1>1, <1>4, <2>1, SettledState
  <2>3. StreakInv' /\ LevelInv' /\ DueInv'
    BY <1>1, <1>4, <2>1, <2>2 DEF StreakInv, LevelInv, DueInv
  <2>4. Contract!Acked
    BY <1>1, <1>2, <1>4, <2>2 DEF Contract!Acked, Contract!OneMore, OneMore
  <2> QED
    BY <1>3, <2>3, <2>4 DEF IInv
<1>5. CASE state # "ONLINE"
  <2>1. ack_streak = ackRun /\ ackRun < 3
    BY <1>1, <1>2, <1>5 DEF IInv, StreakInv, LevelInv, States
  <2>2. OneMore(ackRun) = ackRun + 1
    BY <1>1, <2>1 DEF OneMore
  <2>3. CASE ackRun = 2
    <3>1. due' = <<"ONLINE">> /\ ack_streak' = 0
      BY <1>1, <1>5, <2>1, <2>3, PublishedByAck
    <3>2. Settled(state', due') = "ONLINE"
      BY <3>1, SettledState
    <3>3. StreakInv' /\ LevelInv' /\ DueInv'
      BY <1>1, <1>5, <3>1, <3>2 DEF StreakInv, LevelInv, DueInv
    <3>4. Contract!Acked
      BY <1>1, <2>2, <2>3, <3>2 DEF Contract!Acked, Contract!OneMore, OneMore
    <3> QED
      BY <1>3, <3>3, <3>4 DEF IInv
  <2>4. CASE ackRun < 2
    <3>1. due' = <<>> /\ ack_streak' = ackRun + 1
      BY <1>1, <1>5, <2>1, <2>4, PublishedByAck
    <3>2. Settled(state', due') = state
      BY <1>1, <3>1, SettledState
    <3>3. StreakInv' /\ DueInv'
      <4>1. ack_streak' = ackRun' /\ due' = <<>> /\ miss_streak' = missRun' /\ missRun' = 0
        BY <1>1, <2>2, <3>1
      <4>2. pc' # "callback" /\ told' = state'
        BY <1>1
      <4> QED
        BY <1>1, <1>5, <4>1, <4>2 DEF StreakInv, DueInv
    <3>5. LevelInv'
      BY <1>1, <1>5, <2>2, <2>4, <3>2 DEF LevelInv
    <3>4. Contract!Acked
      BY <1>1, <1>2, <2>2, <2>4, <3>2 DEF Contract!Acked, Contract!OneMore, OneMore
    <3> QED
      BY <1>3, <3>3, <3>4, <3>5 DEF IInv
  <2> QED
    BY <1>1, <2>1, <2>3, <2>4
<1> QED
  BY <1>4, <1>5

\* So does a missed one.
LEMMA MissStep ==
  ASSUME IInv, JudgeMiss
  PROVE  IInv' /\ Contract!Missed
<1> USE HeartbeatAssumption
<1>1. /\ due = <<>> /\ pc' = "publish" /\ state' = state /\ told' = state
      /\ miss_streak = missRun /\ miss_streak' = OneMore(missRun) /\ missRun' = OneMore(missRun)
      /\ ackRun' = 0 /\ ack_streak' = 0 /\ due' = OnMiss(state, OneMore(missRun))
      /\ state \in States /\ missRun \in 0 .. MaxRun
      /\ OneMore(missRun) \in 1 .. MaxRun
  BY DEF JudgeMiss, IInv, TypeOK, StreakInv, DueInv, OneMore
<1>2. Settled(state, due) = state
  BY <1>1, SettledState
<1>3. /\ state = "ONLINE" => missRun < 2 /\ OneMore(missRun) = missRun + 1
      /\ state = "DEGRADED" => missRun < 5 /\ OneMore(missRun) = missRun + 1
  BY <1>1, <1>2 DEF IInv, LevelInv, OneMore
<1>4. due' = IF state = "ONLINE" /\ missRun = 1 THEN <<"DEGRADED">>
             ELSE IF state = "DEGRADED" /\ missRun = 4 THEN <<"OFFLINE">>
             ELSE <<>>
  BY <1>1, <1>3, PublishedByMiss
<1>5. Settled(state', due') = IF state = "ONLINE" /\ missRun = 1 THEN "DEGRADED"
                              ELSE IF state = "DEGRADED" /\ missRun = 4 THEN "OFFLINE"
                              ELSE state
  BY <1>1, <1>4, SettledState
<1>6. TypeOK'
  BY <1>1, <1>4 DEF JudgeMiss, IInv, TypeOK, States
<1>7. StreakInv'
  BY <1>1 DEF StreakInv
<1>8. LevelInv'
  BY <1>1, <1>3, <1>5 DEF LevelInv
<1>9. DueInv'
  BY <1>1, <1>4 DEF DueInv
<1>10. Contract!Missed
  BY <1>1, <1>2, <1>3, <1>5 DEF Contract!Missed, Contract!OneMore, OneMore, States
<1> QED
  BY <1>6, <1>7, <1>8, <1>9, <1>10 DEF IInv

\* Publishing brings the state to what was settled when the beat was judged.
LEMMA PublishStep ==
  ASSUME IInv, Publish
  PROVE  IInv' /\ UNCHANGED Contract!vars
<1>1. PICK s \in States : due = <<s>>
  BY DEF Publish, IInv, TypeOK
<1>2. /\ due' = <<>> /\ state' = s /\ pc' = "callback" /\ s # state /\ told' = told
      /\ UNCHANGED <<loopVars, ok, stop_flag, owner, phone>>
      /\ (s # "ONLINE" => ackRun = 0)
  BY <1>1 DEF Publish, IInv, DueInv
<1>3. Settled(state', due') = s /\ Settled(state, due) = s
  BY <1>1, <1>2, SettledState
<1>4. TypeOK'
  BY <1>1, <1>2 DEF IInv, TypeOK, loopVars
<1>5. StreakInv' /\ LevelInv' /\ DueInv'
  BY <1>1, <1>2, <1>3 DEF IInv, StreakInv, LevelInv, DueInv, loopVars
<1> QED
  BY <1>2, <1>3, <1>4, <1>5 DEF IInv, Contract!vars, loopVars

\* No other step of the worker, the owner or the phone matters to the contract.
LEMMA OtherStep ==
  ASSUME IInv,
         \/ ThreadReturns \/ SendBeat \/ ReceiveReply \/ Callback \/ Sleep
         \/ Stop \/ Joined \/ PhoneChanges \/ UNCHANGED vars
  PROVE  IInv' /\ UNCHANGED Contract!vars
<1>1. /\ UNCHANGED <<state, loopVars, due>>
      /\ pc' = pc \/ due = <<>>
  BY DEF ThreadReturns, SendBeat, ReceiveReply, Callback, Sleep, Stop, Joined,
         PhoneChanges, vars, IInv, DueInv
<1>2. TypeOK'
  BY DEF ThreadReturns, SendBeat, ReceiveReply, Callback, Sleep, Stop, Joined,
         PhoneChanges, vars, loopVars, IInv, TypeOK
<1>3. StreakInv' /\ LevelInv' /\ UNCHANGED Contract!vars
  BY <1>1 DEF IInv, StreakInv, LevelInv, loopVars, Contract!vars
<1>4. DueInv'
  <2>1. pc' # "callback" => told' = state
    BY DEF ThreadReturns, SendBeat, ReceiveReply, Callback, Sleep, Stop, Joined,
           PhoneChanges, vars, IInv, DueInv
  <2> QED
    BY <1>1, <2>1 DEF IInv, DueInv, loopVars
<1> QED
  BY <1>2, <1>3, <1>4 DEF IInv

-----------------------------------------------------------------------------
\* The invariant is inductive, and every step keeps the contract.
LEMMA AnyStep ==
  ASSUME IInv, [Next]_vars
  PROVE  IInv' /\ [Contract!Next]_(Contract!vars)
<1>1. CASE JudgeAck
  BY <1>1, AckStep DEF Contract!Next
<1>2. CASE JudgeMiss
  BY <1>2, MissStep DEF Contract!Next
<1>3. CASE Publish
  BY <1>3, PublishStep
<1>4. CASE \/ ThreadReturns \/ SendBeat \/ ReceiveReply \/ Callback \/ Sleep
           \/ Stop \/ Joined \/ PhoneChanges \/ UNCHANGED vars
  BY <1>4, OtherStep
<1> QED
  BY <1>1, <1>2, <1>3, <1>4 DEF Next, Worker

\* The invariant behind the theorems below.
THEOREM Invariance == Spec => []IInv
<1>1. IInv /\ [Next]_vars => IInv'
  BY AnyStep
<1> QED
  BY InitIInv, <1>1, PTL DEF Spec

\* The worker's variables keep their types: a beat never has more than one
\* state to publish, and an acknowledgement streak never passes two.
THEOREM TypeCorrect == Spec => []TypeOK
<1>1. IInv => TypeOK
  BY DEF IInv
<1> QED
  BY <1>1, Invariance, PTL

\* Between beats the callback has been given the published state.
THEOREM CallbackFollows == Spec => []CallbackInStep
<1>1. IInv => CallbackInStep
  BY DEF IInv, DueInv, CallbackInStep
<1> QED
  BY <1>1, Invariance, PTL

\* The published state is the header's: degraded after two missed beats in a
\* row, offline after five, online again after three acknowledged ones.
THEOREM HeartbeatKeepsContract == Spec => KeepsContract
<1>1. Init => Contract!Init
  BY SettledState DEF Init, Contract!Init
<1>2. IInv /\ [Next]_vars => [Contract!Next]_(Contract!vars)
  BY AnyStep
<1> QED
  BY <1>1, <1>2, Invariance, PTL DEF Spec, KeepsContract, Contract!Spec
=============================================================================
