---------------------------- MODULE QnnDecodeProofs ----------------------------
(***************************************************************************)
(* Proofs about QnnDecode and SpOracle, for every vocabulary, every length *)
(* of drafts and every number of tokens asked for.                         *)
(*                                                                         *)
(* The loop's properties speak of its head.  The invariant says what is    *)
(* true in the middle of a turn: how much of the round the oracle has      *)
(* committed (HistoryInv), and which steps run with drafts in the context  *)
(* (CtxInv leaves out "draft" and "rollBack").                             *)
(***************************************************************************)
EXTENDS QnnDecode, SequenceTheorems, TLAPS

Beginning == {"prefill", "prefillOracle", "prime", "first"}
InRound == {"draft", "rollBack", "verify", "advance"}
InTurn == InRound \cup {"single", "resync", "append"}
InLoop == InTurn \cup {"head"}

\* The text: empty before the loop, without an end of text in it.
TextInv ==
  /\ pc \in Beginning => out = <<>> /\ i = 1
  /\ pc \in InLoop => Len(out) = i /\ \A n \in 1 .. Len(out) : out[n] # Eos
  /\ pc \in InTurn => i < n_predict

\* A round has drafts, and one that is verified leaves room below n_predict.
RoundInv ==
  /\ pc \in InRound => Len(draft_seq) \in 1 .. NDraft
  /\ pc \in {"verify", "advance"} => i + Len(draft_seq) < n_predict
  /\ pc = "advance" =>
       /\ Len(verified) = Len(draft_seq) + 1
       /\ n_accepted <= Len(draft_seq)
       /\ k <= n_accepted + 2

\* What the oracle has committed at each step.
HistoryInv ==
  /\ pc \in InRound \cup {"prefillOracle", "prime", "resync"} => Usable
  /\ pc = "prime" => history = <<>>
  /\ pc = "first" /\ Usable => history = <<next_id>>
  /\ pc \in {"head", "draft", "rollBack", "verify", "single", "resync"} /\ Usable => history = out
  /\ pc = "append" /\ Usable => history = Append(out, next_id)
  /\ pc = "advance" => history = out \o SubSeq(verified, 1, k - 1)

\* Outside of drafts the context is the history, unless a decode has failed.
CtxInv ==
  /\ pc \in InLoop \cup {"prime", "first"} /\ Usable => ctx \in Seq(Tokens)
  /\ pc \in {"prime", "first", "head", "verify", "advance", "single", "resync", "append"}
       /\ Usable /\ ~slipped => ctx = history /\ logits_buf = history
  /\ pc = "verify" => ~slipped

IInv ==
  /\ TypeOK /\ TextBounded /\ EosIsLast
  /\ TextInv /\ RoundInv /\ HistoryInv /\ CtxInv

\* What is true of the program's state when a call begins.
LEMMA InitIInv == Init => IInv
<1> SUFFICES ASSUME Init PROVE IInv
  OBVIOUS
<1> USE OracleAssumption, GenerateAssumption DEF Init, InitOracle
<1>1. TypeOK
  <2>1. FlagsOK  BY DEF FlagsOK
  <2>2. ValuesOK  BY EmptySeq DEF ValuesOK
  <2> QED  BY <2>1, <2>2 DEF TypeOK
<1>2. TextBounded  BY DEF TextBounded, Beginning, InRound, InTurn, InLoop
<1>3. EosIsLast  BY DEF EosIsLast, Beginning, InRound, InTurn, InLoop
<1>4. TextInv  BY DEF TextInv, Beginning, InRound, InTurn, InLoop
<1>5. RoundInv  BY DEF RoundInv, Beginning, InRound, InTurn, InLoop
<1>6. HistoryInv  BY DEF HistoryInv, Beginning, InRound, InTurn, InLoop
<1>7. CtxInv  BY DEF CtxInv, Beginning, InRound, InTurn, InLoop
<1> QED  BY <1>1, <1>2, <1>3, <1>4, <1>5, <1>6, <1>7 DEF IInv

\* A committed token follows the history, and the context and the logits with it
\* as long as no decode fails.
LEMMA CommitLemma ==
  ASSUME NEW tok \in Tokens, Commit(tok),
         ctx \in Seq(Tokens), history \in Seq(Tokens), slipped \in BOOLEAN,
         logits_buf \in Seq(Tokens) \cup {Nothing}
  PROVE  /\ history' = Append(history, tok) /\ history' \in Seq(Tokens)
         /\ ctx' \in Seq(Tokens)
         /\ logits_buf' \in Seq(Tokens) \cup {Nothing}
         /\ slipped' \in BOOLEAN
         /\ ~slipped /\ ctx = history /\ ~slipped' => ctx' = history' /\ logits_buf' = history'
         /\ ~slipped' => ~slipped
         /\ UNCHANGED <<ready_, draft_seq>>
<1> USE DEF Commit
<1>1. history' = Append(history, tok) /\ UNCHANGED <<ready_, draft_seq>>
  OBVIOUS
<1>2. Append(history, tok) \in Seq(Tokens) /\ Append(ctx, tok) \in Seq(Tokens)
  OBVIOUS
<1>3. CASE RunOne(tok) /\ UNCHANGED slipped
  BY <1>1, <1>2, <1>3 DEF RunOne
<1>4. CASE RunOneFails(tok) /\ slipped' = TRUE
  <2>1. ctx' \in {ctx, Append(ctx, tok)} /\ logits_buf' \in {logits_buf, Nothing}
    BY <1>4 DEF RunOneFails
  <2> QED  BY <1>1, <1>2, <1>4, <2>1
<1> QED  BY <1>3, <1>4

\* A call begins, and the prompt goes through the processor and the oracle.
LEMMA BeginStep ==
  ASSUME IInv, Generate \/ Prefill \/ OraclePrefilled \/ OracleDetached \/ FirstToken
  PROVE  IInv'
<1> USE OracleAssumption, GenerateAssumption DEF IInv, TypeOK, FlagsOK, ValuesOK, TextBounded, EosIsLast,
      TextInv, RoundInv, HistoryInv, CtxInv, Beginning, InRound, InTurn, InLoop, Usable
<1>1. CASE Generate
  <2>1. TypeOK'
    <3>1. FlagsOK'  BY <1>1, EmptySeq DEF Generate, oracleVars
    <3>2. ValuesOK'  BY <1>1, EmptySeq DEF Generate, oracleVars
    <3> QED  BY <3>1, <3>2
  <2>2. TextBounded'  BY <1>1 DEF Generate, oracleVars
  <2>3. EosIsLast'  BY <1>1 DEF Generate, oracleVars
  <2>4. TextInv'  BY <1>1 DEF Generate, oracleVars
  <2>5. RoundInv'  BY <1>1 DEF Generate, oracleVars
  <2>6. HistoryInv'  BY <1>1 DEF Generate, oracleVars
  <2>7. CtxInv'  BY <1>1 DEF Generate, oracleVars
    <2> QED  BY <2>1, <2>2, <2>3, <2>4, <2>5, <2>6, <2>7
<1>2. CASE Prefill  BY <1>2 DEF Prefill, oracleVars
<1>3. CASE OraclePrefilled
  <2>1. TypeOK'
    <3>1. FlagsOK'  BY <1>3 DEF OraclePrefilled, PrefillOracle, callVars
    <3>2. ValuesOK'  BY <1>3 DEF OraclePrefilled, PrefillOracle, callVars
    <3> QED  BY <3>1, <3>2
  <2>2. TextBounded'  BY <1>3 DEF OraclePrefilled, PrefillOracle, callVars
  <2>3. EosIsLast'  BY <1>3 DEF OraclePrefilled, PrefillOracle, callVars
  <2>4. TextInv'  BY <1>3 DEF OraclePrefilled, PrefillOracle, callVars
  <2>5. RoundInv'  BY <1>3 DEF OraclePrefilled, PrefillOracle, callVars
  <2>6. HistoryInv'  BY <1>3, EmptySeq DEF OraclePrefilled, PrefillOracle, callVars
  <2>7. CtxInv'  BY <1>3 DEF OraclePrefilled, PrefillOracle, callVars
    <2> QED  BY <2>1, <2>2, <2>3, <2>4, <2>5, <2>6, <2>7
<1>4. CASE OracleDetached  BY <1>4 DEF OracleDetached, PrefillOracleFails, callVars
<1>5. CASE FirstToken  BY <1>5 DEF FirstToken, oracleVars
<1> QED  BY <1>1, <1>2, <1>3, <1>4, <1>5

\* The oracle follows the processor's single tokens.
LEMMA FollowStep == ASSUME IInv, OracleFollows PROVE IInv'
<1> USE OracleAssumption, GenerateAssumption DEF IInv, TypeOK, FlagsOK, ValuesOK, TextBounded, EosIsLast,
      TextInv, RoundInv, HistoryInv, CtxInv, Beginning, InRound, InTurn, InLoop, Usable
<1>1. /\ pc \in {"prime", "resync"} /\ Usable /\ UNCHANGED <<callVars, attached>>
      /\ ctx \in Seq(Tokens) /\ next_id \in Tokens
      /\ pc' = IF pc = "prime" THEN "first" ELSE "append"
      /\ Commit(next_id)
  BY DEF OracleFollows
<1>2. /\ history' = Append(history, next_id) /\ history' \in Seq(Tokens)
      /\ ctx' \in Seq(Tokens)
      /\ logits_buf' \in Seq(Tokens) \cup {Nothing}
      /\ slipped' \in BOOLEAN
      /\ ~slipped' => ctx' = history' /\ logits_buf' = history'
      /\ UNCHANGED <<ready_, draft_seq>>
  BY <1>1, CommitLemma
<1>3. pc = "prime" => history' = <<next_id>>
  BY <1>1, <1>2
<1> QED  BY <1>1, <1>2, <1>3 DEF callVars

\* The head of the loop, and the drafts.
LEMMA DraftStep ==
  ASSUME IInv,
         LoopEnds \/ NoOracle \/ StartDraft \/ DraftMore \/ DraftEnds \/ RolledBack \/ ReplayFails
  PROVE  IInv'
<1> USE OracleAssumption, GenerateAssumption DEF IInv, TypeOK, FlagsOK, ValuesOK, TextBounded, EosIsLast,
      TextInv, RoundInv, HistoryInv, CtxInv, Beginning, InRound, InTurn, InLoop, Usable
<1>1. CASE LoopEnds  BY <1>1 DEF LoopEnds, oracleVars, callVars
<1>2. CASE NoOracle  BY <1>2 DEF NoOracle, oracleVars, callVars
<1>3. CASE StartDraft  BY <1>3 DEF StartDraft, DraftFirst, callVars
<1>4. CASE DraftMore  BY <1>4 DEF DraftMore, DraftNext, RunOne, callVars
<1>5. CASE DraftEnds
  <2>1. /\ pc = "draft" /\ pc' = "rollBack"
        /\ UNCHANGED <<callVars, attached, history, ready_, draft_seq, slipped>>
    BY <1>5 DEF DraftEnds, DraftBreaks, oracleVars
  <2>2. /\ ctx' \in Seq(Tokens) /\ ctx' \in Seq(Tokens) \cup {Nothing}
        /\ logits_buf' \in Seq(Tokens) \cup {Nothing}
    <3>1. ctx \in Seq(Tokens) /\ draft_seq[Len(draft_seq)] \in Tokens
      BY <2>1, ElementOfSeq
    <3>2. Append(ctx, draft_seq[Len(draft_seq)]) \in Seq(Tokens)
      BY <3>1
    <3>3. /\ ctx' \in {ctx, Append(ctx, draft_seq[Len(draft_seq)])}
          /\ logits_buf' \in {logits_buf, Nothing}
      BY <1>5 DEF DraftEnds, DraftBreaks, RunOneFails, oracleVars
    <3> QED  BY <3>1, <3>2, <3>3
  <2>3. FlagsOK'  BY <2>1 DEF callVars
  <2>4. ValuesOK'  BY <2>1, <2>2 DEF callVars
  <2>5. TextBounded' /\ EosIsLast' /\ TextInv' /\ RoundInv'  BY <2>1 DEF callVars
  <2>6. HistoryInv' /\ CtxInv'  BY <2>1, <2>2 DEF callVars
  <2> QED  BY <2>3, <2>4, <2>5, <2>6
<1>6. CASE RolledBack  BY <1>6 DEF RolledBack, RollBack, Room, callVars
<1>7. CASE ReplayFails
  <2>1. TypeOK'
    <3>1. FlagsOK'  BY <1>7, EmptySeq DEF ReplayFails, RollBackFails, callVars
    <3>2. ValuesOK'  BY <1>7, EmptySeq DEF ReplayFails, RollBackFails, callVars
    <3> QED  BY <3>1, <3>2
  <2>2. TextBounded'  BY <1>7 DEF ReplayFails, RollBackFails, callVars
  <2>3. EosIsLast'  BY <1>7 DEF ReplayFails, RollBackFails, callVars
  <2>4. TextInv'  BY <1>7 DEF ReplayFails, RollBackFails, callVars
  <2>5. RoundInv'  BY <1>7 DEF ReplayFails, RollBackFails, callVars
  <2>6. HistoryInv'  BY <1>7 DEF ReplayFails, RollBackFails, callVars
  <2>7. CtxInv'  BY <1>7 DEF ReplayFails, RollBackFails, callVars
    <2> QED  BY <2>1, <2>2, <2>3, <2>4, <2>5, <2>6, <2>7
<1> QED  BY <1>1, <1>2, <1>3, <1>4, <1>5, <1>6, <1>7

\* What the processor returns for a batch is a sequence.
LEMMA BatchIsSeq ==
  ASSUME draft_seq \in Seq(Tokens), verified' \in [1 .. Len(draft_seq) + 1 -> Tokens]
  PROVE  verified' \in Seq(Tokens) /\ Len(verified') = Len(draft_seq) + 1
  OBVIOUS

\* The processor verifies a batch, predicts one token, or fails.
LEMMA PassStep == ASSUME IInv, Verify \/ SingleStep \/ PassFails PROVE IInv'
<1> USE OracleAssumption, GenerateAssumption DEF IInv, TypeOK, FlagsOK, ValuesOK, TextBounded, EosIsLast,
      TextInv, RoundInv, HistoryInv, CtxInv, Beginning, InRound, InTurn, InLoop, Usable
<1>1. CASE Verify
  <2>1. /\ verified' \in [1 .. Len(draft_seq) + 1 -> Tokens]
        /\ n_accepted' \in 0 .. NDraft /\ n_accepted' <= Len(draft_seq)
        /\ k' = 1 /\ pc' = "advance" /\ pc = "verify"
        /\ UNCHANGED <<oracleVars, attached, n_predict, out, i, n_past, next_id>>
    BY <1>1 DEF Verify, Accepted
  <2>2. verified' \in Seq(Tokens) /\ Len(verified') = Len(draft_seq) + 1
    <3>1. draft_seq \in Seq(Tokens)
      OBVIOUS
    <3> QED  BY <2>1, <3>1, BatchIsSeq
  <2>3. history' = out' \o SubSeq(verified', 1, k' - 1)
    <3>1. SubSeq(verified', 1, 0) = <<>>
      BY SubSeqEmpty
    <3>2. out \o <<>> = out
      BY ConcatEmptySeq
    <3> QED  BY <2>1, <3>1, <3>2 DEF oracleVars
  <2>4. FlagsOK'  BY <2>1 DEF oracleVars
  <2>5. ValuesOK'  BY <2>1, <2>2 DEF oracleVars
  <2>6. TextBounded' /\ EosIsLast' /\ TextInv'  BY <2>1 DEF oracleVars
  <2>7. RoundInv'
    <3>1. /\ Len(draft_seq') \in 1 .. NDraft /\ i' + Len(draft_seq') < n_predict'
          /\ Len(verified') = Len(draft_seq') + 1 /\ n_accepted' <= Len(draft_seq')
      BY <2>1, <2>2 DEF oracleVars
    <3>2. k' <= n_accepted' + 2
      <4>1. \A a \in 0 .. NDraft : 1 <= a + 2  OBVIOUS
      <4> QED  BY <2>1, <4>1
    <3> QED  BY <2>1, <3>1, <3>2
  <2>8. HistoryInv' /\ CtxInv'  BY <2>1, <2>3 DEF oracleVars
  <2> QED  BY <2>4, <2>5, <2>6, <2>7, <2>8
<1>2. CASE SingleStep  BY <1>2 DEF SingleStep, oracleVars
<1>3. CASE PassFails  BY <1>3 DEF PassFails, TurnEnds
<1> QED  BY <1>1, <1>2, <1>3

\* The oracle commits a token of the round.
LEMMA AdvanceStep == ASSUME IInv, Advance PROVE IInv'
<1>1. /\ TypeOK /\ pc = "advance" /\ pc' = pc /\ Usable /\ k \in 1 .. Len(verified) /\ k' = k + 1
      /\ k <= n_accepted + 1
      /\ Commit(verified[k]) /\ ctx \in Seq(Tokens)
      /\ history = out \o SubSeq(verified, 1, k - 1)
      /\ UNCHANGED <<attached, n_predict, out, i, n_past, next_id, verified, n_accepted>>
  BY DEF Advance, AdvanceEnds, IInv, TypeOK, ValuesOK, RoundInv, HistoryInv, CtxInv, InRound, InTurn, InLoop
<1>2. verified[k] \in Tokens
  BY <1>1, ElementOfSeq DEF TypeOK, ValuesOK
<1>3. /\ history' = Append(history, verified[k]) /\ history' \in Seq(Tokens)
      /\ ctx' \in Seq(Tokens)
      /\ logits_buf' \in Seq(Tokens) \cup {Nothing}
      /\ slipped' \in BOOLEAN
      /\ ~slipped /\ ctx = history /\ ~slipped' => ctx' = history' /\ logits_buf' = history'
      /\ ~slipped' => ~slipped
      /\ UNCHANGED <<ready_, draft_seq>>
  BY <1>1, <1>2, CommitLemma DEF TypeOK, FlagsOK, ValuesOK
<1>4. history' = out' \o SubSeq(verified', 1, k' - 1)
  <2> DEFINE before == SubSeq(verified, 1, k - 1)
  <2>1. SubSeq(verified, 1, k) = before \o <<verified[k]>>
    BY <1>1, SubSeqRecursiveSecond DEF TypeOK, ValuesOK
  <2>2. before \in Seq(Tokens)
    <3>1. \A j \in 1 .. k - 1 : verified[j] \in Tokens
      BY <1>1, ElementOfSeq DEF TypeOK, ValuesOK
    <3> QED  BY <1>1, <3>1, SubSeqProperties DEF TypeOK, ValuesOK
  <2>3. Append(history, verified[k]) = history \o <<verified[k]>> /\ <<verified[k]>> \in Seq(Tokens)
    <3>1. history \in Seq(Tokens)
      BY <1>1 DEF TypeOK, ValuesOK
    <3>2. <<verified[k]>> \in Seq(Tokens)
      BY <1>2
    <3> QED  BY <1>2, <3>1, <3>2, AppendIsConcat
  <2>4. out \in Seq(Tokens)
    BY <1>1 DEF TypeOK, ValuesOK
  <2> HIDE DEF before
  <2>5. (out \o before) \o <<verified[k]>> = out \o (before \o <<verified[k]>>)
    <3>1. <<verified[k]>> \in Seq(Tokens)
      BY <1>2
    <3> QED  BY <2>2, <2>4, <3>1, ConcatAssociative
  <2>6. history = out \o before
    BY <1>1 DEF before
  <2>7. k' - 1 = k
    BY <1>1 DEF TypeOK, ValuesOK
  <2> QED  BY <1>1, <1>3, <2>1, <2>3, <2>5, <2>6, <2>7
<1>5. TypeOK'
  <2>1. FlagsOK'  BY <1>1, <1>3 DEF TypeOK, FlagsOK
  <2>2. ValuesOK'
    <3>1. /\ ctx' \in Seq(Tokens) /\ history' \in Seq(Tokens)
          /\ logits_buf' \in Seq(Tokens) \cup {Nothing}
      BY <1>3
    <3>2. k' \in Nat \ {0}
      BY <1>1 DEF TypeOK, ValuesOK
    <3>3. UNCHANGED <<draft_seq, pc, n_predict, out, i, n_past, next_id, verified, n_accepted>>
      BY <1>1, <1>3
    <3>4. ValuesOK
      BY <1>1 DEF TypeOK
    <3> QED  BY <3>1, <3>2, <3>3, <3>4 DEF ValuesOK
  <2> QED  BY <2>1, <2>2 DEF TypeOK
<1>6. TextBounded' /\ EosIsLast' /\ TextInv'
  BY <1>1 DEF IInv, TextBounded, EosIsLast, TextInv, Beginning, InRound, InTurn, InLoop
<1>7. RoundInv'
  BY <1>1, <1>3 DEF IInv, TypeOK, ValuesOK, RoundInv, Beginning, InRound, InTurn, InLoop
<1>8. HistoryInv'
  BY <1>1, <1>3, <1>4 DEF HistoryInv, InRound, Usable
<1>9. CtxInv'
  BY <1>1, <1>3 DEF IInv, CtxInv, InRound, InTurn, InLoop, Usable
<1> QED  BY <1>5, <1>6, <1>7, <1>8, <1>9 DEF IInv

\* The tokens of a round join the text.
LEMMA CommitRoundStep == ASSUME IInv, CommitRound PROVE IInv'
<1>1. PICK n \in 1 .. n_accepted + 1 :
        /\ \A m \in 1 .. n - 1 : ~LastAccepted(m)
        /\ LastAccepted(n) \/ n = n_accepted + 1
        /\ out' = out \o SubSeq(verified, 1, n)
        /\ n_past' = n_past + (IF n <= n_accepted THEN n ELSE Len(draft_seq))
        /\ IF LastAccepted(n)
           THEN pc' = "idle" /\ UNCHANGED i
           ELSE pc' = "head" /\ i' = i + n_accepted + 1
  BY DEF CommitRound
<1>2. /\ pc = "advance" /\ Usable /\ k = n_accepted + 2
      /\ draft_seq' = <<>> /\ verified' = <<>> /\ n_accepted' = 0 /\ k' = 1
      /\ UNCHANGED <<ctx, logits_buf, history, ready_, slipped, attached, n_predict, next_id>>
  BY DEF CommitRound, AdvanceEnds, TurnEnds, IInv, TypeOK, ValuesOK, RoundInv, HistoryInv, InRound
<1>3. /\ TypeOK /\ Len(draft_seq) \in 1 .. NDraft
      /\ Len(verified) = Len(draft_seq) + 1 /\ n_accepted <= Len(draft_seq)
      /\ i + Len(draft_seq) < n_predict /\ Len(out) = i
      /\ \A m \in 1 .. Len(out) : out[m] # Eos
      /\ history = out \o SubSeq(verified, 1, k - 1)
  BY <1>2 DEF IInv, TextInv, RoundInv, HistoryInv, InRound, InTurn, InLoop
<1>4. /\ n \in 1 .. Len(verified) /\ n \in Int /\ n_accepted \in Nat /\ i \in Nat \ {0}
      /\ n_predict \in Nat /\ n_past \in Nat /\ Len(draft_seq) \in Nat
      /\ out \in Seq(Tokens) /\ verified \in Seq(Tokens)
      /\ n_predict <= MaxPredict /\ MaxPredict \in Nat
  BY <1>1, <1>3, GenerateAssumption, OracleAssumption DEF TypeOK, ValuesOK
<1>5. /\ SubSeq(verified, 1, n) \in Seq(Tokens) /\ Len(SubSeq(verified, 1, n)) = n
      /\ \A m \in 1 .. n : SubSeq(verified, 1, n)[m] = verified[m]
  <2>1. \A m \in 1 .. n : verified[m] \in Tokens
    BY <1>4, ElementOfSeq
  <2>2. /\ SubSeq(verified, 1, n) \in Seq(Tokens)
        /\ Len(SubSeq(verified, 1, n)) = IF 1 <= n THEN n - 1 + 1 ELSE 0
        /\ \A m \in 1 .. n - 1 + 1 : SubSeq(verified, 1, n)[m] = verified[1 + m - 1]
    BY <1>4, <2>1, SubSeqProperties
  <2> QED  BY <1>4, <2>2
<1>6. /\ out' \in Seq(Tokens) /\ Len(out') = i + n
      /\ \A m \in 1 .. i + n : out'[m] = IF m <= i THEN out[m] ELSE verified[m - i]
  <2> DEFINE new == SubSeq(verified, 1, n)
  <2>1. /\ new \in Seq(Tokens) /\ Len(new) = n /\ \A m \in 1 .. n : new[m] = verified[m]
        /\ out' = out \o new
    BY <1>1, <1>5
  <2> HIDE DEF new
  <2>2. /\ out' \in Seq(Tokens) /\ Len(out') = Len(out) + Len(new)
        /\ \A m \in 1 .. Len(out) + Len(new) :
             out'[m] = IF m <= Len(out) THEN out[m] ELSE new[m - Len(out)]
    BY <1>4, <2>1, ConcatProperties
  <2>3. Len(out) = i /\ Len(new) = n /\ i \in Nat /\ n \in Nat
    BY <1>3, <1>4, <2>1
  <2>4. \A m \in 1 .. i + n : ~(m <= i) => m - i \in 1 .. n
    BY <2>3
  <2> QED  BY <2>1, <2>2, <2>3, <2>4
<1>7. \A m \in 1 .. n - 1 : verified[m] # Eos
  BY <1>1 DEF LastAccepted
<1>8. EosIsLast'
  <2> SUFFICES ASSUME NEW m \in 1 .. Len(out') - 1 PROVE out'[m] # Eos
    BY DEF EosIsLast
  <2>0. m \in 1 .. i + n - 1 /\ m \in 1 .. i + n /\ m \in Nat
    <3>1. Len(out') = i + n  BY <1>6
    <3> QED  BY <1>4, <3>1
  <2>1. CASE m <= i  BY <1>3, <1>4, <1>6, <2>0, <2>1
  <2>2. CASE m > i
    <3>1. m - i \in 1 .. n - 1  BY <1>4, <2>0, <2>2
    <3>2. out'[m] = verified[m - i]  BY <1>4, <1>6, <2>0, <2>2
    <3> QED  BY <1>7, <3>1, <3>2
  <2> QED  BY <1>4, <2>0, <2>1, <2>2
<1>9. Len(out') <= n_predict /\ n_predict # 0
  BY <1>1, <1>3, <1>4, <1>6
<1>10. pc' = "head" => /\ n = n_accepted + 1 /\ Len(out') = i' /\ i' < n_predict /\ history' = out'
                       /\ \A m \in 1 .. Len(out') : out'[m] # Eos
  <2> SUFFICES ASSUME pc' = "head" PROVE
           /\ n = n_accepted + 1 /\ Len(out') = i' /\ i' < n_predict /\ history' = out'
           /\ \A m \in 1 .. Len(out') : out'[m] # Eos
    OBVIOUS
  <2>1. ~LastAccepted(n) /\ n = n_accepted + 1 /\ i' = i + n_accepted + 1
    BY <1>1
  <2>2. Len(out') = i' /\ i + n < n_predict /\ verified[n] # Eos
    BY <1>3, <1>4, <1>6, <2>1 DEF LastAccepted
  <2>3. history' = out'
    <3>1. k - 1 = n  BY <1>2, <1>4, <2>1
    <3> QED  BY <1>1, <1>2, <1>3, <3>1
  <2>4. out'[i + n] # Eos
    <3>1. i + n \in 1 .. i + n /\ ~(i + n <= i) /\ (i + n) - i = n  BY <1>4
    <3> QED  BY <1>6, <2>2, <3>1
  <2>5. ASSUME NEW m \in 1 .. Len(out') PROVE out'[m] # Eos
    <3>1. CASE m = i + n  BY <2>4, <3>1
    <3>2. CASE m # i + n
      <4>1. m \in 1 .. Len(out') - 1  BY <1>4, <1>6, <3>2
      <4> QED  BY <1>8, <4>1 DEF EosIsLast
    <3> QED  BY <3>1, <3>2
  <2> QED  BY <1>4, <2>1, <2>2, <2>3, <2>5
<1>11. /\ n_past' \in Nat /\ i' \in 1 .. MaxPredict + 1 /\ pc' \in {"idle", "head"}
  <2>1. (IF n <= n_accepted THEN n ELSE Len(draft_seq)) \in Nat
    BY <1>1, <1>4
  <2>2. n_past' \in Nat
    BY <1>1, <1>4, <2>1
  <2>3. i \in 1 .. MaxPredict + 1 /\ i + n_accepted + 1 \in 1 .. MaxPredict + 1
    <3>1. i + n_accepted < MaxPredict
      BY <1>3, <1>4
    <3> QED  BY <1>4, <3>1
  <2> QED  BY <1>1, <2>2, <2>3
<1>12. TypeOK'
  <2>1. FlagsOK'  BY <1>2, <1>3 DEF TypeOK, FlagsOK
  <2>2. ValuesOK'
    <3>1. /\ UNCHANGED <<ctx, logits_buf, history, n_predict, next_id>>
          /\ draft_seq' = <<>> /\ verified' = <<>> /\ n_accepted' = 0 /\ k' = 1
      BY <1>2
    <3>2. ValuesOK /\ out' \in Seq(Tokens)
      BY <1>3, <1>6 DEF TypeOK
    <3>3. <<>> \in Seq(Tokens) /\ Len(<<>>) = 0 /\ 0 <= NDraft /\ 0 \in 0 .. NDraft
      BY OracleAssumption
    <3> QED  BY <1>11, <3>1, <3>2, <3>3 DEF ValuesOK
  <2> QED  BY <2>1, <2>2 DEF TypeOK
<1>13. TextBounded' /\ TextInv'
  BY <1>2, <1>9, <1>10, <1>11 DEF TextBounded, TextInv, Beginning, InRound, InTurn, InLoop
<1>14. RoundInv'
  BY <1>2, <1>11 DEF RoundInv, Beginning, InRound, InTurn, InLoop
<1>15. HistoryInv'
  BY <1>10, <1>11 DEF HistoryInv, InRound
<1>16. CtxInv'
  BY <1>2, <1>11 DEF IInv, CtxInv, InRound, InTurn, InLoop, Usable
<1> QED  BY <1>8, <1>12, <1>13, <1>14, <1>15, <1>16 DEF IInv

\* A single token joins the text.
LEMMA AppendStep == ASSUME IInv, AppendToken PROVE IInv'
<1> USE OracleAssumption, GenerateAssumption DEF IInv, TypeOK, FlagsOK, ValuesOK, TextBounded, EosIsLast,
      TextInv, RoundInv, HistoryInv, CtxInv, Beginning, InRound, InTurn, InLoop, Usable
<1>1. /\ pc = "append" /\ out' = Append(out, next_id) /\ n_past' = n_past + 1
      /\ IF next_id = Eos THEN pc' = "idle" /\ UNCHANGED i ELSE pc' = "head" /\ i' = i + 1
      /\ draft_seq' = <<>> /\ verified' = <<>> /\ n_accepted' = 0 /\ k' = 1
      /\ UNCHANGED <<ctx, logits_buf, history, ready_, slipped, attached, n_predict, next_id>>
  BY DEF AppendToken, TurnEnds
<1>2. /\ out' \in Seq(Tokens) /\ Len(out') = i + 1
      /\ \A m \in 1 .. Len(out') : out'[m] = IF m <= i THEN out[m] ELSE next_id
  BY <1>1
<1> QED  BY <1>1, <1>2

\* Every step of the session keeps the invariant.
LEMMA NextIInv == IInv /\ [Next]_vars => IInv'
<1>1. ASSUME IInv, UNCHANGED vars PROVE IInv'
  BY <1>1 DEF vars, oracleVars, callVars, IInv, TypeOK, FlagsOK, ValuesOK, TextBounded, EosIsLast, TextInv, RoundInv,
     HistoryInv, CtxInv, Beginning, InRound, InTurn, InLoop, Usable
<1> QED  BY <1>1, BeginStep, FollowStep, DraftStep, PassStep, AdvanceStep, CommitRoundStep,
            AppendStep DEF Next, Step

\* The invariant is one: nothing below needs more.
THEOREM Invariance == Spec => []IInv
  BY InitIInv, NextIInv, PTL DEF Spec

\* The variables keep their types; in particular predict_multi never drafts more
\* than it was asked for.
THEOREM TypeCorrect == Spec => []TypeOK
  BY Invariance, PTL DEF IInv

\* The oracle drafts from the text that generate has generated, for every
\* sequence of rounds, failed decodes and calls.
THEOREM OracleFollowsText == Spec => []OracleInStep
<1>1. IInv => OracleInStep
  BY DEF IInv, HistoryInv, CtxInv, OracleInStep
<1> QED  BY <1>1, Invariance, PTL

\* A replay leaves the native context with the text and nothing else.
THEOREM ReplayRestores == Spec => []ReplayHeals
<1>1. IInv => ReplayHeals
  BY DEF IInv, HistoryInv, CtxInv, ReplayHeals, InRound
<1> QED  BY <1>1, Invariance, PTL

\* generate counts its tokens right and never exceeds n_predict.
THEOREM Bounded == Spec => []TextBounded
  BY Invariance, PTL DEF IInv

\* The end of text ends the text, accepted or generated singly.
THEOREM EosEnds == Spec => []EosIsLast
  BY Invariance, PTL DEF IInv

-----------------------------------------------------------------------------
(* How long a call takes.                                                  *)

\* The steps of a turn of the loop, at most: a draft of NDraft tokens, the
\* replay, the batch, and the tokens of the round committed one by one.
TurnSteps == 2 * NDraft + 5

\* The steps from a place in a turn to its end, at most.
Rank ==
  CASE pc = "append" -> 1
    [] pc = "resync" -> 2
    [] pc = "single" -> 3
    [] pc = "advance" -> NDraft + 3 - k
    [] pc = "verify" -> NDraft + 3
    [] pc = "rollBack" -> NDraft + 4
    [] pc = "draft" -> NDraft + 5 + (NDraft - Len(draft_seq))
    [] pc = "head" -> TurnSteps
    [] pc = "first" -> TurnSteps + 1
    [] pc = "prime" -> TurnSteps + 2
    [] pc = "prefillOracle" -> TurnSteps + 3
    [] pc = "prefill" -> TurnSteps + 4

\* The steps that the running call can still take.
StepsLeft == TurnSteps * (n_predict + 1 - i) + Rank

\* A token that is generated pays for a turn.
LEMMA TokenPays ==
  ASSUME NEW w \in Nat, NEW a \in Nat, NEW b \in Nat, a < b
  PROVE  w * a \in Nat /\ w * b \in Nat /\ w * a + w <= w * b
<1>1. PICK c \in Nat : b = a + 1 + c
  <2>1. b - a - 1 \in Nat /\ b = a + 1 + (b - a - 1)
    OBVIOUS
  <2> QED
    BY <2>1
<1>2. w * b = w * a + w + w * c
  BY <1>1
<1>3. w * a \in Nat /\ w * c \in Nat
  OBVIOUS
<1> QED
  BY <1>2, <1>3

\* A step that comes closer to the end of a turn of w steps, or ends it with a
\* token more, comes closer to the end of the n tokens.
LEMMA Closer ==
  ASSUME NEW w \in Nat, NEW n \in Nat, NEW j \in Nat, NEW j2 \in Nat, NEW r \in Nat, NEW r2 \in Nat,
         n + 1 - j \in Nat, n + 1 - j2 \in Nat,
         (j2 = j /\ r2 < r) \/ (j2 > j /\ r2 = w /\ r >= 1)
  PROVE  w * (n + 1 - j2) + r2 < w * (n + 1 - j) + r
<1>1. CASE j2 = j /\ r2 < r
  <2>1. w * (n + 1 - j) \in Nat
    OBVIOUS
  <2> QED
    BY <1>1, <2>1
<1>2. CASE j2 > j /\ r2 = w /\ r >= 1
  <2>1. n + 1 - j2 < n + 1 - j
    BY <1>2
  <2>2. /\ w * (n + 1 - j2) + w <= w * (n + 1 - j)
        /\ w * (n + 1 - j2) \in Nat /\ w * (n + 1 - j) \in Nat
    BY <2>1, TokenPays
  <2> QED
    BY <1>2, <2>2
<1> QED
  BY <1>1, <1>2

\* The range of the ranks and of the tokens to go.
RankOK ==
  pc # "idle" =>
    /\ NDraft \in Nat /\ TurnSteps \in Nat
    /\ Rank \in 1 .. TurnSteps + 4
    /\ n_predict + 1 - i \in Nat

LEMMA RankType == IInv => RankOK
<1> SUFFICES ASSUME IInv, pc # "idle"
             PROVE  /\ NDraft \in Nat /\ TurnSteps \in Nat
                    /\ Rank \in 1 .. TurnSteps + 4
                    /\ n_predict + 1 - i \in Nat
  BY DEF RankOK
<1>1. NDraft \in Nat /\ NDraft >= 1 /\ TurnSteps = 2 * NDraft + 5
  BY OracleAssumption DEF TurnSteps
<1>2. pc \in Beginning \/ pc \in InRound \/ pc \in {"single", "resync", "append"} \/ pc = "head"
  BY DEF IInv, TypeOK, ValuesOK, Beginning, InRound
<1>3. n_predict + 1 - i \in Nat
  <2>1. n_predict \in Nat /\ i \in Nat
    BY GenerateAssumption DEF IInv, TypeOK, ValuesOK
  <2>2. i <= n_predict \/ i = 1
    BY <1>2 DEF IInv, TextInv, TextBounded, Beginning, InTurn, InRound, InLoop
  <2> QED
    BY <2>1, <2>2
<1>4. Rank \in 1 .. TurnSteps + 4
  <2>0. /\ pc = "append" => Rank = 1
        /\ pc = "resync" => Rank = 2
        /\ pc = "single" => Rank = 3
        /\ pc = "verify" => Rank = NDraft + 3
        /\ pc = "rollBack" => Rank = NDraft + 4
        /\ pc = "head" => Rank = TurnSteps
        /\ pc = "first" => Rank = TurnSteps + 1
        /\ pc = "prime" => Rank = TurnSteps + 2
        /\ pc = "prefillOracle" => Rank = TurnSteps + 3
        /\ pc = "prefill" => Rank = TurnSteps + 4
    BY DEF Rank
  <2>1. CASE pc \in Beginning
    BY <1>1, <2>0, <2>1 DEF Beginning
  <2>2. CASE pc \in {"head", "single", "resync", "append", "verify", "rollBack"}
    BY <1>1, <2>0, <2>2
  <2>3. CASE pc = "draft"
    <3>1. Len(draft_seq) \in 1 .. NDraft
      BY <2>3 DEF IInv, RoundInv, InRound
    <3> QED
      BY <1>1, <2>3, <3>1 DEF Rank
  <2>4. CASE pc = "advance"
    <3>1. k \in Nat /\ k >= 1 /\ k <= n_accepted + 2 /\ n_accepted \in 0 .. NDraft
      BY <2>4 DEF IInv, RoundInv, TypeOK, ValuesOK
    <3> QED
      BY <1>1, <2>4, <3>1 DEF Rank
  <2> QED
    BY <1>2, <2>1, <2>2, <2>3, <2>4 DEF InRound
<1> QED
  BY <1>1, <1>3, <1>4

\* A step of a call ends it, or comes closer to the end of the turn, or ends the
\* turn with a token more.
LEMMA StepAdvances ==
  ASSUME IInv, Step
  PROVE  \/ pc' = "idle"
         \/ pc' # "idle" /\ n_predict' = n_predict /\ i' = i /\ Rank' < Rank
         \/ pc' = "head" /\ n_predict' = n_predict /\ i' \in Nat /\ i' > i
<1>1. NDraft \in Nat /\ NDraft >= 1 /\ TurnSteps = 2 * NDraft + 5 /\ k \in Nat /\ i \in Nat
  BY OracleAssumption, GenerateAssumption DEF TurnSteps, IInv, TypeOK, ValuesOK
<1>2. CASE Prefill \/ OraclePrefilled \/ OracleDetached \/ FirstToken
  BY <1>1, <1>2 DEF Prefill, OraclePrefilled, OracleDetached, FirstToken, Rank, callVars
<1>3. CASE PassFails \/ LoopEnds
  BY <1>3 DEF PassFails, LoopEnds
<1>4. CASE OracleFollows
  <2>1. /\ UNCHANGED <<i, n_predict>>
        /\ \/ pc = "prime" /\ pc' = "first"
           \/ pc = "resync" /\ pc' = "append"
    BY <1>4 DEF OracleFollows, callVars
  <2> QED
    BY <1>1, <2>1 DEF Rank
<1>5. CASE NoOracle
  BY <1>1, <1>5 DEF NoOracle, callVars, Rank
<1>6. CASE StartDraft
  <2>1. /\ pc = "head" /\ pc' = "draft" /\ UNCHANGED <<i, n_predict>>
        /\ Len(draft_seq') = 1
    BY <1>6 DEF StartDraft, DraftFirst, callVars
  <2> QED
    BY <1>1, <2>1 DEF Rank
<1>7. CASE DraftMore
  <2>1. /\ pc = "draft" /\ pc' = "draft" /\ UNCHANGED <<i, n_predict>>
        /\ Len(draft_seq') = Len(draft_seq) + 1 /\ Len(draft_seq) \in Nat
    BY <1>7 DEF DraftMore, DraftNext, callVars, IInv, TypeOK, ValuesOK
  <2> QED
    BY <1>1, <2>1 DEF Rank
<1>8. CASE DraftEnds
  <2>1. /\ pc = "draft" /\ pc' = "rollBack" /\ UNCHANGED <<i, n_predict>>
        /\ Len(draft_seq) \in 1 .. NDraft
    BY <1>8 DEF DraftEnds, callVars, IInv, RoundInv, InRound
  <2> QED
    BY <1>1, <2>1 DEF Rank
<1>9. CASE RolledBack \/ ReplayFails
  <2>1. /\ pc = "rollBack" /\ pc' \in {"verify", "single"} /\ UNCHANGED <<i, n_predict>>
    BY <1>9 DEF RolledBack, ReplayFails, callVars
  <2> QED
    BY <1>1, <2>1 DEF Rank
<1>10. CASE Verify
  <2>1. pc = "verify" /\ pc' = "advance" /\ k' = 1 /\ UNCHANGED <<i, n_predict>>
    BY <1>10 DEF Verify
  <2> QED
    BY <1>1, <2>1 DEF Rank
<1>11. CASE Advance
  <2>1. pc = "advance" /\ pc' = "advance" /\ k' = k + 1 /\ UNCHANGED <<i, n_predict>>
    BY <1>11 DEF Advance
  <2> QED
    BY <1>1, <2>1 DEF Rank
<1>12. CASE CommitRound
  <2>1. n_accepted \in Nat
    BY DEF IInv, TypeOK, ValuesOK
  <2>2. \/ pc' = "idle"
        \/ pc' = "head" /\ i' = i + n_accepted + 1 /\ n_predict' = n_predict
    BY <1>12 DEF CommitRound
  <2> QED
    BY <1>1, <2>1, <2>2
<1>13. CASE SingleStep
  <2>1. pc = "single" /\ pc' \in {"resync", "append"} /\ UNCHANGED <<i, n_predict>>
    BY <1>13 DEF SingleStep
  <2> QED
    BY <1>1, <2>1 DEF Rank
<1>14. CASE AppendToken
  <2>1. \/ pc' = "idle"
        \/ pc' = "head" /\ i' = i + 1 /\ n_predict' = n_predict
    BY <1>14 DEF AppendToken
  <2> QED
    BY <1>1, <2>1
<1> QED
  BY <1>2, <1>3, <1>4, <1>5, <1>6, <1>7, <1>8, <1>9, <1>10, <1>11, <1>12, <1>13, <1>14 DEF Step

\* A call of generate cannot go on for ever, whatever the oracle drafts, however
\* much of it is rejected and whatever fails: each of its steps is one of at most
\* 2 * NDraft + 5 for a token, beside the four before the first.
THEOREM FewStepsPerToken ==
  Spec => /\ [](pc # "idle" => StepsLeft \in 1 .. TurnSteps * (n_predict + 1) + 4)
          /\ [][pc # "idle" => pc' = "idle" \/ StepsLeft' < StepsLeft]_vars
<1>1. ASSUME IInv, pc # "idle"
      PROVE  StepsLeft \in 1 .. TurnSteps * (n_predict + 1) + 4
  <2>1. /\ TurnSteps \in Nat /\ Rank \in 1 .. TurnSteps + 4
        /\ n_predict + 1 - i \in Nat /\ i \in Nat /\ i >= 1 /\ n_predict \in Nat
    BY <1>1, RankType, GenerateAssumption DEF RankOK, IInv, TypeOK, ValuesOK
  <2>2. n_predict + 1 - i < n_predict + 1 /\ n_predict + 1 \in Nat
    BY <2>1
  <2>3. /\ TurnSteps * (n_predict + 1 - i) \in Nat
        /\ TurnSteps * (n_predict + 1 - i) + TurnSteps <= TurnSteps * (n_predict + 1)
        /\ TurnSteps * (n_predict + 1) \in Nat
    BY <2>1, <2>2, TokenPays
  <2> HIDE DEF TurnSteps, Rank
  <2> QED
    BY <2>1, <2>3 DEF StepsLeft
<1>2. ASSUME IInv, RankOK, RankOK', Next, pc # "idle", pc' # "idle"
      PROVE  StepsLeft' < StepsLeft
  <2>1. Step
    BY <1>2 DEF Next, Generate
  <2>2. /\ TurnSteps \in Nat /\ Rank \in Nat /\ Rank >= 1 /\ n_predict + 1 - i \in Nat
        /\ n_predict \in Nat /\ i \in Nat
    BY <1>2, GenerateAssumption DEF RankOK, IInv, TypeOK, ValuesOK
  <2>3. Rank' \in Nat /\ n_predict' + 1 - i' \in Nat
    BY <1>2, <2>2 DEF RankOK, TurnSteps
  <2>4. n_predict' = n_predict /\ i' \in Nat
    BY <1>2, <2>1, <2>2, StepAdvances
  <2>5. (i' = i /\ Rank' < Rank) \/ (i' > i /\ Rank' = TurnSteps /\ Rank >= 1)
    <3>1. pc' = "head" => Rank' = TurnSteps
      BY DEF Rank, TurnSteps
    <3> QED
      BY <1>2, <2>1, <2>2, <3>1, StepAdvances
  <2>6. TurnSteps * (n_predict + 1 - i') + Rank' < TurnSteps * (n_predict + 1 - i) + Rank
    BY <2>2, <2>3, <2>4, <2>5, Closer
  <2> QED
    BY <2>4, <2>6 DEF StepsLeft, TurnSteps
<1>3. IInv => (pc # "idle" => StepsLeft \in 1 .. TurnSteps * (n_predict + 1) + 4)
  BY <1>1
<1>4. IInv /\ RankOK /\ RankOK' /\ [Next]_vars =>
        [pc # "idle" => pc' = "idle" \/ StepsLeft' < StepsLeft]_vars
  BY <1>2
<1> QED
  BY <1>3, <1>4, RankType, Invariance, PTL DEF Spec
=============================================================================
