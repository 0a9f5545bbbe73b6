------------------------------- MODULE QnnDecode -------------------------------
(***************************************************************************)
(* QnnBinSession::generate (desktop/engine/src/qnn_bin_driver.cpp): greedy *)
(* decoding on a phone's tensor processor (HTP), one token at a time or,   *)
(* with an oracle attached, in batches that verify what the oracle drafts. *)
(*                                                                         *)
(* What the processor predicts is any token (external).  The program       *)
(* decides at which position a batch is placed and how many slots before   *)
(* it are attended to: both are n_past.                                    *)
(***************************************************************************)
EXTENDS SpOracle

CONSTANTS
  Eos,         \* the token that ends a text, 151643
  NTake,       \* n_take, the tokens of the prompt that are prefilled
  MaxPredict   \* bound: the largest n_predict asked for

ASSUME GenerateAssumption ==
  /\ Eos \in Tokens
  /\ NTake \in Nat \ {0}
  /\ MaxPredict \in Nat

VARIABLES
  pc,
  attached,    \* oracle, the session's pointer, is not null
  n_predict,
  out,         \* curr is the prompt and out
  i,
  n_past,
  next_id,
  verified,
  n_accepted,
  k            \* the token of the round the oracle commits next

callVars == <<n_predict, out, i, n_past, next_id, verified, n_accepted, k>>
vars == <<oracleVars, callVars, pc, attached>>

\* I.oracle && I.oracle->ready()
Usable == attached /\ ready_

Init ==
  /\ InitOracle
  /\ attached \in BOOLEAN
  /\ pc = "idle"
  /\ n_predict = 0
  /\ out = <<>>
  /\ i = 1
  /\ n_past = 0
  /\ next_id = Eos
  /\ verified = <<>>
  /\ n_accepted = 0
  /\ k = 1

-----------------------------------------------------------------------------
\* The loop's own variables, draft, verified and n_accepted, go out of scope.
TurnEnds ==
  /\ draft_seq' = <<>>
  /\ verified' = <<>>
  /\ n_accepted' = 0
  /\ k' = 1
  /\ UNCHANGED <<ctx, logits_buf, history, ready_, slipped>>

\* A call of generate.
Generate ==
  /\ pc = "idle"
  /\ pc' = "prefill"
  /\ n_predict' \in 0 .. MaxPredict
  /\ out' = <<>>
  /\ i' = 1
  /\ n_past' = 0
  /\ UNCHANGED <<oracleVars, attached, next_id, verified, n_accepted, k>>

\* The prompt goes through the processor.
Prefill ==
  /\ pc = "prefill"
  /\ next_id' \in Tokens
  /\ n_past' = NTake
  /\ pc' = IF Usable THEN "prefillOracle" ELSE "first"
  /\ UNCHANGED <<oracleVars, attached, n_predict, out, i, verified, n_accepted, k>>

\* A pass of the processor fails: the call returns an error from the prefill,
\* and what it has generated so far from anywhere else.
PassFails ==
  /\ pc \in {"prefill", "verify", "single"}
  /\ pc' = "idle"
  /\ TurnEnds
  /\ UNCHANGED <<attached, n_predict, out, i, n_past, next_id>>

OraclePrefilled ==
  /\ pc = "prefillOracle"
  /\ PrefillOracle
  /\ pc' = "prime"
  /\ UNCHANGED <<callVars, attached>>

\* The session forgets an oracle that cannot prefill.
OracleDetached ==
  /\ pc = "prefillOracle"
  /\ PrefillOracleFails
  /\ attached' = FALSE
  /\ pc' = "first"
  /\ UNCHANGED callVars

\* The oracle is stepped with the first token, and resynced after a single step.
OracleFollows ==
  /\ pc \in {"prime", "resync"}
  /\ Commit(next_id)
  /\ pc' = IF pc = "prime" THEN "first" ELSE "append"
  /\ UNCHANGED <<callVars, attached>>

\* The first token is generated whatever n_predict is.
FirstToken ==
  /\ pc = "first"
  /\ out' = <<next_id>>
  /\ pc' = IF next_id = Eos THEN "idle" ELSE "head"
  /\ UNCHANGED <<oracleVars, attached, n_predict, i, n_past, next_id, verified, n_accepted, k>>

-----------------------------------------------------------------------------
LoopEnds ==
  /\ pc = "head"
  /\ i >= n_predict
  /\ pc' = "idle"
  /\ UNCHANGED <<oracleVars, callVars, attached>>

NoOracle ==
  /\ pc = "head"
  /\ i < n_predict
  /\ ~Usable
  /\ pc' = "single"
  /\ UNCHANGED <<oracleVars, callVars, attached>>

StartDraft ==
  /\ pc = "head"
  /\ i < n_predict
  /\ Usable
  /\ DraftFirst
  /\ pc' = "draft"
  /\ UNCHANGED <<callVars, attached>>

DraftMore ==
  /\ pc = "draft"
  /\ DraftNext
  /\ UNCHANGED <<callVars, attached, pc>>

DraftEnds ==
  /\ pc = "draft"
  /\ \/ DraftBreaks
     \/ Len(draft_seq) = NDraft /\ UNCHANGED oracleVars
  /\ pc' = "rollBack"
  /\ UNCHANGED <<callVars, attached>>

\* A whole round leaves room below n_predict.
Room == i + Len(draft_seq) < n_predict

RolledBack ==
  /\ pc = "rollBack"
  /\ RollBack
  /\ pc' = IF Room THEN "verify" ELSE "single"
  /\ UNCHANGED <<callVars, attached>>

\* Mutant: after the replay the turn is begun again.
ReplayRetries ==
  /\ pc = "rollBack"
  /\ RollBack
  /\ pc' = "head"
  /\ UNCHANGED <<callVars, attached>>

ReplayFails ==
  /\ pc = "rollBack"
  /\ RollBackFails
  /\ pc' = "single"
  /\ UNCHANGED <<callVars, attached>>

-----------------------------------------------------------------------------
\* The consecutive drafts the processor agrees with.
Accepted(n) ==
  /\ n <= Len(draft_seq)
  /\ \A d \in 1 .. n : verified'[d] = draft_seq[d]
  /\ n < Len(draft_seq) => verified'[n + 1] # draft_seq[n + 1]

\* The last token and the drafts go through the processor in one batch, which
\* predicts the token after each of them.
Verify ==
  /\ pc = "verify"
  /\ verified' \in [1 .. Len(draft_seq) + 1 -> Tokens]
  /\ \E n \in 0 .. NDraft : Accepted(n) /\ n_accepted' = n
  /\ k' = 1
  /\ pc' = "advance"
  /\ UNCHANGED <<oracleVars, attached, n_predict, out, i, n_past, next_id>>

AdvanceEnds == k > n_accepted + 1

\* accept and resync: the oracle commits the accepted drafts and the token after.
Advance ==
  /\ pc = "advance"
  /\ ~AdvanceEnds
  /\ Commit(verified[k])
  /\ k' = k + 1
  /\ UNCHANGED <<attached, pc, n_predict, out, i, n_past, next_id, verified, n_accepted>>

\* Mutant: an accepted end of text does not end the text.
LastAcceptedPastEos(n) ==
  Len(out) + n >= n_predict \/ (n = n_accepted + 1 /\ verified[n] = Eos)

\* The text ends with the n-th token of the round.
LastAccepted(n) == Len(out) + n >= n_predict \/ verified[n] = Eos

\* Mutant: the loop counts a round as one token.
CommitRoundOnce ==
  /\ pc = "advance"
  /\ AdvanceEnds
  /\ \E n \in 1 .. n_accepted + 1 :
       /\ \A m \in 1 .. n - 1 : ~LastAccepted(m)
       /\ LastAccepted(n) \/ n = n_accepted + 1
       /\ out' = out \o SubSeq(verified, 1, n)
       /\ n_past' = n_past + (IF n <= n_accepted THEN n ELSE Len(draft_seq))
       /\ IF LastAccepted(n)
          THEN pc' = "idle" /\ UNCHANGED i
          ELSE pc' = "head" /\ i' = i + 1
  /\ TurnEnds
  /\ UNCHANGED <<attached, n_predict, next_id>>

\* The tokens of the round join the text, up to one that ends it.  n_past is
\* stepped for each of them, and after the last one it is moved to
\* (verify_len - 1 - n_accepted - 1) beyond: in all by the number of drafts.
CommitRound ==
  /\ pc = "advance"
  /\ AdvanceEnds
  /\ \E n \in 1 .. n_accepted + 1 :
       /\ \A m \in 1 .. n - 1 : ~LastAccepted(m)
       /\ LastAccepted(n) \/ n = n_accepted + 1
       /\ out' = out \o SubSeq(verified, 1, n)
       /\ n_past' = n_past + (IF n <= n_accepted THEN n ELSE Len(draft_seq))
       /\ IF LastAccepted(n)
          THEN pc' = "idle" /\ UNCHANGED i
          ELSE pc' = "head" /\ i' = i + n_accepted + 1
  /\ TurnEnds
  /\ UNCHANGED <<attached, n_predict, next_id>>

-----------------------------------------------------------------------------
\* One token through the processor.
SingleStep ==
  /\ pc = "single"
  /\ next_id' \in Tokens
  /\ pc' = IF Usable THEN "resync" ELSE "append"
  /\ UNCHANGED <<oracleVars, attached, n_predict, out, i, n_past, verified, n_accepted, k>>

AppendToken ==
  /\ pc = "append"
  /\ out' = Append(out, next_id)
  /\ n_past' = n_past + 1
  /\ IF next_id = Eos
     THEN pc' = "idle" /\ UNCHANGED i
     ELSE pc' = "head" /\ i' = i + 1
  /\ TurnEnds
  /\ UNCHANGED <<attached, n_predict, next_id>>

-----------------------------------------------------------------------------
\* The steps of a call.
Step ==
  \/ Prefill \/ PassFails \/ OraclePrefilled \/ OracleDetached \/ OracleFollows
  \/ FirstToken \/ LoopEnds \/ NoOracle \/ StartDraft \/ DraftMore \/ DraftEnds
  \/ RolledBack \/ ReplayFails \/ Verify \/ Advance \/ CommitRound
  \/ SingleStep \/ AppendToken

Next == Generate \/ Step

Spec == Init /\ [][Next]_vars

FairSpec == Spec /\ WF_vars(Step)

-----------------------------------------------------------------------------
FlagsOK ==
  /\ ready_ \in BOOLEAN /\ slipped \in BOOLEAN
  /\ attached \in BOOLEAN

ValuesOK ==
  /\ ctx \in Seq(Tokens) \cup {Nothing}
  /\ logits_buf \in Seq(Tokens) \cup {Nothing}
  /\ history \in Seq(Tokens)
  /\ draft_seq \in Seq(Tokens) /\ Len(draft_seq) <= NDraft
  /\ pc \in {"idle", "prefill", "prefillOracle", "prime", "first", "head", "draft", "rollBack",
             "verify", "advance", "single", "resync", "append"}
  /\ n_predict \in 0 .. MaxPredict
  /\ out \in Seq(Tokens)
  /\ i \in 1 .. MaxPredict + 1
  /\ n_past \in Nat
  /\ next_id \in Tokens
  /\ verified \in Seq(Tokens)
  /\ n_accepted \in 0 .. NDraft
  /\ k \in Nat \ {0}

\* The type invariant.
TypeOK == FlagsOK /\ ValuesOK

\* What the oracle drafts follows the generated text: when it is about to draft,
\* its history is that text, however many decodes have failed and drafts were
\* rejected, and when none has failed since the last replay its context and its
\* logits are that text's too: no draft leaves a trace (speculative_oracle.h,
\* predict_multi).
OracleInStep ==
  pc = "head" /\ Usable =>
    /\ history = out
    /\ ~slipped => ctx = out /\ logits_buf = out

\* After a draft that was rolled back the context is the text, even if a decode
\* had failed before it: the replay heals the oracle.
ReplayHeals ==
  pc = "verify" => ctx = out /\ logits_buf = out

\* The loop's counter is the length of the text, in spite of rounds of several
\* tokens, and never more tokens are generated than were asked for, but for the
\* one the prefill makes.
TextBounded ==
  /\ pc \in {"head", "draft", "rollBack", "verify", "advance", "single", "resync", "append"} =>
       Len(out) = i
  /\ Len(out) <= IF n_predict = 0 THEN 1 ELSE n_predict

\* An end of text is the last token generated, also when it is an accepted draft.
EosIsLast == \A n \in 1 .. Len(out) - 1 : out[n] # Eos

\* The slots attended to, and the position of the next batch, are those of the
\* text before its last token: "future attention masking attends to the correct
\* prefix automatically" (qnn_bin_driver.cpp:630).  After a batch they are not: a
\* round moves n_past by the number of its drafts, whatever was accepted.
PrefixAttended ==
  pc \in {"head", "verify", "single"} => n_past = NTake + Len(out) - 1

\* Every call returns.
CallsReturn == pc # "idle" ~> pc = "idle"
=============================================================================
