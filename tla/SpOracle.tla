------------------------------- MODULE SpOracle -------------------------------
(***************************************************************************)
(* SpOracle (desktop/engine/src/speculative_oracle.cpp): a small draft     *)
(* model that guesses the tokens a large one is going to generate.         *)
(*                                                                         *)
(* It drafts in its only context, the one that holds the committed text,   *)
(* and rolls back by resetting the context and replaying its history.      *)
(* Texts are what follows the prompt: <<>> is the prompt alone.  What the  *)
(* draft model predicts is any token; what it predicts it from is kept.    *)
(***************************************************************************)
EXTENDS Naturals, Sequences

CONSTANTS
  Tokens,      \* the vocabulary
  Nothing,     \* no text, not even the prompt
  NDraft       \* SP_ORACLE_DRAFT_N

ASSUME OracleAssumption ==
  /\ Nothing \notin Seq(Tokens)
  /\ NDraft \in Nat \ {0}

VARIABLES
  ctx,         \* the text whose keys and values the native context holds
  logits_buf,  \* the text the last logits follow
  history,     \* its length is committed_pos
  ready_,
  draft_seq,   \* the tokens drafted by the running or the last predict_multi
  slipped      \* history variable: a decode has failed since the last replay

oracleVars == <<ctx, logits_buf, history, ready_, draft_seq, slipped>>

InitOracle ==
  /\ ctx = Nothing
  /\ logits_buf = Nothing
  /\ history = <<>>
  /\ ready_ = TRUE
  /\ draft_seq = <<>>
  /\ slipped = FALSE

\* The native context decodes one token at its own position and yields logits.
RunOne(tok) ==
  /\ ctx' = Append(ctx, tok)
  /\ logits_buf' = ctx'

\* A layer fails (the cache is full, say) and the position stays, or the last
\* matrix product does, after the position has moved and the logits are zeroed.
RunOneFails(tok) ==
  \/ UNCHANGED <<ctx, logits_buf>>
  \/ ctx' = Append(ctx, tok) /\ logits_buf' \in {logits_buf, Nothing}

\* Mutant: a token whose decode fails is left out of the history.
CommitDecoded(tok) ==
  /\ \/ RunOne(tok) /\ UNCHANGED slipped /\ history' = Append(history, tok)
     \/ RunOneFails(tok) /\ slipped' = TRUE /\ UNCHANGED history
  /\ UNCHANGED <<ready_, draft_seq>>

\* step, resync and each turn of accept: the token is decoded and becomes
\* history, also when the decode fails, which nobody looks at.
Commit(tok) ==
  /\ \/ RunOne(tok) /\ UNCHANGED slipped
     \/ RunOneFails(tok) /\ slipped' = TRUE
  /\ history' = Append(history, tok)
  /\ UNCHANGED <<ready_, draft_seq>>

\* prefill: the context is reset and holds the prompt.
PrefillOracle ==
  /\ ctx' = <<>>
  /\ logits_buf' = <<>>
  /\ history' = <<>>
  /\ slipped' = FALSE
  /\ UNCHANGED <<ready_, draft_seq>>

PrefillOracleFails ==
  /\ ctx' \in {Nothing, <<>>}
  /\ logits_buf' \in {logits_buf, Nothing}
  /\ UNCHANGED <<history, ready_, draft_seq, slipped>>

\* predict_multi: the first draft is the prediction that is there already.
DraftFirst ==
  /\ \E tok \in Tokens : draft_seq' = <<tok>>
  /\ UNCHANGED <<ctx, logits_buf, history, ready_, slipped>>

DraftNext ==
  /\ Len(draft_seq) < NDraft
  /\ RunOne(draft_seq[Len(draft_seq)])
  /\ \E tok \in Tokens : draft_seq' = Append(draft_seq, tok)
  /\ UNCHANGED <<history, ready_, slipped>>

\* A failing decode ends the draft with the tokens there are.
DraftBreaks ==
  /\ Len(draft_seq) < NDraft
  /\ RunOneFails(draft_seq[Len(draft_seq)])
  /\ UNCHANGED <<history, ready_, draft_seq, slipped>>

\* Mutant: when only one token was drafted nothing is replayed, as the comment
\* on n == 1 has it, although the decode of a second one may have left traces.
RollBackUnlessSingle ==
  /\ IF Len(draft_seq) = 1
     THEN UNCHANGED <<ctx, logits_buf>>
     ELSE ctx' = history /\ logits_buf' = history
  /\ slipped' = (slipped /\ Len(draft_seq) = 1)
  /\ UNCHANGED <<history, ready_, draft_seq>>

\* The context is reset and the history prefilled again.
RollBack ==
  /\ ctx' = history
  /\ logits_buf' = history
  /\ slipped' = FALSE
  /\ UNCHANGED <<history, ready_, draft_seq>>

\* The replay fails: no drafts, and the oracle is never asked again.
RollBackFails ==
  /\ ctx' \in {Nothing, history}
  /\ logits_buf' \in {logits_buf, Nothing}
  /\ ready_' = FALSE
  /\ draft_seq' = <<>>
  /\ UNCHANGED <<history, slipped>>
=============================================================================
