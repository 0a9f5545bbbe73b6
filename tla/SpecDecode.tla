------------------------------ MODULE SpecDecode ------------------------------
(***************************************************************************)
(* sp_beast_generate (desktop/beast_canyon/sp_beast_canyon.c): greedy      *)
(* decoding on the desktop, sped up by a phone that drafts tokens which    *)
(* the desktop verifies one by one.                                        *)
(*                                                                         *)
(* The model is its greedy continuation of the prompt, chosen once: after  *)
(* the first k tokens of it have been forwarded, the logits' argmax is     *)
(* greedy[k].  A model fed anything else is astray, and what it predicts   *)
(* then is no token of the continuation.                                   *)
(*                                                                         *)
(* The phone (external) keeps a context: a DRAFT appends its token and the *)
(* tokens it drafts, an ACCEPT drops the drafts that were not accepted     *)
(* (sp_sidecar_proto.h).                                                   *)
(***************************************************************************)
EXTENDS Naturals, Sequences

CONSTANTS
  Tokens,      \* the vocabulary
  Eos,         \* the tokens that end a text
  Astray,      \* what a model predicts that has been fed something else
  MaxTokens,   \* max_tokens
  MaxDraft     \* SP_SIDECAR_MAX_DRAFT

ASSUME DecodeAssumption ==
  /\ Eos \subseteq Tokens
  /\ Astray \notin Tokens
  /\ MaxTokens \in Nat \ {0}
  /\ MaxDraft \in Nat

VARIABLES
  greedy,        \* the model's greedy continuation of the prompt
  fed,           \* the tokens forwarded since the prompt
  onTrack,       \* they are the beginning of the continuation
  pc,
  drafting,      \* sidecar_drafting
  next_token,
  drafts,        \* draft_result.tokens
  d,             \* the draft to verify next
  n_accepted,
  output,        \* output_tokens
  n_generated,
  returned,      \* the value returned
  phone,         \* the phone's context after the prompt
  strayed,       \* history: something has put the phone out of step, see PhoneInStep
  eosAccepted    \* history: an end of text drafted by the phone has been accepted

modelVars == <<greedy, fed, onTrack>>
phoneVars == <<phone, strayed, eosAccepted>>
vars == <<modelVars, phoneVars, pc, drafting, next_token, drafts, d, n_accepted,
          output, n_generated, returned>>

\* beast_argmax of the logits; a forward pass that fails leaves them alone.
Argmax == IF onTrack THEN greedy[fed] ELSE Astray

\* IS_EOS
IsEos(tok) == tok \in Eos

Init ==
  /\ greedy \in [0 .. MaxTokens -> Tokens]
  /\ fed = 0
  /\ onTrack = TRUE
  /\ pc = "prefill"
  /\ drafting = FALSE
  /\ next_token = Astray
  /\ drafts = <<>>
  /\ d = 1
  /\ n_accepted = 0
  /\ output = [i \in 0 .. MaxTokens - 1 |-> Astray]
  /\ n_generated = 0
  /\ returned = 0
  /\ phone = <<>>
  /\ strayed = FALSE
  /\ eosAccepted = FALSE

Forward(tok) ==
  /\ fed' = fed + 1
  /\ onTrack' = (onTrack /\ tok = greedy[fed])
  /\ UNCHANGED greedy

Store(tok) == output' = [output EXCEPT ![n_generated] = tok]

\* Every normal end returns n_generated.
Return(n) == pc' = "done" /\ returned' = n

\* The jump to cleanup before the decode loop skips the initialisation of
\* n_generated, which is returned all the same.
Abort == pc' = "aborted" /\ returned' \in 0 .. MaxTokens

-----------------------------------------------------------------------------
\* The prompt has been forwarded; the phone drafts when it is online and its
\* own prefill succeeds.
Prefill ==
  /\ pc = "prefill"
  /\ pc' = "head"
  /\ drafting' \in BOOLEAN
  /\ UNCHANGED <<modelVars, phoneVars, next_token, drafts, d, n_accepted, output,
                 n_generated, returned>>

\* No memory, or a prompt token that cannot be forwarded.
PrefillFails ==
  /\ pc = "prefill"
  /\ Abort
  /\ UNCHANGED <<modelVars, phoneVars, drafting, next_token, drafts, d, n_accepted,
                 output, n_generated>>

\* Mutant: the loop ends one token too late.
LoopEndsLate ==
  /\ pc = "head"
  /\ n_generated > MaxTokens
  /\ Return(n_generated)
  /\ UNCHANGED <<modelVars, phoneVars, drafting, next_token, drafts, d, n_accepted,
                 output, n_generated>>

\* The head of the decode loop.
LoopEnds ==
  /\ pc = "head"
  /\ n_generated >= MaxTokens
  /\ Return(n_generated)
  /\ UNCHANGED <<modelVars, phoneVars, drafting, next_token, drafts, d, n_accepted,
                 output, n_generated>>

\* Mutant: the end of text is generated like any other token.
PickTokenPastEos ==
  /\ pc = "head"
  /\ n_generated < MaxTokens
  /\ next_token' = Argmax
  /\ Store(Argmax)
  /\ pc' = IF drafting THEN "draft" ELSE "forward"
  /\ UNCHANGED <<n_generated, returned>>
  /\ UNCHANGED <<modelVars, phoneVars, drafting, drafts, d, n_accepted>>

PickToken ==
  /\ pc = "head"
  /\ n_generated < MaxTokens
  /\ next_token' = Argmax
  /\ Store(Argmax)
  /\ IF IsEos(Argmax)
     THEN n_generated' = n_generated + 1 /\ Return(n_generated')
     ELSE /\ pc' = IF drafting THEN "draft" ELSE "forward"
          /\ UNCHANGED <<n_generated, returned>>
  /\ UNCHANGED <<modelVars, phoneVars, drafting, drafts, d, n_accepted>>

\* The phone drafts; it may send more tokens than it was asked for, up to the
\* size of the result.  Without any, the step is a standard one.
Draft ==
  /\ pc = "draft"
  /\ \E n \in 0 .. MaxDraft : drafts' \in [1 .. n -> Tokens]
  /\ phone' = (phone \o <<next_token>>) \o drafts'
  /\ pc' = IF drafts' = <<>> THEN "forward" ELSE "specForward"
  /\ UNCHANGED <<modelVars, strayed, eosAccepted, drafting, next_token, d, n_accepted, output,
                 n_generated, returned>>

\* The draft fails on its way there or on its way back.
DraftFails ==
  /\ pc = "draft"
  /\ strayed' = TRUE
  /\ pc' = "forward"
  /\ UNCHANGED <<modelVars, phone, eosAccepted, drafting, next_token, drafts, d,
                 n_accepted, output, n_generated, returned>>

\* The token of the loop's head goes through the model, drafts or not.
ForwardToken ==
  /\ pc \in {"forward", "specForward"}
  /\ Forward(next_token)
  /\ n_generated' = n_generated + 1
  /\ pc' = IF pc = "forward" THEN "head" ELSE "verify"
  /\ d' = 1
  /\ n_accepted' = 0
  /\ UNCHANGED <<phoneVars, drafting, next_token, drafts, output, returned>>

\* The text so far is what the caller gets.
ForwardFails ==
  /\ pc \in {"forward", "specForward"}
  /\ strayed' = TRUE
  /\ pc' = "cut"
  /\ returned' = n_generated
  /\ UNCHANGED <<modelVars, phone, eosAccepted, drafting, next_token, drafts, d,
                 n_accepted, output, n_generated>>

\* Mutant: a draft is accepted without asking the model.
AnyDraft == d <= Len(drafts) /\ n_generated < MaxTokens

\* There is a draft to verify, room for it, and the model predicts it too.
DraftMatches == d <= Len(drafts) /\ n_generated < MaxTokens /\ Argmax = drafts[d]

\* Mutant: an accepted draft does not go through the model.
AcceptUnfed ==
  /\ pc = "verify"
  /\ DraftMatches
  /\ n_accepted' = n_accepted + 1
  /\ Store(drafts[d])
  /\ n_generated' = n_generated + 1
  /\ d' = d + 1
  /\ pc' = IF IsEos(drafts[d]) THEN "tell" ELSE "verify"
  /\ UNCHANGED <<modelVars, phoneVars, drafting, next_token, drafts, returned>>

AcceptDraft ==
  /\ pc = "verify"
  /\ DraftMatches
  /\ n_accepted' = n_accepted + 1
  /\ Store(drafts[d])
  /\ Forward(drafts[d])
  /\ n_generated' = n_generated + 1
  /\ d' = d + 1
  /\ pc' = IF IsEos(drafts[d]) THEN "tell" ELSE "verify"
  /\ eosAccepted' = (eosAccepted \/ IsEos(drafts[d]))
  /\ UNCHANGED <<phone, strayed, drafting, next_token, drafts, returned>>

\* The forward pass of an accepted draft fails: the draft counts as accepted
\* for the phone and not as generated.
AcceptFails ==
  /\ pc = "verify"
  /\ DraftMatches
  /\ n_accepted' = n_accepted + 1
  /\ Store(drafts[d])
  /\ strayed' = TRUE
  /\ pc' = "tell"
  /\ UNCHANGED <<modelVars, phone, eosAccepted, drafting, next_token, drafts, d,
                 n_generated, returned>>

VerifyEnds ==
  /\ pc = "verify"
  /\ ~DraftMatches
  /\ pc' = "tell"
  /\ UNCHANGED <<modelVars, phoneVars, drafting, next_token, drafts, d, n_accepted,
                 output, n_generated, returned>>

\* Mutant: the last accepted draft is not among the verified tokens.
VerifiedOneLess == n_accepted - 1

\* The number of verified tokens that the phone is sent.
Verified == n_accepted

\* sp_beast_sidecar_accept, when anything was accepted: it succeeds, or it fails
\* or is not called at all.  Then the loop again, even after an accepted end of
\* text.
TellPhone ==
  /\ pc = "tell"
  /\ pc' = "head"
  /\ \/ /\ n_accepted > 0
        /\ phone' = SubSeq(phone, 1, Len(phone) - (Len(drafts) - Verified))
        /\ UNCHANGED strayed
     \/ /\ strayed' = TRUE
        /\ UNCHANGED phone
  /\ UNCHANGED <<modelVars, eosAccepted, drafting, next_token, drafts, d, n_accepted,
                 output, n_generated, returned>>

-----------------------------------------------------------------------------
Next ==
  \/ Prefill \/ PrefillFails \/ LoopEnds \/ PickToken \/ Draft \/ DraftFails
  \/ ForwardToken \/ ForwardFails \/ AcceptDraft \/ AcceptFails
  \/ VerifyEnds \/ TellPhone

Spec == Init /\ [][Next]_vars

FairSpec == Spec /\ WF_vars(Next)

-----------------------------------------------------------------------------
TypeOK ==
  /\ greedy \in [0 .. MaxTokens -> Tokens]
  /\ fed \in 0 .. MaxTokens
  /\ onTrack \in BOOLEAN
  /\ pc \in {"prefill", "head", "draft", "forward", "specForward", "verify", "tell",
            "done", "cut", "aborted"}
  /\ drafting \in BOOLEAN
  /\ next_token \in Tokens \cup {Astray}
  /\ d \in Nat \ {0}
  /\ n_accepted \in Nat
  /\ output \in [0 .. MaxTokens - 1 -> Tokens \cup {Astray}]
  /\ n_generated \in 0 .. MaxTokens
  /\ returned \in 0 .. MaxTokens
  /\ strayed \in BOOLEAN
  /\ eosAccepted \in BOOLEAN

\* The places plain greedy decoding generates: it stops at the first end of text.
PlainText == {i \in 0 .. MaxTokens - 1 : \A j \in 0 .. i - 1 : ~IsEos(greedy[j])}

\* Nothing of the plain greedy text is lost or changed by speculation: what is
\* generated are tokens of the model's continuation in their order, whatever the
\* phone drafts and whatever fails, and when sp_beast_generate comes to its end
\* by itself all of the plain text is generated and counted.  A forward pass
\* that fails cuts the text short, and the count is that of the cut text.
PlainTextKept ==
  /\ \A i \in 0 .. n_generated - 1 : output[i] = greedy[i]
  /\ pc = "done" => PlainText \subseteq 0 .. n_generated - 1
  /\ pc \in {"done", "cut"} => returned = n_generated

\* Every generated token but a last end of text has been through the model, so
\* that the next prediction follows from the whole text.
ModelInStep ==
  pc \in {"head", "draft", "forward", "specForward", "verify", "tell"} =>
    onTrack /\ fed = n_generated

\* Nothing is generated past the first end of text, with a phone or without one,
\* unless an end of text was accepted from the phone: that leaves the verifying
\* loop only, and speculation is not lossless after it.  At the loop's head, and
\* for an end of text that the phone did not draft, the text stops.
EosEndsText == ~eosAccepted => 0 .. n_generated - 1 \subseteq PlainText

\* When the phone is asked to draft again its context is the desktop's text,
\* unless a command or a forward pass has failed or the phone was told nothing
\* because every draft of a round was rejected.
PhoneInStep == pc = "draft" /\ ~strayed => phone = [i \in 1 .. fed |-> greedy[i - 1]]

\* Generation ends: every round of the loop generates a token or leaves.
Ends == <>(pc \in {"done", "cut", "aborted"})

=============================================================================
