--------------------------- MODULE SpecDecodeProofs ---------------------------
(***************************************************************************)
(* Proofs about SpecDecode, for every vocabulary, every greedy             *)
(* continuation, every bound on the output and on the drafts.              *)
(*                                                                         *)
(* PlainTextKept and ModelInStep hold each other up: a token is stored     *)
(* because the model predicts it, and the prediction is the continuation's *)
(* because everything stored before has been forwarded.  Between the two,  *)
(* the token of the loop's head is stored and not yet counted (HeadInv).   *)
(*                                                                         *)
(* PhoneInStep rests on both: what the phone is asked to append is the     *)
(* model's next token, and it is told to drop what was not verified.       *)
(***************************************************************************)
EXTENDS SpecDecode, TLAPS

Deciding == {"prefill", "head", "draft", "forward", "specForward", "verify", "tell"}

\* The token of the loop's head: stored, the one the model predicts, and no
\* end of text.
HeadInv ==
  pc \in {"draft", "forward", "specForward"} =>
    /\ n_generated < MaxTokens
    /\ next_token = greedy[n_generated]
    /\ output[n_generated] = next_token
    /\ ~IsEos(next_token)

\* The model is in step while the decision is open, from the prompt on.
StepInv == pc \in Deciding => onTrack /\ fed = n_generated

PrefillInv ==
  /\ pc = "prefill" => n_generated = 0 /\ ~drafting
  /\ pc \in {"draft", "specForward", "verify", "tell"} => drafting

\* As long as no end of text was accepted from the phone, one is generated as
\* the last step only.
EosInv ==
  ~eosAccepted =>
    \A i \in 0 .. n_generated - 1 : IsEos(greedy[i]) => pc = "done" /\ i = n_generated - 1

IInv == TypeOK /\ PlainTextKept /\ StepInv /\ HeadInv /\ PrefillInv /\ EosInv

\* The invariant holds before the prompt is forwarded.
LEMMA InitIInv == Init => IInv
  BY DecodeAssumption DEF Init, IInv, TypeOK, PlainTextKept, StepInv, HeadInv, PrefillInv,
     EosInv, PlainText, Deciding

\* The actions that end the generation or leave the output alone.
LEMMA QuietStep ==
  ASSUME IInv,
         Prefill \/ PrefillFails \/ LoopEnds \/ Draft \/ DraftFails \/ ForwardFails
           \/ VerifyEnds \/ TellPhone \/ UNCHANGED vars
  PROVE  IInv'
<1> USE DecodeAssumption DEF IInv, TypeOK, PlainTextKept, StepInv, HeadInv, PrefillInv,
      EosInv, PlainText, Deciding, modelVars, phoneVars, vars, IsEos
<1>1. CASE Prefill  BY <1>1 DEF Prefill
<1>2. CASE PrefillFails  BY <1>2 DEF PrefillFails, Abort
<1>3. CASE LoopEnds  BY <1>3 DEF LoopEnds, Return
<1>4. CASE Draft  BY <1>4 DEF Draft
<1>5. CASE DraftFails  BY <1>5 DEF DraftFails
<1>6. CASE ForwardFails  BY <1>6 DEF ForwardFails
<1>7. CASE VerifyEnds  BY <1>7 DEF VerifyEnds
<1>8. CASE TellPhone  BY <1>8 DEF TellPhone
<1>9. CASE UNCHANGED vars  BY <1>9
<1> QED  BY <1>1, <1>2, <1>3, <1>4, <1>5, <1>6, <1>7, <1>8, <1>9

\* The token of the loop's head is stored and, unless it ends the text, not
\* counted before it has been forwarded.
LEMMA PickStep == ASSUME IInv, PickToken PROVE IInv'
  BY DecodeAssumption DEF PickToken, Return, Store, Argmax, IInv, TypeOK, PlainTextKept,
     StepInv, HeadInv, PrefillInv, EosInv, PlainText, Deciding, modelVars, phoneVars, IsEos

\* The token of the loop's head is counted once it has been forwarded.
LEMMA ForwardStep == ASSUME IInv, ForwardToken PROVE IInv'
  BY DecodeAssumption DEF ForwardToken, Forward, IInv, TypeOK, PlainTextKept,
     StepInv, HeadInv, PrefillInv, EosInv, PlainText, Deciding, modelVars, phoneVars, IsEos

\* A draft is stored because the model, which is in step, predicts it.
LEMMA AcceptStep == ASSUME IInv, AcceptDraft \/ AcceptFails PROVE IInv'
<1> USE DecodeAssumption DEF IInv, TypeOK, PlainTextKept, StepInv, HeadInv, PrefillInv,
      EosInv, PlainText, Deciding, modelVars, phoneVars, IsEos
<1>0. /\ drafts[d] = greedy[n_generated] /\ drafts[d] \in Tokens
      /\ n_generated < MaxTokens /\ fed = n_generated /\ onTrack /\ drafting
  BY DEF AcceptDraft, AcceptFails, DraftMatches, Argmax
<1>1. CASE AcceptDraft
  <2>1. /\ output' = [output EXCEPT ![n_generated] = drafts[d]]
        /\ n_generated' = n_generated + 1
        /\ fed' = fed + 1 /\ onTrack' = TRUE /\ greedy' = greedy
        /\ d' = d + 1 /\ n_accepted' = n_accepted + 1
        /\ pc' \in {"tell", "verify"}
        /\ eosAccepted' = (eosAccepted \/ IsEos(drafts[d])) /\ eosAccepted' \in BOOLEAN
        /\ UNCHANGED <<phone, strayed, drafting, next_token, drafts, returned>>
    BY <1>0, <1>1 DEF AcceptDraft, Forward, Store
  <2>2. TypeOK'
    BY <1>0, <2>1
  <2>3. PlainTextKept'
    BY <1>0, <2>1
  <2>4. StepInv' /\ HeadInv' /\ PrefillInv'
    BY <1>0, <2>1
  <2>5. EosInv'
    <3>1. n_generated \in Nat /\ pc = "verify" /\ eosAccepted \in BOOLEAN
      BY <1>0, <1>1 DEF AcceptDraft
    <3>2. ASSUME ~eosAccepted', NEW i \in 0 .. n_generated, IsEos(greedy[i])
          PROVE  FALSE
      <4>1. ~eosAccepted /\ ~IsEos(greedy[n_generated])
        BY <3>1, <3>2, <2>1, <1>0
      <4>2. i \in 0 .. n_generated - 1
        BY <3>1, <3>2, <4>1
      <4> QED  BY <3>1, <3>2, <4>1, <4>2
    <3> QED  BY <3>1, <3>2, <2>1
  <2> QED  BY <2>2, <2>3, <2>4, <2>5
<1>2. CASE AcceptFails
  BY <1>0, <1>2 DEF AcceptFails, Store
<1> QED  BY <1>1, <1>2

\* Every step of the loop keeps the invariant.
LEMMA NextIInv == IInv /\ [Next]_vars => IInv'
  BY QuietStep, PickStep, ForwardStep, AcceptStep DEF Next

\* The invariant is one: nothing below needs more.
THEOREM Invariance == Spec => []IInv
  BY InitIInv, NextIInv, PTL DEF Spec

\* The variables keep their types: the output never overflows max_tokens, also
\* not while drafts are being accepted.
THEOREM TypeCorrect == Spec => []TypeOK
  BY Invariance, PTL DEF IInv

\* Speculation neither loses nor changes a token of the plain greedy text:
\* whatever the phone drafts and whatever fails, sp_beast_generate generates the
\* beginning of the greedy continuation, and all of it up to the first end of
\* text unless a forward pass fails.
THEOREM NothingLost == Spec => []PlainTextKept
  BY Invariance, PTL DEF IInv

\* Between two decisions the model has been fed exactly the generated text.
THEOREM InStep == Spec => []ModelInStep
<1>1. IInv => ModelInStep
  BY DEF IInv, StepInv, ModelInStep, Deciding
<1> QED  BY <1>1, Invariance, PTL

\* sp_beast_generate stops at the first end of text, unless that one was drafted
\* by the phone and accepted.
THEOREM StopsAtEos == Spec => []EosEndsText
<1>1. ASSUME IInv, ~eosAccepted, NEW i \in 0 .. n_generated - 1
      PROVE  i \in PlainText
  <2>1. n_generated \in 0 .. MaxTokens /\ MaxTokens \in Nat
    BY <1>1, DecodeAssumption DEF IInv, TypeOK
  <2>2. \A j \in 0 .. i - 1 : ~IsEos(greedy[j])
    BY <1>1, <2>1 DEF IInv, EosInv
  <2> QED  BY <1>1, <2>1, <2>2 DEF PlainText
<1>2. IInv => EosEndsText
  BY <1>1 DEF EosEndsText
<1> QED  BY <1>2, Invariance, PTL

-----------------------------------------------------------------------------
\* The phone's context is the first n tokens of the continuation.
PhoneIs(n) == Len(phone) = n /\ \A i \in 1 .. n : phone[i] = greedy[i - 1]

\* It is the first n tokens of the continuation and the drafts after them.
PhoneHas(n) ==
  /\ Len(phone) = n + Len(drafts)
  /\ \A i \in 1 .. n : phone[i] = greedy[i - 1]
  /\ \A j \in 1 .. Len(drafts) : phone[n + j] = drafts[j]

\* The phone is ahead of the model by the token of the loop's head while a
\* draft is asked for, and by the drafts that are not verified yet after it.
PhoneInv ==
  /\ drafts \in Seq(Tokens) /\ phone \in Seq(Tokens)
  /\ pc = "prefill" => phone = <<>>
  /\ pc \in {"verify", "tell"} => n_accepted <= Len(drafts)
  /\ pc = "verify" => d = n_accepted + 1
  /\ ~strayed =>
       /\ pc \in {"head", "draft"} /\ drafting => PhoneIs(fed)
       /\ pc = "forward" /\ drafting => PhoneIs(fed + 1)
       /\ pc = "specForward" => PhoneHas(fed + 1)
       /\ pc \in {"verify", "tell"} =>
            /\ n_accepted <= fed
            /\ PhoneHas(fed - n_accepted)
            /\ \A j \in 1 .. n_accepted : drafts[j] = greedy[fed - n_accepted + (j - 1)]

\* The phone is asked: the token of the loop's head and its drafts are appended.
LEMMA DraftPhone == ASSUME IInv, PhoneInv, Draft PROVE PhoneInv'
<1>0. /\ next_token = greedy[fed] /\ next_token \in Tokens /\ fed \in Nat
      /\ drafting /\ pc = "draft"
  BY DecodeAssumption DEF IInv, TypeOK, HeadInv, StepInv, PrefillInv, Deciding, Draft
<1>1. PICK n \in 0 .. MaxDraft : drafts' \in [1 .. n -> Tokens]
  BY DEF Draft
<1>2. drafts' \in Seq(Tokens) /\ n \in Nat
  BY <1>1, DecodeAssumption
<1>3. /\ UNCHANGED <<greedy, fed, strayed, drafting>>
      /\ pc' = IF drafts' = <<>> THEN "forward" ELSE "specForward"
      /\ phone' = (phone \o <<next_token>>) \o drafts'
  BY DEF Draft, modelVars
<1> DEFINE asked == phone \o <<next_token>>
<1>4. asked \in Seq(Tokens) /\ phone' \in Seq(Tokens)
  BY <1>0, <1>2, <1>3 DEF PhoneInv
<1>5. CASE strayed
  BY <1>2, <1>3, <1>4, <1>5 DEF PhoneInv
<1>6. CASE ~strayed
  <2>1. PhoneIs(fed) /\ phone \in Seq(Tokens)
    BY <1>0, <1>6 DEF PhoneInv
  <2>2. /\ Len(asked) = fed + 1
        /\ \A i \in 1 .. fed + 1 : asked[i] = greedy[i - 1]
    BY <2>1, <1>0 DEF PhoneIs
  <2>3. PhoneHas(fed + 1)'
    <3>1. Len(phone') = (fed + 1) + Len(drafts')
      BY <2>2, <1>2, <1>3, <1>4
    <3>2. \A i \in 1 .. fed + 1 : phone'[i] = greedy[i - 1]
      BY <2>2, <1>0, <1>2, <1>3, <1>4
    <3>3. \A j \in 1 .. Len(drafts') : phone'[(fed + 1) + j] = drafts'[j]
      BY <2>2, <1>0, <1>2, <1>3, <1>4
    <3> QED  BY <3>1, <3>2, <3>3, <1>3 DEF PhoneHas
  <2>4. CASE drafts' = <<>>
    <3>1. PhoneIs(fed + 1)'
      BY <2>3, <2>4, <1>0, <1>3 DEF PhoneHas, PhoneIs
    <3> QED  BY <3>1, <2>4, <1>2, <1>3, <1>4 DEF PhoneInv
  <2>5. CASE drafts' # <<>>
    BY <2>3, <2>5, <1>2, <1>3, <1>4 DEF PhoneInv
  <2> QED  BY <2>4, <2>5
<1> QED  BY <1>5, <1>6

\* The token of the loop's head goes through the model, which catches up with
\* the phone but for the drafts.
LEMMA ForwardPhone == ASSUME IInv, PhoneInv, ForwardToken PROVE PhoneInv'
<1>1. fed \in Nat /\ d' = 1 /\ n_accepted' = 0 /\ fed' = fed + 1
  BY DecodeAssumption DEF IInv, TypeOK, ForwardToken, Forward
<1>2. /\ UNCHANGED <<greedy, phone, strayed, drafting, drafts>>
      /\ \/ pc = "forward" /\ pc' = "head"
         \/ pc = "specForward" /\ pc' = "verify"
  BY DEF ForwardToken, Forward, phoneVars
<1>3. PhoneIs(fed + 1) => PhoneIs(fed)'
  BY <1>1, <1>2 DEF PhoneIs
<1>4. PhoneHas(fed + 1) => PhoneHas(fed - n_accepted)'
  BY <1>1, <1>2 DEF PhoneHas
<1>5. drafts \in Seq(Tokens) => Len(drafts) \in Nat
  OBVIOUS
<1> QED  BY <1>1, <1>2, <1>3, <1>4, <1>5 DEF PhoneInv

\* An accepted draft is in the phone's context already.
LEMMA AcceptPhone == ASSUME IInv, PhoneInv, AcceptDraft PROVE PhoneInv'
<1>1. /\ fed \in Nat /\ fed' = fed + 1 /\ n_accepted \in Nat
      /\ d' = d + 1 /\ n_accepted' = n_accepted + 1
      /\ d <= Len(drafts) /\ drafts[d] = greedy[fed] /\ d = n_accepted + 1
  BY DecodeAssumption DEF IInv, TypeOK, StepInv, Deciding, AcceptDraft, Forward,
     DraftMatches, Argmax, PhoneInv
<1>2. /\ UNCHANGED <<greedy, phone, strayed, drafting, drafts>>
      /\ pc = "verify" /\ pc' \in {"tell", "verify"}
  BY DEF AcceptDraft, Forward, phoneVars
<1>3. fed' - n_accepted' = fed - n_accepted
  BY <1>1
<1>4. CASE ~strayed
  <2>1. /\ n_accepted <= fed /\ PhoneHas(fed - n_accepted)
        /\ \A j \in 1 .. n_accepted : drafts[j] = greedy[fed - n_accepted + (j - 1)]
    BY <1>2, <1>4 DEF PhoneInv
  <2>2. PhoneHas(fed - n_accepted)'
    BY <2>1, <1>2, <1>3 DEF PhoneHas
  <2>3. \A j \in 1 .. n_accepted' : drafts[j] = greedy[fed - n_accepted + (j - 1)]
    BY <2>1, <1>1
  <2>4. n_accepted' <= fed'
    BY <2>1, <1>1
  <2> QED  BY <2>2, <2>3, <2>4, <1>1, <1>2, <1>3 DEF PhoneInv
<1> QED  BY <1>1, <1>2, <1>4 DEF PhoneInv

\* The phone drops the drafts that were not accepted.
LEMMA TellPhoneStep == ASSUME IInv, PhoneInv, TellPhone PROVE PhoneInv'
<1>1. /\ fed \in Nat /\ n_accepted \in Nat /\ pc = "tell" /\ pc' = "head"
      /\ drafts \in Seq(Tokens) /\ n_accepted <= Len(drafts)
      /\ UNCHANGED <<greedy, fed, drafting, drafts>>
  BY DecodeAssumption DEF IInv, TypeOK, TellPhone, modelVars, PhoneInv
<1>2. CASE strayed' = TRUE /\ UNCHANGED phone
  BY <1>1, <1>2 DEF PhoneInv
<1>3. CASE /\ phone' = SubSeq(phone, 1, Len(phone) - (Len(drafts) - n_accepted))
           /\ UNCHANGED strayed
  <2>1. drafts \in Seq(Tokens) /\ phone \in Seq(Tokens)
    BY DEF PhoneInv
  <2>2. CASE strayed
    <3>1. Len(drafts) \in Nat /\ Len(phone) \in Nat
      BY <2>1
    <3>2. phone' \in Seq(Tokens)
      BY <1>1, <1>3, <2>1, <3>1
    <3> QED  BY <1>1, <1>3, <2>1, <2>2, <3>2 DEF PhoneInv
  <2>3. CASE ~strayed
    <3>1. /\ n_accepted <= fed
          /\ PhoneHas(fed - n_accepted)
          /\ \A j \in 1 .. n_accepted : drafts[j] = greedy[fed - n_accepted + (j - 1)]
      BY <1>1, <2>3 DEF PhoneInv
    <3>2. Len(drafts) \in Nat /\ Len(phone) - (Len(drafts) - n_accepted) = fed
      BY <1>1, <2>1, <3>1 DEF PhoneHas
    <3>3. phone' = SubSeq(phone, 1, fed) /\ fed <= Len(phone)
      BY <1>1, <1>3, <2>1, <3>1, <3>2
    <3>4. /\ phone' \in Seq(Tokens) /\ Len(phone') = fed
          /\ \A i \in 1 .. fed : phone'[i] = phone[i]
      BY <1>1, <2>1, <3>3
    <3>5. ASSUME NEW i \in 1 .. fed PROVE phone[i] = greedy[i - 1]
      <4>1. CASE i <= fed - n_accepted
        BY <4>1, <3>1, <1>1 DEF PhoneHas
      <4>2. CASE i > fed - n_accepted
        <5> DEFINE j == i - (fed - n_accepted)
        <5>1. j \in 1 .. n_accepted /\ j \in 1 .. Len(drafts)
          BY <4>2, <3>1, <3>2, <1>1
        <5>2. phone[(fed - n_accepted) + j] = drafts[j]
          BY <5>1, <3>1 DEF PhoneHas
        <5>3. drafts[j] = greedy[fed - n_accepted + (j - 1)]
          BY <5>1, <3>1
        <5>4. (fed - n_accepted) + j = i /\ fed - n_accepted + (j - 1) = i - 1
          BY <1>1
        <5> QED  BY <5>2, <5>3, <5>4
      <4> QED  BY <4>1, <4>2, <1>1
    <3>6. PhoneIs(fed)'
      BY <1>1, <3>4, <3>5 DEF PhoneIs
    <3> QED  BY <1>1, <2>1, <3>4, <3>6 DEF PhoneInv
  <2> QED  BY <2>2, <2>3
<1> QED  BY <1>2, <1>3 DEF TellPhone, Verified

\* The steps that leave the phone's context, the model and the drafts alone.
LEMMA QuietPhone ==
  ASSUME IInv, PhoneInv,
         Prefill \/ PrefillFails \/ LoopEnds \/ PickToken \/ DraftFails \/ ForwardFails
           \/ AcceptFails \/ VerifyEnds \/ UNCHANGED vars
  PROVE  PhoneInv'
<1> USE DEF PhoneInv, PhoneIs, PhoneHas, modelVars, phoneVars, vars
<1>1. CASE Prefill
  BY <1>1 DEF Prefill, IInv, PrefillInv, StepInv, Deciding
<1>2. CASE PrefillFails  BY <1>2 DEF PrefillFails, Abort
<1>3. CASE LoopEnds  BY <1>3 DEF LoopEnds, Return
<1>4. CASE PickToken
  <2>1. /\ UNCHANGED <<greedy, fed, phone, strayed, drafting, drafts>> /\ pc = "head"
        /\ \/ pc' = "done"
           \/ pc' = "draft" /\ drafting
           \/ pc' = "forward" /\ ~drafting
    BY <1>4 DEF PickToken, Return
  <2> QED  BY <2>1
<1>5. CASE DraftFails  BY <1>5 DEF DraftFails
<1>6. CASE ForwardFails  BY <1>6 DEF ForwardFails, Return
<1>7. CASE AcceptFails
  <2>1. /\ strayed' /\ pc' = "tell" /\ UNCHANGED <<phone, drafts>>
        /\ n_accepted' = n_accepted + 1 /\ d <= Len(drafts) /\ d = n_accepted + 1
    BY <1>7 DEF AcceptFails, DraftMatches
  <2> QED  BY <2>1
<1>8. CASE VerifyEnds  BY <1>8 DEF VerifyEnds
<1>9. CASE UNCHANGED vars  BY <1>9
<1> QED  BY <1>1, <1>2, <1>3, <1>4, <1>5, <1>6, <1>7, <1>8, <1>9

\* Whatever the phone drafts, and whatever of it is accepted, its context is the
\* desktop's text when it is asked again, unless something failed or no draft
\* of a round was accepted: TellPhone drops exactly what was not verified.
THEOREM PhoneFollows == Spec => []PhoneInStep
<1>1. Init => PhoneInv
  BY DEF Init, PhoneInv
<1>2. IInv /\ PhoneInv /\ [Next]_vars => PhoneInv'
  BY DraftPhone, ForwardPhone, AcceptPhone, TellPhoneStep, QuietPhone DEF Next
<1>3. IInv /\ PhoneInv => PhoneInStep
  <2> SUFFICES ASSUME IInv, PhoneInv, pc = "draft", ~strayed
               PROVE  phone = [i \in 1 .. fed |-> greedy[i - 1]]
    BY DEF PhoneInStep
  <2>1. drafting /\ fed \in Nat
    BY DecodeAssumption DEF IInv, PrefillInv, TypeOK
  <2>2. phone \in Seq(Tokens) /\ PhoneIs(fed)
    BY <2>1 DEF PhoneInv
  <2> QED  BY <2>1, <2>2 DEF PhoneIs
<1> QED  BY <1>1, <1>2, <1>3, Invariance, PTL DEF Spec

-----------------------------------------------------------------------------
(* How long generation takes.                                              *)

\* The steps from a place in the program to the next token, at most.
Rank(place) ==
  CASE place \in {"done", "cut", "aborted"} -> 0
    [] place \in {"forward", "specForward"} -> 3
    [] place = "draft" -> 4
    [] place = "head" -> 5
    [] place = "tell" -> 6
    [] place = "verify" -> 7
    [] place = "prefill" -> 8

\* The steps that sp_beast_generate can still take: five for each token.
StepsLeft == 5 * (MaxTokens - n_generated) + Rank(pc)

\* Generation cannot go on for ever, however many drafts are sent and rejected
\* and whatever fails: every step of the loop is one of at most five for a
\* token, so the whole call takes no more than 5 * max_tokens + 8.
THEOREM FewStepsPerToken ==
  Spec => /\ [](StepsLeft \in 0 .. 5 * MaxTokens + 8)
          /\ [][StepsLeft' < StepsLeft]_vars
<1>1. IInv => StepsLeft \in 0 .. 5 * MaxTokens + 8
  <2> SUFFICES ASSUME IInv PROVE StepsLeft \in 0 .. 5 * MaxTokens + 8
    OBVIOUS
  <2>1. /\ n_generated \in 0 .. MaxTokens /\ Rank(pc) \in 0 .. 8 /\ MaxTokens \in Nat
    BY DecodeAssumption DEF IInv, TypeOK, Rank
  <2> QED
    BY <2>1 DEF StepsLeft
<1>2. ASSUME IInv, IInv', Next
      PROVE  StepsLeft' < StepsLeft
  <2>1. /\ n_generated \in 0 .. MaxTokens /\ n_generated' \in 0 .. MaxTokens
        /\ MaxTokens \in Nat
    BY <1>2, DecodeAssumption DEF IInv, TypeOK
  <2>2. /\ Rank("done") = 0 /\ Rank("cut") = 0 /\ Rank("aborted") = 0 /\ Rank("forward") = 3
        /\ Rank("specForward") = 3 /\ Rank("draft") = 4 /\ Rank("head") = 5
        /\ Rank("tell") = 6 /\ Rank("verify") = 7 /\ Rank("prefill") = 8
    BY DEF Rank
  <2>3. \/ n_generated' = n_generated /\ Rank(pc') < Rank(pc)
        \/ n_generated' = n_generated + 1 /\ Rank(pc') < Rank(pc) + 5
    <3> HIDE DEF Rank
    <3>1. CASE Prefill \/ PrefillFails \/ LoopEnds
      BY <2>2, <3>1 DEF Prefill, PrefillFails, LoopEnds, Abort, Return
    <3>2. CASE PickToken
      BY <2>2, <3>2 DEF PickToken, Return
    <3>3. CASE Draft \/ DraftFails \/ ForwardFails \/ VerifyEnds \/ TellPhone \/ AcceptFails
      BY <2>2, <3>3 DEF Draft, DraftFails, ForwardFails, VerifyEnds, TellPhone, AcceptFails, Return
    <3>4. CASE ForwardToken
      BY <2>2, <3>4 DEF ForwardToken
    <3>5. CASE AcceptDraft
      BY <2>2, <3>5 DEF AcceptDraft
    <3> QED
      BY <1>2, <3>1, <3>2, <3>3, <3>4, <3>5 DEF Next
  <2>4. Rank(pc) \in Nat /\ Rank(pc') \in Nat
    BY <1>2 DEF IInv, TypeOK, Rank
  <2> QED
    BY <2>1, <2>3, <2>4 DEF StepsLeft
<1>3. IInv /\ IInv' /\ [Next]_vars => [StepsLeft' < StepsLeft]_vars
  BY <1>2
<1> QED
  BY <1>1, <1>3, Invariance, PTL DEF Spec
=============================================================================
