---------------------------- MODULE MCKvSession ----------------------------
(***************************************************************************)
(* Model checking of KvSession: two processes, one after the other, over   *)
(* one directory; two models, two layers.  A chat feeds 3 or 8 tokens, a   *)
(* chunk of perplexity 7, so that most flagged positions (3, 5, 9, 11), a  *)
(* fixed-N reset after 3 and a cooldown of 2 fall inside a run.            *)
(***************************************************************************)
EXTENDS KvSession, TLC

CONSTANTS m1, m2, m3, h1, h2, h0
MCKvModels == {m1, m2, m3}
MCHashes == {h1, h2, h0}
MCHash == (m1 :> h1) @@ (m2 :> h2) @@ (m3 :> h0)
\* Models may change places together with their hashes; h0 is the hash 0.
MCSymmetry ==
    {p \in Permutations(MCKvModels \cup MCHashes) :
        p[h0] = h0 /\ \A m \in MCKvModels : p[m] \in MCKvModels /\ p[MCHash[m]] = MCHash[p[m]]}
MCTokens == Conversations
\* Every conversation has a token of its own, so that one taken for another shows.
MCText == [c \in Conversations |-> [p \in 0..(Cap - 1) |-> c]]
MCSchedule == <<3, 5, 9, 11>>
MCHighRisk == {5}
MCKinds == {"ship", "sqfree", "hier"}
MCModes == {0, 1, 2}
MCPredicts == {2, 7}

\* What a process does that loads nothing is the same beside any files, so it
\* is started beside none.
MCNeedsFiles ==
    pc = "idle" /\ pc' = "prefill" => \A f \in Planes : disk[f] = NoFile
=============================================================================
