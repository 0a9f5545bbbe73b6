------------------------------ MODULE ExpertCache ------------------------------
(***************************************************************************)
(* One call of the BURN_MOE operation (burn_moe_compute in                 *)
(* desktop/engine/src/burn_moe_op.cpp): for every token and every expert   *)
(* that was selected for it, the expert's weights are looked up in a       *)
(* bounded cache of dequantised experts, or dequantised from one of the    *)
(* two banks the loader has split the experts into, and their contribution *)
(* is added to the token's output.                                         *)
(*                                                                         *)
(* Weights are named by the expert they belong to; the caller keeps a      *)
(* pointer into the cache while it uses them.                              *)
(***************************************************************************)
EXTENDS Naturals, Sequences, FiniteSets

CONSTANTS
  NExperts,   \* n_expert
  NTokens,    \* the tokens of the call
  K,          \* n_expert_used, the experts selected for a token
  Cap         \* SP_BURN_MOE_DEQUANT_CACHE_CAP

ASSUME CacheAssumption ==
  /\ NExperts \in Nat \ {0}
  /\ NTokens \in Nat
  /\ K \in 1 .. NExperts
  /\ Cap \in Nat \ {0}

VARIABLES
  pivot,        \* the experts below it are in the CPU bank, 0 when there is no split
  unreadable,   \* the banks whose tensor type has no dequantiser
  pc,
  tok,          \* the token, t in the code
  chosen,       \* the experts looked up for the token so far
  e,            \* the expert that is looked up
  cache,        \* the entries, each with its expert, its tick and its weights
  lru_clock,
  ce            \* the position of the entry the caller uses

vars == <<pivot, unreadable, pc, tok, chosen, e, cache, lru_clock, ce>>

Experts == 0 .. NExperts - 1
Banks == {"cpu", "gpu"}

-----------------------------------------------------------------------------
(* The banks.                                                              *)

\* The loader's split: the CPU bank holds the experts below the pivot and the
\* GPU bank the others, both counted from 0.
ExpertAt(bank, local) == IF bank = "cpu" THEN local ELSE pivot + local

BankOf(x) == IF pivot > 0 /\ x < pivot THEN "cpu" ELSE "gpu"

\* Mutant: the experts of the GPU bank are not counted from its start.
LocalUnshifted(x) == x

LocalIndex(x) == IF pivot > 0 /\ x >= pivot THEN x - pivot ELSE x

Dequantised(x) == ExpertAt(BankOf(x), LocalIndex(x))

-----------------------------------------------------------------------------
(* The cache.                                                              *)

Entry(x, tick, weights) == [expert |-> x, tick |-> tick, weights |-> weights]

Cached(x) == \E i \in DOMAIN cache : cache[i].expert = x

\* Mutant: room is made one entry too late.
FullLate == Len(cache) > Cap

Full == Len(cache) >= Cap

\* Mutant: the entry that was used last is evicted.
EvictLatest(i) == \A j \in DOMAIN cache : cache[j].tick <= cache[i].tick

IsOldest(i) == \A j \in DOMAIN cache : cache[i].tick <= cache[j].tick

\* The last entry moves to the place of the oldest.
Evicted(i) == SubSeq([cache EXCEPT ![i] = cache[Len(cache)]], 1, Len(cache) - 1)

\* The entries that stay when one has to come in.
Kept == IF Full THEN {Evicted(i) : i \in {j \in DOMAIN cache : IsOldest(j)}} ELSE {cache}

-----------------------------------------------------------------------------
\* The graph builder's split (sp_build_burn_moe_op) and fresh scratch.
Init ==
  /\ pivot \in Experts
  /\ unreadable \in SUBSET Banks
  /\ pc = "select"
  /\ tok = 0
  /\ chosen = {}
  /\ e = 0
  /\ cache = <<>>
  /\ lru_clock = 0
  /\ ce = 0

\* The next of the token's selected experts; a selection has no duplicates.
Select(x) ==
  /\ pc = "select"
  /\ tok < NTokens
  /\ Cardinality(chosen) < K
  /\ x \notin chosen
  /\ chosen' = chosen \cup {x}
  /\ e' = x
  /\ pc' = "lookup"
  /\ UNCHANGED <<pivot, unreadable, tok, cache, lru_clock, ce>>

NextToken ==
  /\ pc = "select"
  /\ tok < NTokens
  /\ Cardinality(chosen) = K
  /\ tok' = tok + 1
  /\ chosen' = {}
  /\ UNCHANGED <<pivot, unreadable, pc, e, cache, lru_clock, ce>>

Hit ==
  /\ pc = "lookup"
  /\ \E i \in DOMAIN cache :
       /\ cache[i].expert = e
       /\ cache' = [cache EXCEPT ![i].tick = lru_clock + 1]
       /\ ce' = i
  /\ lru_clock' = lru_clock + 1
  /\ pc' = "use"
  /\ UNCHANGED <<pivot, unreadable, tok, chosen, e>>

Miss ==
  /\ pc = "lookup"
  /\ ~Cached(e)
  /\ lru_clock' = lru_clock + 1
  /\ \E kept \in Kept :
       IF BankOf(e) \in unreadable
       THEN /\ cache' = kept
            /\ pc' = "select"
            /\ UNCHANGED ce
       ELSE /\ cache' = Append(kept, Entry(e, lru_clock + 1, Dequantised(e)))
            /\ ce' = Len(kept) + 1
            /\ pc' = "use"
  /\ UNCHANGED <<pivot, unreadable, tok, chosen, e>>

\* expert_ffn_one_token through the pointer; when a matmul fails the expert
\* contributes nothing.
Use ==
  /\ pc = "use"
  /\ pc' = "select"
  /\ UNCHANGED <<pivot, unreadable, tok, chosen, e, cache, lru_clock, ce>>

Next == (\E x \in Experts : Select(x)) \/ NextToken \/ Hit \/ Miss \/ Use

Spec == Init /\ [][Next]_vars

-----------------------------------------------------------------------------
TypeOK ==
  /\ pivot \in Experts
  /\ unreadable \in SUBSET Banks
  /\ pc \in {"select", "lookup", "use"}
  /\ tok \in 0 .. NTokens
  /\ chosen \in SUBSET Experts
  /\ e \in Experts
  /\ cache \in Seq([expert : Experts, tick : Nat, weights : Experts])
  /\ lru_clock \in Nat
  /\ ce \in Nat

\* The cache never outgrows what was reserved for it, which is what keeps the
\* pointers into it valid, and never holds an expert twice.
CacheSound ==
  /\ Len(cache) <= Cap
  /\ \A i, j \in DOMAIN cache : cache[i].expert = cache[j].expert => i = j

\* The weights used for a selected expert are its own, whichever bank holds
\* them and whatever was evicted, moved or reused on the way.
RightWeights ==
  pc = "use" => ce \in DOMAIN cache /\ cache[ce].expert = e /\ cache[ce].weights = e

\* The experts of a sequence of entries, and which of two was used before the other.
HeldOf(c) == {c[i].expert : i \in DOMAIN c}

OlderOf(c) ==
  {p \in Experts \X Experts :
     \E i, j \in DOMAIN c :
       c[i].expert = p[1] /\ c[j].expert = p[2] /\ c[i].tick < c[j].tick}

\* The ticks and the swap with the last entry implement least-recently-used
\* eviction: an expert is evicted only when every other one was used later.
Lru == INSTANCE LruCache WITH
  Keys <- Experts, held <- HeldOf(cache), older <- OlderOf(cache)

EvictsLru == Lru!Spec
=============================================================================
