--------------------------- MODULE ExpertCacheProofs ---------------------------
(***************************************************************************)
(* Proofs about ExpertCache, for every number of experts and tokens, every *)
(* split and every capacity.                                               *)
(*                                                                         *)
(* The invariant adds to the checked ones that the ticks order the entries *)
(* strictly, up to the clock, and that every entry holds its own weights.  *)
(***************************************************************************)
EXTENDS ExpertCache, FiniteSetTheorems, TLAPS

Entries == [expert : Experts, tick : Nat, weights : Experts]

\* No expert twice, no tick twice, none ahead of the clock, own weights.
Ordered(c, clock) ==
  /\ \A i, j \in DOMAIN c : c[i].expert = c[j].expert => i = j
  /\ \A i, j \in DOMAIN c : c[i].tick = c[j].tick => i = j
  /\ \A i \in DOMAIN c : c[i].tick <= clock /\ c[i].weights = c[i].expert

IInv ==
  /\ TypeOK
  /\ CacheSound
  /\ Ordered(cache, lru_clock)
  /\ pc = "use" => ce \in DOMAIN cache /\ cache[ce].expert = e

-----------------------------------------------------------------------------
(* The banks.                                                              *)

\* Whichever bank an expert is in, its weights are read from its own place.
LEMMA OwnPlace ==
  ASSUME pivot \in Experts, NEW x \in Experts
  PROVE  Dequantised(x) = x
  BY CacheAssumption DEF Dequantised, ExpertAt, BankOf, LocalIndex, Experts

-----------------------------------------------------------------------------
(* Eviction.                                                               *)

\* Swapping the last entry into the place of another and dropping the last
\* place keeps every entry but that one.
LEMMA EvictedEntries ==
  ASSUME cache \in Seq(Entries), NEW i \in DOMAIN cache
  PROVE  /\ Evicted(i) \in Seq(Entries)
         /\ Len(Evicted(i)) = Len(cache) - 1
         /\ \A k \in 1 .. Len(cache) - 1 :
              Evicted(i)[k] = cache[IF k = i THEN Len(cache) ELSE k]
<1> DEFINE c == [cache EXCEPT ![i] = cache[Len(cache)]]
<1>1. /\ Len(cache) \in Nat /\ DOMAIN cache = 1 .. Len(cache) /\ Len(cache) >= 1
      /\ cache \in [1 .. Len(cache) -> Entries]
  OBVIOUS
<1>2. c \in [1 .. Len(cache) -> Entries]
  BY <1>1
<1>3. c \in Seq(Entries) /\ Len(c) = Len(cache)
  BY <1>1, <1>2
<1>4. \A k \in 1 .. Len(cache) : c[k] = IF k = i THEN cache[Len(cache)] ELSE cache[k]
  BY <1>1
<1> HIDE DEF c
<1>5. /\ SubSeq(c, 1, Len(cache) - 1) \in Seq(Entries)
      /\ Len(SubSeq(c, 1, Len(cache) - 1)) = Len(cache) - 1
      /\ \A k \in 1 .. Len(cache) - 1 : SubSeq(c, 1, Len(cache) - 1)[k] = c[k]
  BY <1>1, <1>3
<1> QED
  BY <1>1, <1>4, <1>5 DEF Evicted, c

\* After room has been made there is room, and what is left is still ordered.
LEMMA RoomMade ==
  ASSUME IInv, NEW kept \in Kept
  PROVE  /\ kept \in Seq(Entries)
         /\ Len(kept) < Cap
         /\ Ordered(kept, lru_clock)
         /\ \A k \in DOMAIN kept : \E j \in DOMAIN cache : kept[k] = cache[j]
<1>1. cache \in Seq(Entries) /\ Len(cache) <= Cap /\ Len(cache) \in Nat /\ Cap \in Nat \ {0}
  BY CacheAssumption DEF IInv, TypeOK, CacheSound, Entries
<1>2. CASE ~Full
  <2>1. kept = cache
    BY <1>2 DEF Kept
  <2> QED
    BY <1>1, <1>2, <2>1 DEF Full, IInv
<1>3. CASE Full
  <2>1. PICK i \in DOMAIN cache : kept = Evicted(i)
    BY <1>3 DEF Kept
  <2>2. /\ kept \in Seq(Entries) /\ Len(kept) = Len(cache) - 1
        /\ \A k \in 1 .. Len(cache) - 1 : kept[k] = cache[IF k = i THEN Len(cache) ELSE k]
    BY <1>1, <2>1, EvictedEntries
  <2>3. DOMAIN kept = 1 .. Len(cache) - 1 /\ DOMAIN cache = 1 .. Len(cache)
    BY <1>1, <2>2
  <2> DEFINE from(k) == IF k = i THEN Len(cache) ELSE k
  <2>6. /\ \A k \in DOMAIN kept : from(k) \in DOMAIN cache /\ kept[k] = cache[from(k)]
        /\ \A k, l \in DOMAIN kept : from(k) = from(l) => k = l
    BY <1>1, <2>2, <2>3
  <2> HIDE DEF from
  <2>4. Ordered(kept, lru_clock)
    <3>1. ASSUME NEW k \in DOMAIN kept, NEW l \in DOMAIN kept,
                 kept[k].expert = kept[l].expert \/ kept[k].tick = kept[l].tick
          PROVE  k = l
      BY <2>6, <3>1 DEF Ordered, IInv
    <3>2. ASSUME NEW k \in DOMAIN kept
          PROVE  kept[k].tick <= lru_clock /\ kept[k].weights = kept[k].expert
      BY <2>6 DEF Ordered, IInv
    <3> QED
      BY <3>1, <3>2 DEF Ordered
  <2>5. \A k \in DOMAIN kept : \E j \in DOMAIN cache : kept[k] = cache[j]
    BY <1>1, <2>2, <2>3
  <2> QED
    BY <1>1, <2>2, <2>4, <2>5
<1> QED
  BY <1>2, <1>3

-----------------------------------------------------------------------------
(* The invariant.                                                          *)

\* A call starts with an empty cache.
LEMMA InitIInv == Init => IInv
  BY CacheAssumption DEF Init, IInv, TypeOK, CacheSound, Ordered, Experts

\* A hit moves one entry to the front of the order.
LEMMA HitStep == ASSUME IInv, Hit PROVE IInv'
<1>1. /\ cache \in Seq(Entries) /\ Len(cache) <= Cap /\ lru_clock \in Nat
      /\ Ordered(cache, lru_clock)
  BY DEF IInv, TypeOK, CacheSound, Entries
<1>2. PICK i \in DOMAIN cache :
        /\ cache[i].expert = e
        /\ cache' = [cache EXCEPT ![i].tick = lru_clock + 1]
        /\ ce' = i
  BY DEF Hit
<1>3. /\ cache' \in Seq(Entries) /\ Len(cache') = Len(cache) /\ DOMAIN cache' = DOMAIN cache
      /\ cache'[i] = [cache[i] EXCEPT !.tick = lru_clock + 1]
      /\ \A j \in DOMAIN cache \ {i} : cache'[j] = cache[j]
      /\ \A j \in DOMAIN cache : cache[j] \in Entries
  <2> DEFINE new == [cache[i] EXCEPT !.tick = lru_clock + 1]
  <2>1. DOMAIN cache = 1 .. Len(cache) /\ cache \in [1 .. Len(cache) -> Entries]
    BY <1>1
  <2>2. cache[i] \in Entries
    BY <2>1
  <2>3. new \in Entries
    BY <1>1, <2>2 DEF Entries
  <2>4. cache' = [cache EXCEPT ![i] = new]
    BY <1>2
  <2> HIDE DEF new
  <2>5. cache' \in Seq(Entries) /\ Len(cache') = Len(cache)
    BY <1>1, <2>1, <2>3, <2>4
  <2>6. /\ DOMAIN cache' = DOMAIN cache /\ cache'[i] = new
        /\ \A j \in DOMAIN cache \ {i} : cache'[j] = cache[j]
    BY <2>1, <2>3, <2>4
  <2>7. \A j \in DOMAIN cache : cache[j] \in Entries
    BY <2>1
  <2> QED
    BY <2>5, <2>6, <2>7 DEF new
<1>4. /\ \A j \in DOMAIN cache : /\ cache'[j].expert = cache[j].expert
                                 /\ cache'[j].weights = cache[j].weights
                                 /\ cache[j].tick \in Nat
      /\ cache'[i].tick = lru_clock + 1
      /\ \A j \in DOMAIN cache \ {i} : cache'[j].tick = cache[j].tick
  BY <1>3 DEF Entries
<1>5. Ordered(cache', lru_clock + 1)
  <2>1. ASSUME NEW k \in DOMAIN cache, NEW l \in DOMAIN cache,
               cache'[k].expert = cache'[l].expert \/ cache'[k].tick = cache'[l].tick
        PROVE  k = l
    <3>1. CASE cache'[k].expert = cache'[l].expert
      BY <1>1, <1>4, <3>1 DEF Ordered
    <3>2. CASE cache'[k].tick = cache'[l].tick
      <4>1. \A j \in DOMAIN cache \ {i} : cache'[j].tick <= lru_clock /\ cache'[j].tick \in Nat
        BY <1>1, <1>4 DEF Ordered
      <4>2. k = i <=> l = i
        BY <1>1, <1>4, <3>2, <4>1
      <4> QED
        BY <1>1, <1>4, <3>2, <4>2 DEF Ordered
    <3> QED
      BY <2>1, <3>1, <3>2
  <2>2. ASSUME NEW k \in DOMAIN cache
        PROVE  cache'[k].tick <= lru_clock + 1 /\ cache'[k].weights = cache'[k].expert
    <3>1. k # i => cache[k].tick <= lru_clock /\ cache[k].tick \in Nat
      BY <1>1, <1>4 DEF Ordered
    <3> QED
      BY <1>1, <1>4, <3>1 DEF Ordered
  <2> QED
    BY <1>3, <2>1, <2>2 DEF Ordered
<1>6. /\ lru_clock' = lru_clock + 1 /\ pc' = "use"
      /\ UNCHANGED <<pivot, unreadable, tok, chosen, e>>
  BY DEF Hit
<1>7. TypeOK' /\ CacheSound'
  BY <1>1, <1>2, <1>3, <1>5, <1>6 DEF IInv, TypeOK, CacheSound, Ordered, Entries
<1> QED
  BY <1>2, <1>3, <1>4, <1>5, <1>6, <1>7 DEF IInv

\* A miss makes room and puts a new entry, with its own weights, at the front.
LEMMA MissStep == ASSUME IInv, Miss PROVE IInv'
<1>1. /\ lru_clock \in Nat /\ e \in Experts /\ pivot \in Experts /\ Cap \in Nat
      /\ lru_clock' = lru_clock + 1
      /\ UNCHANGED <<pivot, unreadable, tok, chosen, e>>
      /\ \A j \in DOMAIN cache : cache[j].expert # e
  BY CacheAssumption DEF IInv, TypeOK, Miss, Cached
<1>2. PICK kept \in Kept :
        IF BankOf(e) \in unreadable
        THEN cache' = kept /\ pc' = "select" /\ UNCHANGED ce
        ELSE /\ cache' = Append(kept, Entry(e, lru_clock + 1, Dequantised(e)))
             /\ ce' = Len(kept) + 1
             /\ pc' = "use"
  BY DEF Miss
<1>3. /\ kept \in Seq(Entries) /\ Len(kept) < Cap /\ Len(kept) \in Nat
      /\ Ordered(kept, lru_clock)
      /\ \A k \in DOMAIN kept : kept[k].expert # e
      /\ \A k \in DOMAIN kept : kept[k] \in Entries
  BY <1>1, RoomMade
<1>4. CASE BankOf(e) \in unreadable
  <2>1. Ordered(cache', lru_clock')
    BY <1>1, <1>2, <1>3, <1>4 DEF Ordered, Entries
  <2>2. TypeOK' /\ CacheSound'
    BY <1>1, <1>2, <1>3, <1>4 DEF IInv, TypeOK, CacheSound, Ordered, Entries
  <2> QED
    BY <1>2, <1>4, <2>1, <2>2 DEF IInv
<1>5. CASE BankOf(e) \notin unreadable
  <2> DEFINE new == Entry(e, lru_clock + 1, Dequantised(e))
  <2>1. /\ new \in Entries
        /\ new.expert = e /\ new.tick = lru_clock + 1 /\ new.weights = e
    BY <1>1, OwnPlace DEF Entry, Entries
  <2>2. cache' = Append(kept, new) /\ ce' = Len(kept) + 1 /\ pc' = "use"
    BY <1>2, <1>5
  <2> HIDE DEF new
  <2>3. /\ cache' \in Seq(Entries) /\ Len(cache') = Len(kept) + 1
        /\ DOMAIN cache' = 1 .. Len(kept) + 1
        /\ DOMAIN kept = 1 .. Len(kept)
        /\ \A k \in 1 .. Len(kept) : cache'[k] = kept[k]
        /\ cache'[Len(kept) + 1] = new
    BY <1>3, <2>1, <2>2
  <2>4. \A k \in 1 .. Len(kept) :
          /\ kept[k].tick \in Nat /\ kept[k].tick <= lru_clock
          /\ kept[k].expert # e /\ kept[k].weights = kept[k].expert
    BY <1>3, <2>3 DEF Ordered, Entries
  <2>5. Ordered(cache', lru_clock')
    <3>1. ASSUME NEW k \in DOMAIN cache', NEW l \in DOMAIN cache',
                 cache'[k].expert = cache'[l].expert \/ cache'[k].tick = cache'[l].tick
          PROVE  k = l
      BY <1>1, <1>3, <2>1, <2>3, <2>4, <3>1 DEF Ordered
    <3>2. ASSUME NEW k \in DOMAIN cache'
          PROVE  cache'[k].tick <= lru_clock' /\ cache'[k].weights = cache'[k].expert
      BY <1>1, <1>3, <2>1, <2>3, <2>4
    <3> QED
      BY <3>1, <3>2 DEF Ordered
  <2>6. TypeOK' /\ CacheSound'
    <3>1. TypeOK'
      BY <1>1, <1>3, <2>2, <2>3 DEF IInv, TypeOK, Entries
    <3>2. Len(cache') <= Cap
      BY <1>1, <1>3, <2>3
    <3>3. CacheSound'
      BY <2>5, <3>2 DEF CacheSound, Ordered
    <3> QED
      BY <3>1, <3>3
  <2> QED
    BY <1>1, <1>3, <2>1, <2>2, <2>3, <2>5, <2>6 DEF IInv
<1> QED
  BY <1>4, <1>5

\* Every step of the call keeps the invariant.
LEMMA NextIInv == IInv /\ [Next]_vars => IInv'
<1> SUFFICES ASSUME IInv, [Next]_vars PROVE IInv'
  OBVIOUS
<1>1. ASSUME NEW x \in Experts, Select(x) PROVE IInv'
  BY <1>1 DEF Select, IInv, TypeOK, CacheSound, Ordered
<1>2. CASE NextToken
  BY <1>2, CacheAssumption DEF NextToken, IInv, TypeOK, CacheSound, Ordered
<1>3. CASE Use
  BY <1>3 DEF Use, IInv, TypeOK, CacheSound, Ordered
<1>4. CASE UNCHANGED vars
  BY <1>4 DEF vars, IInv, TypeOK, CacheSound, Ordered
<1> QED
  BY <1>1, <1>2, <1>3, <1>4, HitStep, MissStep DEF Next

\* The invariant behind the theorems below.
THEOREM Invariance == Spec => []IInv
  BY InitIInv, NextIInv, PTL DEF Spec

\* The variables keep their types; a local index never leaves its bank.
THEOREM TypeCorrect == Spec => []TypeOK
  BY Invariance, PTL DEF IInv

\* The cache stays within the entries reserved for it and holds no expert twice.
THEOREM CacheBounded == Spec => []CacheSound
  BY Invariance, PTL DEF IInv

\* The pointer the caller uses leads to the weights of the selected expert.
THEOREM OwnWeights == Spec => []RightWeights
<1>1. IInv => RightWeights
  BY DEF IInv, Ordered, RightWeights
<1> QED
  BY <1>1, Invariance, PTL

-----------------------------------------------------------------------------
(* The cache implements least-recently-used eviction.  The abstract state  *)
(* of a sequence of entries is the set of its experts and the order of     *)
(* their ticks.                                                            *)

\* Which pairs are in the order, position by position.
LEMMA OlderPairs ==
  ASSUME NEW c \in Seq(Entries), NEW a, NEW b
  PROVE  <<a, b>> \in OlderOf(c) <=>
           \E i, j \in DOMAIN c :
             c[i].expert = a /\ c[j].expert = b /\ c[i].tick < c[j].tick
<1>1. \A i \in DOMAIN c : c[i] \in Entries
  OBVIOUS
<1>2. \A i \in DOMAIN c : c[i].expert \in Experts
  BY <1>1 DEF Entries
<1> QED
  BY <1>2 DEF OlderOf

\* The order is a set of pairs of held experts.
LEMMA OlderIsRelation ==
  ASSUME NEW c
  PROVE  OlderOf(c) \subseteq HeldOf(c) \X HeldOf(c)
<1>1. ASSUME NEW p \in OlderOf(c) PROVE p \in HeldOf(c) \X HeldOf(c)
  <2>1. p \in Experts \X Experts /\ p = <<p[1], p[2]>>
    BY <1>1 DEF OlderOf
  <2>2. p[1] \in HeldOf(c) /\ p[2] \in HeldOf(c)
    BY <1>1 DEF OlderOf, HeldOf
  <2> QED
    BY <2>1, <2>2
<1> QED
  BY <1>1

\* As no expert is held twice, there are as many of them as entries.
LEMMA HeldCardinality ==
  ASSUME NEW c \in Seq(Entries), NEW clock, Ordered(c, clock)
  PROVE  Cardinality(HeldOf(c)) = Len(c)
<1> DEFINE f == [i \in 1 .. Len(c) |-> c[i].expert]
<1>1. Len(c) \in Nat /\ DOMAIN c = 1 .. Len(c)
  OBVIOUS
<1>2. f \in [1 .. Len(c) -> HeldOf(c)]
  BY <1>1 DEF HeldOf
<1>3. \A a, b \in 1 .. Len(c) : f[a] = f[b] => a = b
  BY <1>1 DEF Ordered
<1>4. \A x \in HeldOf(c) : \E i \in 1 .. Len(c) : f[i] = x
  BY <1>1 DEF HeldOf
<1> HIDE DEF f
<1>5. f \in Bijection(1 .. Len(c), HeldOf(c))
  BY <1>2, <1>3, <1>4 DEF Bijection, Injection, Surjection, IsInjective
<1> QED
  BY <1>1, <1>5, FS_CountingElements DEF ExistsBijection

\* Making room in the sequence is making room in the abstract cache: the entry
\* with the least tick is the expert that was used before all the others.
LEMMA RoomMadeAbstractly ==
  ASSUME IInv, NEW kept \in Kept
  PROVE  /\ HeldOf(kept) \in Lru!Kept
         /\ OlderOf(kept) = {p \in OlderOf(cache) : p[1] \in HeldOf(kept) /\ p[2] \in HeldOf(kept)}
<1>1. /\ cache \in Seq(Entries) /\ Len(cache) <= Cap /\ Len(cache) \in Nat
      /\ Cap \in Nat \ {0} /\ Ordered(cache, lru_clock)
  BY CacheAssumption DEF IInv, TypeOK, CacheSound, Entries
<1>2. Cardinality(HeldOf(cache)) = Len(cache)
  BY <1>1, HeldCardinality
<1>3. Lru!Kept = IF Len(cache) < Cap THEN {HeldOf(cache)} ELSE {HeldOf(cache) \ {v} : v \in Lru!Oldest}
  <2>1. Lru!Cardinality(HeldOf(cache)) = Cardinality(HeldOf(cache))
    BY DEF Lru!Cardinality, Cardinality
  <2> QED
    BY <1>2, <2>1 DEF Lru!Kept
<1>4. CASE ~Full
  <2>1. kept = cache /\ Len(cache) < Cap
    BY <1>1, <1>4 DEF Kept, Full
  <2>2. OlderOf(cache) = {p \in OlderOf(cache) : p[1] \in HeldOf(cache) /\ p[2] \in HeldOf(cache)}
    BY OlderIsRelation
  <2> QED
    BY <1>3, <2>1, <2>2
<1>5. CASE Full
  <2>1. PICK i \in DOMAIN cache : kept = Evicted(i) /\ IsOldest(i)
    BY <1>5 DEF Kept
  <2> DEFINE from(k) == IF k = i THEN Len(cache) ELSE k
             v == cache[i].expert
  <2>2. /\ kept \in Seq(Entries) /\ DOMAIN cache = 1 .. Len(cache)
        /\ DOMAIN kept = 1 .. Len(cache) - 1
        /\ \A k \in DOMAIN kept : kept[k] = cache[from(k)]
    <3>1. Evicted(i) \in Seq(Entries) /\ Len(Evicted(i)) = Len(cache) - 1
      BY <1>1, EvictedEntries
    <3>2. \A k \in 1 .. Len(cache) - 1 : Evicted(i)[k] = cache[from(k)]
      BY <1>1, EvictedEntries
    <3>3. DOMAIN cache = 1 .. Len(cache) /\ DOMAIN kept = 1 .. Len(cache) - 1
      BY <1>1, <2>1, <3>1
    <3> QED
      BY <2>1, <3>1, <3>2, <3>3
  <2>3. /\ \A k \in DOMAIN kept : from(k) \in DOMAIN cache \ {i}
        /\ \A j \in DOMAIN cache \ {i} : \E k \in DOMAIN kept : from(k) = j
    <3>1. \A k \in DOMAIN kept : from(k) \in DOMAIN cache \ {i}
      BY <1>1, <2>2
    <3>2. ASSUME NEW j \in DOMAIN cache \ {i} PROVE \E k \in DOMAIN kept : from(k) = j
      <4>1. CASE j = Len(cache)
        BY <1>1, <2>2, <4>1
      <4>2. CASE j # Len(cache)
        <5>1. j \in DOMAIN kept /\ from(j) = j
          BY <1>1, <2>2, <4>2
        <5> QED
          BY <5>1
      <4> QED
        BY <4>1, <4>2
    <3> QED
      BY <3>1, <3>2
  <2> HIDE DEF from
  <2>4. \A j \in DOMAIN cache \ {i} : cache[j].expert # v
    BY <1>1 DEF Ordered
  <2>5. HeldOf(kept) = HeldOf(cache) \ {v}
    BY <2>2, <2>3, <2>4 DEF HeldOf
  <2>6. v \in Lru!Oldest
    <3>1. v \in HeldOf(cache)
      BY DEF HeldOf
    <3>2. ASSUME NEW x \in HeldOf(cache) \ {v} PROVE <<v, x>> \in OlderOf(cache)
      <4>1. PICK j \in DOMAIN cache : x = cache[j].expert
        BY DEF HeldOf
      <4>2. j # i
        BY <4>1
      <4>3. cache[i].tick <= cache[j].tick /\ cache[i].tick # cache[j].tick
        BY <1>1, <2>1, <4>2 DEF IsOldest, Ordered
      <4>4. cache[i].tick \in Nat /\ cache[j].tick \in Nat
        <5>1. cache[i] \in Entries /\ cache[j] \in Entries
          BY <1>1
        <5> QED
          BY <5>1 DEF Entries
      <4> QED
        BY <1>1, <4>1, <4>3, <4>4, OlderPairs
    <3> QED
      BY <3>1, <3>2 DEF Lru!Oldest
  <2>7. HeldOf(kept) \in Lru!Kept
    BY <1>1, <1>3, <1>5, <2>5, <2>6 DEF Full
  <2>8. ASSUME NEW a, NEW b
        PROVE  <<a, b>> \in OlderOf(kept) <=>
                 <<a, b>> \in OlderOf(cache) /\ a # v /\ b # v
    <3>1. <<a, b>> \in OlderOf(kept) <=>
            \E k, l \in DOMAIN kept :
              /\ cache[from(k)].expert = a /\ cache[from(l)].expert = b
              /\ cache[from(k)].tick < cache[from(l)].tick
      <4>1. kept \in Seq(Entries)
        BY <2>2
      <4>2. <<a, b>> \in OlderOf(kept) <=>
              \E k, l \in DOMAIN kept :
                kept[k].expert = a /\ kept[l].expert = b /\ kept[k].tick < kept[l].tick
        BY <4>1, OlderPairs
      <4>3. \A k \in DOMAIN kept : kept[k] = cache[from(k)]
        BY <2>2
      <4> QED
        BY <4>2, <4>3, Zenon
    <3>2. <<a, b>> \in OlderOf(cache) <=>
            \E j, l \in DOMAIN cache :
              cache[j].expert = a /\ cache[l].expert = b /\ cache[j].tick < cache[l].tick
      BY <1>1, OlderPairs
    <3>3. <<a, b>> \in OlderOf(kept) <=>
            \E j, l \in DOMAIN cache \ {i} :
              cache[j].expert = a /\ cache[l].expert = b /\ cache[j].tick < cache[l].tick
      BY <2>3, <3>1
    <3> QED
      BY <2>4, <3>2, <3>3
  <2>9. OlderOf(kept) = {p \in OlderOf(cache) : p[1] \in HeldOf(kept) /\ p[2] \in HeldOf(kept)}
    BY <2>5, <2>8, OlderIsRelation
  <2> QED
    BY <2>7, <2>9
<1> QED
  BY <1>4, <1>5

\* A new entry with a later tick: its expert comes after all that are held.
LEMMA OlderAppend ==
  ASSUME NEW c \in Seq(Entries), NEW clock \in Nat, Ordered(c, clock),
         NEW new \in Entries, new.tick = clock + 1, new.expert \notin HeldOf(c)
  PROVE  /\ HeldOf(Append(c, new)) = HeldOf(c) \cup {new.expert}
         /\ OlderOf(Append(c, new)) = OlderOf(c) \cup (HeldOf(c) \X {new.expert})
<1> DEFINE d == Append(c, new)
<1>1. /\ d \in Seq(Entries) /\ Len(c) \in Nat
      /\ DOMAIN c = 1 .. Len(c) /\ DOMAIN d = DOMAIN c \cup {Len(c) + 1}
      /\ \A i \in DOMAIN c : d[i] = c[i] /\ i # Len(c) + 1
      /\ d[Len(c) + 1] = new
  OBVIOUS
<1> HIDE DEF d
<1>2. \A i \in DOMAIN c : c[i].tick \in Nat /\ c[i].tick < clock + 1
  <2>1. \A i \in DOMAIN c : c[i] \in Entries
    OBVIOUS
  <2> QED
    BY <2>1 DEF Entries, Ordered
<1>3. HeldOf(d) = HeldOf(c) \cup {new.expert}
  BY <1>1 DEF HeldOf
<1>4. ASSUME NEW a, NEW b
      PROVE  <<a, b>> \in OlderOf(d) <=>
               <<a, b>> \in OlderOf(c) \/ (a \in HeldOf(c) /\ b = new.expert)
  <2>1. <<a, b>> \in OlderOf(d) <=>
          \E i, j \in DOMAIN d : d[i].expert = a /\ d[j].expert = b /\ d[i].tick < d[j].tick
    <3>1. d \in Seq(Entries)
      BY <1>1
    <3> QED
      BY <3>1, OlderPairs
  <2>2. <<a, b>> \in OlderOf(c) <=>
          \E i, j \in DOMAIN c : c[i].expert = a /\ c[j].expert = b /\ c[i].tick < c[j].tick
    BY OlderPairs
  <2>3. \A i \in DOMAIN d : ~(new.tick < d[i].tick)
    BY <1>1, <1>2
  <2>4. ASSUME NEW i \in DOMAIN d, NEW j \in DOMAIN d,
               d[i].expert = a, d[j].expert = b, d[i].tick < d[j].tick
        PROVE  <<a, b>> \in OlderOf(c) \/ (a \in HeldOf(c) /\ b = new.expert)
    <3>1. i \in DOMAIN c
      BY <1>1, <2>3, <2>4
    <3>2. CASE j \in DOMAIN c
      BY <1>1, <2>2, <2>4, <3>1, <3>2
    <3>3. CASE j = Len(c) + 1
      BY <1>1, <2>4, <3>1, <3>3 DEF HeldOf
    <3> QED
      BY <1>1, <3>2, <3>3
  <2>5. ASSUME a \in HeldOf(c), b = new.expert PROVE <<a, b>> \in OlderOf(d)
    <3>1. PICK i \in DOMAIN c : c[i].expert = a
      BY <2>5 DEF HeldOf
    <3> QED
      BY <1>1, <1>2, <2>1, <2>5, <3>1
  <2>6. <<a, b>> \in OlderOf(c) => <<a, b>> \in OlderOf(d)
    BY <1>1, <2>1, <2>2
  <2> QED
    BY <2>1, <2>4, <2>5, <2>6
<1>5. OlderOf(d) = OlderOf(c) \cup (HeldOf(c) \X {new.expert})
  <2>1. OlderOf(d) \subseteq HeldOf(d) \X HeldOf(d) /\ OlderOf(c) \subseteq HeldOf(c) \X HeldOf(c)
    BY OlderIsRelation
  <2> QED
    BY <1>4, <2>1
<1> QED
  BY <1>3, <1>5 DEF d

\* A hit is a hit: the expert becomes the one used last.
LEMMA HitIsHit == ASSUME IInv, Hit PROVE Lru!Hit(e)
<1>1. /\ cache \in Seq(Entries) /\ lru_clock \in Nat /\ Ordered(cache, lru_clock)
      /\ cache' \in Seq(Entries)
  BY HitStep DEF IInv, TypeOK, Entries
<1>2. PICK i \in DOMAIN cache :
        cache[i].expert = e /\ cache' = [cache EXCEPT ![i].tick = lru_clock + 1]
  BY DEF Hit
<1>3. \A j \in DOMAIN cache : cache[j] \in Entries
  BY <1>1
<1>4. /\ DOMAIN cache' = DOMAIN cache
      /\ \A j \in DOMAIN cache : cache'[j].expert = cache[j].expert
      /\ cache'[i].tick = lru_clock + 1
      /\ \A j \in DOMAIN cache \ {i} : cache'[j].tick = cache[j].tick
  <2>1. cache'[i] = [cache[i] EXCEPT !.tick = lru_clock + 1]
    BY <1>1, <1>2
  <2>2. \A j \in DOMAIN cache \ {i} : cache'[j] = cache[j]
    BY <1>1, <1>2
  <2>3. DOMAIN cache' = DOMAIN cache
    BY <1>1, <1>2
  <2> QED
    BY <1>3, <2>1, <2>2, <2>3 DEF Entries
<1>5. \A j \in DOMAIN cache : cache[j].tick \in Nat /\ cache[j].tick < lru_clock + 1
  BY <1>1, <1>3 DEF Entries, Ordered
<1>6. \A j \in DOMAIN cache \ {i} : cache[j].expert # e
  BY <1>1, <1>2 DEF Ordered
<1>7. HeldOf(cache') = HeldOf(cache) /\ e \in HeldOf(cache)
  BY <1>2, <1>4 DEF HeldOf
<1>8. ASSUME NEW a, NEW b
      PROVE  <<a, b>> \in OlderOf(cache') <=>
               \/ <<a, b>> \in OlderOf(cache) /\ a # e /\ b # e
               \/ a \in HeldOf(cache) \ {e} /\ b = e
  <2>1. <<a, b>> \in OlderOf(cache') <=>
          \E j, l \in DOMAIN cache :
            cache[j].expert = a /\ cache[l].expert = b /\ cache'[j].tick < cache'[l].tick
    <3>1. <<a, b>> \in OlderOf(cache') <=>
            \E j, l \in DOMAIN cache' :
              cache'[j].expert = a /\ cache'[l].expert = b /\ cache'[j].tick < cache'[l].tick
      BY <1>1, OlderPairs
    <3> QED
      BY <1>4, <3>1
  <2>2. <<a, b>> \in OlderOf(cache) <=>
          \E j, l \in DOMAIN cache :
            cache[j].expert = a /\ cache[l].expert = b /\ cache[j].tick < cache[l].tick
    BY <1>1, OlderPairs
  <2>3. \A j \in DOMAIN cache : ~(cache'[i].tick < cache'[j].tick)
    BY <1>1, <1>4, <1>5
  <2>4. ASSUME NEW j \in DOMAIN cache, NEW l \in DOMAIN cache,
               cache[j].expert = a, cache[l].expert = b, cache'[j].tick < cache'[l].tick
        PROVE  \/ <<a, b>> \in OlderOf(cache) /\ a # e /\ b # e
               \/ a \in HeldOf(cache) \ {e} /\ b = e
    <3>1. j # i
      BY <2>3, <2>4
    <3>2. CASE l = i
      BY <1>2, <1>6, <2>4, <3>1, <3>2 DEF HeldOf
    <3>3. CASE l # i
      BY <1>4, <1>6, <2>2, <2>4, <3>1, <3>3
    <3> QED
      BY <3>2, <3>3
  <2>5. ASSUME <<a, b>> \in OlderOf(cache), a # e, b # e PROVE <<a, b>> \in OlderOf(cache')
    BY <1>2, <1>4, <2>1, <2>2, <2>5
  <2>6. ASSUME a \in HeldOf(cache) \ {e}, b = e PROVE <<a, b>> \in OlderOf(cache')
    <3>1. PICK j \in DOMAIN cache : cache[j].expert = a
      BY <2>6 DEF HeldOf
    <3>2. j # i
      BY <1>2, <2>6, <3>1
    <3> QED
      BY <1>2, <1>4, <1>5, <2>1, <2>6, <3>1, <3>2
  <2> QED
    BY <2>1, <2>4, <2>5, <2>6
<1>9. OlderOf(cache') = Lru!Latest(e, HeldOf(cache))
  <2>1. /\ OlderOf(cache') \subseteq HeldOf(cache') \X HeldOf(cache')
        /\ OlderOf(cache) \subseteq HeldOf(cache) \X HeldOf(cache)
    BY OlderIsRelation
  <2>2. Lru!Latest(e, HeldOf(cache)) \subseteq HeldOf(cache) \X HeldOf(cache)
    BY <1>7, <2>1 DEF Lru!Latest
  <2>3. ASSUME NEW a, NEW b
        PROVE  <<a, b>> \in Lru!Latest(e, HeldOf(cache)) <=>
               \/ <<a, b>> \in OlderOf(cache) /\ a # e /\ b # e
               \/ a \in HeldOf(cache) \ {e} /\ b = e
    BY <2>1 DEF Lru!Latest
  <2> QED
    BY <1>7, <1>8, <2>1, <2>2, <2>3
<1> QED
  BY <1>7, <1>9 DEF Lru!Hit

\* A miss is a load of the expert, or, when its bank cannot be dequantised, the
\* room that was made for it.
LEMMA MissIsLoad == ASSUME IInv, Miss PROVE Lru!Load(e) \/ Lru!LoadFails(e)
<1>1. /\ lru_clock \in Nat /\ e \in Experts /\ pivot \in Experts
      /\ e \notin HeldOf(cache)
  BY DEF IInv, TypeOK, Miss, Cached, HeldOf
<1>2. PICK kept \in Kept :
        IF BankOf(e) \in unreadable
        THEN cache' = kept
        ELSE cache' = Append(kept, Entry(e, lru_clock + 1, Dequantised(e)))
  BY DEF Miss
<1>3. /\ HeldOf(kept) \in Lru!Kept
      /\ OlderOf(kept) = {p \in OlderOf(cache) : p[1] \in HeldOf(kept) /\ p[2] \in HeldOf(kept)}
  BY RoomMadeAbstractly
<1>4. kept \in Seq(Entries) /\ Ordered(kept, lru_clock) /\ e \notin HeldOf(kept)
  BY <1>1, RoomMade DEF HeldOf
<1>5. CASE BankOf(e) \in unreadable
  BY <1>1, <1>2, <1>3, <1>5 DEF Lru!LoadFails
<1>6. CASE BankOf(e) \notin unreadable
  <2> DEFINE new == Entry(e, lru_clock + 1, Dequantised(e))
  <2>1. new \in Entries /\ new.expert = e /\ new.tick = lru_clock + 1
    BY <1>1, OwnPlace DEF Entry, Entries
  <2>2. cache' = Append(kept, new)
    BY <1>2, <1>6
  <2> HIDE DEF new
  <2>3. /\ HeldOf(cache') = HeldOf(kept) \cup {e}
        /\ OlderOf(cache') = OlderOf(kept) \cup (HeldOf(kept) \X {e})
    BY <1>1, <1>4, <2>1, <2>2, OlderAppend
  <2>4. Lru!Latest(e, HeldOf(kept) \cup {e}) = OlderOf(kept) \cup (HeldOf(kept) \X {e})
    <3>1. (HeldOf(kept) \cup {e}) \ {e} = HeldOf(kept)
      BY <1>4
    <3> QED
      BY <1>3, <3>1 DEF Lru!Latest
  <2> QED
    BY <1>1, <1>3, <2>3, <2>4 DEF Lru!Load
<1> QED
  BY <1>5, <1>6

\* The bounded cache of dequantised experts is a least-recently-used cache.
THEOREM CacheImplementsLru == Spec => EvictsLru
<1>1. Init => Lru!Init
  BY DEF Init, Lru!Init, HeldOf, OlderOf
<1>2. ASSUME IInv, [Next]_vars PROVE [Lru!Next]_(Lru!vars)
  <2>0. e \in Experts
    BY <1>2 DEF IInv, TypeOK
  <2>1. CASE UNCHANGED cache
    BY <2>1 DEF Lru!vars, HeldOf, OlderOf
  <2>2. CASE Hit
    BY <1>2, <2>2, <2>0, HitIsHit DEF Lru!Next
  <2>3. CASE Miss
    BY <1>2, <2>3, <2>0, MissIsLoad DEF Lru!Next
  <2> QED
    BY <1>2, <2>1, <2>2, <2>3 DEF Next, Select, NextToken, Use, vars
<1> QED
  BY <1>1, <1>2, Invariance, PTL DEF Spec, EvictsLru, Lru!Spec
=============================================================================
