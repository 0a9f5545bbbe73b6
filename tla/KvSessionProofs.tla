-------------------------- MODULE KvSessionProofs --------------------------
(***************************************************************************)
(* What KvSession promises, for any number of layers, positions, processes *)
(* and chunks, any reset schedule and any cooldown.                        *)
(***************************************************************************)
EXTENDS KvSession, TLAPS

USE DEF kvVars, sessionVars

\* Where the counters stand in each phase of a process.
Phase ==
    /\ pc = "idle" => /\ cache = Blank /\ kvPos = 0 /\ loaded = 0
                      /\ chunk = 1 /\ nRunning = 0 /\ cmd = "chat"
    /\ pc # "idle" => /\ launches >= 1 /\ 1 <= nFirst
                      /\ nFirst <= nStop /\ nStop < maxSeq
    /\ pc = "load" => /\ cache = Blank /\ kvPos = 0 /\ loaded = 0 /\ chunk = 1
                      /\ cmd = "chat"
                      /\ \A f \in Planes : disk[f].n <= maxSeq
    /\ cmd = "perplexity" => loaded = 0
    /\ pc = "prefill" => kvPos = loaded
    /\ Decoding => /\ kvPos = loaded + nRunning
                   /\ nFirst <= nRunning /\ nRunning <= nStop
                   /\ since <= nRunning - nFirst
    /\ pc = "save" => kvPos > 0 /\ saveAt < NFiles
    /\ pc \notin {"save", "done"} => saveAt = 0

\* Without a lax load, the vectors of a file are of models with its hash.
FilesOfOneHash ==
    ~lax => \A f \in Planes : disk[f].n > 0 =>
        \A p \in 0..(Cap - 1) :
            disk[f].data[p].pos >= 0 => Hash[disk[f].data[p].model] = disk[f].hash

\* How the controller's last reset relates to the positions decoded since.
Watch ==
    /\ Decoding => since = nRunning - nFirst \/ since = Pos - ctl.last
    /\ pc \in {"load", "prefill"} /\ chunk = 1 =>
           ctl.last = NeverReset /\ ctl.idx = 1
    /\ Decoding /\ chunk = 1 =>
           /\ ctl.last = NeverReset => since = nRunning - nFirst
           /\ ctl.last # NeverReset => since = Pos - ctl.last
           /\ \A j \in 1..(ctl.idx - 1) : Schedule[j] <= Pos
    /\ pc = "step" /\ chunk = 1 /\ ctl.mode = 1 =>
           since <= Warmup \/ since < PartialWindow \/ since < FixedN
    /\ pc = "check" /\ chunk = 1 /\ ctl.mode = 1 => ChainShort

Inv == TypeOK /\ Phase /\ CacheInStep /\ LoadSameHash /\ FilesOfOneHash /\ Watch
-----------------------------------------------------------------------------
\* The record operations of the controller keep its type and what they name.
LEMMA FedKeeps ==
    ASSUME NEW c \in Controller, NEW n \in Nat, NEW d \in RicciFed(c, n)
    PROVE  /\ d \in Controller
           /\ d.mode = c.mode /\ d.last = c.last /\ d.idx = c.idx
           /\ d.mertens = c.mertens
<1>1. CASE ~(c.ricci /\ c.rcal)
  BY <1>1 DEF RicciFed
<1>2. CASE c.ricci /\ c.rcal
  <2>1. PICK r \in BOOLEAN : d = [c EXCEPT !.rn = @ + n, !.rec = r]
    BY <1>2 DEF RicciFed
  <2>2. c.rn + n \in Nat
    BY DEF Controller
  <2>3. /\ d.mode = c.mode /\ d.last = c.last /\ d.idx = c.idx
        /\ d.mertens = c.mertens
    BY <2>1 DEF Controller
  <2> QED
    BY <2>1, <2>2, <2>3 DEF Controller
<1> QED
  BY <1>1, <1>2

LEMMA CalibratedKeeps ==
    ASSUME NEW c \in Controller
    PROVE  /\ RicciCalibrated(c) \in Controller
           /\ RicciCalibrated(c).mode = c.mode
           /\ RicciCalibrated(c).last = c.last
           /\ RicciCalibrated(c).idx = c.idx
           /\ RicciCalibrated(c).mertens = c.mertens
BY DEF RicciCalibrated, Controller

LEMMA ControllerFedKeeps ==
    ASSUME ctl \in Controller, NEW n \in Nat, NEW d \in ControllerFed(n)
    PROVE  /\ d \in Controller
           /\ d.mode = ctl.mode /\ d.last = ctl.last /\ d.idx = ctl.idx
           /\ d.mertens = ctl.mertens
<1>1. CASE Calibrates(skipCal)
  BY <1>1, CalibratedKeeps, FedKeeps DEF ControllerFed
<1>2. CASE ~Calibrates(skipCal)
  BY <1>2, FedKeeps DEF ControllerFed
<1> QED
  BY <1>1, <1>2

LEMMA ResetKeeps ==
    ASSUME NEW c \in Controller, NEW pos \in Nat, NEW i \in 1..(Len(Schedule) + 1)
    PROVE  /\ AfterReset(c, pos, i) \in Controller
           /\ AfterReset(c, pos, i).mode = c.mode
           /\ AfterReset(c, pos, i).last = pos
           /\ AfterReset(c, pos, i).idx = i
BY DEF AfterReset, Controller

LEMMA NewControllerFresh ==
    ASSUME NEW mode \in 0..2, NEW r \in BOOLEAN, NEW m \in BOOLEAN
    PROVE  /\ NewController(mode, r, m) \in Controller
           /\ NewController(mode, r, m).last = NeverReset
           /\ NewController(mode, r, m).idx = 1
BY CauchyAssumption DEF NewController, Controller, NeverReset

\* A write puts entries into slots.
LEMMA WrittenContents ==
    ASSUME NEW c \in Contents, NEW at \in Nat, NEW toks \in Seq(Tokens),
           NEW from \in Nat, from <= at, NEW id \in Nat, model \in Models
    PROVE  Written(c, at, toks, from, id) \in Contents
<1>1. ASSUME NEW p \in 0..(Cap - 1), p \in at..(at + Len(toks) - 1)
      PROVE  Vector(at, toks, from, id, p) \in Entry
  <2>1. p - at + 1 \in 1..Len(toks) /\ from + (p - at) \in 0..(Cap - 1)
    BY <1>1, KvAssumption
  <2>2. toks[p - at + 1] \in Tokens
    BY <2>1
  <2> QED
    BY <2>1, <2>2 DEF Entry, Vector
<1>2. ASSUME NEW f \in Planes, NEW p \in 0..(Cap - 1)
      PROVE  (IF p \in at..(at + Len(toks) - 1)
              THEN Vector(at, toks, from, id, p) ELSE c[f][p]) \in Entry \cup {Empty}
  <2>1. c[f][p] \in Entry \cup {Empty}
    BY DEF Slots, Contents
  <2> QED
    BY <2>1, <1>1
<1> QED
  BY <1>2 DEF Written, Slots, Contents

LEMMA BlankSlots == Blank \in Contents
BY DEF Blank, Slots, Contents

LEMMA RecalibratedSlots ==
    ASSUME NEW c \in Contents
    PROVE  Recalibrated(c) \in Contents
BY BlankSlots DEF Recalibrated

\* The part of a conversation fed so far is a sequence of its tokens.
LEMMA PrefixTokens ==
    ASSUME TypeOK, launches >= 1, NEW n \in 1..Cap
    PROVE  /\ Prefix(n) \in Seq(Tokens) /\ Len(Prefix(n)) = n
           /\ Prefix(n) # <<>>
           /\ \A i \in 1..n : Prefix(n)[i] = Text[<<launches, chunk>>][i - 1]
<1>1. <<launches, chunk>> \in Conversations
  BY DEF TypeOK, Conversations
<1>2. \A p \in 0..(Cap - 1) : Text[<<launches, chunk>>][p] \in Tokens
  BY <1>1, SessionAssumption
<1>3. \A i \in 1..n : i - 1 \in 0..(Cap - 1)
  BY KvAssumption
<1>4. Prefix(n) \in [1..n -> Tokens]
  BY <1>2, <1>3 DEF Prefix
<1>5. Prefix(n) \in Seq(Tokens) /\ Len(Prefix(n)) = n
  BY <1>4
<1> QED
  BY <1>5 DEF Prefix

\* A prefill: what the planes hold afterwards.
LEMMA PrefillEffect ==
    ASSUME TypeOK, launches >= 1, NEW at \in Nat, NEW n \in 1..Cap,
           PrefillAt(at, Prefix(n), skipCal, launches)
    PROVE  /\ cache' \in Contents /\ cal' \in 0..MaxLaunches
           /\ calibrated' \in BOOLEAN
           /\ kvPos' = IF WriteFits(at, n) THEN at + n ELSE at
           /\ \A f \in Planes : \A p \in 0..(Cap - 1) :
                 IF WriteFits(at, n) /\ p \in at..(at + n - 1)
                 THEN cache'[f][p] =
                        [tok |-> Text[<<launches, chunk>>][p - at], pos |-> p - at,
                         cal |-> cal', model |-> model]
                 ELSE cache'[f][p] \in {cache[f][p], Empty}
<1> DEFINE toks == Prefix(n)
           base == IF Calibrates(skipCal) THEN Recalibrated(cache) ELSE cache
<1>1. /\ toks \in Seq(Tokens) /\ Len(toks) = n
      /\ \A i \in 1..n : toks[i] = Text[<<launches, chunk>>][i - 1]
  BY PrefixTokens
<1>2. cal' \in 0..MaxLaunches /\ calibrated' \in BOOLEAN
  BY DEF PrefillAt, TypeOK, Calibrates
<1>3. base \in Contents
  BY RecalibratedSlots DEF TypeOK
<1>4. \A f \in Planes : \A p \in 0..(Cap - 1) :
         base[f][p] \in {cache[f][p], Empty}
  BY DEF Recalibrated, Blank
<1>5. kvPos' = IF WriteFits(at, n) THEN at + n ELSE at
  BY <1>1 DEF PrefillAt
<1>6. CASE WriteFits(at, n)
  <2>1. cache' = Written(base, at, toks, 0, cal')
    BY <1>6, <1>1 DEF PrefillAt
  <2>2. /\ cache' \in Contents
        /\ \A f \in Planes : \A p \in 0..(Cap - 1) :
              cache'[f][p] =
                 IF p \in at..(at + Len(toks) - 1)
                 THEN Vector(at, toks, 0, cal', p)
                 ELSE base[f][p]
    <3> HIDE DEF base, toks
    <3>1. model \in Models /\ 0 <= at /\ cal' \in Nat
      BY <1>2, SessionAssumption DEF TypeOK
    <3>2. Written(base, at, toks, 0, cal') \in Contents
      BY <1>1, <1>3, <3>1, WrittenContents
    <3> QED
      BY <2>1, <3>2 DEF Written
  <2>3. ASSUME NEW f \in Planes, NEW p \in 0..(Cap - 1), p \in at..(at + n - 1)
        PROVE  cache'[f][p] =
                 [tok |-> Text[<<launches, chunk>>][p - at], pos |-> p - at,
                  cal |-> cal', model |-> model]
    <3> HIDE DEF base, toks
    <3>1. p - at + 1 \in 1..n /\ (p - at + 1) - 1 = p - at /\ 0 + (p - at) = p - at
      BY <2>3
    <3>2. toks[p - at + 1] = Text[<<launches, chunk>>][p - at]
      BY <3>1, <1>1
    <3>3. p \in at..(at + Len(toks) - 1)
      BY <2>3, <1>1
    <3> QED
      BY <2>2, <3>1, <3>2, <3>3 DEF Vector
  <2>4. ASSUME NEW f \in Planes, NEW p \in 0..(Cap - 1), p \notin at..(at + n - 1)
        PROVE  cache'[f][p] \in {cache[f][p], Empty}
    <3> HIDE DEF base, toks
    <3>1. p \notin at..(at + Len(toks) - 1)
      BY <2>4, <1>1
    <3> QED
      BY <2>2, <3>1, <1>4
  <2> QED
    BY <1>2, <1>5, <1>6, <2>2, <2>3, <2>4
<1>7. CASE ~WriteFits(at, n)
  <2>1. cache' = base
    BY <1>7, <1>1 DEF PrefillAt
  <2> QED
    BY <2>1, <1>2, <1>3, <1>4, <1>5, <1>7
<1> QED
  BY <1>6, <1>7

\* A decode step: what the planes hold afterwards.
LEMMA DecodeEffect ==
    ASSUME TypeOK, launches >= 1, nRunning < Cap,
           DecodeOne(Text[<<launches, chunk>>][nRunning])
    PROVE  /\ cache' \in Contents
           /\ kvPos' = IF WriteFits(kvPos, 1) THEN kvPos + 1 ELSE kvPos
           /\ \A f \in Planes : \A p \in 0..(Cap - 1) :
                 IF WriteFits(kvPos, 1) /\ p = kvPos
                 THEN cache'[f][p] =
                        [tok |-> Text[<<launches, chunk>>][nRunning], pos |-> p,
                         cal |-> cal, model |-> model]
                 ELSE cache'[f][p] = cache[f][p]
<1> DEFINE tok == Text[<<launches, chunk>>][nRunning]
           toks == <<tok>>
<1>1. <<launches, chunk>> \in Conversations /\ nRunning \in 0..(Cap - 1)
  BY KvAssumption DEF TypeOK, Conversations
<1>2. tok \in Tokens
  BY <1>1, SessionAssumption
<1>3. toks \in Seq(Tokens) /\ Len(toks) = 1 /\ toks[1] = tok
  BY <1>2
<1>4. CASE WriteFits(kvPos, 1)
  <2>1. cache' = Written(cache, kvPos, toks, kvPos, cal) /\ kvPos' = kvPos + 1
    BY <1>4 DEF DecodeOne
  <2>2. /\ cache' \in Contents
        /\ \A f \in Planes : \A p \in 0..(Cap - 1) :
              cache'[f][p] =
                 IF p \in kvPos..(kvPos + Len(toks) - 1)
                 THEN Vector(kvPos, toks, kvPos, cal, p)
                 ELSE cache[f][p]
    <3> HIDE DEF toks
    <3>1. /\ model \in Models /\ kvPos \in Nat /\ kvPos <= kvPos /\ cal \in Nat
          /\ cache \in Contents
      BY SessionAssumption DEF TypeOK
    <3>2. Written(cache, kvPos, toks, kvPos, cal) \in Contents
      BY <1>3, <3>1, WrittenContents
    <3> QED
      BY <2>1, <3>2 DEF Written
  <2>3. ASSUME NEW p \in 0..(Cap - 1)
        PROVE  /\ p \in kvPos..(kvPos + Len(toks) - 1) <=> p = kvPos
               /\ p = kvPos => p - kvPos + 1 = 1 /\ kvPos + (p - kvPos) = p
    <3> HIDE DEF toks
    <3>1. kvPos \in Nat
      BY SessionAssumption DEF TypeOK
    <3> QED
      BY <3>1, <1>3
  <2>4. ASSUME NEW p \in 0..(Cap - 1), p = kvPos
        PROVE  Vector(kvPos, toks, kvPos, cal, p) =
                   [tok |-> tok, pos |-> p, cal |-> cal, model |-> model]
    BY <2>4, <2>3, <1>3 DEF Vector
  <2> HIDE DEF toks
  <2> QED
    BY <2>1, <2>2, <2>3, <2>4, <1>4
<1>5. CASE ~WriteFits(kvPos, 1)
  BY <1>5 DEF DecodeOne, TypeOK
<1> QED
  BY <1>4, <1>5
-----------------------------------------------------------------------------
LEMMA InitTyped == Init => TypeOK /\ Phase
<1>1. ASSUME Init PROVE TypeOK
  <2>1. ctl \in Controller
    BY <1>1, CauchyAssumption DEF Init, NewController, Controller, NeverReset
  <2>2. disk \in [Planes -> File]
    BY <1>1 DEF Init, File
  <2>3. /\ 0 \in 0..maxSeq /\ 0 \in 0..Cap /\ 0 \in 0..MaxLaunches
        /\ 0 \in 0..NFiles /\ 1 \in 1..Chunks
    BY <1>1, SessionAssumption, KvAssumption DEF Init, NFiles
  <2>4. /\ calibrated \in BOOLEAN /\ skipCal \in BOOLEAN /\ saving \in BOOLEAN
    BY <1>1 DEF Init
  <2> QED
    BY <1>1, <2>1, <2>2, <2>3, <2>4, BlankSlots DEF Init, TypeOK
<1>2. ASSUME Init PROVE Phase
  BY <1>2 DEF Init, Phase, Decoding
<1> QED
  BY <1>1, <1>2

LEMMA ChatTyped == TypeOK /\ Phase /\ LaunchChat => TypeOK' /\ Phase'
<1> SUFFICES ASSUME TypeOK, Phase, LaunchChat PROVE TypeOK' /\ Phase'
  OBVIOUS
<1>1. PICK m \in Models, mode \in Modes, n \in Predicts,
           ricci \in BOOLEAN, sidecar \in BOOLEAN, load \in BOOLEAN :
        /\ Started("chat", m, NPrompt + n + ChatSlack, sidecar)
        /\ load => \A f \in Planes : disk[f].n <= NPrompt + n + ChatSlack
        /\ ctl' = NewController(mode, ricci, TRUE)
        /\ nFirst' = NPrompt /\ nStop' = NPrompt + n - 1
        /\ saving' \in BOOLEAN
        /\ pc' = IF load THEN "load" ELSE "prefill"
  BY DEF LaunchChat
<1>2. ctl' \in Controller
  BY <1>1, NewControllerFresh, SessionAssumption
<1>3. /\ maxSeq' = NPrompt + n + ChatSlack /\ maxSeq' \in 0..Cap
      /\ nFirst' \in 0..Cap /\ nStop' \in 0..Cap
      /\ 1 <= nFirst' /\ nFirst' <= nStop' /\ nStop' < maxSeq'
  BY <1>1, SessionAssumption, KvAssumption DEF Started
<1>4. TypeOK'
  <2>1. calibrated' \in BOOLEAN /\ skipCal' \in BOOLEAN /\ saving' \in BOOLEAN
    BY <1>1 DEF Started
  <2>2. /\ launches' \in 0..MaxLaunches /\ model' \in Models
        /\ kvPos' \in 0..maxSeq' /\ loaded' \in 0..maxSeq'
    BY <1>1, <1>3, SessionAssumption DEF Started, TypeOK, Phase
  <2> QED
    BY <1>1, <1>2, <1>3, <2>1, <2>2 DEF Started, TypeOK
<1>5. Phase'
  BY <1>1, <1>3 DEF Started, TypeOK, Phase, Decoding
<1> QED
  BY <1>4, <1>5

LEMMA PerplexityTyped == TypeOK /\ Phase /\ LaunchPerplexity => TypeOK' /\ Phase'
<1> SUFFICES ASSUME TypeOK, Phase, LaunchPerplexity PROVE TypeOK' /\ Phase'
  OBVIOUS
<1>1. PICK m \in Models, mode \in Modes, ricci \in BOOLEAN,
           mertens \in BOOLEAN, sidecar \in BOOLEAN :
        /\ Started("perplexity", m, NCtx + PplSlack, sidecar)
        /\ ctl' = NewController(mode, ricci, mertens)
        /\ nFirst' = NCtx \div 2 + 1 /\ nStop' = NCtx - 1
        /\ saving' = FALSE
        /\ pc' = "prefill"
  BY DEF LaunchPerplexity
<1>2. ctl' \in Controller
  BY <1>1, NewControllerFresh, SessionAssumption
<1>3. /\ maxSeq' = NCtx + PplSlack /\ maxSeq' \in 0..Cap
      /\ nFirst' \in 0..Cap /\ nStop' \in 0..Cap
      /\ 1 <= nFirst' /\ nFirst' <= nStop' /\ nStop' < maxSeq'
  BY <1>1, SessionAssumption, KvAssumption DEF Started
<1>4. TypeOK'
  <2>1. calibrated' \in BOOLEAN /\ skipCal' \in BOOLEAN /\ saving' \in BOOLEAN
    BY <1>1 DEF Started
  <2>2. /\ launches' \in 0..MaxLaunches /\ model' \in Models
        /\ kvPos' \in 0..maxSeq' /\ loaded' \in 0..maxSeq'
    BY <1>1, <1>3, SessionAssumption DEF Started, TypeOK, Phase
  <2> QED
    BY <1>1, <1>2, <1>3, <2>1, <2>2 DEF Started, TypeOK
<1>5. Phase'
  BY <1>1, <1>3 DEF Started, TypeOK, Phase, Decoding
<1> QED
  BY <1>4, <1>5

LEMMA LoadTyped == TypeOK /\ Phase /\ LoadCache => TypeOK' /\ Phase'
<1> SUFFICES ASSUME TypeOK, Phase, LoadCache PROVE TypeOK' /\ Phase'
  OBVIOUS
<1>0. PICK strict \in BOOLEAN :
         /\ cache' = LoadedPlanes(strict) /\ lax' = (lax \/ Lax(strict))
         /\ \E n \in 0..Cap :
               IsLoadedCount(n, strict) /\ loaded' = IF Aborts(strict) THEN 0 ELSE n
  BY DEF LoadCache
<1>1. cache' \in Contents
  <2>1. ASSUME NEW f \in Planes, NEW p \in 0..(Cap - 1)
        PROVE  (IF Takes(f, strict) /\ p < disk[f].n /\ disk[f].data[p].pos >= 0
                THEN disk[f].data[p] ELSE cache[f][p]) \in Entry \cup {Empty}
    <3>1. cache[f][p] \in Entry \cup {Empty}
      BY DEF TypeOK, Contents, Slots
    <3>2. Takes(f, strict) => disk[f].data \in Slots
      BY DEF TypeOK, File, NoFile, Torn, Takes, HeaderRead
    <3>3. Takes(f, strict) => disk[f].data[p] \in Entry \cup {Empty}
      BY <3>2 DEF Slots
    <3> QED
      BY <3>1, <3>3
  <2> QED
    BY <1>0, <2>1 DEF LoadedPlanes, Contents, Slots
<1>2. loaded' \in 0..maxSeq
  <2>1. PICK n \in 0..Cap :
           IsLoadedCount(n, strict) /\ loaded' = IF Aborts(strict) THEN 0 ELSE n
    BY <1>0
  <2>2. n <= maxSeq
    BY <2>1 DEF IsLoadedCount, KFilesTaken, LoadCache, Phase, TypeOK
  <2> QED
    BY <2>1, <2>2, KvAssumption DEF TypeOK
<1>3. kvPos' = loaded'
  BY <1>2 DEF LoadCache, Phase, TypeOK
<1>4. TypeOK'
  <2>1. lax' \in BOOLEAN
    BY <1>0 DEF Lax, TypeOK
  <2> QED
    BY <1>1, <1>2, <1>3, <2>1 DEF LoadCache, TypeOK
<1>5. Phase'
  BY <1>3 DEF LoadCache, TypeOK, Phase, Decoding
<1> QED
  BY <1>4, <1>5

LEMMA PrefillTyped == TypeOK /\ Phase /\ FirstPrefill => TypeOK' /\ Phase'
<1> SUFFICES ASSUME TypeOK, Phase, FirstPrefill PROVE TypeOK' /\ Phase'
  OBVIOUS
<1>1. nFirst \in 1..Cap /\ launches >= 1 /\ kvPos \in Nat
  BY SessionAssumption, KvAssumption DEF FirstPrefill, TypeOK, Phase
<1>2. PrefillAt(kvPos, Prefix(nFirst), skipCal, launches)
  BY DEF FirstPrefill
<1>3. /\ cache' \in Contents /\ cal' \in 0..MaxLaunches /\ calibrated' \in BOOLEAN
      /\ kvPos' = IF WriteFits(kvPos, nFirst) THEN kvPos + nFirst ELSE kvPos
  BY <1>1, <1>2, PrefillEffect
<1>4. ctl' \in Controller
  BY <1>1, ControllerFedKeeps DEF FirstPrefill, TypeOK
<1>5. UNCHANGED <<kind, model, maxSeq>>
  BY <1>2 DEF PrefillAt
<1>6. kvPos' \in 0..maxSeq
  BY <1>1, <1>3 DEF WriteFits, TypeOK
<1>7. TypeOK'
  BY <1>3, <1>4, <1>5, <1>6, KvAssumption DEF FirstPrefill, TypeOK
<1>8. Phase'
  BY <1>1, <1>3, <1>5 DEF FirstPrefill, TypeOK, Phase, Decoding
<1> QED
  BY <1>7, <1>8

LEMMA DecodeTyped == TypeOK /\ Phase /\ DecodeStep => TypeOK' /\ Phase'
<1> SUFFICES ASSUME TypeOK, Phase, DecodeStep PROVE TypeOK' /\ Phase'
  OBVIOUS
<1>1. /\ nRunning \in 0..Cap /\ nRunning < nStop /\ nStop < Cap /\ launches >= 1
      /\ since \in 0..Cap /\ kvPos \in Nat
  BY SessionAssumption, KvAssumption DEF DecodeStep, TypeOK, Phase
<1>2. DecodeOne(Text[<<launches, chunk>>][nRunning])
  BY DEF DecodeStep
<1>3. /\ cache' \in Contents
      /\ kvPos' = IF WriteFits(kvPos, 1) THEN kvPos + 1 ELSE kvPos
  BY <1>1, <1>2, DecodeEffect, KvAssumption DEF TypeOK
<1>4. ctl' \in Controller
  BY FedKeeps DEF DecodeStep, TypeOK
<1>5. UNCHANGED <<kind, model, maxSeq, cal, calibrated>>
  BY <1>2 DEF DecodeOne
<1>6. kvPos' \in 0..maxSeq
  BY <1>1, <1>3 DEF WriteFits, TypeOK
<1>7. TypeOK'
  <2>1. nRunning' \in 0..Cap /\ since' \in 0..Cap
    BY <1>1, KvAssumption DEF DecodeStep, TypeOK, Phase, Decoding
  <2> QED
    BY <2>1, <1>3, <1>4, <1>5, <1>6 DEF DecodeStep, TypeOK
<1>8. Phase'
  BY <1>1, <1>3, <1>5 DEF DecodeStep, TypeOK, Phase, Decoding
<1> QED
  BY <1>7, <1>8

\* A reset always fits: the conversation fed so far is shorter than the cache.
LEMMA ResetFits ==
    ASSUME TypeOK, Phase, Reset
    PROVE  /\ nRunning \in 1..Cap /\ WriteFits(0, nRunning) /\ Pos \in Nat
           /\ launches >= 1 /\ since <= nRunning - nFirst
           /\ nFirst <= nRunning /\ nRunning <= nStop /\ nStop < maxSeq
           /\ nFirst >= 1 /\ nFirst \in Nat /\ since \in Nat
BY KvAssumption DEF Reset, TypeOK, Phase, Decoding, WriteFits, Pos

LEMMA ResetController ==
    ASSUME TypeOK, Phase, Reset
    PROVE  /\ ctl' \in Controller /\ ctl'.mode = ctl.mode /\ ctl'.last = Pos
           /\ \A j \in ctl.idx..(ctl'.idx - 1) : Schedule[j] <= Pos
           /\ since' = 0 /\ loaded' = 0 /\ pc' = "step"
<1>1. /\ nRunning \in Nat /\ Pos \in Nat /\ ctl \in Controller
      /\ WriteFits(0, nRunning)
  BY ResetFits DEF TypeOK
<1>2. PICK c \in ControllerFed(nRunning), i \in 1..(Len(Schedule) + 1) :
         AdvancesTo(c, Pos, i) /\ ctl' = AfterReset(c, Pos, i)
  BY <1>1 DEF Reset
<1>3. /\ c \in Controller /\ c.mode = ctl.mode /\ c.idx = ctl.idx
  BY <1>1, <1>2, ControllerFedKeeps
<1>4. /\ ctl' \in Controller /\ ctl'.mode = ctl.mode /\ ctl'.last = Pos
      /\ ctl'.idx = i
  <2>1. Pos \in Nat /\ c \in Controller /\ i \in 1..(Len(Schedule) + 1)
    BY <1>1, <1>3
  <2>2. /\ AfterReset(c, Pos, i) \in Controller
        /\ AfterReset(c, Pos, i).mode = c.mode
        /\ AfterReset(c, Pos, i).last = Pos
        /\ AfterReset(c, Pos, i).idx = i
    BY <2>1, ResetKeeps
  <2> QED
    BY <1>2, <1>3, <2>2, Zenon
<1>5. \A j \in c.idx..(i - 1) : Schedule[j] <= Pos
  BY <1>2, <1>3 DEF AdvancesTo, Controller
<1> QED
  BY <1>1, <1>3, <1>4, <1>5 DEF Reset

LEMMA ResetTyped == TypeOK /\ Phase /\ Reset => TypeOK' /\ Phase'
<1> SUFFICES ASSUME TypeOK, Phase, Reset PROVE TypeOK' /\ Phase'
  OBVIOUS
<1>1. PrefillAt(0, Prefix(nRunning), skipCal, launches)
  BY DEF Reset
<1>2. /\ cache' \in Contents /\ cal' \in 0..MaxLaunches /\ calibrated' \in BOOLEAN
      /\ kvPos' = nRunning
  <2>1. /\ nRunning \in 1..Cap /\ WriteFits(0, nRunning) /\ launches >= 1
        /\ 0 \in Nat /\ 0 + nRunning = nRunning
    BY ResetFits
  <2>2. /\ cache' \in Contents /\ cal' \in 0..MaxLaunches /\ calibrated' \in BOOLEAN
        /\ kvPos' = IF WriteFits(0, nRunning) THEN 0 + nRunning ELSE 0
    BY <1>1, <2>1, PrefillEffect, Zenon
  <2> QED
    BY <2>1, <2>2, Zenon
<1>3. UNCHANGED <<kind, model, maxSeq>>
  BY <1>1 DEF PrefillAt
<1>4. kvPos' \in 0..maxSeq /\ 0 \in 0..maxSeq /\ 0 \in 0..Cap
  BY <1>2, ResetFits, KvAssumption DEF TypeOK
<1>5. TypeOK'
  BY <1>2, <1>3, <1>4, ResetController DEF Reset, TypeOK
<1>6. Phase'
  BY <1>2, <1>3, ResetFits, ResetController DEF Reset, TypeOK, Phase, Decoding
<1> QED
  BY <1>5, <1>6

LEMMA SaveTyped == TypeOK /\ Phase /\ SaveFile => TypeOK' /\ Phase'
<1> SUFFICES ASSUME TypeOK, Phase, SaveFile PROVE TypeOK' /\ Phase'
  OBVIOUS
<1>1. kvPos \in 1..Cap /\ saveAt < NFiles
  BY KvAssumption DEF SaveFile, TypeOK, Phase
<1>2. \A f \in Planes : Saved(f, kvPos) \in File
  <2>1. \A f \in Planes :
           [p \in 0..(Cap - 1) |-> IF p < kvPos THEN cache[f][p] ELSE Empty] \in Slots
    BY DEF TypeOK, Contents, Slots
  <2> QED
    BY <1>1, <2>1, HashAssumption DEF Saved, File, TypeOK
<1>3. disk' \in [Planes -> File]
  BY <1>2 DEF SaveFile, TypeOK
<1>4. saveAt' \in 0..NFiles
  BY <1>1, KvAssumption DEF SaveFile, TypeOK, NFiles
<1>5. TypeOK'
  BY <1>3, <1>4 DEF SaveFile, TypeOK
<1>6. Phase'
  BY <1>1, <1>4, KvAssumption DEF SaveFile, TypeOK, Phase, Decoding, NFiles
<1> QED
  BY <1>5, <1>6

LEMMA ExitTyped == TypeOK /\ Phase /\ Exit => TypeOK' /\ Phase'
<1> SUFFICES ASSUME TypeOK, Phase, Exit PROVE TypeOK' /\ Phase'
  OBVIOUS
<1>1. disk' \in [Planes -> File]
  <2>1. CASE pc = "save"
    <3>1. kvPos \in 1..Cap
      BY <2>1, KvAssumption DEF TypeOK, Phase
    <3>2. \A f \in Planes : \A m \in 0..(kvPos - 1) : CutOff(f, kvPos, m) \in File
      <4>1. \A f \in Planes : \A m \in 0..(kvPos - 1) :
               [p \in 0..(Cap - 1) |-> IF p < m THEN cache[f][p] ELSE Empty] \in Slots
        BY DEF TypeOK, Contents, Slots
      <4> QED
        BY <3>1, <4>1, HashAssumption DEF CutOff, Saved, File, TypeOK
    <3>3. Torn \in File
      BY DEF File
    <3> QED
      BY <3>2, <3>3 DEF Exit, TypeOK
  <2>2. CASE pc # "save"
    BY <2>2 DEF Exit, TypeOK
  <2> QED
    BY <2>1, <2>2
<1>2. ctl' \in Controller
  BY CauchyAssumption DEF Exit, NewController, Controller, NeverReset
<1>3. /\ 0 \in 0..maxSeq' /\ 0 \in 0..Cap /\ 0 \in 0..MaxLaunches
      /\ 0 \in 0..NFiles /\ 1 \in 1..Chunks
  BY SessionAssumption, KvAssumption DEF Exit, NFiles
<1>4. /\ calibrated' \in BOOLEAN /\ skipCal' \in BOOLEAN /\ saving' \in BOOLEAN
  BY DEF Exit
<1>5. TypeOK'
  BY <1>1, <1>2, <1>3, <1>4, BlankSlots DEF Exit, TypeOK
<1>6. Phase'
  BY DEF Exit, Phase, Decoding
<1> QED
  BY <1>5, <1>6

\* The steps that change neither the cache nor a file.
LEMMA OthersTyped ==
    TypeOK /\ Phase /\ (NoReset \/ NextChunk \/ EndOfChat \/ UNCHANGED vars)
        => TypeOK' /\ Phase'
<1> SUFFICES ASSUME TypeOK, Phase PROVE
      (NoReset \/ NextChunk \/ EndOfChat \/ UNCHANGED vars) => TypeOK' /\ Phase'
  OBVIOUS
<1>1. CASE NoReset
  BY <1>1 DEF NoReset, TypeOK, Phase, Decoding
<1>2. CASE NextChunk
  <2>1. TypeOK'
    BY <1>2, SessionAssumption, KvAssumption DEF NextChunk, TypeOK
  <2>2. Phase'
    BY <1>2 DEF NextChunk, TypeOK, Phase, Decoding
  <2> QED
    BY <2>1, <2>2
<1>3. CASE EndOfChat
  BY <1>3, KvAssumption DEF EndOfChat, TypeOK, Phase, Decoding, NFiles
<1>4. CASE UNCHANGED vars
  BY <1>4 DEF vars, TypeOK, Phase, Decoding, Planes
<1> QED
  BY <1>1, <1>2, <1>3, <1>4

LEMMA TypedStep == TypeOK /\ Phase /\ [Next]_vars => TypeOK' /\ Phase'
BY ChatTyped, PerplexityTyped, LoadTyped, PrefillTyped, DecodeTyped, ResetTyped,
   SaveTyped, ExitTyped, OthersTyped
DEF Next, ChatPrefill, ChunkPrefill, ChatDecode, ChunkDecode, ChatReset, ChunkReset

\* Whatever the processes do, save, load or lose, the variables keep their
\* types: in particular kv_pos never passes the positions of the cache.
THEOREM TypeCorrect == Spec => []TypeOK
<1>1. Spec => [](TypeOK /\ Phase)
  BY InitTyped, TypedStep, PTL DEF Spec
<1> QED
  BY <1>1, PTL
-----------------------------------------------------------------------------
\* A prefill from position 0 brings every slot it writes into step.
LEMMA PrefilledInStep ==
    ASSUME TypeOK, launches >= 1, NEW n \in 1..Cap, WriteFits(0, n),
           PrefillAt(0, Prefix(n), skipCal, launches),
           UNCHANGED <<launches, chunk>>
    PROVE  \A f \in Planes : \A p \in 0..(n - 1) : InStep(f, p)'
<1> SUFFICES ASSUME NEW f \in Planes, NEW p \in 0..(n - 1) PROVE InStep(f, p)'
  BY DEF Planes
<1>1. p \in 0..(Cap - 1) /\ p \in 0..(0 + n - 1) /\ p - 0 = p /\ p >= 0
  BY KvAssumption
<1>2. cache'[f][p] = [tok |-> Text[<<launches, chunk>>][p], pos |-> p,
                      cal |-> cal', model |-> model]
  BY <1>1, PrefillEffect
<1>3. model' = model
  BY DEF PrefillAt
<1> QED
  BY <1>1, <1>2, <1>3 DEF InStep, Readable, UnderCalibration

LEMMA CacheStep ==
    TypeOK /\ Phase /\ CacheInStep /\ [Next]_vars => CacheInStep'
<1> SUFFICES ASSUME TypeOK, Phase, CacheInStep, [Next]_vars, TypeOK', Phase',
                    Decoding', loaded' = 0
             PROVE  /\ kvPos' = nRunning'
                    /\ \A f \in Planes : \A p \in 0..(kvPos' - 1) : InStep(f, p)'
  BY TypedStep DEF CacheInStep, Planes
<1>1. kvPos' = nRunning'
  <2>1. kvPos' = loaded' + nRunning'
    BY DEF Phase
  <2>2. nRunning' \in Int
    BY KvAssumption DEF TypeOK
  <2>3. \A x \in Int : 0 + x = x
    OBVIOUS
  <2> QED
    BY <2>1, <2>2, <2>3, Zenon
<1>2. CASE FirstPrefill
  <2>1. kvPos = 0 /\ nFirst \in 1..Cap /\ launches >= 1
    BY <1>2, KvAssumption DEF FirstPrefill, Phase, TypeOK
  <2>2. WriteFits(0, nFirst) /\ nRunning' = nFirst
    BY <1>2, <2>1 DEF FirstPrefill, Decoding
  <2>3. PrefillAt(0, Prefix(nFirst), skipCal, launches) /\ UNCHANGED <<launches, chunk>>
    BY <1>2, <2>1 DEF FirstPrefill
  <2> QED
    BY <1>1, <2>1, <2>2, <2>3, PrefilledInStep
<1>3. CASE Reset
  <2>1. PrefillAt(0, Prefix(nRunning), skipCal, launches) /\ UNCHANGED <<launches, chunk>>
        /\ nRunning' = nRunning
    BY <1>3 DEF Reset
  <2> QED
    BY <1>1, <1>3, <2>1, ResetFits, PrefilledInStep
<1>4. CASE DecodeStep
  <2>1. /\ WriteFits(kvPos, 1) /\ loaded = 0 /\ Decoding /\ nRunning < Cap
        /\ launches >= 1 /\ kvPos = nRunning
        /\ DecodeOne(Text[<<launches, chunk>>][nRunning])
        /\ UNCHANGED <<kind, model, cal, launches, chunk>>
    BY <1>4, KvAssumption DEF DecodeStep, DecodeOne, Decoding, Phase, TypeOK, CacheInStep
  <2>2. kvPos' = kvPos + 1 /\ kvPos \in Nat /\ kvPos' <= Cap
    <3>1. kvPos' = kvPos + 1
      BY <2>1, DecodeEffect
    <3> QED
      BY <3>1, SessionAssumption, KvAssumption DEF TypeOK
  <2>3. ASSUME NEW f \in Planes, NEW p \in 0..(kvPos' - 1) PROVE InStep(f, p)'
    <3>1. p \in 0..(Cap - 1) /\ p >= 0
      BY <2>2, KvAssumption
    <3>2. CASE p = kvPos
      <4>1. cache'[f][p] = [tok |-> Text[<<launches, chunk>>][p], pos |-> p,
                            cal |-> cal, model |-> model]
        BY <2>1, <3>1, <3>2, DecodeEffect
      <4> QED
        BY <4>1, <2>1, <3>1 DEF InStep, Readable, UnderCalibration
    <3>3. CASE p # kvPos
      <4>1. cache'[f][p] = cache[f][p]
        BY <2>1, <3>1, <3>3, DecodeEffect
      <4>2. InStep(f, p)
        BY <2>1, <2>2, <3>3 DEF CacheInStep
      <4> QED
        BY <4>1, <4>2, <2>1 DEF InStep, Readable, UnderCalibration
    <3> QED
      BY <3>2, <3>3
  <2> QED
    BY <1>1, <2>3
<1>5. CASE NoReset \/ UNCHANGED vars
  <2>1. UNCHANGED <<kvVars, launches, chunk, nRunning, loaded>> /\ Decoding
    BY <1>5 DEF NoReset, vars, Decoding
  <2> QED
    BY <1>1, <2>1 DEF CacheInStep, InStep, Readable, UnderCalibration
<1>6. CASE LaunchChat \/ LaunchPerplexity \/ LoadCache \/ NextChunk
             \/ EndOfChat \/ SaveFile \/ Exit
  BY <1>6 DEF LaunchChat, LaunchPerplexity, LoadCache, NextChunk, EndOfChat,
              SaveFile, Exit, Decoding
<1> QED
  BY <1>2, <1>3, <1>4, <1>5, <1>6
  DEF Next, ChatPrefill, ChunkPrefill, ChatDecode, ChunkDecode, ChatReset, ChunkReset

\* The vectors in the planes are of this model's path if those of the files
\* are of the path whose hash the file carries.
LEMMA ModelStep ==
    TypeOK /\ Phase /\ LoadSameHash /\ FilesOfOneHash /\ [Next]_vars
        => LoadSameHash' /\ FilesOfOneHash'
<1> SUFFICES ASSUME TypeOK, Phase, LoadSameHash, FilesOfOneHash, [Next]_vars
             PROVE  LoadSameHash' /\ FilesOfOneHash'
  OBVIOUS
<1>1. CASE LaunchChat \/ LaunchPerplexity
  <2>1. cache' = Blank /\ UNCHANGED <<disk, lax>>
    BY <1>1 DEF LaunchChat, LaunchPerplexity, Started, Phase
  <2> QED
    BY <2>1 DEF LoadSameHash, FilesOfOneHash, Blank, Empty, Planes
<1>2. CASE LoadCache
  <2>1. PICK strict \in BOOLEAN :
           cache' = LoadedPlanes(strict) /\ lax' = (lax \/ Lax(strict))
    BY <1>2 DEF LoadCache
  <2>2. model' = model /\ disk' = disk
    BY <1>2 DEF LoadCache
  <2>3. ASSUME ~lax', NEW f \in Planes, NEW p \in 0..(Cap - 1),
               cache'[f][p].pos >= 0
        PROVE  Hash[cache'[f][p].model] = Hash[model]
    <3>1. ~lax /\ ~Lax(strict)
      BY <2>1, <2>3
    <3>2. CASE Takes(f, strict) /\ p < disk[f].n /\ disk[f].data[p].pos >= 0
      <4>1. cache'[f][p] = disk[f].data[p]
        BY <3>2, <2>1 DEF LoadedPlanes
      <4>2. disk[f].hash = Hash[model] /\ disk[f].n > 0
        <5>1. Index(f) <= Index(f)
          BY KvAssumption DEF Index, Planes
        <5>2. Opened(f) /\ HeaderRead(f) /\ ~Refuses(f, strict)
          BY <3>2, <5>1 DEF Takes
        <5> QED
          BY <3>1, <5>2 DEF Refuses, Lax, HeaderRead
      <4> QED
        BY <3>1, <3>2, <4>1, <4>2 DEF FilesOfOneHash
    <3>3. CASE ~(Takes(f, strict) /\ p < disk[f].n /\ disk[f].data[p].pos >= 0)
      <4>1. cache'[f][p] = cache[f][p]
        BY <3>3, <2>1 DEF LoadedPlanes
      <4> QED
        BY <4>1, <2>3, <3>1 DEF LoadSameHash
    <3> QED
      BY <3>2, <3>3
  <2>4. ~lax' => ~lax
    BY <2>1
  <2> QED
    BY <2>2, <2>3, <2>4 DEF LoadSameHash, FilesOfOneHash, Planes
<1>3. CASE FirstPrefill \/ Reset
  <2>1. PICK at \in Nat, n \in 1..Cap :
           PrefillAt(at, Prefix(n), skipCal, launches)
    <3>1. CASE FirstPrefill
      BY <3>1, SessionAssumption, KvAssumption DEF FirstPrefill, TypeOK, Phase
    <3>2. CASE Reset
      BY <3>2, ResetFits DEF Reset
    <3> QED
      BY <1>3, <3>1, <3>2
  <2>2. launches >= 1 /\ UNCHANGED <<disk, model, lax>>
    BY <1>3, <2>1 DEF FirstPrefill, Reset, Phase, PrefillAt
  <2>3. ASSUME ~lax, NEW f \in Planes, NEW p \in 0..(Cap - 1),
               cache'[f][p].pos >= 0
        PROVE  Hash[cache'[f][p].model] = Hash[model]
    <3>1. \/ cache'[f][p].model = model
          \/ cache'[f][p] \in {cache[f][p], Empty}
      <4>1. CASE WriteFits(at, n) /\ p \in at..(at + n - 1)
        <5>1. cache'[f][p] = [tok |-> Text[<<launches, chunk>>][p - at],
                              pos |-> p - at, cal |-> cal', model |-> model]
          BY <4>1, <2>1, <2>2, PrefillEffect
        <5> QED
          BY <5>1
      <4>2. CASE ~(WriteFits(at, n) /\ p \in at..(at + n - 1))
        BY <4>2, <2>1, <2>2, PrefillEffect
      <4> QED
        BY <4>1, <4>2
    <3> QED
      BY <2>3, <3>1 DEF LoadSameHash, Empty
  <2> QED
    BY <2>2, <2>3 DEF LoadSameHash, FilesOfOneHash, Planes
<1>4. CASE DecodeStep
  <2>1. /\ DecodeOne(Text[<<launches, chunk>>][nRunning]) /\ launches >= 1
        /\ nRunning < Cap /\ UNCHANGED <<disk, model, lax>>
    BY <1>4, KvAssumption DEF DecodeStep, DecodeOne, Phase, TypeOK
  <2>2. ASSUME ~lax, NEW f \in Planes, NEW p \in 0..(Cap - 1),
               cache'[f][p].pos >= 0
        PROVE  Hash[cache'[f][p].model] = Hash[model]
    <3>1. \/ cache'[f][p].model = model \/ cache'[f][p] = cache[f][p]
      <4>1. CASE WriteFits(kvPos, 1) /\ p = kvPos
        <5>1. cache'[f][p] = [tok |-> Text[<<launches, chunk>>][nRunning],
                              pos |-> p, cal |-> cal, model |-> model]
          BY <4>1, <2>1, DecodeEffect
        <5> QED
          BY <5>1
      <4>2. CASE ~(WriteFits(kvPos, 1) /\ p = kvPos)
        BY <4>2, <2>1, DecodeEffect
      <4> QED
        BY <4>1, <4>2
    <3> QED
      BY <2>2, <3>1 DEF LoadSameHash
  <2> QED
    BY <2>1, <2>2 DEF LoadSameHash, FilesOfOneHash, Planes
<1>5. CASE NoReset \/ NextChunk \/ EndOfChat \/ UNCHANGED vars
  <2>1. UNCHANGED <<cache, model, disk, lax>>
    BY <1>5 DEF NoReset, NextChunk, EndOfChat, vars
  <2> QED
    BY <2>1 DEF LoadSameHash, FilesOfOneHash, Planes
<1>6. CASE SaveFile
  <2>1. UNCHANGED <<cache, model, lax>>
    BY <1>6 DEF SaveFile
  <2>2. ASSUME ~lax, NEW f \in Planes, disk'[f].n > 0, NEW p \in 0..(Cap - 1),
               disk'[f].data[p].pos >= 0
        PROVE  Hash[disk'[f].data[p].model] = disk'[f].hash
    <3>1. disk'[f] = Saved(f, kvPos) \/ disk'[f] = disk[f]
      BY <1>6 DEF SaveFile, TypeOK
    <3>2. CASE disk'[f] = Saved(f, kvPos)
      BY <2>2, <3>2 DEF Saved, Empty, LoadSameHash
    <3>3. CASE disk'[f] = disk[f]
      BY <2>2, <3>3 DEF FilesOfOneHash
    <3> QED
      BY <3>1, <3>2, <3>3
  <2> QED
    BY <2>1, <2>2 DEF LoadSameHash, FilesOfOneHash, Planes
<1>7. CASE Exit
  <2>1. cache' = Blank /\ UNCHANGED <<model, lax>>
    BY <1>7 DEF Exit
  <2>2. ASSUME ~lax, NEW f \in Planes, disk'[f].n > 0, NEW p \in 0..(Cap - 1),
               disk'[f].data[p].pos >= 0
        PROVE  Hash[disk'[f].data[p].model] = disk'[f].hash
    <3>1. \/ disk'[f] = disk[f] \/ disk'[f] = Torn
          \/ \E m \in 0..(kvPos - 1) : disk'[f] = CutOff(f, kvPos, m)
      BY <1>7 DEF Exit, TypeOK
    <3>2. ASSUME NEW m \in 0..(kvPos - 1), disk'[f] = CutOff(f, kvPos, m)
          PROVE  Hash[disk'[f].data[p].model] = disk'[f].hash
      BY <2>2, <3>2 DEF CutOff, Saved, Empty, LoadSameHash
    <3> QED
      BY <2>2, <3>1, <3>2 DEF Torn, FilesOfOneHash
  <2> QED
    BY <2>1, <2>2 DEF LoadSameHash, FilesOfOneHash, Planes, Blank, Empty
<1> QED
  BY <1>1, <1>2, <1>3, <1>4, <1>5, <1>6, <1>7
  DEF Next, ChatPrefill, ChunkPrefill, ChatDecode, ChunkDecode, ChatReset, ChunkReset
-----------------------------------------------------------------------------
LEMMA WatchLaunch ==
    TypeOK /\ Phase /\ (LaunchChat \/ LaunchPerplexity) => Watch'
<1> SUFFICES ASSUME TypeOK, Phase, LaunchChat \/ LaunchPerplexity PROVE Watch'
  OBVIOUS
<1>1. PICK mode \in 0..2, r \in BOOLEAN, m \in BOOLEAN :
         ctl' = NewController(mode, r, m)
  BY SessionAssumption DEF LaunchChat, LaunchPerplexity
<1>2. ctl'.last = NeverReset /\ ctl'.idx = 1
  BY <1>1, NewControllerFresh
<1>3. pc' \in {"load", "prefill"}
  BY DEF LaunchChat, LaunchPerplexity
<1> QED
  BY <1>2, <1>3 DEF Watch, Decoding

LEMMA WatchPrefill == TypeOK /\ Phase /\ Watch /\ FirstPrefill => Watch'
<1> SUFFICES ASSUME TypeOK, Phase, Watch, FirstPrefill PROVE Watch'
  OBVIOUS
<1>1. CASE WriteFits(kvPos, nFirst)
  <2>1. /\ nFirst \in Nat /\ nRunning' = nFirst /\ since' = 0 /\ pc' = "step"
        /\ nFirst' = nFirst /\ chunk' = chunk /\ ctl' \in ControllerFed(nFirst)
    BY <1>1, KvAssumption DEF FirstPrefill, TypeOK
  <2>2. ctl'.last = ctl.last /\ ctl'.idx = ctl.idx
    BY <2>1, ControllerFedKeeps DEF TypeOK
  <2>3. chunk = 1 => ctl'.last = NeverReset /\ ctl'.idx = 1
    BY <2>2 DEF Watch, FirstPrefill
  <2>4. since' = nRunning' - nFirst'
    BY <2>1
  <2> QED
    BY <2>1, <2>3, <2>4, SessionAssumption DEF Watch, Decoding
<1>2. CASE ~WriteFits(kvPos, nFirst)
  BY <1>2 DEF FirstPrefill, Watch, Decoding
<1> QED
  BY <1>1, <1>2

LEMMA WatchDecode == TypeOK /\ Phase /\ Watch /\ DecodeStep => Watch'
<1> SUFFICES ASSUME TypeOK, Phase, Watch, DecodeStep PROVE Watch'
  OBVIOUS
<1>1. CASE WriteFits(kvPos, 1)
  <2>1. /\ nRunning \in Int /\ nFirst \in Int /\ since \in Int
        /\ nRunning' = nRunning + 1 /\ since' = since + 1 /\ pc' = "check"
        /\ nFirst' = nFirst /\ chunk' = chunk /\ ctl' \in RicciFed(ctl, 1)
        /\ Decoding /\ ctl \in Controller
    BY <1>1, KvAssumption DEF DecodeStep, TypeOK, Decoding
  <2>2. ctl'.last = ctl.last /\ ctl'.idx = ctl.idx
    BY <2>1, FedKeeps
  <2>3. /\ Pos \in Int /\ Pos' = Pos + 1
        /\ since = nRunning - nFirst => since' = nRunning' - nFirst'
    BY <2>1 DEF Pos
  <2>4. ctl.last \in Int
    BY <2>1 DEF Controller, NeverReset
  <2>5. since = Pos - ctl.last => since' = Pos' - ctl'.last
    BY <2>1, <2>2, <2>3, <2>4
  <2>6. ASSUME chunk = 1, NEW j \in 1..(ctl.idx - 1) PROVE Schedule[j] <= Pos'
    <3>1. Schedule[j] <= Pos
      BY <2>1, <2>6 DEF Watch
    <3>2. Schedule[j] \in Int
      BY <2>1, CauchyAssumption DEF Controller
    <3> QED
      BY <3>1, <3>2, <2>3
  <2>7. ASSUME chunk = 1, ctl.mode = 1 PROVE ChainShort'
    <3>1. since <= Warmup \/ since < PartialWindow \/ since < FixedN
      BY <2>7 DEF Watch, DecodeStep
    <3>2. Warmup \in Int /\ PartialWindow \in Int /\ FixedN \in Int
      BY CauchyAssumption, SessionAssumption DEF PartialWindow
    <3> QED
      BY <2>1, <3>1, <3>2 DEF ChainShort
  <2>8. ctl'.mode = ctl.mode
    BY <2>1, FedKeeps
  <2> QED
    BY <2>1, <2>2, <2>3, <2>5, <2>6, <2>7, <2>8 DEF Watch, Decoding
<1>2. CASE ~WriteFits(kvPos, 1)
  BY <1>2 DEF DecodeStep, Watch, Decoding
<1> QED
  BY <1>1, <1>2

\* Not to reset means to be in the warm-up, in the cooldown or before FixedN.
LEMMA WatchNoReset == TypeOK /\ Phase /\ Watch /\ NoReset => Watch'
<1> SUFFICES ASSUME TypeOK, Phase, Watch, NoReset PROVE Watch'
  OBVIOUS
<1>1. /\ Decoding /\ pc' = "step" /\ Pos' = Pos
      /\ UNCHANGED <<ctl, chunk, nRunning, nFirst, since>>
  BY DEF NoReset, Decoding, Pos
<1>2. ASSUME chunk = 1, ctl.mode = 1
      PROVE  since <= Warmup \/ since < PartialWindow \/ since < FixedN
  <2>1. /\ nRunning \in Int /\ nFirst \in Nat /\ since \in Nat /\ Pos = nRunning - 1
        /\ ctl.last \in Int /\ Warmup \in Nat /\ PartialWindow \in Nat
        /\ FixedN \in Nat /\ NeverReset = -999999
    BY KvAssumption, CauchyAssumption, SessionAssumption
    DEF TypeOK, Pos, Controller, NeverReset, PartialWindow
  <2>2. \/ ctl.last = NeverReset /\ since = nRunning - nFirst
        \/ since = Pos - ctl.last
    BY <1>1, <1>2 DEF Watch
  <2>3. since <= nRunning - nFirst /\ nFirst >= 1
    BY <1>1 DEF Phase, Decoding
  <2>4. ~(Pos >= nFirst + Warmup) \/ ~(Pos - ctl.last >= PartialWindow)
        \/ ~(Pos - ctl.last >= FixedN)
    BY <1>2 DEF NoReset, ResetDue, Asks, Recommended, CooledDown
  <2> QED
    BY <2>1, <2>2, <2>3, <2>4
<1> QED
  BY <1>1, <1>2 DEF Watch, Decoding

LEMMA WatchReset == TypeOK /\ Phase /\ Watch /\ Reset => Watch'
<1> SUFFICES ASSUME TypeOK, Phase, Watch, Reset PROVE Watch'
  OBVIOUS
<1>1. /\ Pos' = Pos /\ Pos \in Nat /\ since' = 0 /\ pc' = "step" /\ ctl'.last = Pos
      /\ UNCHANGED <<chunk, nRunning, nFirst>> /\ Decoding
  BY ResetFits, ResetController DEF Reset, Pos, Decoding
<1>2. since' = Pos' - ctl'.last /\ ctl'.last # NeverReset
  BY <1>1 DEF NeverReset
<1>3. ASSUME chunk = 1, NEW j \in 1..(ctl'.idx - 1) PROVE Schedule[j] <= Pos'
  <2>1. ctl.idx \in Int /\ ctl'.idx \in Int
    BY ResetController, CauchyAssumption DEF TypeOK, Controller
  <2>2. j \in 1..(ctl.idx - 1) \/ j \in ctl.idx..(ctl'.idx - 1)
    BY <2>1
  <2> QED
    BY <1>1, <1>3, <2>2, ResetController DEF Watch
<1> QED
  BY <1>1, <1>2, <1>3, SessionAssumption DEF Watch, Decoding

LEMMA WatchOthers ==
    TypeOK /\ Phase /\ Watch
      /\ (LoadCache \/ NextChunk \/ EndOfChat \/ SaveFile \/ Exit \/ UNCHANGED vars)
      => Watch'
<1> SUFFICES ASSUME TypeOK, Phase, Watch PROVE
      (LoadCache \/ NextChunk \/ EndOfChat \/ SaveFile \/ Exit \/ UNCHANGED vars)
         => Watch'
  OBVIOUS
<1>1. CASE LoadCache
  BY <1>1 DEF LoadCache, Watch, Decoding
<1>2. CASE NextChunk
  BY <1>2, SessionAssumption DEF NextChunk, TypeOK, Watch, Decoding
<1>3. CASE EndOfChat \/ SaveFile \/ Exit
  BY <1>3 DEF EndOfChat, SaveFile, Exit, Watch, Decoding
<1>4. CASE UNCHANGED vars
  BY <1>4 DEF vars, Watch, Decoding, Pos, ChainShort
<1> QED
  BY <1>1, <1>2, <1>3, <1>4

LEMMA InvInit == Init => Inv
<1>1. Init => CacheInStep /\ FilesOfOneHash /\ Watch
  BY DEF Init, CacheInStep, FilesOfOneHash, Watch, Decoding, NoFile
<1>2. Init => LoadSameHash
  BY DEF Init, LoadSameHash, Blank, Empty
<1> QED
  BY <1>1, <1>2, InitTyped DEF Inv

LEMMA InvStep == Inv /\ [Next]_vars => Inv'
<1>1. TypeOK /\ Phase /\ Watch /\ [Next]_vars => Watch'
  BY WatchLaunch, WatchPrefill, WatchDecode, WatchNoReset, WatchReset, WatchOthers
  DEF Next, ChatPrefill, ChunkPrefill, ChatDecode, ChunkDecode, ChatReset, ChunkReset
<1> QED
  BY <1>1, TypedStep, CacheStep, ModelStep DEF Inv

LEMMA Invariance == Spec => []Inv
BY InvInit, InvStep, PTL DEF Spec
-----------------------------------------------------------------------------
\* What decode attends to is the conversation, in every layer, whatever
\* resets, chunks, refused loads and killed processes came before.
THEOREM CacheAlwaysInStep == Spec => []CacheInStep
<1>1. Inv => CacheInStep
  BY DEF Inv
<1> QED
  BY Invariance, <1>1, PTL

\* As long as no load was lax, no vector of a model of another path is ever in
\* the cache, however the files of several saves were mixed.
THEOREM NeverAnotherHash == Spec => []LoadSameHash
<1>1. Inv => LoadSameHash
  BY DEF Inv
<1> QED
  BY Invariance, <1>1, PTL

\* In the fixed-N mode no more than FixedN positions, or the cooldown, or the
\* warm-up and one, are decoded between two refills of the first chunk.
THEOREM DriftAlwaysBounded == Spec => []DriftBounded
<1>1. Inv => DriftBounded
  <2> SUFFICES ASSUME Inv, ctl.mode = 1, Decoding, chunk = 1 PROVE ChainShort
    BY DEF DriftBounded
  <2>1. /\ since \in Nat /\ Warmup \in Nat /\ PartialWindow \in Nat /\ FixedN \in Nat
    BY KvAssumption, CauchyAssumption, SessionAssumption
    DEF Inv, TypeOK, PartialWindow
  <2> QED
    BY <2>1 DEF Inv, Watch, Decoding, ChainShort
<1> QED
  BY Invariance, <1>1, PTL

\* schedule_idx never hides a flagged position that lies ahead.
THEOREM LookaheadAlwaysComplete == Spec => []LookaheadComplete
<1>1. Inv => LookaheadComplete
  <2> SUFFICES ASSUME Inv, pc = "check", chunk = 1
               PROVE  NextRisk(ctl, Pos) <=> \E i \in 1..Len(Schedule) :
                        Schedule[i] > Pos /\ Schedule[i] <= Pos + Lookahead
    BY DEF LookaheadComplete
  <2>1. /\ ctl.idx \in 1..(Len(Schedule) + 1) /\ Len(Schedule) \in Nat
        /\ \A i \in 1..Len(Schedule) : Schedule[i] \in Nat
        /\ Pos \in Int
    BY KvAssumption, CauchyAssumption DEF Inv, TypeOK, Controller, Pos
  <2>2. \A j \in 1..(ctl.idx - 1) : Schedule[j] <= Pos
    BY DEF Inv, Watch, Decoding
  <2>3. ctl.idx..Len(Schedule) \subseteq 1..Len(Schedule)
    BY <2>1
  <2>4. ASSUME NEW i \in 1..Len(Schedule), Schedule[i] > Pos
        PROVE  i \in ctl.idx..Len(Schedule)
    BY <2>1, <2>2, <2>4
  <2> QED
    BY <2>3, <2>4, Zenon DEF NextRisk
<1> QED
  BY Invariance, <1>1, PTL

\* Two refills are at least the cooldown apart in positions really decoded,
\* and none falls into the warm-up.
THEOREM ResetsStayApart == Spec => ResetsApart
<1>1. Inv /\ [Next]_vars =>
        [Refill => /\ since >= PartialWindow \/ nRunning - since = nFirst
                   /\ nRunning > nFirst + Warmup]_vars
  <2> SUFFICES ASSUME Inv, Next, Refill
               PROVE  /\ since >= PartialWindow \/ nRunning - since = nFirst
                      /\ nRunning > nFirst + Warmup
    OBVIOUS
  <2>1. Reset
    BY DEF Next, Refill, LaunchChat, LaunchPerplexity, Started, LoadCache, ChatPrefill,
           ChunkPrefill, FirstPrefill, ChatDecode, ChunkDecode, DecodeStep, NoReset,
           ChatReset, ChunkReset, NextChunk, EndOfChat, SaveFile, Exit
  <2>2. Pos >= nFirst + Warmup /\ Pos - ctl.last >= PartialWindow
    BY <2>1 DEF Reset, ResetDue, Asks, Recommended, CooledDown
  <2>3. since = nRunning - nFirst \/ since = Pos - ctl.last
    BY <2>1 DEF Reset, Inv, Watch, Decoding
  <2>4. /\ nRunning \in Int /\ nFirst \in Int /\ since \in Int /\ Pos = nRunning - 1
        /\ Warmup \in Int
    BY KvAssumption, SessionAssumption DEF Inv, TypeOK, Pos
  <2> QED
    BY <2>2, <2>3, <2>4
<1> QED
  BY Invariance, <1>1, PTL DEF Spec, ResetsApart
=============================================================================
