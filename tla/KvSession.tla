----------------------------- MODULE KvSession -----------------------------
(***************************************************************************)
(* The two commands of cli/main.cpp that decode against the KV cache, as   *)
(* the processes a user starts one after the other beside one directory:   *)
(*   chat        [--load-cache] prompt, generate, [--save-cache]           *)
(*   perplexity --cache   chunk after chunk through one cache              *)
(* Both prefill, decode one token at a time and, on the controller's word, *)
(* rebind the cache and prefill it again with the true tokens.  A process  *)
(* may be killed at any point; only the files outlive it.                  *)
(***************************************************************************)
EXTENDS KvDisk, CauchyReset

CONSTANTS Kinds,      \* cache modes to consider
          Modes,      \* --cauchy-mode values to consider
          Warmup,     \* --cauchy-warmup
          NPrompt, Predicts, ChatSlack,  \* chat: max_seq = prompt + n + slack
          NCtx, PplSlack, Chunks,        \* perplexity: max_seq = n_ctx + slack
          MaxLaunches,                   \* bound: processes started
          Text        \* conversation -> position -> the token that stands there

Conversations == (1..MaxLaunches) \X (1..Chunks)

ASSUME SessionAssumption ==
    /\ Kinds \subseteq {"ship", "sqfree", "hier"} /\ Modes \subseteq 0..2
    /\ Warmup \in Nat /\ NPrompt \in Nat \ {0} /\ Predicts \subseteq Nat \ {0}
    /\ ChatSlack \in Nat /\ PplSlack \in Nat
    /\ NCtx \in Nat /\ NCtx >= 4 /\ Chunks \in Nat \ {0}
    /\ MaxLaunches \in Nat
    /\ \A n \in Predicts : NPrompt + n + ChatSlack <= Cap
    /\ NCtx + PplSlack <= Cap
    /\ Text \in [Conversations -> [0..(Cap - 1) -> Tokens]]

VARIABLES pc, cmd,
          launches,   \* processes started so far
          chunk,      \* chunk of the text being evaluated (1 in chat)
          nRunning,   \* tokens of the conversation fed so far
          nFirst,     \* tokens of the first prefill
          nStop,      \* tokens after which the decode loop ends
          loaded,     \* positions of the cache that came from a file
          skipCal,    \* SHANNON_PRIME_NO_CALIBRATE
          saving,     \* --save-cache
          saveAt,     \* next file to write
          since,      \* history: positions decoded since the last prefill
          lax         \* history: a load may have taken files unchecked, see Lax

sessionVars == <<pc, cmd, launches, chunk, nRunning, nFirst, nStop, loaded,
                 skipCal, saving, saveAt, since, lax>>
vars == <<kvVars, disk, ctl, sessionVars>>

\* Mutant: the refill stops one token short.
PrefixShort(n) == [i \in 1..(n - 1) |-> Text[<<launches, chunk>>][i - 1]]

\* The true tokens of the conversation in progress, the first n of them.
Prefix(n) == [i \in 1..n |-> Text[<<launches, chunk>>][i - 1]]

Init ==
    /\ kind \in Kinds /\ model \in Models /\ maxSeq = 0
    /\ cache = Blank /\ cal = 0 /\ calibrated = FALSE /\ kvPos = 0
    /\ disk = [f \in Planes |-> NoFile]
    /\ ctl = NewController(0, FALSE, FALSE)
    /\ pc = "idle" /\ cmd = "chat" /\ launches = 0 /\ chunk = 1
    /\ nRunning = 0 /\ nFirst = 0 /\ nStop = 0 /\ loaded = 0
    /\ skipCal = FALSE /\ saving = FALSE /\ saveAt = 0 /\ since = 0
    /\ lax = FALSE

\* A fresh process: an empty cache, calibrated from the start only if a
\* predictor file was named for "hier".
Started(c, m, seq, sidecar) ==
    /\ pc = "idle" /\ launches < MaxLaunches
    /\ launches' = launches + 1 /\ cmd' = c
    /\ model' = m /\ maxSeq' = seq
    /\ calibrated' = (sidecar /\ kind = "hier")
    /\ skipCal' \in BOOLEAN
    /\ UNCHANGED <<kind, cache, cal, kvPos, disk, chunk, nRunning, loaded, saveAt,
                   since, lax>>

LaunchChat ==
    \E m \in Models, mode \in Modes, n \in Predicts,
       ricci, sidecar, load \in BOOLEAN :
        /\ Started("chat", m, NPrompt + n + ChatSlack, sidecar)
        /\ load => \A f \in Planes : disk[f].n <= NPrompt + n + ChatSlack
        /\ ctl' = NewController(mode, ricci, TRUE)
        /\ nFirst' = NPrompt /\ nStop' = NPrompt + n - 1
        /\ saving' \in BOOLEAN
        /\ pc' = IF load THEN "load" ELSE "prefill"

LaunchPerplexity ==
    \E m \in Models, mode \in Modes, ricci, mertens, sidecar \in BOOLEAN :
        /\ Started("perplexity", m, NCtx + PplSlack, sidecar)
        /\ ~mertens => ricci
        /\ ctl' = NewController(mode, ricci, mertens)
        /\ nFirst' = NCtx \div 2 + 1 /\ nStop' = NCtx - 1
        /\ saving' = FALSE
        /\ pc' = "prefill"

\* --load-cache: a refused load only warns, the session goes on from 0.  The
\* environment says whether the hash check is strict.
LoadCache ==
    /\ pc = "load"
    /\ \E strict \in BOOLEAN :
        /\ cache' = LoadedPlanes(strict)
        /\ \E n \in 0..Cap :
              IsLoadedCount(n, strict) /\ loaded' = IF Aborts(strict) THEN 0 ELSE n
        /\ lax' = (lax \/ Lax(strict))
    /\ kvPos' = IF loaded' > 0 THEN loaded' ELSE kvPos
    /\ pc' = "prefill"
    /\ UNCHANGED <<kind, model, maxSeq, cal, calibrated, disk, ctl, cmd,
                   launches, chunk, nRunning, nFirst, nStop, skipCal, saving,
                   saveAt, since>>

\* The controller after a prefill of n tokens: the sentinel is calibrated
\* with the cache and then fed every vector written.
ControllerFed(n) ==
    RicciFed(IF Calibrates(skipCal) THEN RicciCalibrated(ctl) ELSE ctl, n)

FirstPrefill ==
    /\ pc = "prefill"
    /\ PrefillAt(kvPos, Prefix(nFirst), skipCal, launches)
    /\ nRunning' = nFirst /\ since' = 0
    /\ IF WriteFits(kvPos, nFirst)
       THEN ctl' \in ControllerFed(nFirst) /\ pc' = "step"
       ELSE UNCHANGED ctl /\ pc' = "failed"
    /\ UNCHANGED <<disk, cmd, launches, chunk, nFirst, nStop, loaded, skipCal,
                   saving, saveAt, lax>>

ChatPrefill == cmd = "chat" /\ FirstPrefill
ChunkPrefill == cmd = "perplexity" /\ FirstPrefill

DecodeStep ==
    /\ pc = "step" /\ nRunning < nStop
    /\ DecodeOne(Text[<<launches, chunk>>][nRunning])
    /\ IF WriteFits(kvPos, 1)
       THEN /\ ctl' \in RicciFed(ctl, 1)
            /\ nRunning' = nRunning + 1 /\ since' = since + 1 /\ pc' = "check"
       ELSE /\ pc' = "failed"
            /\ UNCHANGED <<ctl, nRunning, since>>
    /\ UNCHANGED <<disk, cmd, launches, chunk, nFirst, nStop, loaded, skipCal,
                   saving, saveAt, lax>>

ChatDecode == cmd = "chat" /\ DecodeStep
ChunkDecode == cmd = "perplexity" /\ DecodeStep

\* The position just decoded, and whether the driver asks the controller.
Pos == nRunning - 1
Asks == ctl.mode > 0 /\ Pos >= nFirst + Warmup
ResetDue == Asks /\ Recommended(ctl, Pos)

NoReset ==
    /\ pc = "check" /\ ~ResetDue
    /\ pc' = "step"
    /\ UNCHANGED <<kvVars, disk, ctl, cmd, launches, chunk, nRunning, nFirst,
                   nStop, loaded, skipCal, saving, saveAt, since, lax>>

\* bind_cache sets kv_pos to 0; prefill refills; record_reset is last.
Reset ==
    /\ pc = "check" /\ ResetDue
    /\ PrefillAt(0, Prefix(nRunning), skipCal, launches)
    /\ IF WriteFits(0, nRunning)
       THEN /\ \E c \in ControllerFed(nRunning), i \in 1..(Len(Schedule) + 1) :
                  AdvancesTo(c, Pos, i) /\ ctl' = AfterReset(c, Pos, i)
            /\ pc' = "step" /\ since' = 0 /\ loaded' = 0
       ELSE pc' = "failed" /\ UNCHANGED <<ctl, since, loaded>>
    /\ UNCHANGED <<disk, cmd, launches, chunk, nRunning, nFirst, nStop,
                   skipCal, saving, saveAt, lax>>

ChatReset == cmd = "chat" /\ Reset
ChunkReset == cmd = "perplexity" /\ Reset

\* The next chunk rebinds the same cache; the controller is left as it is.
NextChunk ==
    /\ pc = "step" /\ cmd = "perplexity"
    /\ nRunning >= nStop /\ chunk < Chunks
    /\ chunk' = chunk + 1 /\ kvPos' = 0 /\ nRunning' = 0 /\ pc' = "prefill"
    /\ UNCHANGED <<kind, model, maxSeq, cache, cal, calibrated, disk, ctl, cmd,
                   launches, nFirst, nStop, loaded, skipCal, saving, saveAt,
                   since, lax>>

EndOfChat ==
    /\ pc = "step" /\ cmd = "chat" /\ nRunning >= nStop
    /\ pc' = IF saving /\ kvPos > 0 /\ kvPos <= maxSeq THEN "save" ELSE "done"
    /\ UNCHANGED <<kvVars, disk, ctl, cmd, launches, chunk, nRunning, nFirst,
                   nStop, loaded, skipCal, saving, saveAt, since, lax>>

SaveFile ==
    /\ pc = "save"
    /\ LET f == PlaneAt(saveAt)
       IN  disk' = [disk EXCEPT ![f] = Saved(f, kvPos)]
    /\ saveAt' = saveAt + 1
    /\ pc' = IF saveAt' = NFiles THEN "done" ELSE "save"
    /\ UNCHANGED <<kvVars, ctl, cmd, launches, chunk, nRunning, nFirst, nStop,
                   loaded, skipCal, saving, since, lax>>

\* The process ends: by itself at the end of the text or on a failed call or
\* a file that cannot be created, or killed.  A file being written is torn or
\* cut off.  Nothing of the process remains.
Exit ==
    /\ pc # "idle"
    /\ \/ UNCHANGED disk
       \/ /\ pc = "save"
          /\ LET f == PlaneAt(saveAt)
             IN  disk' \in {[disk EXCEPT ![f] = Torn]} \cup
                    {[disk EXCEPT ![f] = CutOff(f, kvPos, m)] : m \in 0..(kvPos - 1)}
    /\ pc' = "idle" /\ cmd' = "chat" /\ maxSeq' = 0
    /\ cache' = Blank /\ cal' = 0 /\ calibrated' = FALSE /\ kvPos' = 0
    /\ ctl' = NewController(0, FALSE, FALSE)
    /\ chunk' = 1 /\ nRunning' = 0 /\ nFirst' = 0 /\ nStop' = 0 /\ loaded' = 0
    /\ skipCal' = FALSE /\ saving' = FALSE /\ saveAt' = 0 /\ since' = 0
    /\ UNCHANGED <<kind, model, launches, lax>>

Next ==
    \/ LaunchChat \/ LaunchPerplexity \/ LoadCache
    \/ ChatPrefill \/ ChunkPrefill \/ ChatDecode \/ ChunkDecode
    \/ NoReset \/ ChatReset \/ ChunkReset \/ NextChunk
    \/ EndOfChat \/ SaveFile \/ Exit

Spec == Init /\ [][Next]_vars
-----------------------------------------------------------------------------
TypeOK ==
    /\ kind \in Kinds /\ model \in Models /\ maxSeq \in 0..Cap
    /\ cache \in Contents /\ cal \in 0..MaxLaunches
    /\ calibrated \in BOOLEAN /\ kvPos \in 0..maxSeq
    /\ disk \in [Planes -> File] /\ ctl \in Controller
    /\ pc \in {"idle", "load", "prefill", "step", "check", "save", "done", "failed"}
    /\ cmd \in {"chat", "perplexity"} /\ launches \in 0..MaxLaunches
    /\ chunk \in 1..Chunks /\ nRunning \in 0..Cap /\ nFirst \in 0..Cap
    /\ nStop \in 0..Cap /\ loaded \in 0..maxSeq /\ skipCal \in BOOLEAN
    /\ saving \in BOOLEAN /\ saveAt \in 0..NFiles /\ since \in 0..Cap
    /\ lax \in BOOLEAN

Decoding == pc \in {"step", "check"}

\* (1) What decode is about to attend to is the conversation: kv_pos tokens
\* of it have been fed, and every position below holds, in every layer, the
\* vectors of that token at that position by this model, readable under the
\* calibration in force: across resets, chunks, a load that was refused
\* half-way, and files mixed by a crash.
InStep(f, p) ==
    LET e == cache[f][p]
    IN  /\ Readable(f, e) /\ e.pos = p /\ e.model = model
        /\ e.tok = Text[<<launches, chunk>>][p]
CacheInStep ==
    Decoding /\ loaded = 0 =>
        /\ kvPos = nRunning
        /\ \A f \in Planes : \A p \in 0..(kvPos - 1) : InStep(f, p)

\* (2) The decode chain never runs long on its own compressed past: in the
\* fixed-N mode, while the controller's positions are those of the text it
\* watches, at most FixedN (or the cooldown, or the warm-up) positions are
\* decoded between two refills.
ChainShort == \E limit \in {FixedN, PartialWindow, Warmup + 1} : since <= limit
DriftBounded == ctl.mode = 1 /\ Decoding /\ chunk = 1 => ChainShort

\* (3) The index that spares the oracle the passed part of its schedule never
\* hides a flagged position ahead.
LookaheadComplete ==
    pc = "check" /\ chunk = 1 =>
        (NextRisk(ctl, Pos) <=> \E i \in 1..Len(Schedule) :
            Schedule[i] > Pos /\ Schedule[i] <= Pos + Lookahead)

\* (4) Whatever was saved by whom, torn or mixed with an earlier save: as long
\* as every load has compared the hashes and insisted on them, no vector of a
\* model of another path is ever in the cache, not even after a load that was
\* refused half-way.  (One lax load and a save bring such vectors under the
\* hash of the process; a model replaced at its path is not noticed at all.)
LoadSameHash ==
    ~lax => \A f \in Planes : \A p \in 0..(Cap - 1) :
                cache[f][p].pos >= 0 => Hash[cache[f][p].model] = Hash[model]

\* (5) Two refills are at least the cooldown apart, counted in positions
\* really decoded, and none happens in the warm-up of a chunk.
Refill == pc = "check" /\ pc' = "step" /\ since > 0 /\ since' = 0
ResetsApart ==
    [][Refill => /\ since >= PartialWindow \/ nRunning - since = nFirst
                 /\ nRunning > nFirst + Warmup]_vars

\* (6) A resumed conversation is attended to as it was saved: every position
\* readable and at its place.
ResumedInStep ==
    Decoding /\ loaded > 0 =>
        \A f \in Planes : \A p \in 0..(kvPos - 1) :
            Readable(f, cache[f][p]) /\ cache[f][p].pos = p
=============================================================================
