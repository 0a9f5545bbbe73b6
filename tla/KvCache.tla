------------------------------ MODULE KvCache ------------------------------
(***************************************************************************)
(* The compressed KV cache (kv_cache.cpp over shannon_prime.c and          *)
(* shannon_prime_sqfree.c) with the forward context that fills it          *)
(* (ForwardContext::bind_cache, prefill and decode).  One slot of one      *)
(* layer's K or V plane holds an entry: which token it was computed from,  *)
(* at which rotary position, by which model, and under which calibration   *)
(* it was compressed.  The numbers are abstracted; what matters is that a  *)
(* compressed vector can only be read back under the calibration it was    *)
(* written under.                                                          *)
(***************************************************************************)
EXTENDS Integers, Sequences

CONSTANTS Tokens, Models, NLayers,
          Cap           \* bound: the largest max_seq of an instance

ASSUME KvAssumption == NLayers \in Nat \ {0} /\ Cap \in Nat \ {0}

VARIABLES kind,         \* the cache mode: "ship", "sqfree" or "hier"
          model,        \* the model the process was started with
          maxSeq,       \* positions the cache was created for
          cache,        \* plane -> position -> entry
          cal,          \* calibration now in force, 0 = the static tables
          calibrated,   \* impl_->calibrated
          kvPos         \* ForwardContext's kv_pos

kvVars == <<kind, model, maxSeq, cache, cal, calibrated, kvPos>>

Planes == (0..(NLayers - 1)) \X {"k", "v"}
Empty == [pos |-> -1]   \* the zero bytes calloc left
Entry == [tok : Tokens, pos : 0..(Cap - 1), cal : Nat, model : Models]
Slots == [0..(Cap - 1) -> Entry \cup {Empty}]
Contents == [Planes -> Slots]
Blank == [f \in Planes |-> [p \in 0..(Cap - 1) |-> Empty]]

\* The permutation of "ship" (var_order) is applied to K only; the mask of
\* "sqfree" and the predictor of "hier" shape both planes.
UnderCalibration(f) == f[2] = "k" \/ kind # "ship"

\* What reading e from plane f needs to give back the vector that was written.
Readable(f, e) ==
    e.pos >= 0 /\ (UnderCalibration(f) => e.cal = cal)

\* calibrate_end: "ship" switches the permutation and keeps the bytes,
\* "sqfree" rebuilds the mask and reallocates the planes, "hier" solves for
\* new predictors and keeps the bytes.
Recalibrated(c) == IF kind = "sqfree" THEN Blank ELSE c

\* What write() compresses into slot p of a run that starts at slot at: the
\* vectors of toks computed at rotary positions from, from+1, ...
Vector(at, toks, from, id, p) ==
    [tok |-> toks[p - at + 1], pos |-> from + (p - at), cal |-> id,
     model |-> model]

\* write(layer, at, n) of every layer, under calibration id
Written(c, at, toks, from, id) ==
    [f \in Planes |-> [p \in 0..(Cap - 1) |->
        IF p \in at..(at + Len(toks) - 1) THEN Vector(at, toks, from, id, p)
        ELSE c[f][p]]]

\* Mutant: one position past the end is let through.
WriteFitsLate(at, n) == at + n <= maxSeq + 1

\* The bounds check of write() is the same for every layer.
WriteFits(at, n) == at + n <= maxSeq

\* prefill: forward_full always computes from position 0; the first prefill
\* of an uncalibrated cache calibrates it under id.
Calibrates(skip) == ~skip /\ ~calibrated

PrefillAt(at, toks, skip, id) ==
    /\ toks # <<>>
    /\ calibrated' = (calibrated \/ Calibrates(skip))
    /\ cal' = IF Calibrates(skip) THEN id ELSE cal
    /\ LET base == IF Calibrates(skip) THEN Recalibrated(cache) ELSE cache
       IN  IF WriteFits(at, Len(toks))
           THEN /\ cache' = Written(base, at, toks, 0, cal')
                /\ kvPos' = at + Len(toks)
           ELSE cache' = base /\ kvPos' = at
    /\ UNCHANGED <<kind, model, maxSeq>>

\* decode: attends to the positions below kvPos, writes the new token there.
DecodeOne(tok) ==
    /\ IF WriteFits(kvPos, 1)
       THEN /\ cache' = Written(cache, kvPos, <<tok>>, kvPos, cal)
            /\ kvPos' = kvPos + 1
       ELSE UNCHANGED <<cache, kvPos>>
    /\ UNCHANGED <<kind, model, maxSeq, cal, calibrated>>
=============================================================================
