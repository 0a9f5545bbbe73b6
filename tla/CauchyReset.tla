---------------------------- MODULE CauchyReset ----------------------------
(***************************************************************************)
(* The Cauchy reset controller (core/src/shannon_prime_cauchy.c and the    *)
(* KvCache methods that wrap it): when, during a decode chain, the cache   *)
(* is to be refilled from the true tokens.  The controller is one record:  *)
(*   mode    0 = off, 1 = every FixedN positions, 2 = Mertens and Ricci    *)
(*   last    position of the last reset (last_reset_pos)                   *)
(*   idx     schedule_idx: the first schedule entry not yet passed         *)
(*   mertens, ricci   whether the oracle and the sentinel were allocated   *)
(*   rcal, rn, rec    Ricci: calibrated, n_samples, reset_recommended      *)
(* The energies the sentinel averages are abstracted: past its warm-up it  *)
(* may or may not recommend a reset.                                       *)
(***************************************************************************)
EXTENDS Integers, Sequences

CONSTANTS FixedN,     \* --cauchy-fixed-n
          Cooldown,   \* --cauchy-cooldown
          Schedule,   \* the flagged positions of sp_mertens_init, ascending
          HighRisk,   \* the positions whose baked risk exceeds 0.5
          Lookahead,  \* 32 in the code
          RicciWarm   \* warmup_samples, 32 in the code

VARIABLE ctl

ASSUME CauchyAssumption ==
    /\ FixedN \in Nat \ {0} /\ Cooldown \in Nat
    /\ Lookahead \in Nat /\ RicciWarm \in Nat
    /\ Schedule \in Seq(Nat) /\ HighRisk \subseteq Nat
    /\ \A i, j \in 1..Len(Schedule) : i < j => Schedule[i] < Schedule[j]

NeverReset == -999999   \* "allow first reset immediately"

Controller ==
    [mode : 0..2, last : Nat \cup {NeverReset}, idx : 1..(Len(Schedule) + 1),
     mertens : BOOLEAN, ricci : BOOLEAN, rcal : BOOLEAN, rn : Nat,
     rec : BOOLEAN]

\* init_cauchy: the oracle is built in mode 2 only, the sentinel on request;
\* --cauchy-ricci-only then frees the oracle.
NewController(mode, useRicci, useMertens) ==
    [mode |-> mode, last |-> NeverReset, idx |-> 1,
     mertens |-> mode = 2 /\ useMertens, ricci |-> mode = 2 /\ useRicci,
     rcal |-> FALSE, rn |-> 0, rec |-> FALSE]

\* cauchy_set_cooldown
PartialWindow == IF Cooldown < 1 THEN 1 ELSE Cooldown

\* sp_mertens_next_risk: the scan starts at schedule_idx.
NextRisk(c, pos) ==
    \E i \in c.idx..Len(Schedule) :
        Schedule[i] > pos /\ Schedule[i] <= pos + Lookahead

\* Mutant: no cooldown gate.
CooledDownAlways(c, pos) == TRUE

CooledDown(c, pos) == pos - c.last >= PartialWindow

\* sp_cauchy_check: is a reset, full or partial, recommended at pos?
Recommended(c, pos) ==
    /\ CooledDown(c, pos)
    /\ \/ c.mode = 1 /\ pos - c.last >= FixedN
       \/ c.mode = 2 /\ c.ricci /\ c.rec
       \/ c.mode = 2 /\ c.mertens /\ (pos \in HighRisk \/ NextRisk(c, pos))

\* Mutant: the schedule is advanced past what lies just ahead.
AdvancesTooFar(c, pos, i) ==
    IF c.mertens
    THEN /\ i >= c.idx
         /\ \A j \in c.idx..(i - 1) : Schedule[j] <= pos + Lookahead
         /\ i <= Len(Schedule) => Schedule[i] > pos + Lookahead
    ELSE i = c.idx

\* sp_mertens_advance stops at entry i: those before it are not ahead of pos.
AdvancesTo(c, pos, i) ==
    IF c.mertens
    THEN /\ i >= c.idx
         /\ \A j \in c.idx..(i - 1) : Schedule[j] <= pos
         /\ i <= Len(Schedule) => Schedule[i] > pos
    ELSE i = c.idx

\* Mutant: the position after the reset is recorded.
AfterResetLate(c, pos, i) ==
    [c EXCEPT !.last = pos + 1, !.idx = i,
              !.rn = IF c.ricci THEN 0 ELSE @,
              !.rec = @ /\ ~c.ricci]

\* sp_cauchy_record_reset, the schedule having been advanced to entry i
AfterReset(c, pos, i) ==
    [c EXCEPT !.last = pos, !.idx = i,
              !.rn = IF c.ricci THEN 0 ELSE @,
              !.rec = @ /\ ~c.ricci]

\* calibrate_feed and calibrate_end, sentinel side
RicciCalibrated(c) ==
    IF c.ricci /\ ~c.rcal
    THEN [c EXCEPT !.rcal = TRUE, !.rn = 0, !.rec = FALSE] ELSE c

\* sp_ricci_check on each of the n vectors a write feeds it: the outcomes
RicciFed(c, n) ==
    IF ~(c.ricci /\ c.rcal) THEN {c}
    ELSE {[c EXCEPT !.rn = @ + n, !.rec = r] :
             r \in IF c.rn + n <= RicciWarm THEN {FALSE} ELSE BOOLEAN}
=============================================================================
