------------------------------- MODULE ForkJoin -------------------------------
(***************************************************************************)
(* What sp_parallel_for promises its callers (sp_threadpool.h): a call     *)
(* forks the slices 0 .. size-1 of its task, each of them runs exactly     *)
(* once and only while the call is in progress, and the call returns when  *)
(* all of them have run.  Workers, epochs and counters do not appear.      *)
(***************************************************************************)
EXTENDS Naturals

CONSTANTS
  Callers,   \* the threads that make parallel calls
  MaxSize    \* the largest number of slices of a call

VARIABLES
  size,   \* the number of slices the next call will have
  open,   \* the callers inside a call
  todo    \* the slices of a caller's task that have not run

vars == <<size, open, todo>>

Init ==
  /\ size = 0
  /\ open = {}
  /\ todo = [c \in Callers |-> {}]

\* The pool is sized anew, between calls.
Resize ==
  /\ open = {}
  /\ size' \in 0 .. MaxSize
  /\ UNCHANGED <<open, todo>>

Fork(c) ==
  /\ c \notin open
  /\ size > 1
  /\ open' = open \cup {c}
  /\ todo' = [todo EXCEPT ![c] = 0 .. size - 1]
  /\ UNCHANGED size

Work(c, slice) ==
  /\ c \in open
  /\ slice \in todo[c]
  /\ todo' = [todo EXCEPT ![c] = @ \ {slice}]
  /\ UNCHANGED <<size, open>>

Join(c) ==
  /\ c \in open
  /\ todo[c] = {}
  /\ open' = open \ {c}
  /\ UNCHANGED <<size, todo>>

Next ==
  \/ Resize
  \/ \E c \in Callers : Fork(c) \/ Join(c) \/ \E slice \in 0 .. MaxSize - 1 : Work(c, slice)

Spec == Init /\ [][Next]_vars
=============================================================================
