------------------------------- MODULE LruCache -------------------------------
(***************************************************************************)
(* What a bounded cache that evicts the least recently used key promises,  *)
(* without clocks or positions: the keys it holds and which of two was     *)
(* used before the other.                                                  *)
(***************************************************************************)
EXTENDS Naturals, FiniteSets

CONSTANTS
  Keys,    \* what can be looked up
  Cap      \* how many keys are held at most

VARIABLES
  held,    \* the keys in the cache
  older    \* the pairs of held keys of which the first was used before the second

vars == <<held, older>>

Init == held = {} /\ older = {}

\* The order once x is the latest of the keys in H.
Latest(x, H) ==
  {p \in older : p[1] \in H \ {x} /\ p[2] \in H \ {x}} \cup ((H \ {x}) \X {x})

Oldest == {v \in held : \A x \in held \ {v} : <<v, x>> \in older}

Hit(x) ==
  /\ x \in held
  /\ older' = Latest(x, held)
  /\ UNCHANGED held

\* What stays when a key has to come in.
Kept == IF Cardinality(held) < Cap THEN {held} ELSE {held \ {v} : v \in Oldest}

Load(x) ==
  /\ x \notin held
  /\ \E H \in Kept :
       /\ held' = H \cup {x}
       /\ older' = Latest(x, H \cup {x})

\* The room has been made and the key cannot be loaded.
LoadFails(x) ==
  /\ x \notin held
  /\ \E H \in Kept :
       /\ held' = H
       /\ older' = {p \in older : p[1] \in H /\ p[2] \in H}

Next == \E x \in Keys : Hit(x) \/ Load(x) \/ LoadFails(x)

Spec == Init /\ [][Next]_vars
=============================================================================
