------------------------------ MODULE Dictionary ------------------------------
(***************************************************************************)
(* What a map promises: one value for each key, how many keys there are,   *)
(* and to tell the caller which value is left for it to free: the one      *)
(* replaced, its own when there is another, or none.                       *)
(***************************************************************************)
EXTENDS Naturals, FiniteSets

CONSTANTS Keys, Data, NULL

VARIABLES dict, count, left

Init == dict = <<>> /\ count = 0 /\ left = NULL

(* A key that is there gets a new value only when it may be overridden. *)
Put(k, d, override) ==
  /\ dict' = IF k \in DOMAIN dict /\ ~override THEN dict ELSE [x \in DOMAIN dict \cup {k} |-> IF x = k THEN d ELSE dict[x]]
  /\ count' = Cardinality(DOMAIN dict')
  /\ left' = IF k \notin DOMAIN dict THEN NULL ELSE IF override THEN dict[k] ELSE d

Clear == dict' = <<>> /\ count' = 0 /\ UNCHANGED left

Next == Clear \/ \E k \in Keys, d \in Data, o \in BOOLEAN : Put(k, d, o)

Spec == Init /\ [][Next]_<<dict, count, left>>
=============================================================================
