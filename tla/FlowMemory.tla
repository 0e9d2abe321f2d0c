----------------------------- MODULE FlowMemory ------------------------------
(***************************************************************************)
(* What a set of flows to ignore promises: flows are remembered when they  *)
(* are added, at most Capacity of them, and an addition makes at most Loss *)
(* of them be forgotten.  Nothing is forgotten otherwise.                  *)
(***************************************************************************)
EXTENDS Integers, FiniteSets

CONSTANTS Flows, Capacity, Loss
VARIABLE mem

Init == mem = {}

(* The flows of one verdict are added; some others may go, and all that stays
   was there or is new. *)
Remember ==
  \E new \in (SUBSET Flows) \ {{}}, kept \in SUBSET Flows :
    /\ kept \subseteq mem \cup new
    /\ kept \cap new # {}
    /\ Cardinality(mem \ kept) <= Loss
    /\ Cardinality(kept) <= Capacity
    /\ mem' = kept

Spec == Init /\ [][Remember]_mem
=============================================================================
