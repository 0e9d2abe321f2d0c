----------------------------- MODULE MCIgnoreSet -----------------------------
(* Numbers have three bytes of two values, so that most pairs of flows share
   one.  Flows 0 and 1 have the same home, 2 the next slot, 4 the last one, so
   that chains cross and one wraps round the table. *)
EXTENDS IgnoreSet
MCHome == [f \in Flows |-> CASE f = 2 -> 1 [] f = 4 -> Size - 1 [] OTHER -> 0]
=============================================================================
