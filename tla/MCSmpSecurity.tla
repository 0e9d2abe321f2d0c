--------------------------- MODULE MCSmpSecurity ----------------------------
(* Two threads: the rules of the first need a and b, those of the second b. *)
EXTENDS SmpSecurity

CONSTANTS a, b
TwoHashes == <<{a, b}, {b}>>
=============================================================================
