---------------------------- MODULE RuleMeaning -----------------------------
(***************************************************************************)
(* What a rule says, from its operators alone: the sequences of events and *)
(* of delays that run out (0) after which it is settled, and how.  It is   *)
(* what the machines of module GenCode are compared with.                  *)
(*                                                                         *)
(* "yes": satisfied; "no": not satisfied; "na": nothing can be said, since *)
(* what the rule speaks about did not come to be.                          *)
(***************************************************************************)
EXTENDS Integers, Sequences

Expires == << 0 >>

Settled(w, out) == [word |-> w, out |-> out]
Of(A, outs)     == {a \in A : a.out \in outs}
WithOut(A, out) == {Settled(a.word, out) : a \in A}

(* First A is satisfied, then B is settled; M says what of. *)
Follow(A, B, M(_)) ==
  {Settled(p[1].word \o p[2].word, M(p[2].out)) : p \in Of(A, {"yes"}) \X B}
FollowedBy(A, w, out) == {Settled(a.word \o w, out) : a \in Of(A, {"yes"})}

Reached(o)  == IF o = "yes" THEN "yes" ELSE "no"
Avoided(o)  == IF o = "yes" THEN "no" ELSE "yes"
Preceded(o) == IF o = "yes" THEN "yes" ELSE "na"

Then(A, B)   == WithOut(Of(A, {"no", "na"}), "na") \cup FollowedBy(A, Expires, "no")
                  \cup Follow(A, B, Reached)
Not(A, B)    == WithOut(Of(A, {"no", "na"}), "na") \cup FollowedBy(A, Expires, "yes")
                  \cup Follow(A, B, Avoided)
Before(A, B) == WithOut(Of(A, {"yes"}), "no") \cup WithOut(Of(A, {"no", "na"}), "na")
                  \cup WithOut(Of(B, {"no", "na"}), "na")
                  \cup FollowedBy(B, Expires, "na") \cup Follow(B, A, Preceded)

RECURSIVE Meaning(_)
Meaning(n) ==
  LET A == Meaning(n.context)
      B == Meaning(n.trigger)
  IN  CASE n.op = "event"  -> {Settled(<<n.id>>, "yes")}
        [] n.op = "THEN"   -> Then(A, B)
        [] n.op = "AND"    -> Then(A, B) \cup Then(B, A)
        [] n.op = "OR"     -> A \cup B
        [] n.op = "NOT"    -> Not(A, B)
        [] n.op = "BEFORE" -> Before(A, B)

(* What the generator has no states for: a part that can fail to come to be
   under the second part of a NOT, one that can fail under the first of a BEFORE
   (both are taken for a failure of the rule), and a BEFORE or a COMPUTE below
   another operator. *)
RECURSIVE Expressible(_, _)
Expressible(n, root) ==
  CASE n.op = "event" -> TRUE
    [] n.op \in {"nothing", "COMPUTE"} -> FALSE
    [] n.op = "BEFORE" /\ ~root -> FALSE
    [] OTHER -> /\ Expressible(n.context, FALSE) /\ Expressible(n.trigger, FALSE)
                /\ n.op = "NOT" => Of(Meaning(n.trigger), {"na"}) = {}
                /\ n.op = "BEFORE" => Of(Meaning(n.context), {"no"}) = {}
=============================================================================
