-------------------------------- MODULE ListOf --------------------------------
(***************************************************************************)
(* What a linked list promises: a sequence that grows at both ends and     *)
(* shrinks anywhere.                                                       *)
(***************************************************************************)
EXTENDS Naturals, Sequences, SequencesExt

CONSTANTS Data

VARIABLE list

Init == list = <<>>

Insert(d) == list' = <<d>> \o list
Add(d)    == list' = Append(list, d)
TakeOut(i) == list' = RemoveAt(list, i)
Clear     == list' = <<>>

Next ==
  \/ \E d \in Data : Insert(d) \/ Add(d)
  \/ \E i \in DOMAIN list : TakeOut(i)
  \/ Clear

Spec == Init /\ [][Next]_list
=============================================================================
