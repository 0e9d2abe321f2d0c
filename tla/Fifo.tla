-------------------------------- MODULE Fifo --------------------------------
(***************************************************************************)
(* What the lock-free ring promises to the two threads that share it: a    *)
(* bounded first-in first-out channel.  The producer offers one value at a *)
(* time and is told whether it was accepted; the consumer takes the oldest *)
(* values, one or several at once, and is given nothing only when there    *)
(* was nothing to give.                                                    *)
(***************************************************************************)
EXTENDS Naturals, Sequences

CONSTANTS
  Values,    (* what may be sent: in the program, pointers to messages *)
  Capacity   (* how many values may wait, a natural number             *)

VARIABLES
  queue,     (* the values waiting, oldest first                       *)
  accepted,  (* the answer to the producer's last offer                *)
  taken      (* what the consumer's last call returned                 *)

vars == <<queue, accepted, taken>>

Init ==
  /\ queue = <<>>
  /\ accepted = TRUE
  /\ taken = <<>>

(* The producer's value is queued behind all the others. *)
Put(v) ==
  /\ Len(queue) < Capacity
  /\ queue' = Append(queue, v)
  /\ accepted' = TRUE
  /\ UNCHANGED taken

(* An offer may be refused only while the channel is full. *)
Refuse ==
  /\ Len(queue) = Capacity
  /\ accepted' = FALSE
  /\ UNCHANGED <<queue, taken>>

(* The consumer is given the n oldest values, in order. *)
Take(n) ==
  /\ taken' = SubSeq(queue, 1, n)
  /\ queue' = SubSeq(queue, n + 1, Len(queue))
  /\ UNCHANGED accepted

(* The consumer may be sent away with nothing only while nothing waits. *)
TakeNothing ==
  /\ queue = <<>>
  /\ taken' = <<>>
  /\ UNCHANGED <<queue, accepted>>

Next ==
  \/ \E v \in Values : Put(v)
  \/ Refuse
  \/ \E n \in 1 .. Len(queue) : Take(n)
  \/ TakeNothing

Spec == Init /\ [][Next]_vars
=============================================================================
