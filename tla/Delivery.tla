------------------------------ MODULE Delivery ------------------------------
(***************************************************************************)
(* What the multi-threaded front end promises: every thread is given the   *)
(* messages that concern its rules, all of them, each once, in the order   *)
(* in which they were handed over.                                         *)
(***************************************************************************)
EXTENDS Naturals, Sequences

CONSTANTS
  Threads,
  Attributes, (* what a message may carry                           *)
  Hash        (* Hash[t]: the attributes the rules of thread t need *)

VARIABLES
  sent,       (* the attributes of the messages handed over, in order *)
  got         (* got[t]: the numbers of the messages thread t verified *)

vars == <<sent, got>>

Concerns(t, attributes) == attributes \cap Hash[t] # {}

(* The messages thread t has not been given yet. *)
Left(t) ==
  {m \in DOMAIN sent : /\ Concerns(t, sent[m])
                       /\ got[t] # <<>> => got[t][Len(got[t])] < m}

Init == sent = <<>> /\ got = [t \in Threads |-> <<>>]

Send(attributes) == sent' = Append(sent, attributes) /\ UNCHANGED got

Get(t) ==
  \E m \in Left(t) :
    /\ \A k \in Left(t) : m <= k
    /\ got' = [got EXCEPT ![t] = Append(@, m)]
    /\ UNCHANGED sent

Next ==
  \/ \E attributes \in SUBSET Attributes : Send(attributes)
  \/ \E t \in Threads : Get(t)

Spec == Init /\ [][Next]_vars
=============================================================================
