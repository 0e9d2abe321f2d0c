------------------------------- MODULE LinkList -------------------------------
(***************************************************************************)
(* The doubly linked list (mmt_dbl_linked_list.h) and the walk that the    *)
(* rule engine makes through one: it takes the next node before it works   *)
(* on the present one, which it may remove and free, and new nodes may be  *)
(* inserted at the head meanwhile.                                         *)
(***************************************************************************)
EXTENDS Integers, Sequences, FiniteSets, SequencesExt

CONSTANTS
  Items,     (* what nodes carry                                            *)
  NodeIds    (* bound: the memory for nodes, numbers from 1                 *)

ASSUME ListAssumption == NodeIds \subseteq Nat \ {0} /\ IsFiniteSet(NodeIds)

VARIABLES
  head,      (* the first node, or 0 for NULL                               *)
  node,      (* data, prev and next of each node that is allocated          *)
  walk,      (* the nodes a walk is at and takes next, or -1 when there is
                no walk                                                     *)
  seen,      (* the nodes this walk has been at, in order                   *)
  due        (* the nodes of the list when it began                         *)

listVars == <<head, node, walk, seen, due>>

Memory == NodeIds \ DOMAIN node
NoWalk == [at |-> -1, next |-> -1]

(* The nodes after n, to the end of the list. *)
From(n) ==
  LET reach[k \in 0 .. Cardinality(NodeIds)] ==
        IF k = 0 THEN n ELSE IF reach[k - 1] \in DOMAIN node THEN node[reach[k - 1]].next ELSE 0
      count == Cardinality({k \in 0 .. Cardinality(NodeIds) - 1 : reach[k] \in DOMAIN node})
  IN  [k \in 1 .. count |-> reach[k - 1]]

ListInit ==
  /\ head = 0 /\ node = <<>> /\ walk = NoWalk /\ seen = <<>> /\ due = <<>>

Insert(d) ==
  \E n \in Memory :
    /\ node' = [m \in DOMAIN node \cup {n} |->
                  CASE m = n    -> [data |-> d, prev |-> 0, next |-> head]
                    [] m = head -> [node[m] EXCEPT !.prev = n]
                    [] OTHER    -> node[m]]
    /\ head' = n
    /\ UNCHANGED <<walk, seen, due>>

(* No walk is under way when a list is made by appending. *)
Add(d) ==
  /\ walk = NoWalk
  /\ \E n \in Memory :
       LET tail == IF head = 0 THEN 0 ELSE Last(From(head))
       IN  /\ node' = [m \in DOMAIN node \cup {n} |->
                         CASE m = n    -> [data |-> d, prev |-> tail, next |-> 0]
                           [] m = tail -> [node[m] EXCEPT !.next = n]
                           [] OTHER    -> node[m]]
           /\ head' = IF tail = 0 THEN n ELSE head
  /\ UNCHANGED <<walk, seen, due>>

(* remove_link_node_from_its_link_list *)
Unlink(n) ==
  LET next == node[n].next
      behind(f, p) == IF next = 0 THEN f ELSE [f EXCEPT ![next].prev = p]
  IN  IF n = head
      THEN [head |-> next, node |-> behind(node, 0)]
      ELSE [head |-> head,
            node |-> behind([node EXCEPT ![node[n].prev].next = next], node[n].prev)]

(* The node is removed from the list, and freed. *)
Detach(n) ==
  /\ head' = Unlink(n).head
  /\ node' = [m \in DOMAIN node \ {n} |-> Unlink(n).node[m]]

(* remove_node_from_link_list: the first node with this data, or none. *)
RemoveData(d) ==
  /\ walk = NoWalk
  /\ LET has == {i \in DOMAIN From(head) : node[From(head)[i]].data = d}
     IN  has # {} /\ Detach(From(head)[Min(has)])
  /\ UNCHANGED <<walk, seen, due>>

(* Slip: the list is freed from its second node on. *)
FreeList_Second ==
  /\ walk = NoWalk /\ head # 0
  /\ node' = [n \in {head} |-> [node[n] EXCEPT !.next = 0]]
  /\ UNCHANGED <<head, walk, seen, due>>

FreeList ==
  /\ walk = NoWalk /\ head # 0
  /\ head' = 0 /\ node' = <<>>
  /\ UNCHANGED <<walk, seen, due>>

-----------------------------------------------------------------------------
StartWalk ==
  /\ walk = NoWalk /\ head # 0
  /\ walk' = [at |-> 0, next |-> head] /\ seen' = <<>> /\ due' = From(head)
  /\ UNCHANGED <<head, node>>

Step ==
  /\ walk # NoWalk /\ walk.next # 0
  /\ walk' = [at |-> walk.next, next |-> node[walk.next].next]
  /\ seen' = Append(seen, walk.next)
  /\ UNCHANGED <<head, node, due>>

(* The event was what the node waited for: it is removed; the memory may be
   that of a new node at once. *)
Leave ==
  /\ walk.at > 0 /\ Detach(walk.at)
  /\ walk' = [walk EXCEPT !.at = 0]
  /\ UNCHANGED <<seen, due>>

EndWalk ==
  /\ walk # NoWalk /\ walk.next = 0
  /\ walk' = NoWalk /\ seen' = <<>> /\ due' = <<>>
  /\ UNCHANGED <<head, node>>

ListNext ==
  \/ \E d \in Items : Insert(d) \/ Add(d) \/ RemoveData(d)
  \/ FreeList \/ StartWalk \/ Step \/ Leave \/ EndWalk

ListSpec == ListInit /\ [][ListNext]_listVars

-----------------------------------------------------------------------------
(* The nodes implement a sequence: links that are cut or crossed by a removal at
   the head, in the middle or at the end would lose or repeat elements later. *)
Listing == [i \in DOMAIN From(head) |-> node[From(head)[i]].data]
AbstractList == INSTANCE ListOf WITH Data <- Items, list <- Listing
IsList == AbstractList!Spec

(* No node that is allocated is lost, and the links go both ways: the next
   removal relies on the link back. *)
LinksMirror ==
  /\ ToSet(From(head)) = DOMAIN node
  /\ \A n \in DOMAIN node :
       /\ node[n].prev = 0 <=> n = head
       /\ node[n].next # 0 => node[n].next \in DOMAIN node /\ node[node[n].next].prev = n

(* A walk is at every node that was there when it began, once and in order, and
   at no other ("#node can be freed( or inserted a new node)",
   rule_verif_engine.c:471). *)
WalkComplete ==
  walk # NoWalk => /\ IsPrefix(seen, due)
                   /\ walk.next = 0 <=> seen = due

(* A list is a sequence for all that change it, its links stand for that sequence
   in both directions, and a walk sees it as it was. *)
ListRight == IsList /\ [](LinksMirror /\ WalkComplete)
=============================================================================
