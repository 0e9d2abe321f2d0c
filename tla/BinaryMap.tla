------------------------------- MODULE BinaryMap ------------------------------
(***************************************************************************)
(* The map of mmt_map_t.c: a binary tree that is never balanced.  It       *)
(* collects the attributes, variables and events of rules; the order it    *)
(* visits them in gives each its index.  A node is known by the turns that *)
(* lead to it from the root, 0 to the left and 1 to the right.             *)
(***************************************************************************)
EXTENDS Integers, Sequences, FiniteSets, SequencesExt

CONSTANTS
  Keys,    (* numbers: the comparison is that of their order                *)
  Data     (* what the callers store, never NULL                            *)

VARIABLES
  tree,    (* key and data of each node                                     *)
  size,    (* map->size                                                     *)
  ret,     (* what the last mmt_map_set_data returned                       *)
  copy     (* a clone: its nodes and its size                               *)

mapVars == <<tree, size, ret, copy>>

NULL == "null"

ASSUME MapAssumption == Keys \subseteq Int /\ NULL \notin Data

Places(t) == {<<>>} \cup DOMAIN t \cup {Append(p, turn) : p \in DOMAIN t, turn \in {0, 1}}

Turn(k, n) == IF k < n.key THEN 0 ELSE 1

(* The place where the search for a key ends: its node, or where it would be. *)
OnTheWay(t, k, p) ==
  \A i \in DOMAIN p : LET above == SubSeq(p, 1, i - 1)
                      IN  above \in DOMAIN t /\ t[above].key # k /\ p[i] = Turn(k, t[above])
Found(t, k) ==
  CHOOSE p \in Places(t) : OnTheWay(t, k, p) /\ (p \in DOMAIN t => t[p].key = k)

(* A node, new or in the place of another. *)
NodeAt(t, p, n) == [q \in DOMAIN t \cup {p} |-> IF q = p THEN n ELSE t[q]]

(* Slip: the data that are there are replaced in any case. *)
SetData_Override(t, k, d, override) ==
  LET p == Found(t, k)
  IN  [tree |-> NodeAt(t, p, [key |-> k, data |-> d]),
       ret  |-> IF p \notin DOMAIN t THEN NULL ELSE IF override THEN t[p].data ELSE d]

(* _mmt_map_set_data: what was there before, or what was not stored. *)
SetData(t, k, d, override) ==
  LET p == Found(t, k)
  IN  CASE p \notin DOMAIN t -> [tree |-> NodeAt(t, p, [key |-> k, data |-> d]), ret |-> NULL]
        [] p \in DOMAIN t /\ override -> [tree |-> [t EXCEPT ![p].data = d], ret |-> t[p].data]
        [] OTHER -> [tree |-> t, ret |-> d]

(* A node is visited after those on its left and before those on its right: p comes
   before q when, at the node where they part, p is that node or on its left, and q
   that node or on its right. *)
Before(p, q) ==
  \E i \in 0 .. Len(p) :
    /\ i <= Len(q) /\ SubSeq(p, 1, i) = SubSeq(q, 1, i)
    /\ i < Len(p) => p[i + 1] = 0
    /\ i < Len(q) => q[i + 1] = 1
    /\ i < Len(p) \/ i < Len(q)
Visits(t) ==
  [i \in 1 .. Cardinality(DOMAIN t) |->
     CHOOSE p \in DOMAIN t : Cardinality({q \in DOMAIN t : Before(q, p)}) = i - 1]

(* mmt_map_get_data and mmt_map_get_index *)
GetData(t, k)  == LET p == Found(t, k) IN IF p \in DOMAIN t THEN t[p].data ELSE NULL
GetIndex(t, k) ==
  LET at == {i \in DOMAIN Visits(t) : t[Visits(t)[i]].key = k}
  IN  IF at = {} THEN -1 ELSE (CHOOSE i \in at : TRUE) - 1

ToArray(t) == [i \in DOMAIN Visits(t) |-> t[Visits(t)[i]].data]

-----------------------------------------------------------------------------
Empty == [tree |-> <<>>, size |-> 0]

MapInit == tree = <<>> /\ size = 0 /\ ret = NULL /\ copy = Empty

(* mmt_map_set_data: one node more when there was nothing before.  Bound: the map
   is not changed while there is a copy, which shares no node with it. *)
Set(k, d, override) ==
  LET s == SetData(tree, k, d, override)
  IN  /\ copy = Empty
      /\ tree' = s.tree
      /\ size' = IF s.ret = NULL THEN size + 1 ELSE size
      /\ ret' = s.ret
      /\ UNCHANGED copy

(* mmt_map_clone: what is visited is set again. *)
SetAgain(c, n) ==
  LET s == SetData(c.tree, n.key, n.data, FALSE)
  IN  [tree |-> s.tree, size |-> IF s.ret = NULL THEN c.size + 1 ELSE c.size]
Clone ==
  /\ copy' = FoldLeft(SetAgain, Empty, [i \in DOMAIN Visits(tree) |-> tree[Visits(tree)[i]]])
  /\ UNCHANGED <<tree, size, ret>>

(* mmt_map_clone_key_and_data: node by node. *)
CloneNodes == copy' = [tree |-> tree, size |-> size] /\ UNCHANGED <<tree, size, ret>>

(* mmt_map_free, of the map or of its copy. *)
Free ==
  \/ tree' = <<>> /\ size' = 0 /\ UNCHANGED <<ret, copy>>
  \/ copy' = Empty /\ UNCHANGED <<tree, size, ret>>

MapNext ==
  \/ \E k \in Keys, d \in Data, override \in BOOLEAN : Set(k, d, override)
  \/ Clone
  \/ CloneNodes
  \/ Free

MapSpec == MapInit /\ [][MapNext]_mapVars

-----------------------------------------------------------------------------
(* The keys and values of a tree, wherever its nodes are. *)
DictOf(t) == [k \in {t[p].key : p \in DOMAIN t} |->
                t[CHOOSE p \in DOMAIN t : t[p].key = k].data]

(* The map is a dictionary: after keys in any order, what is found at a key is
   what was stored there, the count is right, and no value is lost or freed while
   it is in the map. *)
AbstractMap == INSTANCE Dictionary WITH dict <- DictOf(tree), count <- size, left <- ret
IsDictionary == AbstractMap!Spec

(* The data are visited in the order of their keys, whatever order they came in:
   the index of an attribute is its rank, and the array made of a map, whose
   length is the count, is filled without a gap. *)
RanksOf(t, n) ==
  /\ n = Cardinality(DOMAIN t)
  /\ \A p \in DOMAIN t :
       LET rank == Cardinality({q \in DOMAIN t : t[q].key < t[p].key})
       IN  /\ GetIndex(t, t[p].key) = rank
           /\ GetData(t, t[p].key) = t[p].data
           /\ ToArray(t)[rank + 1] = t[p].data
IndexIsRank == RanksOf(tree, size) /\ RanksOf(copy.tree, copy.size)

(* A clone holds what the map holds, wherever its nodes are. *)
CloneIsSame ==
  copy' # copy /\ copy' # Empty => DictOf(copy'.tree) = DictOf(tree) /\ copy'.size = size

(* A map may be used as the dictionary it promises to be, cloned and, at every moment,
   turned into an array by the rank of its keys. *)
MapRight == IsDictionary /\ []IndexIsRank /\ [][CloneIsSame]_mapVars
=============================================================================
