------------------------------- MODULE DpiTable -------------------------------
(***************************************************************************)
(* The table of protocols and attributes: main_gen_dpi.c writes it, as     *)
(* DPI tells of one protocol after the other, into dpi/mmt_dpi.h, whose    *)
(* functions look names, numbers and types up.  A protocol is found by its *)
(* place, so places without a protocol are filled.                         *)
(***************************************************************************)
EXTENDS Integers, Sequences, FiniteSets, SequencesExt

CONSTANTS
  Dpi,         (* Dpi[id]: the name of a protocol, and its attributes: a
                  sequence of [id, name, type], types numbers               *)
  Orders,      (* the orders in which DPI may tell of its protocols         *)
  DataTypes    (* data_type_name: a name for each type, the first for 0     *)

(* Attributes as DPI tells of them.  Names of protocols are distinct, as names and
   numbers of attributes of one protocol are: they are in the table that is shipped
   (dpi/mmt_dpi.h), and main_gen_dpi.c does not look at them. *)
DpiAttributes == [id : Nat, name : STRING, type : Nat]

ASSUME DpiAssumption ==
  /\ DOMAIN Dpi \subseteq Nat /\ Orders \subseteq Seq(DOMAIN Dpi)
  /\ \A p \in DOMAIN Dpi :
       /\ Dpi[p].name \in STRING \ {""} /\ Dpi[p].atts \in Seq(DpiAttributes)
       /\ \A q \in DOMAIN Dpi : Dpi[p].name = Dpi[q].name => p = q
       /\ \A i, j \in DOMAIN Dpi[p].atts :
            i # j => /\ Dpi[p].atts[i].id # Dpi[p].atts[j].id
                     /\ Dpi[p].atts[i].name # Dpi[p].atts[j].name

VARIABLES
  stream,      (* the protocols DPI has still to tell of                    *)
  order,       (* all of them                                               *)
  protos,      (* DPI_PROTO as written so far: place i + 1 is number i      *)
  gid          (* total_proto_att                                           *)

tableVars == <<stream, order, protos, gid>>

None == -1
NoName == ""

TableInit ==
  /\ order \in Orders /\ stream = order
  /\ protos = <<>> /\ gid = 0

(* attributes_iterator: each attribute has a number of its own. *)
Written(atts, n) ==
  [i \in DOMAIN atts |-> [gid |-> n + i, id |-> atts[i].id, name |-> atts[i].name,
                          type |-> DataTypes[atts[i].type + 1]]]

Dummy(id) == [id |-> id, name |-> NoName, atts |-> <<>>]

(* Slip: places without a protocol are not filled. *)
Protocol_Packed ==
  /\ stream # <<>> /\ Head(stream) >= Len(protos)
  /\ LET id == Head(stream)
     IN  /\ protos' = protos \o << [id |-> id, name |-> Dpi[id].name,
                                    atts |-> Written(Dpi[id].atts, gid)] >>
         /\ gid' = gid + Len(Dpi[id].atts)
  /\ stream' = Tail(stream)
  /\ UNCHANGED order

(* protocols_iterator: places up to this protocol are filled. *)
Protocol ==
  /\ stream # <<>> /\ Head(stream) >= Len(protos)
  /\ LET id == Head(stream)
     IN  /\ protos' = protos \o [i \in 1 .. id - Len(protos) |-> Dummy(Len(protos) + i - 1)]
                             \o << [id |-> id, name |-> Dpi[id].name,
                                    atts |-> Written(Dpi[id].atts, gid)] >>
         /\ gid' = gid + Len(Dpi[id].atts)
  /\ stream' = Tail(stream)
  /\ UNCHANGED order

(* One that comes late, or again, is left out. *)
Duplicated ==
  /\ stream # <<>> /\ Head(stream) < Len(protos)
  /\ stream' = Tail(stream)
  /\ UNCHANGED <<order, protos, gid>>

TableNext == Protocol \/ Duplicated

TableSpec == TableInit /\ [][TableNext]_tableVars

-----------------------------------------------------------------------------
(* get_protocol_id_by_name, get_protocol_name_by_id *)
ProtocolId(name) ==
  LET i == SelectInSeq(protos, LAMBDA p : p.name # NoName /\ p.name = name)
  IN  IF i = 0 THEN None ELSE protos[i].id
ProtocolName(id) == IF id >= Len(protos) THEN NoName ELSE protos[id + 1].name

AttributesOf(id) == IF id >= Len(protos) THEN <<>> ELSE protos[id + 1].atts

(* get_attribute_id_by_protocol_id_and_attribute_name, and its inverse *)
AttributeId(id, name) ==
  LET i == SelectInSeq(AttributesOf(id), LAMBDA a : a.name = name)
  IN  IF i = 0 THEN None ELSE AttributesOf(id)[i].id
AttributeName(id, att) ==
  LET i == SelectInSeq(AttributesOf(id), LAMBDA a : a.id = att)
  IN  IF i = 0 THEN NoName ELSE AttributesOf(id)[i].name

(* get_attribute_data_type, get_attribute_index *)
AttributeType(id, att) ==
  LET i == SelectInSeq(AttributesOf(id), LAMBDA a : a.id = att)
  IN  IF i = 0 THEN "" ELSE AttributesOf(id)[i].type
AttributeIndex(id, att) ==
  LET i == SelectInSeq(AttributesOf(id), LAMBDA a : a.id = att)
  IN  IF i = 0 THEN None ELSE AttributesOf(id)[i].gid

-----------------------------------------------------------------------------
Told == {order[i] : i \in 1 .. Len(order) - Len(stream)}

(* Whatever order DPI tells in, and however often, what is looked up is never
   wrong: the number of a protocol is its place, and what the table says of a
   protocol or attribute is what DPI says of it. *)
NeverWrong ==
  \A id \in 0 .. Len(protos) :
    LET name == ProtocolName(id)
    IN  name # NoName =>
          /\ id \in Told /\ name = Dpi[id].name /\ ProtocolId(name) = id
          /\ \A i \in DOMAIN Dpi[id].atts :
               LET a == Dpi[id].atts[i]
               IN  /\ AttributeId(id, a.name) = a.id /\ AttributeName(id, a.id) = a.name
                   /\ AttributeType(id, a.id) = DataTypes[a.type + 1]

(* What DPI has told of in the order of numbers is found. *)
AllFound ==
  (\A i, j \in DOMAIN order : i < j => order[i] <= order[j]) =>
    \A id \in Told : ProtocolName(id) = Dpi[id].name

(* The index of an attribute is its own among those of all protocols, and no
   index is left out. *)
IndexesDistinct ==
  LET all  == {<<id, a.id>> : id \in 0 .. Len(protos) - 1, a \in UNION {ToSet(protos[i].atts) : i \in DOMAIN protos}}
      real == {pa \in all : AttributeIndex(pa[1], pa[2]) # None}
  IN  /\ {AttributeIndex(pa[1], pa[2]) : pa \in real} = 1 .. gid
      /\ Cardinality(real) = gid

(* Every lookup, by name, number or index, gives what DPI has told of, and nothing
   else. *)
LookupRight == NeverWrong /\ AllFound /\ IndexesDistinct
=============================================================================
