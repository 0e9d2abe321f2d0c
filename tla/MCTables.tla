------------------------------- MODULE MCTables -------------------------------
(* The structures the library keeps attributes, rules and instances in, and the
   processes of the server, each explored by itself: `which` says which one, the
   others stay as they begin. *)
EXTENDS BinaryMap, LinkList, DpiTable, RuleMask, ServerParent

VARIABLE which

MCInit ==
  /\ which \in {"map", "list", "table", "mask", "server"}
  /\ MapInit /\ ListInit
  /\ IF which = "table" THEN TableInit
     ELSE order = <<>> /\ stream = <<>> /\ protos = <<>> /\ gid = 0
  /\ IF which = "mask" THEN MaskInit
     ELSE /\ mask = <<>> /\ part = 1 /\ rest = <<>> /\ array = <<>> /\ ids = <<>>
          /\ special = <<>> /\ reading = "done"
  /\ ParentInit /\ (which # "server" => options = [threads |-> 1, cores |-> 0])

MCNext ==
  /\ UNCHANGED which
  /\ \/ which = "map" /\ MapNext
        /\ UNCHANGED <<listVars, tableVars, maskVars, parentVars>>
     \/ which = "list" /\ ListNext
        /\ UNCHANGED <<mapVars, tableVars, maskVars, parentVars>>
     \/ which = "table" /\ TableNext
        /\ UNCHANGED <<mapVars, listVars, maskVars, parentVars>>
     \/ which = "mask" /\ MaskNext
        /\ UNCHANGED <<mapVars, listVars, tableVars, parentVars>>
     \/ which = "server" /\ ParentNext
        /\ UNCHANGED <<mapVars, listVars, tableVars, maskVars>>

MCSpec == MCInit /\ [][MCNext]_<<which, mapVars, listVars, tableVars, maskVars, parentVars>>

-----------------------------------------------------------------------------
Att(id, name, type) == [id |-> id, name |-> name, type |-> type]
MCDpi ==
  [p \in {0, 1, 3, 4} |->
     CASE p = 0 -> [name |-> "meta", atts |-> <<>>]
       [] p = 1 -> [name |-> "eth",  atts |-> <<Att(4, "src", 2), Att(2, "dst", 2)>>]
       [] p = 3 -> [name |-> "ip",   atts |-> <<Att(2, "src", 1), Att(7, "opts", 0)>>]
       [] OTHER -> [name |-> "tcp",  atts |-> <<Att(7, "flags", 1), Att(2, "p_data", 0)>>]]
MCOrders    == [1 .. 4 -> DOMAIN MCDpi]
MCDataTypes == <<"pointer", "number", "mac">>

Num(n, sep)      == [first |-> n, to |-> -1, sep |-> sep]
Span(m, n, sep)  == [first |-> m, to |-> n, sep |-> sep]
Entries == {Num(n, s) : n \in {1, 3}, s \in {"", ","}} \cup {Num(-1, ""), Num(2, ".")}
             \cup {Span(m, n, s) : m \in {1, 2}, n \in {0, 2, 4}, s \in {"", ","}}
Shape(t) == \A i \in DOMAIN t : t[i].sep = "" => i = Len(t)
MCRangeTexts == {t \in UNION {[1 .. n -> Entries] : n \in 1 .. 3} : Shape(t)}
ShortTexts   == {t \in UNION {[1 .. n -> Entries] : n \in 0 .. 1} : Shape(t)}
                  \cup {<<Num(3, ","), Span(1, 4, "")>>, <<Span(1, 2, ","), Num(1, "")>>}
MCMaskTexts  == {<<[thread |-> a, text |-> s], [thread |-> b, text |-> t]>> :
                   a \in {1}, b \in {1, 2}, s, t \in ShortTexts}
MCOptions == [threads : {0, 1, 2, 3}, cores : {0, 3, 4}]
=============================================================================
