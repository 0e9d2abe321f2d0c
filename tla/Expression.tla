----------------------------- MODULE Expression -----------------------------
(***************************************************************************)
(* The parser of the boolean expressions of events                         *)
(* (src/src/lib/expression.c), over tokens.                                *)
(*                                                                         *)
(* A token is [k, v, parts]: a bracket, a comma, an operator, a function, a *)
(* quoted text, or a word: names and numbers with dots between.  The code  *)
(* descends and comes back by father pointers, which only ever lead from a *)
(* node to the one it was opened in: a stack of open nodes.                *)
(***************************************************************************)
EXTENDS Integers, Sequences, SequencesExt

CONSTANTS
  DpiTypes     (* the attributes the DPI knows, <<protocol, attribute>>, and
                  the type of each                                         *)

Chained    == {"&&", "||", "+", "-", "*", "/"}
Comparison == {"==", "!=", "<", "<=", ">", ">="}

Failure == [op |-> "halt"]

(* UNKNOWN_REF_INDEX: an event number nobody can refer to. *)
UINT16 == 65536
NoRef == UINT16 - 1

(* A part of a word is a number n or, where n is -1, a name. *)
Digits(part) == part.n >= 0
Constant(n) == [k |-> "num", v |-> << [v |-> "", n |-> n] >>, ref |-> NoRef]

(* convert_data_type: a number, a string, or any other pointer. *)
Numeric == {"u8", "u16", "u32", "u64", "port", "char", "float"}
Textual == {"mac", "string", "long", "binary_var", "binary", "header_line", "ip", "ip6", "pointer"}
Opaque  == {"data_pointer", "path", "timeval", "buffer", "point", "port_range", "date", "timearg",
            "string_index", "net", "layer", "filter", "parent", "stats"}
KindOf(type) == CASE type \in Numeric -> "nvar" [] type \in Textual -> "svar" [] type \in Opaque -> "bvar"

(* expr_create_a_variable: both names must be known, and the type supported. *)
Created(protocol, attribute, ref) ==
  LET name == <<protocol.v, attribute.v>>
      known == name \in DOMAIN DpiTypes /\ DpiTypes[name] \in Numeric \cup Textual \cup Opaque
  IN  IF known THEN [k |-> KindOf(DpiTypes[name]), v |-> <<protocol, attribute>>, ref |-> ref]
      ELSE Failure

(* _parse_variable: protocol, attribute and, behind a second dot, the number of
   an event.  A name that follows the second dot is taken for a number that is
   not there. *)
Variable(w) ==
  CASE Len(w) = 2   -> Created(w[1], w[2], NoRef)
    [] Digits(w[3]) -> Created(w[1], w[2], w[3].n % UINT16)
    [] OTHER        -> Failure

(* What a word is: a variable as soon as there is a dot, "1.5" included; a number
   otherwise, or a truth value. *)
Word(w) ==
  CASE Len(w) > 1      -> Variable(w)
    [] Digits(Head(w)) -> Constant(w[1].n)
    [] OTHER           -> CASE w[1].v = "true" -> Constant(1)
                            [] w[1].v = "false" -> Constant(0)
                            [] OTHER -> Failure

Text(t) == [k |-> "str", v |-> << [v |-> t.v, n |-> -1] >>, ref |-> NoRef]
Leaf(t) == IF t.k = "word" THEN Word(t.parts) ELSE Text(t)

(* A node that has no operator yet, and one for a function. *)
Group       == [op |-> "unknown", name |-> "", params |-> <<>>]
Function(f) == [op |-> "function", name |-> f, params |-> <<>>]

Started == [open |-> <<Group>>, first |-> TRUE, ended |-> FALSE, ok |-> TRUE]

Current(s) == Last(s.open)

Append_Node(s, x) ==
  [s EXCEPT !.open[Len(s.open)].params = Append(@, x), !.first = FALSE]

Enter(s, x) == [s EXCEPT !.open = Append(@, x), !.first = (x.op = "function")]

(* Slip: the node opened last is never made a parameter. *)
Leave_Lost(s) == [s EXCEPT !.open = Front(@), !.first = FALSE]

(* Back to the father, which the node is a parameter of. *)
Leave(s) == Append_Node([s EXCEPT !.open = Front(@)], Current(s))

Fail(s) == [s EXCEPT !.ok = FALSE]

Operate(s, v) == [s EXCEPT !.open[Len(s.open)].op = v, !.first = FALSE]

(* An operator is the first of its node; && || + - * / may come again. *)
Allowed(s, v) == Current(s).op \in {"unknown"} \cup (IF v \in Chained THEN {v} ELSE {})

(* One call of _parse_a_boolean_expression: token i of toks. *)
Take(s, toks, i) ==
  LET t == toks[i]
      last == i = Len(toks)
  IN
  CASE t.k = "("         -> IF s.first THEN [s EXCEPT !.first = FALSE] ELSE Enter(s, Group)
    [] t.k = ")"         -> CASE Len(s.open) > 1 -> Leave(s)
                              [] Len(s.open) = 1 /\ last -> [s EXCEPT !.ended = TRUE]
                              [] OTHER -> Fail(s)
    [] t.k \in {"word", "text"} ->
         IF Leaf(t) = Failure THEN Fail(s) ELSE Append_Node(s, Leaf(t))
    [] t.k = "function"  -> Enter(s, Function(t.v))
    [] t.k = "operator"  -> IF Allowed(s, t.v) THEN Operate(s, t.v) ELSE Fail(s)
    [] t.k = ","         -> IF /\ Current(s).op = "function"
                               /\ last \/ toks[i + 1].k # ")"
                            THEN [s EXCEPT !.first = FALSE] ELSE Fail(s)

(* The nodes that are open when the text ends are where they were put when they
   were opened: a missing bracket is not noticed. *)
Whole(open) ==
  LET up[i \in 1 .. Len(open)] ==
        IF i = Len(open) THEN open[i]
                         ELSE [open[i] EXCEPT !.params = Append(@, up[i + 1])]
  IN  up[1]

(* parse_expression *)
Parse(toks) ==
  LET after[i \in 0 .. Len(toks)] ==
        IF i = 0 THEN Started
        ELSE IF after[i - 1].ok THEN Take(after[i - 1], toks, i) ELSE after[i - 1]
      s == after[Len(toks)]
  IN  IF s.ok THEN Whole(s.open) ELSE Failure

-----------------------------------------------------------------------------
IsLeaf(x) == "k" \in DOMAIN x

(* Every leaf under a node, in order. *)
RECURSIVE LeavesOf(_)
LeavesOf(x) == IF IsLeaf(x) THEN <<x>>
               ELSE FoldLeft(LAMBDA acc, p : acc \o LeavesOf(p), <<>>, x.params)

(* get_unique_variables_of_expression: by name, or by name and event. *)
VariablesOf(x) == {t \in ToSet(LeavesOf(x)) : t.k \in {"nvar", "svar", "bvar"}}
NamesOf(x) == {t.v : t \in VariablesOf(x)}

(* The comparison of strings that a comparison is printed as: every parameter
   that is a leaf is a string; a computed one may be anything. *)
ComparedBy(x) ==
  LET leaf == {p \in ToSet(x.params) : IsLeaf(p)}
  IN  CASE x.op \notin Comparison \/ \E p \in leaf : p.k \notin {"svar", "str"} -> "itself"
        [] \A p \in ToSet(x.params) : IsLeaf(p) /\ p.k = "svar" -> "mmt_mem_cmp"
        [] OTHER -> "strcmp"

(* expr_stringify_expression, as the tokens of the C expression: every node in
   brackets of its own, its operator between its parameters; one without an
   operator prints NULL there when it has two. *)
Bracket(b) == [k |-> b, v |-> "", parts |-> <<>>]
Sign(v)    == [k |-> "operator", v |-> v, parts |-> <<>>]
Call(f)    == [k |-> "function", v |-> f, parts |-> <<>>]

(* A leaf as the word or the text it is printed as. *)
Spelled(x) ==
  IF x.k = "str" THEN [k |-> "text", v |-> x.v[1].v, parts |-> <<>>]
  ELSE [k |-> "word", v |-> "",
        parts |-> x.v \o (IF x.ref = NoRef THEN <<>> ELSE << [v |-> "", n |-> x.ref] >>)]

RECURSIVE Printed(_)
Printed(x) ==
  IF IsLeaf(x) THEN << Spelled(x) >> ELSE
  LET by    == ComparedBy(x)
      head  == CASE by # "itself" -> << Spelled(Constant(0)), Sign(x.op), Call(by), Bracket("(") >>
                 [] x.op = "function" -> << Call(x.name), Bracket("(") >>
                 [] OTHER -> << Bracket("(") >>
      delim == IF by # "itself" \/ x.op = "function" THEN Bracket(",") ELSE Sign(x.op)
      Join(acc, p) == (IF acc = head THEN acc ELSE Append(acc, delim)) \o Printed(p)
  IN  Append(FoldLeft(Join, head, x.params), Bracket(")"))
=============================================================================
