------------------------------ MODULE GenCode -------------------------------
(***************************************************************************)
(* The generator of state machines (src/src/lib/gen_code.c): what it makes *)
(* of one rule, in the form module RuleFsm runs.                           *)
(*                                                                         *)
(* The machine under construction is a record g of, for each state, its    *)
(* transitions, its delay and the number it is printed with; states are    *)
(* told apart by the order they are allocated in, which is not the order   *)
(* they are numbered in.                                                   *)
(***************************************************************************)
EXTENDS RuleReader

S_INIT == 1
S_FAIL == 2
S_PASS == 3
S_INCL == 4

TimeoutEvent == 0
NoDelay == [op |-> "delay", min |-> 0, max |-> 0]

Blank == [trans |-> << <<>>, <<>>, <<>>, <<>> >>, delay |-> << NoDelay, NoDelay, NoDelay, NoDelay >>,
          index |-> << 0, 1, 2, 3 >>, waiting |-> {}, count |-> 4, ok |-> TRUE]

(* _create_new_transition, appended to the transitions of s. *)
Connect(g, s, event, action, to) ==
  [g EXCEPT !.trans[s] = Append(@, [event |-> event, action |-> action, target |-> to])]

NewState(g) == Len(g.trans) + 1

(* A state that waits, with the timeout for its first transition. *)
Waiting(g, delay, expired) ==
  Connect([g EXCEPT !.trans = Append(@, <<>>), !.delay = Append(@, delay),
                    !.index = Append(@, 0), !.waiting = @ \cup {NewState(g)}],
          NewState(g), TimeoutEvent, "nothing", expired)

(* A state gets its number when its context has been generated. *)
Numbered(g, s) == [g EXCEPT !.index[s] = g.count, !.count = @ + 1]

RECURSIVE GenNode(_, _, _, _, _, _, _)

(* a THEN b: a context that fails settles nothing. *)
GenThen(g, n, init, pass, fail, incl) ==
  LET w  == NewState(g)
      g1 == GenNode(Waiting(g, n.delay, fail), n.context, init, w, incl, incl, "create")
  IN  GenNode(Numbered(g1, w), n.trigger, w, pass, fail, fail, "reset")

GenAnd(g, n, init, pass, fail, incl) ==
  GenThen(GenThen(g, n, init, pass, fail, incl),
          [n EXCEPT !.context = n.trigger, !.trigger = n.context], init, pass, fail, incl)

GenOr(g, n, init, pass, fail, incl, action) ==
  GenNode(GenNode(g, n.context, init, pass, fail, incl, action),
          n.trigger, init, pass, fail, incl, action)

(* Slip: the timeout of the second part is left where the first one put it. *)
GenNot_Expired(g, n, init, pass, fail, incl, action) ==
  LET w  == NewState(g)
      g1 == GenNode(Waiting(g, n.delay, incl), n.context, init, w, incl, incl, "create")
  IN  GenNode(Numbered(g1, w), n.trigger, w, fail, pass, fail, action)

GenNot(g, n, init, pass, fail, incl, action) ==
  LET w  == NewState(g)
      g1 == GenNode(Waiting(g, n.delay, pass), n.context, init, w, incl, incl, "create")
  IN  GenNode(Numbered(g1, w), n.trigger, w, fail, pass, fail, action)

(* a BEFORE b: a alone fails, b waits for a. *)
GenBefore(g, n, init, pass, fail, incl, action) ==
  LET w  == NewState(g)
      g1 == GenNode(Waiting(g, n.delay, incl), n.context, init, fail, fail, incl, action)
      g2 == GenNode(g1, n.trigger, init, w, incl, incl, "create")
  IN  GenNode(Numbered(g2, w), n.context, w, pass, incl, incl, action)

GenOperator(g, n, init, pass, fail, incl, action) ==
  CASE n.op = "THEN" -> GenThen(g, n, init, pass, fail, incl)
    [] n.op = "AND"  -> GenAnd(g, n, init, pass, fail, incl)
    [] n.op = "OR"   -> GenOr(g, n, init, pass, fail, incl, action)
    [] n.op = "NOT"  -> GenNot(g, n, init, pass, fail, incl, action)

(* A BEFORE inside a rule generates the parts of the whole rule, itself
   included, without end: the stack is exhausted.  A COMPUTE inside a rule
   generates nothing. *)
GenNode(g, n, init, pass, fail, incl, action) ==
  CASE n.op = "event"   -> Connect(g, init, n.id, action, pass)
    [] n.op = "BEFORE"  -> [g EXCEPT !.ok = FALSE]
    [] n.op \in {"COMPUTE", "nothing"} -> g
    [] OTHER -> GenOperator(g, n, init, pass, fail, incl, action)

GenRule(top) ==
  IF top.op = "BEFORE"
  THEN GenBefore(Blank, top, S_INIT, S_PASS, S_FAIL, S_INCL, "nothing")
  ELSE GenOperator(Blank, top, S_INIT, S_PASS, S_FAIL, S_INCL, "nothing")

(* Going out from the initial state always makes an instance. *)
Action(s, t) == IF s = S_INIT THEN "create" ELSE t.action

(* _gen_fsm_state_for_a_rule: the machine as it is printed, where states are
   known by their numbers. *)
Machine(top) ==
  LET g == GenRule(top)
      Number_(s) == g.index[s]
      With(i) == CHOOSE s \in DOMAIN g.index : g.index[s] = i
      states == ToSet(g.index)
  IN  IF ~g.ok THEN Failure ELSE
      [op |-> "machine", events |-> ToSet(Numbers(EventsOf(top))), states |-> states,
       init |-> 0, error |-> 1, success |-> 2, incl |-> 3,
       delay |-> [i \in states |-> [min |-> g.delay[With(i)].min, max |-> g.delay[With(i)].max]],
       temporary |-> {Number_(s) : s \in {s \in g.waiting : g.delay[s] = NoDelay}},
       trans |-> [i \in states |->
                    [j \in DOMAIN g.trans[With(i)] |->
                       LET t == g.trans[With(i)][j]
                       IN  [event |-> t.event, action |-> Action(With(i), t),
                            target |-> Number_(t.target)]]]]

-----------------------------------------------------------------------------
(* The event a variable is the data of: the one named, or the one it is in. *)
Owner(v, e) == IF v.ref = NoRef THEN e.id ELSE v.ref

(* _iterate_events_to_get_variables_of_each_event: an entry for every event that
   a variable belongs to, and for every event without any variable. *)
Entries(events) ==
  {e.id : e \in {e \in ToSet(events) : VariablesOf(e.expr) = {}}} \cup
  UNION {{Owner(v, e) : v \in VariablesOf(e.expr)} : e \in ToSet(events)}

(* Slip: a variable of an earlier event is counted for the event it is in. *)
BelongTo_Own(id, events) ==
  UNION {{v.v : v \in VariablesOf(e.expr)} : e \in {e \in ToSet(events) : e.id = id}}

BelongTo(id, events) ==
  UNION {{v.v : v \in {v \in VariablesOf(e.expr) : Owner(v, e) = id}} : e \in ToSet(events)}

(* proto_atts_events_<rule>: the entries in order, one behind the other; what is
   left of the array is empty.  The engine looks event e up at place e. *)
ProtoAtts(events) ==
  LET entry == SetToSortSeq(Entries(events), <)
  IN  [i \in 1 .. Len(events) |->
         IF i <= Len(entry) THEN BelongTo(entry[i], events) ELSE {}]

(* _get_excluded_proto_atts: the variables anywhere in a call of is_exist. *)
RECURSIVE ExcludedIn(_)
ExcludedIn(x) ==
  IF IsLeaf(x) THEN {}
  ELSE IF x.op = "function" /\ x.name = "is_exist" THEN NamesOf(x)
  ELSE UNION {ExcludedIn(p) : p \in ToSet(x.params)}

(* excluded_filter_<rule>: one entry for every event. *)
Excluded(events) ==
  [i \in 1 .. Len(events) |->
     UNION {ExcludedIn(e.expr) : e \in {e \in ToSet(events) : e.id = i}}]

(* g_<rule>_<event>: what the guard of an event reads, of the message at hand
   (NoRef) or of the message an earlier event was met by. *)
GuardReads(e) == {[name |-> v.v, of |-> v.ref] : v \in VariablesOf(e.expr)}

(* What a rule calls when it is satisfied (_gen_if_satisfied_embedded_function):
   nothing, a function by its name, or code generated from an expression, of
   which "update" takes a number to be changed and "drop" takes nothing. *)
IfSatisfied(call) ==
  LET tree == Parse(call)
      f    == tree.params[1]
  IN  CASE call = <<>> -> "NULL"
        [] call # <<>> /\ Halted(tree) -> "halt"
        [] OTHER ->
             IF Len(tree.params) # 1 \/ IsLeaf(f) THEN "halt"
             ELSE CASE f.op # "function" -> "halt"
                    [] f.name = "drop" -> IF f.params = <<>> THEN "drop" ELSE "halt"
                    [] f.op = "function" /\ f.name = "update" ->
                         IF Len(f.params) = 2 /\ IsLeaf(f.params[1])
                         THEN IF f.params[1].k = "nvar" /\ f.params[1].ref = NoRef
                              THEN "update" ELSE "halt"
                         ELSE "halt"
                    [] OTHER -> "call"
=============================================================================
