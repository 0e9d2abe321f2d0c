---------------------------- MODULE RuleCompiler ----------------------------
(***************************************************************************)
(* From a file of rules to the code of a plugin: read_rules_from_file      *)
(* (src/src/lib/rule.c) and generate_fsm (gen_code.c), rule after rule.    *)
(* mmt_halt, and every assertion, ends the program; code is generated with *)
(* the assertions compiled in.                                             *)
(***************************************************************************)
EXTENDS GenCode

CONSTANTS
  Files        (* files of rules: sequences of elements                    *)

Meant == INSTANCE RuleMeaning

AnyGuard(e, m, trace) == TRUE
Run(machine) == INSTANCE RuleFsm WITH Rule <- machine, Guard <- AnyGuard, NoMessage <- 0

(* A message: its number, the events it has the data of, those whose condition
   it meets, and, for each event, the earlier events its condition reads. *)
NoMsg == [n |-> 0, has |-> {}, sat |-> {}, reads |-> <<>>]
Met(e, m, trace) == e \in m.has \cap m.sat /\ \A r \in m.reads[e] : trace[r] # NoMsg
Single(machine) == INSTANCE SinglePacket WITH Rule <- machine, Guard <- Met, NoMessage <- NoMsg,
                                             Conclusive <- {"error", "final"}

VARIABLES
  source,      (* the file                                                 *)
  file,        (* the elements of it that have not been read               *)
  rules,       (* the rules read                                           *)
  code,        (* what has been generated, rule by rule                    *)
  status       (* reading, generating, calling, written, halted, overflow  *)
vars == <<source, file, rules, code, status>>

Init ==
  /\ source \in Files /\ file = source
  /\ rules = <<>> /\ code = <<>> /\ status = "reading"

Stop(how) == status' = how /\ UNCHANGED <<source, file, rules, code>>

(* A rule is read; one with the number of another stops the program. *)
ReadProperty ==
  /\ status = "reading" /\ file # <<>>
  /\ LET r == ReadRule(Head(file)) IN
     IF Halted(r) THEN Stop("halted")
     ELSE IF \E i \in DOMAIN rules : rules[i].id = r.id THEN Stop("halted")
     ELSE /\ rules' = Append(rules, r)
          /\ file' = Tail(file)
          /\ UNCHANGED <<source, code, status>>

ReadEnd ==
  /\ status = "reading" /\ file = <<>>
  /\ Stop("generating")

(* _gen_fsm_for_a_rule *)
Generate ==
  /\ status = "generating" /\ Len(code) < Len(rules)
  /\ LET rule    == rules[Len(code) + 1]
         top     == Number(rule.top, 1)
         events  == EventsOf(top)
         machine == Machine(top)
     IN  IF BadNumbers(events) THEN Stop("halted")
         ELSE IF Halted(machine) THEN Stop("overflow")
         ELSE /\ code' = Append(code,
                   [id |-> rule.id, top |-> top, machine |-> machine,
                    protoAtts |-> ProtoAtts(events), excluded |-> Excluded(events)])
              /\ UNCHANGED <<source, file, rules, status>>

(* The functions rules call when they are satisfied come last. *)
GenerateCalls ==
  /\ status = "generating" /\ Len(code) = Len(rules)
  /\ IF \E i \in DOMAIN rules : IfSatisfied(rules[i].call) = "halt"
     THEN Stop("halted") ELSE Stop("written")

Next == ReadProperty \/ ReadEnd \/ Generate \/ GenerateCalls
Spec == Init /\ [][Next]_vars

-----------------------------------------------------------------------------
(* The elements of the events of an element, in order. *)
RECURSIVE EventElements(_)
EventElements(x) ==
  IF x.tag = "event" THEN <<x>>
  ELSE FoldLeft(LAMBDA acc, c : acc \o EventElements(c), <<>>, SelectSeq(x.children, Known))

(* The events that have been read, each with the element it was read from. *)
Texts == UNION {{<<EventsOf(rules[i].top)[j], EventElements(source[i])[j]>> :
                   j \in DOMAIN EventElements(source[i])} : i \in DOMAIN rules}

(* Nothing is lost of an expression: the leaves of the tree are those of the
   text, in order, however brackets, functions and operators are nested. *)
LeavesKept ==
  \A t \in Texts :
    LET written == SelectSeq(t[2].expr, LAMBDA x : x.k \in {"word", "text"})
    IN  LeavesOf(t[1].expr) = [i \in DOMAIN written |-> Leaf(written[i])]

(* The depth of each token, where a function opens a group even without a
   bracket. *)
Depth(toks) ==
  LET Opens(i)  == \/ toks[i].k = "("
                   \/ toks[i].k = "function" /\ ~(i < Len(toks) /\ toks[i + 1].k = "(")
      d[i \in 0 .. Len(toks)] ==
        IF i = 0 THEN 0 ELSE d[i - 1] + (CASE Opens(i) -> 1 [] toks[i].k = ")" -> -1 [] OTHER -> 0)
  IN  d

(* No expression needs an order of precedence: within one pair of brackets there
   is one operator, and a comparison is not chained.  The comment at
   expression.c:560 asks for it. *)
OneOperator ==
  \A t \in Texts :
    LET toks == t[2].expr
        d == Depth(toks)
    IN  \A i, j \in DOMAIN toks :
          /\ i < j /\ toks[i].k = "operator" /\ toks[j].k = "operator"
          /\ d[i] = d[j] /\ \A k \in i .. j : d[k] >= d[i]
          => toks[i].v = toks[j].v /\ toks[i].v \in Chained

(* A node that has the parameters its operator takes. *)
RECURSIVE Sound(_)
Sound(x) ==
  IsLeaf(x) \/ /\ \A p \in ToSet(x.params) : Sound(p)
               /\ ComparedBy(x) = "itself"
               /\ LET n == Len(x.params)
                  IN  CASE x.op = "unknown" -> n = 1
                        [] x.op = "function" -> TRUE
                        [] x.op \in Comparison -> n = 2
                        [] OTHER -> n >= 2

(* The C expression says what the tree says: read again, it is the same tree.
   (Comparisons of strings become calls, and are left out.) *)
PrintedSame == \A t \in Texts : Sound(t[1].expr) => Parse(Printed(t[1].expr)) = t[1].expr

(* How long each unit is, in microseconds. *)
Length == [m |-> 60000000, s |-> 1000000, ms |-> 1000, mms |-> 1]

(* The delays an instance accepts are the ones the rule gives: from the minimum
   ("+": more than it) to the maximum ("-": less than it). *)
DelayMeant ==
  \A i \in DOMAIN rules :
    LET d  == source[i].delay
        lo == d.min.n * Length[d.unit]
        hi == d.max.n * Length[d.unit]
        got == rules[i].top.delay
    IN  d.min.sign # "-" /\ d.max.sign # "+" =>
          \A t \in {x + k : x \in {lo, hi}, k \in {-1, 0, 1}} \cap Nat :
            (got.min <= t /\ t <= got.max) <=>
              /\ IF d.min.sign = "+" THEN t > lo ELSE t >= lo
              /\ IF d.max.sign = "-" THEN t < hi ELSE t <= hi

(* The events of a rule code is generated for are numbered from 1 without a gap,
   whichever of them came with a number, and those kept theirs, cut to sixteen
   bits. *)
EventsNumbered ==
  \A i \in DOMAIN code :
    LET ids   == Numbers(EventsOf(code[i].top))
        given == EventElements(source[i])
    IN  /\ ToSet(ids) = 1 .. Len(ids)
        /\ \A j \in DOMAIN given : given[j].id % UINT16 \in {NoNumber, ids[j]}

Outcomes == << "no", "yes", "na" >>
RECURSIVE Paths(_, _)
Paths(m, s) ==
  IF m.trans[s] = <<>> THEN {Meant!Settled(<<>>, Outcomes[s])}
  ELSE UNION {{Meant!Settled(<<t.event>> \o p.word, p.out) : p \in Paths(m, t.target)} :
                t \in ToSet(m.trans[s])}

(* The machine does what the rule means: its paths from the initial state to the
   final ones are the sequences of events and timeouts that settle the rule,
   each ending as the rule says. *)
MeaningKept ==
  \A c \in ToSet(code) :
    Meant!Expressible(c.top, TRUE) => Paths(c.machine, c.machine.init) = Meant!Meaning(c.top)

RECURSIVE InOrder(_)
InOrder(n) == n.op \in {"event", "nothing"} \/
  (n.delay.min <= n.delay.max /\ InOrder(n.context) /\ InOrder(n.trigger))

(* The machine is one the engine can run: it has the shape fsm_init expects, only
   the three outcomes end an instance, every waiting state can run out of time
   and the initial one cannot, and leaving that always makes an instance. *)
EngineFit ==
  \A c \in ToSet(code) :
    LET m == c.machine IN
    InOrder(c.top) =>
      /\ Run(m)!RuleShape
      /\ Cardinality(m.states) = Len(GenRule(c.top).trans)
      /\ \A t \in ToSet(m.trans[m.init]) : t.event # TimeoutEvent /\ t.action = "create"
      /\ \A s \in m.states \ {m.init, m.error, m.success, m.incl} :
           m.trans[s] # <<>> /\ m.trans[s][1].event = TimeoutEvent
      /\ \A s \in {m.error, m.success, m.incl} : m.trans[s] = <<>>

(* The parts whose instances go on step by step: of OR, nothing is left waiting in the
   middle of a rule, and NOT, which goes on when time runs out, comes last; only
   events lead to a state without delay. *)
RECURSIVE Stepwise(_, _)
Stepwise(n, place) ==
  LET second == IF place = "last" THEN "last" ELSE "middle"
      AtOnce(x) == x.op = "event" \/ (n.delay.max > 0 /\ Stepwise(x, "first"))
  IN  CASE n.op = "event" -> TRUE
        [] n.op = "THEN"  -> AtOnce(n.context) /\ Stepwise(n.trigger, second)
        [] n.op = "NOT"   -> place = "last" /\ AtOnce(n.context) /\ Stepwise(n.trigger, second)
        [] n.op = "AND"   -> /\ AtOnce(n.context) /\ Stepwise(n.trigger, second)
                             /\ AtOnce(n.trigger) /\ Stepwise(n.context, second)
        [] n.op = "OR"    -> place # "middle" /\ Stepwise(n.context, place) /\ Stepwise(n.trigger, place)
        [] OTHER -> FALSE

(* The parts whose instances have time: a delay inside another one begins at once. *)
RECURSIVE Prompt(_, _)
Prompt(n, starts) ==
  n.op = "event" \/
  ( /\ n.delay.max > 0 /\ (starts \/ n.delay.min <= 0)
    /\ Prompt(n.context, starts /\ n.op # "AND") /\ Prompt(n.trigger, FALSE) )

(* The states that can be reached from one, and the events that may lie behind it. *)
RECURSIVE Ahead(_, _)
Ahead(m, s) == {s} \cup UNION {Ahead(m, t.target) : t \in ToSet(m.trans[s])}
Behind(m) == [s \in m.states |->
  {t.event : t \in {t \in UNION {ToSet(m.trans[r]) : r \in m.states} : s \in Ahead(m, t.target)}}
    \ {TimeoutEvent}]

(* "a THEN b", with a delay that leaves time. *)
OneThen(n) ==
  /\ n.op = "THEN" /\ n.context.op = "event" /\ n.trigger.op = "event"
  /\ n.context.id = 1 /\ n.trigger.id = 2 /\ n.delay.max > 0

(* What the theorems about the engine ask of a rule holds of the machines generated
   for these ("always create a new instance when going out from the initial state",
   gen_code.c:465; each place of an event has its own number). *)
StepwiseFit ==
  \A c \in ToSet(code) :
    InOrder(c.top) /\ c.top.op # "OR" /\ Stepwise(c.top, "last") =>
      /\ Run(c.machine)!StepByStep /\ Run(c.machine)!OncePerPath(Behind(c.machine))
      /\ Prompt(c.top, TRUE) => Run(c.machine)!InTime
      /\ OneThen(c.top) => Run(c.machine)!IsThen

(* Messages for a rule, the first or the second of two. *)
ReadsOf(c) == [id \in 1 .. 2 |->
  UNION {{r.of : r \in GuardReads(e)} \ {NoRef} : e \in {e \in ToSet(EventsOf(c.top)) : e.id = id}}]
Messages(c, n) == {[n |-> n, has |-> h, sat |-> s, reads |-> ReadsOf(c)] : h, s \in SUBSET (1 .. 2)}

(* What the rule means of one message: the first event is met, then the second
   is, or there is none. *)
MeantOf(c, m) ==
  LET first == c.machine.trans[c.machine.init][1].event
      other == 3 - first
      Holds(e, before) == e \in m.sat /\ m.reads[e] \subseteq before
      w == <<first, IF Holds(other, {first}) THEN other ELSE TimeoutEvent>>
  IN  IF {1, 2} \subseteq m.has /\ Holds(first, {})
      THEN (CHOOSE a \in Meant!Meaning(c.top) : a.word = w).out ELSE "none"
Said == [same |-> "none", final |-> "yes", error |-> "no", inconclusive |-> "na"]

(* A rule verified on one packet gives the verdict it means, of every message
   after any other, when its events are numbered in the order they are met ("reset
   #fsm_bootstrap so it is clean for the next tests", rule_verif_engine.c:422);
   the engine holds a message as often as the trace of its last verdict has it,
   and none once it is freed. *)
SinglePacketMeant ==
  \A c \in ToSet(code) :
    LET P(e, m) == Single(c.machine)!Process(e, m)
    IN  Single(c.machine)!IsSinglePacket /\ c.machine.trans[c.machine.init][1].event = 1 =>
          \A m \in Messages(c, 1), k \in Messages(c, 2) :
            \E e \in {P(P(Single(c.machine)!NewEngine({m, k}), m), k)} :
              /\ Said[e.val] = MeantOf(c, k)
              /\ \A x \in {m, k} : e.refs[x] = Single(c.machine)!Times(e.valid, x)
              /\ e.fsm = Single(c.machine)!NewFsm
              /\ \A x \in {m, k} : Single(c.machine)!FreeEngine(e)[x] = 0

(* _calculate_hash_number: what a message must have to be tried for an event. *)
EventHash(c, e) == c.protoAtts[e] \ c.excluded[e]

(* An event is only tried on a message that has what its guard reads, and what it
   reads of an earlier message was there when that one was taken, but for what
   one of the two events asks the existence of: otherwise the guard compares with
   values that do not exist. *)
CoveredIn(c) ==
  LET events == EventsOf(c.top) IN
  \A e \in ToSet(events) : \A r \in GuardReads(e) :
    LET of == IF r.of = NoRef THEN e.id ELSE r.of
    IN  r.name \in EventHash(c, of) \cup c.excluded[of] \cup c.excluded[e.id]

(* So it is where every event has an entry of its own. *)
GuardCovered ==
  \A c \in ToSet(code) :
    Entries(EventsOf(c.top)) = 1 .. Len(EventsOf(c.top)) => CoveredIn(c)

(* The array has one place for every event, as the comment on event numbers at
   gen_code.c:897 has it: no event is without its variables. *)
EventIndex == \A c \in ToSet(code) : CoveredIn(c)

(* An expression survives the parser and the printer: the tree has the leaves of
   the text, one operator for each pair of brackets, and the C text read again
   gives the tree. *)
ExpressionKept == LeavesKept /\ OneOperator /\ PrintedSame

(* The code written fits the engine that loads it: events are numbered as the
   engine's arrays are, the machine has the shape it runs and goes on step by step
   where the rule does, and a guard reads only what the messages it is tried on
   have. *)
CodeFit == EventsNumbered /\ EngineFit /\ StepwiseFit /\ GuardCovered
=============================================================================
