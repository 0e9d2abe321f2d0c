----------------------------- MODULE RuleReader -----------------------------
(***************************************************************************)
(* The reader of rules and the numbering of their events                   *)
(* (src/src/lib/rule.c), over XML elements that libxml has taken apart.    *)
(*                                                                         *)
(* An element is [tag, value, id, delay, expr, children, call], where call *)
(* is the text of if_satisfied; a delay is [min, max, unit], each limit    *)
(* [n, sign].  What is read is a tree of [op, ...]: events, with an        *)
(* expression, and operators, with a context, a trigger and a delay.       *)
(***************************************************************************)
EXTENDS Expression

Operators == {"THEN", "BEFORE", "OR", "AND", "NOT", "COMPUTE"}

(* No event: an element that is not known, or no element at all. *)
Nothing == [op |-> "nothing"]
Halted(x) == x.op = "halt"

UNSET == -1

(* (uint16_t) UNKNOWN: the number of an event that has none. *)
NoNumber == UNSET % UINT16

(* Units, each with its number of the next one; the last is the microsecond. *)
Units == << <<"Y", 12>>, <<"M", 30>>, <<"D", 24>>, <<"h", 60>>, <<"m", 60>>,
            <<"s", 1000>>, <<"ms", 1000>>, <<"mms", 1>> >>

(* Slip: a unit is taken for the one below it. *)
Micros_Break(n, unit) ==
  LET from == CHOOSE i \in DOMAIN Units : Units[i][1] = unit
  IN  n * Units[from][2]

(* _update_delay_to_micro_second: every case falls through to the next. *)
Micros(n, unit) ==
  LET from == CHOOSE i \in DOMAIN Units : Units[i][1] = unit
  IN  FoldLeft(LAMBDA acc, u : acc * u[2], n, SubSeq(Units, from, Len(Units)))

(* _get_sign *)
SignOf(limit) == CASE limit.sign = "-" -> -1 [] limit.sign = "+" -> 1 [] OTHER -> 0

(* _parse_rule_delay: the limits are compared before they are converted and
   before their signs are added. *)
ReadDelay(d) ==
  IF d.min.n < 0 \/ d.max.n < 0 \/ d.min.n > d.max.n THEN Failure
  ELSE [op  |-> "delay",
        min |-> Micros(d.min.n, d.unit) + SignOf(d.min),
        max |-> Micros(d.max.n, d.unit) + SignOf(d.max)]

(* _parse_an_event: a number is cut to sixteen bits, so that 65537 is the number 1
   and 65535 is none. *)
ReadEvent(x) ==
  LET e == Parse(x.expr)
  IN  IF Halted(e) \/ (x.id < 0 /\ x.id # UNSET) THEN Failure
      ELSE [op |-> "event", id |-> x.id % UINT16, expr |-> e]

(* Its two parts, once the elements that are not known are passed over; any
   element behind the second part is one too many. *)
Known(x) == x.tag \in {"event", "operator"}
TooMany(children) ==
  \E i \in DOMAIN children :
    Cardinality({j \in 1 .. i - 1 : Known(children[j])}) = 2

(* What an operator or a rule requires of its parts. *)
BadParts(value, delay, parts) ==
  IF value = "COMPUTE" THEN parts[2] # Nothing \/ delay.max # 0
                       ELSE Nothing \in ToSet(parts)

(* _parse_a_rule_node, with _parse_an_operator. *)
RECURSIVE ReadNode(_)
ReadNode(x) ==
  IF x.tag = "event" THEN ReadEvent(x) ELSE
  LET delay == ReadDelay(x.delay)
      known == SelectSeq(x.children, Known)
      Part(i) == IF i <= Len(known) THEN ReadNode(known[i]) ELSE Nothing
      parts == << Part(1), Part(2) >>
  IN  IF \/ Halted(delay) \/ x.value \notin Operators \/ TooMany(x.children)
         \/ Halted(parts[1]) \/ Halted(parts[2])
         \/ BadParts(x.value, delay, parts)
      THEN Failure
      ELSE [op |-> x.value, delay |-> delay, context |-> parts[1], trigger |-> parts[2]]

(* The event that a rule of one part is completed with: "(true)", number 2. *)
True == [op |-> "event", id |-> 2,
         expr |-> [Group EXCEPT !.params = << Constant(1) >>]]

(* _parse_a_rule *)
ReadRule(x) ==
  LET r == ReadNode([x EXCEPT !.tag = "operator"])
  IN  IF Halted(r) \/ x.id < 0 THEN Failure
      ELSE [op |-> "rule", id |-> x.id % UINT16, call |-> x.call,
            top |-> IF r.op # "COMPUTE" THEN r
                    ELSE [r EXCEPT !.op = "THEN", !.trigger = True]]

-----------------------------------------------------------------------------
(* The events of a tree, context first. *)
RECURSIVE EventsOf(_)
EventsOf(n) == CASE n.op = "nothing" -> <<>>
                 [] n.op = "event" -> <<n>>
                 [] OTHER -> EventsOf(n.context) \o EventsOf(n.trigger)

(* _get_unique_events_of_rule_node: an event without a number gets its place,
   those with one counted. *)
RECURSIVE Number(_, _)
Number(n, k) ==
  CASE n.op = "nothing" -> n
    [] n.op = "event" -> IF n.id = NoNumber THEN [n EXCEPT !.id = k] ELSE n
    [] OTHER -> [n EXCEPT !.context = Number(n.context, k),
                          !.trigger = Number(n.trigger, k + Len(EventsOf(n.context)))]

Numbers(events) == [i \in DOMAIN events |-> events[i].id]

(* A number given twice, a variable of an event that there is not, and
   (_iterate_event_to_verify_id) a number that leaves a gap. *)
BadNumbers(events) ==
  LET ids == ToSet(Numbers(events))
  IN  \/ Cardinality(ids) # Len(events)
      \/ \E e \in ToSet(events) : \E v \in VariablesOf(e.expr) : v.ref \notin ids \cup {NoRef}
      \/ \E i \in ids : i > Len(events) \/ i <= 0
=============================================================================
