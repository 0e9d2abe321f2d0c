---------------------------- MODULE MCRuleEngine ----------------------------
(***************************************************************************)
(* Rules for TLC, as gen_code.c generates their machines: event numbers    *)
(* follow the letters of the rule, delays are small.                       *)
(***************************************************************************)
EXTENDS RuleEngine

T(e, action, target) == [event |-> e, action |-> action, target |-> target]
Out(target) == T(TIMEOUT, "nothing", target)
D(lo, hi) == [min |-> lo, max |-> hi]

(* A rule with the given events, waiting states (with delays) and transitions. *)
Machine(events, delay, trans) ==
  LET states == {"init", "error", "success", "incl"} \cup DOMAIN delay
  IN  [events |-> events, states |-> states,
       init |-> "init", error |-> "error", success |-> "success", incl |-> "incl",
       delay |-> [s \in states |-> IF s \in DOMAIN delay THEN delay[s] ELSE D(0, 0)],
       temporary |-> {s \in DOMAIN delay : delay[s] = D(0, 0)},
       trans |-> [s \in states |-> IF s \in DOMAIN trans THEN trans[s] ELSE <<>>]]

(* a THEN b, b from one to two units after a *)
RuleThen == Machine(1 .. 2, [w |-> D(1, 2)],
  [init |-> << T(1, "create", "w") >>,
   w    |-> << Out("error"), T(2, "reset", "success") >>])

(* (a THEN b) THEN (c THEN d): the first part failing is inconclusive, and c
   makes a clone of an instance that is waiting. *)
RuleNested == Machine(1 .. 4, [v |-> D(0, 1), w |-> D(1, 2), x |-> D(0, 1)],
  [init |-> << T(1, "create", "v") >>,
   v    |-> << Out("incl"), T(2, "reset", "w") >>,
   w    |-> << Out("error"), T(3, "create", "x") >>,
   x    |-> << Out("error"), T(4, "reset", "success") >>])

(* Both are rules the theorems are about: no event lies before the initial state,
   all of them may lie before a final one, and the others are named here. *)
Past == [s \in Rule.states |->
           CASE s = "init" -> {}
             [] s \in {"error", "success", "incl"} -> Rule.events
             [] s = "v" -> {1}
             [] s = "w" -> 1 .. (IF Rule = RuleNested THEN 2 ELSE 1)
             [] s = "x" -> 1 .. 3]
ASSUME StepByStep /\ OncePerPath(Past) /\ OneBeginning /\ InTime

(* A message: the events it has the data of, those whose condition it meets,
   and the value events are correlated by (an address, say). *)
Msg(has, sat, key) == [has |-> has, sat |-> sat, key |-> key]
HasOf == [k \in Kinds |-> k.has]

Correlated(e, m, trace) ==
  /\ e \in m.kind.sat
  /\ \A x \in Events : trace[x] # NoMessage => trace[x].kind.key = m.kind.key

KindsThen == { Msg({1, 2}, {1}, 1), Msg({1, 2}, {2}, 1), Msg({1, 2}, {2}, 2),
               Msg({1, 2}, {1, 2}, 2), Msg({}, {}, 1) }
KindsNested == { Msg(1 .. 4, {1}, 1), Msg(1 .. 4, {2}, 1), Msg(1 .. 4, {3}, 1),
                 Msg(1 .. 4, {3, 4}, 1), Msg({}, {}, 1) }
=============================================================================
