------------------------------- MODULE RuleFsm ------------------------------
(***************************************************************************)
(* The state machine of one rule (src/src/lib/mmt_fsm.c), as operators on  *)
(* instances: what fsm_handle_event makes of an instance, a transition and *)
(* a message.  Sequences count from 1, so the transition the code calls    *)
(* transitions[0] is the first one here.                                   *)
(***************************************************************************)
EXTENDS Integers, Sequences

CONSTANTS
  Rule,          (* the machine generated for a rule, see RuleShape        *)
  Guard(_, _, _),(* Guard(e, m, trace): the guard of event e holds of m    *)
  NoMessage      (* an empty slot of an execution trace                    *)

(* The event_type of timeout transitions, FSM_EVENT_TYPE_TIMEOUT. *)
TIMEOUT == 0

(* The parts of a rule: its real events, its states, the four states fsm_init
   names, and for every state its transitions, its delay and whether it is
   temporary (all delays zero). *)
RuleShape ==
  /\ Rule.events \subseteq Nat \ {TIMEOUT}
  /\ {Rule.init, Rule.error, Rule.success, Rule.incl} \subseteq Rule.states
  /\ Rule.trans \in [Rule.states ->
                      Seq([event  : Rule.events \cup {TIMEOUT},
                           action : {"nothing", "create", "reset"},
                           target : Rule.states])]
  /\ Rule.delay \in [Rule.states -> [min : Int, max : Int]]
  /\ \A s \in Rule.states :
       /\ \A i \in DOMAIN Rule.trans[s] : Rule.trans[s][i].event = TIMEOUT => i = 1
       /\ Rule.delay[s].min <= Rule.delay[s].max
  /\ Rule.temporary \subseteq Rule.states

(* A state entered from a temporary one is not temporary: the machine takes
   at most one transition of its own accord. *)
NoTemporaryChain ==
  \A s \in Rule.temporary : \A i \in DOMAIN Rule.trans[s] :
    Rule.trans[s][i].target \notin Rule.temporary

Events == Rule.events \cup {TIMEOUT}
Outgoing(s) == Rule.trans[s]
Final(s) == Outgoing(s) = <<>>
Temporary(s) == s \in Rule.temporary

(* fsm_init *)
NewFsm ==
  [id |-> 0, state |-> Rule.init, event |-> 0, min |-> 0, max |-> 0,
   trace |-> [e \in Events |-> NoMessage]]

-----------------------------------------------------------------------------
(* _update_fsm: the message is recorded under the current event and the state
   changes. *)
Enter(f, t, m) == [f EXCEPT !.trace[f.event] = m, !.state = t.target]

Later(x, y)   == IF x > y THEN x ELSE y
Earlier(x, y) == IF x < y THEN x ELSE y

(* The deadlines of the state just entered: counted from this message when the
   transition asks for it or leaves the initial state, otherwise they can only
   narrow the ones in force. *)
Restart(f, t, from, m) ==
  LET lo == Rule.delay[f.state].min + m.ts
      hi == Rule.delay[f.state].max + m.ts
  IN  IF t.action = "reset" \/ from = Rule.init
      THEN [f EXCEPT !.min = lo, !.max = hi]
      ELSE [f EXCEPT !.min = Later(@, lo), !.max = Earlier(@, hi)]

(* What a final state is reported as. *)
Outcome(s) ==
  CASE s = Rule.error   -> "error"
    [] s = Rule.incl    -> "inconclusive"
    [] s = Rule.success -> "final"
    [] OTHER            -> "err_arg"

Settle(f, t, from, m) ==
  IF Final(f.state) THEN [fsm |-> f, val |-> Outcome(f.state)]
                    ELSE [fsm |-> Restart(f, t, from, m), val |-> "changed"]

(* Slip: the first moment at which an event counts is taken to be too early. *)
TooEarly_Inclusive(f, m) == m.ts <= f.min

(* Before the minimal delay, not even the timeout is considered. *)
TooEarly(f, m) == m.ts < f.min

(* A transition with this action moves a clone, the instance stays: except into
   a final state. *)
Clones(t) == t.action = "create" /\ ~Final(t.target)

(* A temporary state tries its transitions on the same message, the last one
   first; the timeout transition is one fsm_handle_event never fires here.  An
   instance created on the way is thrown away (_fire_a_tran), yet the change is
   reported. *)
TryImmediately(f, m) ==
  LET out   == Outgoing(f.state)
      real  == {i \in DOMAIN out : out[i].event # TIMEOUT}
      fires == {i \in real : Guard(out[i].event, m, f.trace)}
  IN  CASE TooEarly(f, m) \/ real = {} -> [fsm |-> f, val |-> "same"]
        [] ~TooEarly(f, m) /\ real # {} /\ fires = {} ->
             LET i == CHOOSE i \in real : \A j \in real : i <= j
             IN  [fsm |-> [f EXCEPT !.event = out[i].event], val |-> "same"]
        [] OTHER ->
             LET i == CHOOSE i \in fires : \A j \in fires : j <= i
                 g == [f EXCEPT !.event = out[i].event]
             IN  IF Clones(out[i])
                 THEN [fsm |-> g, val |-> "changed"]
                 ELSE Settle(Enter(g, out[i], m), out[i], f.state, m)

Move(f, t, m) ==
  LET g == Enter(f, t, m)
  IN  IF Temporary(g.state) THEN TryImmediately(g, m)
                            ELSE Settle(g, t, f.state, m)

(* Slip: the deadline itself is taken to be too late. *)
TimedOut_Early(f, m) ==
  /\ ~Temporary(f.state) /\ f.state # Rule.init
  /\ m.ts >= f.max
  /\ Outgoing(f.state)[1].event = TIMEOUT

(* The timeout comes first, even when a real event is being tried. *)
TimedOut(f, m) ==
  /\ ~Temporary(f.state) /\ f.state # Rule.init
  /\ m.ts > f.max
  /\ Outgoing(f.state)[1].event = TIMEOUT

None == [none |-> TRUE]

(* fsm_handle_event: the instance afterwards, the instance created if any, and
   the value returned.  An index beyond the transitions of the current state
   stops the debug build; the release build reads past the array. *)
HandleEvent(f, i, m) ==
  IF ~ i \in DOMAIN Outgoing(f.state) THEN [fsm |-> f, clone |-> None, val |-> "halt"]
  ELSE
  LET t   == Outgoing(f.state)[i]
      out == Outgoing(f.state)[1]
      g   == [f EXCEPT !.event = t.event]
  IN
  CASE TooEarly(f, m) -> [fsm |-> f, clone |-> None, val |-> "same"]
    [] ~TooEarly(f, m) /\ TimedOut(f, m) ->
         LET r == Move(IF Final(out.target) THEN g ELSE f, out, m)
         IN  [fsm |-> r.fsm, clone |-> None, val |-> r.val]
    [] ~TooEarly(f, m) /\ ~TimedOut(f, m) /\ t.event = TIMEOUT ->
         [fsm |-> f, clone |-> None, val |-> "same"]
    [] OTHER ->
         IF ~Guard(t.event, m, f.trace)
         THEN [fsm |-> g, clone |-> None, val |-> "same"]
         ELSE LET r == Move(g, t, m) IN
              IF Clones(t)
              THEN [fsm |-> g, clone |-> r.fsm, val |-> r.val]
              ELSE [fsm |-> r.fsm, clone |-> None, val |-> r.val]

-----------------------------------------------------------------------------
(* Rules whose instances go on step by step, as those made of THEN and AND, of OR
   in the last or the first place, and of NOT around all of it: the initial state
   only makes clones; a timeout ends an instance; and a transition that moves an
   instance on, and not a clone of it, is the only way on from its state.  What is
   left of the others is told in README.md. *)
MovesOn(t) == ~Clones(t) /\ ~Final(t.target)
StepByStep ==
  /\ \A i \in DOMAIN Outgoing(Rule.init) :
       Outgoing(Rule.init)[i].event # TIMEOUT /\ Clones(Outgoing(Rule.init)[i])
  /\ \A s \in Rule.states :
       /\ Final(s) => s \in {Rule.error, Rule.success, Rule.incl} /\ ~Temporary(s)
       /\ \A i, j \in DOMAIN Outgoing(s) : Outgoing(s)[i].event = Outgoing(s)[j].event => i = j
       /\ \A i \in DOMAIN Outgoing(s) :
            LET t == Outgoing(s)[i] IN
            /\ t.event = TIMEOUT => Final(t.target)
            /\ MovesOn(t) =>
                 /\ ~Temporary(t.target)
                 /\ \A j \in DOMAIN Outgoing(s) : j # i => Outgoing(s)[j].event = TIMEOUT
                 /\ Outgoing(s)[1].event = TIMEOUT <=> Outgoing(t.target)[1].event = TIMEOUT

(* Rules no attempt at which meets an event twice: past[s] holds the events that may
   lie behind an instance in state s.  Each place of an event in a rule has a number
   of its own. *)
OncePerPath(past) ==
  /\ past \in [Rule.states -> SUBSET Rule.events]
  /\ \A s \in Rule.states : \A i \in DOMAIN Outgoing(s) :
       LET t == Outgoing(s)[i] IN
       t.event # TIMEOUT => t.event \notin past[s] /\ past[s] \cup {t.event} \subseteq past[t.target]

(* Rules that begin with one event, as those whose first place is not made of AND or
   OR: one message then begins one attempt. *)
OneBeginning == Len(Outgoing(Rule.init)) = 1

(* Rules whose instances have time for what they wait for: no state is temporary, and
   a delay inside another one, which narrows the deadlines in force, begins at once
   and can time out. *)
InTime ==
  /\ Rule.temporary = {}
  /\ \A s \in Rule.states : \A i \in DOMAIN Outgoing(s) :
       LET t == Outgoing(s)[i] IN
       ~Final(t.target) =>
         /\ Rule.delay[t.target].max >= 0
         /\ t.action # "reset" /\ s # Rule.init =>
              Rule.delay[t.target].min <= 0 /\ Outgoing(s)[1].event = TIMEOUT

(* The rule "a THEN b" with a delay that leaves time; event 1 is a, event 2 is b. *)
IsThen ==
  LET w == Outgoing(Rule.init)[1].target IN
  /\ Rule.events = {1, 2}
  /\ Rule.states = {Rule.init, w, Rule.error, Rule.success, Rule.incl}
  /\ Rule.error \notin {Rule.success, Rule.incl} /\ Rule.success # Rule.incl
  /\ Rule.temporary = {} /\ Rule.delay[w].max >= 0
  /\ \A s \in {Rule.error, Rule.success, Rule.incl} : Final(s)
  /\ Outgoing(Rule.init) = << [event |-> 1, action |-> "create", target |-> w] >>
  /\ Outgoing(w) = << [event |-> TIMEOUT, action |-> "nothing", target |-> Rule.error],
                      [event |-> 2, action |-> "reset", target |-> Rule.success] >>
=============================================================================
