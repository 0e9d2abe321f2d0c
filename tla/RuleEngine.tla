----------------------------- MODULE RuleEngine -----------------------------
(***************************************************************************)
(* The engine that verifies one rule (src/src/lib/rule_verif_engine.c).    *)
(*                                                                         *)
(* A bootstrap instance waits in the initial state; each first event makes *)
(* a clone that waits for the rest.  Every instance is filed twice: under  *)
(* its id (byId) and, by one node per transition it may take, under the    *)
(* events it waits for (expecting).  A message walks the list of every     *)
(* event it carries data for, beginning with the timeouts, until one       *)
(* instance gives a verdict.  A step is one node of that walk.             *)
(***************************************************************************)
EXTENDS RuleFsm, FiniteSets, SequencesExt

CONSTANTS
  RuleType,     (* "test", "security", "attack", "evasion" or "forward"    *)
  MaxInstances, (* max_instances_size: the number of ids                   *)
  Kinds,        (* what a message may contain, as far as the rule can tell *)
  Carries,      (* Carries[k]: the events kind k has all attributes of     *)
  Delays,       (* the time that may pass between two messages             *)
  MaxMessages   (* bound: how many messages arrive                         *)

ASSUME RuleAssumption ==
  /\ RuleShape /\ NoTemporaryChain
  /\ MaxInstances \in Nat \ {0}
  /\ Carries \in [Kinds -> SUBSET Rule.events]
  /\ Delays \subseteq Nat /\ MaxMessages \in Nat
  /\ NoMessage \notin [n : Nat, ts : Nat, kind : Kinds \cup {NoMessage}]

VARIABLES
  inst,        (* the instances alive, by handle (their address)           *)
  byId,        (* fsm_by_instance_id: lists of handles, by id              *)
  availId,     (* avail_fsm_id                                             *)
  node,        (* the nodes alive: instance, transition index, counter     *)
  expecting,   (* fsm_by_expecting_event_id: lists of nodes, by event      *)
  pc,          (* idle, walking the lists, or stopped by mmt_halt          *)
  msg,         (* the message being processed, or the last one             *)
  ev, next,    (* the event whose list is walked, and the next node there  *)
  verdict,     (* what the last rule_engine_process returned               *)
  validTrace   (* valid_execution_trace                                    *)

store == <<inst, byId, availId, node, expecting>>
vars  == <<store, pc, msg, ev, next, verdict, validTrace>>

Bootstrap == 1
NoNode == 0
Ids == 0 .. MaxInstances - 1

(* The smallest handle or node address that is free. *)
Fresh(used) == CHOOSE n \in 1 .. Cardinality(used) + 1 :
                 n \notin used /\ \A k \in 1 .. n - 1 : k \in used

IdsOf(h) == inst[h].id
FirstOf(list) == IF list = <<>> THEN NoNode ELSE list[1]

(* node->next *)
Following(list, n) ==
  IF \E i \in 1 .. Len(list) - 1 : list[i] = n
  THEN list[1 + CHOOSE i \in 1 .. Len(list) - 1 : list[i] = n]
  ELSE NoNode

(* What of a list is in K, and a list without a. *)
Only(list, K) ==
  LET first[i \in 0 .. Len(list)] ==
        IF i = 0 THEN <<>>
        ELSE IF list[i] \in K THEN Append(first[i - 1], list[i]) ELSE first[i - 1]
  IN  first[Len(list)]
Erase(list, a) == Only(list, ToSet(list) \ {a})

-----------------------------------------------------------------------------
(* _set_expecting_events_id: one node for every transition of state s, put in
   front of the list of its event; timeouts only when asked for. *)
Expect(n, x, h, s, timeouts, counter) ==
  LET size    == Len(Outgoing(s))
      wanted  == {i \in 1 .. size : timeouts \/ Outgoing(s)[i].event # TIMEOUT}
      free    == (1 .. Cardinality(DOMAIN n) + size) \ DOMAIN n
      new     == CHOOSE f \in [wanted -> free] : IsInjective(f)
      made    == {new[i] : i \in wanted}
      last    == [k \in 1 .. size |-> size + 1 - k]
      For(e)  == Only(last, {i \in wanted : Outgoing(s)[i].event = e})
  IN  [node |-> [a \in DOMAIN n \cup made |->
                   IF a \in made
                   THEN [fsm |-> h, index |-> CHOOSE i \in wanted : new[i] = a,
                         counter |-> counter]
                   ELSE n[a]],
       expecting |-> [e \in Events |-> [k \in DOMAIN For(e) |-> new[For(e)[k]]] \o x[e]]]

(* Both resets: the nodes of the given instances are unlinked and freed. *)
Unlink(n, x, gone) ==
  LET kept == {a \in DOMAIN n : n[a].fsm \notin gone}
  IN  [node |-> [a \in kept |-> n[a]],
       expecting |-> [e \in Events |-> Only(x[e], kept)]]

Without(f, S) == [x \in DOMAIN f \ S |-> f[x]]

(* Slip: the search is for a free id below the last one that was freed. *)
FreeIds_Any == {i \in Ids : i >= availId}

(* _find_an_available_id searches upwards only. *)
FreeIds == {i \in Ids : i >= availId /\ byId[i] = <<>>}

-----------------------------------------------------------------------------
Init ==
  LET e0 == Expect(<<>>, [e \in Events |-> <<>>], Bootstrap, Rule.init, FALSE, 0) IN
  /\ inst = [h \in {Bootstrap} |-> NewFsm]
  /\ byId = [i \in Ids |-> IF i = 0 THEN <<Bootstrap>> ELSE <<>>]
  /\ availId = 0
  /\ node = e0.node
  /\ expecting = e0.expecting
  /\ pc = "idle"
  /\ msg = [n |-> 0, ts |-> 0, kind |-> NoMessage]
  /\ ev = TIMEOUT /\ next = NoNode
  /\ verdict = "unknown"
  /\ validTrace = [e \in Events |-> NoMessage]

(* A message is handed to the engine.  Reports are numbered from one by the
   DPI, and every message carries the data of event 0, which has none. *)
Receive(k, d) ==
  /\ pc = "idle"
  /\ msg.n < MaxMessages
  /\ msg' = [n |-> msg.n + 1, ts |-> msg.ts + d, kind |-> k]
  /\ pc' = "walk"
  /\ ev' = TIMEOUT
  /\ next' = FirstOf(expecting[TIMEOUT])
  /\ verdict' = "unknown"
  /\ UNCHANGED <<store, validTrace>>

Concerns(e) == e \in Carries[msg.kind]

(* The list of one event is done.  After the last one comes the sweep for
   timeouts: its condition compares the message with two fields that are only
   set behind it, so the function returns before. *)
NextList ==
  /\ pc = "walk" /\ next = NoNode
  /\ LET rest == {e \in Rule.events : e > ev /\ Concerns(e)}
     IN  IF rest = {}
         THEN pc' = "idle" /\ UNCHANGED <<ev, next>>
         ELSE /\ ev' = CHOOSE e \in rest : \A k \in rest : e <= k
              /\ next' = FirstOf(expecting[ev'])
              /\ UNCHANGED pc
  /\ UNCHANGED <<store, msg, verdict, validTrace>>

(* A node that was reached with this message already is passed over. *)
Skip ==
  /\ pc = "walk" /\ next # NoNode
  /\ node[next].counter = msg.n
  /\ next' = Following(expecting[ev], next)
  /\ UNCHANGED <<store, pc, msg, ev, verdict, validTrace>>

(* The next node's transition is tried. *)
Tried == HandleEvent(inst[node[next].fsm], node[next].index, msg)

(* _process_a_node up to the switch, r being what the trial gave: an instance
   it created is filed under an id, and a node whose instance moved is removed.
   "left" says that no id could be found. *)
Fired(r) ==
  LET nd  == node[next]
      new == r.clone # None
      h   == IF new THEN Fresh(DOMAIN inst) ELSE nd.fsm
      id  == IF new /\ nd.fsm = Bootstrap
             THEN IF FreeIds = {} THEN 0 ELSE CHOOSE i \in FreeIds : \A k \in FreeIds : i <= k
             ELSE inst[nd.fsm].id
      n1  == [node EXCEPT ![next].counter = msg.n]
      used == ~new /\ r.val = "changed"
  IN  [h |-> h, new |-> new, val |-> r.val, id |-> id,
       left |-> new /\ nd.fsm = Bootstrap /\ FreeIds = {},
       inst |-> [x \in DOMAIN inst \cup {h} |->
                   IF x = h /\ new THEN [r.clone EXCEPT !.id = id]
                   ELSE IF x = nd.fsm THEN r.fsm ELSE inst[x]],
       byId |-> IF new THEN [byId EXCEPT ![id] = <<h>> \o @] ELSE byId,
       availId |-> IF new /\ nd.fsm = Bootstrap THEN id ELSE availId,
       node |-> IF used THEN Without(n1, {next}) ELSE n1,
       expecting |-> IF used THEN [expecting EXCEPT ![ev] = Erase(@, next)]
                     ELSE expecting]

Reached == pc = "walk" /\ next # NoNode /\ node[next].counter # msg.n

(* _get_verdict *)
Verdict(val) ==
  CASE val = "error" /\ RuleType \in {"test", "security"}             -> "not_respected"
    [] val = "final" /\ RuleType = "test"                             -> "respected"
    [] val = "final" /\ RuleType \in {"attack", "evasion", "forward"} -> "detected"
    [] OTHER                                                          -> "unknown"

(* Nothing changes but what was tried. *)
Stay(f) ==
  /\ f.val \in {"same", "err_arg"} /\ ~f.left
  /\ inst' = f.inst /\ byId' = f.byId /\ availId' = f.availId
  /\ node' = f.node /\ expecting' = f.expecting
  /\ next' = Following(expecting[ev], next)
  /\ UNCHANGED <<pc, msg, ev, verdict, validTrace>>

(* Slip: a new instance is not filed under the timeout of its state. *)
Advance_NoTimeout(f) ==
  /\ f.val = "changed" /\ ~f.left
  /\ inst' = f.inst /\ byId' = f.byId /\ availId' = f.availId
  /\ LET e == Expect(f.node, f.expecting, f.h, f.inst[f.h].state, FALSE, msg.n)
     IN  node' = e.node /\ expecting' = e.expecting
  /\ next' = Following(expecting[ev], next)
  /\ UNCHANGED <<pc, msg, ev, verdict, validTrace>>

(* An instance, new or not, waits in a further state. *)
Advance(f) ==
  /\ f.val = "changed" /\ ~f.left
  /\ inst' = f.inst /\ byId' = f.byId /\ availId' = f.availId
  /\ LET e == Expect(f.node, f.expecting, f.h, f.inst[f.h].state, f.new, msg.n)
     IN  node' = e.node /\ expecting' = e.expecting
  /\ next' = Following(expecting[ev], next)
  /\ UNCHANGED <<pc, msg, ev, verdict, validTrace>>

(* Slip: every instance of the id is dropped, as after a verdict. *)
Drop_Family(f) ==
  /\ f.val \in {"error", "final", "inconclusive"} /\ ~f.left
  /\ Verdict(f.val) = "unknown"
  /\ LET u == Unlink(f.node, f.expecting, {x \in DOMAIN f.inst : f.inst[x].id = f.id})
     IN  /\ node' = u.node /\ expecting' = u.expecting
         /\ inst' = Without(f.inst, ToSet(f.byId[f.id]))
         /\ byId' = [f.byId EXCEPT ![f.id] = <<>>]
         /\ availId' = f.id
  /\ next' = Following(expecting[ev], next)
  /\ UNCHANGED <<pc, msg, ev, verdict, validTrace>>

(* The end of an instance that gives no verdict: _reset_engine_for_instance. *)
Drop(f) ==
  /\ f.val \in {"error", "final", "inconclusive"} /\ ~f.left
  /\ Verdict(f.val) = "unknown"
  /\ LET u == Unlink(f.node, f.expecting, {f.h})
     IN  /\ node' = u.node /\ expecting' = u.expecting
         /\ inst' = Without(f.inst, {f.h})
         /\ byId' = [f.byId EXCEPT ![f.id] = Erase(@, f.h)]
         /\ availId' = IF byId'[f.id] = <<>> THEN f.id ELSE f.availId
  /\ next' = Following(expecting[ev], next)
  /\ UNCHANGED <<pc, msg, ev, verdict, validTrace>>

(* Slip: only the instance that gave the verdict goes. *)
Conclude_InstanceOnly(f) ==
  /\ Verdict(f.val) # "unknown" /\ ~f.left
  /\ LET u == Unlink(f.node, f.expecting, {f.h})
     IN  /\ node' = u.node /\ expecting' = u.expecting
         /\ inst' = Without(f.inst, {f.h})
         /\ byId' = [f.byId EXCEPT ![f.id] = Erase(@, f.h)]
         /\ availId' = f.id
         /\ validTrace' = f.inst[f.h].trace
         /\ verdict' = Verdict(f.val)
  /\ pc' = "idle" /\ next' = NoNode
  /\ UNCHANGED <<msg, ev>>

(* Slip: the list of the id is not emptied. *)
Conclude_ListKept(f) ==
  /\ Verdict(f.val) # "unknown" /\ ~f.left
  /\ LET u == Unlink(f.node, f.expecting, {x \in DOMAIN f.inst : f.inst[x].id = f.id})
     IN  /\ node' = u.node /\ expecting' = u.expecting
         /\ inst' = Without(f.inst, ToSet(f.byId[f.id]))
         /\ byId' = f.byId
         /\ availId' = f.id
         /\ validTrace' = f.inst[f.h].trace
         /\ verdict' = Verdict(f.val)
  /\ pc' = "idle" /\ next' = NoNode
  /\ UNCHANGED <<msg, ev>>

(* The end of an instance that gives a verdict: its trace is kept, all the
   instances of its id go (_reset_engine_for_fsm), and the message is done. *)
Conclude(f) ==
  /\ Verdict(f.val) # "unknown" /\ ~f.left
  /\ LET u == Unlink(f.node, f.expecting, {x \in DOMAIN f.inst : f.inst[x].id = f.id})
     IN  /\ node' = u.node /\ expecting' = u.expecting
         /\ inst' = Without(f.inst, ToSet(f.byId[f.id]))
         /\ byId' = [f.byId EXCEPT ![f.id] = <<>>]
         /\ availId' = f.id
         /\ validTrace' = f.inst[f.h].trace
         /\ verdict' = Verdict(f.val)
  /\ pc' = "idle" /\ next' = NoNode
  /\ UNCHANGED <<msg, ev>>

(* mmt_halt: no id for a new instance, or a transition that does not exist. *)
Halt(f) ==
  /\ f.left \/ f.val = "halt"
  /\ pc' = "halted"
  /\ UNCHANGED <<store, msg, ev, next, verdict, validTrace>>

ProcessNode ==
  /\ Reached
  /\ \E r \in {Tried} : \E f \in {Fired(r)} :
       Stay(f) \/ Advance(f) \/ Drop(f) \/ Conclude(f) \/ Halt(f)

Next ==
  \/ \E k \in Kinds, d \in Delays : Receive(k, d)
  \/ NextList
  \/ Skip
  \/ ProcessNode

Spec == Init /\ [][Next]_vars

-----------------------------------------------------------------------------
TypeOK ==
  /\ DOMAIN inst \subseteq Nat /\ DOMAIN node \subseteq Nat
  /\ \A h \in DOMAIN inst : inst[h].state \in Rule.states /\ inst[h].id \in Ids
  /\ byId \in [Ids -> Seq(Nat)] /\ expecting \in [Events -> Seq(Nat)]
  /\ availId \in Ids
  /\ pc \in {"idle", "walk", "halted"}
  /\ msg.n \in 0 .. MaxMessages
  /\ ev \in Events /\ next \in Nat
  /\ verdict \in {"unknown", "respected", "not_respected", "detected"}

Live == DOMAIN inst \ {Bootstrap}
State(h) == inst[h].state

(* Every node stands for a transition its instance can take now, and hangs in
   the list of the event of that transition: the engine keeps an index into the
   transitions of a state it may have left since (fsm_handle_event asserts that
   the index exists, line 186). *)
NodesCurrent ==
  \A a \in DOMAIN node :
    /\ node[a].fsm \in DOMAIN inst
    /\ node[a].index \in DOMAIN Outgoing(State(node[a].fsm))
    /\ \E e \in Events : /\ a \in ToSet(expecting[e])
                        /\ Outgoing(State(node[a].fsm))[node[a].index].event = e

(* The node the walk goes on with was not freed by the node before it, which
   may have removed any number of instances. *)
NextAlive ==
  next # NoNode => next \in DOMAIN node /\ next \in ToSet(expecting[ev])

(* Lists hold nodes that are alive, each node once, and each instance is filed
   once, under its own id. *)
FiledOnce ==
  /\ \A e \in Events : /\ ToSet(expecting[e]) \subseteq DOMAIN node
                      /\ IsInjective(expecting[e])
  /\ \A e, f \in Events : e # f => ToSet(expecting[e]) \cap ToSet(expecting[f]) = {}
  /\ \A i \in Ids : /\ IsInjective(byId[i])
                   /\ ToSet(byId[i]) = {h \in DOMAIN inst : inst[h].id = i}

(* Between messages, every instance waits for everything its state can do
   next, the timeout included: none is forgotten and kept for ever. *)
Waits(h, i) == \E a \in DOMAIN node : node[a].fsm = h /\ node[a].index = i
AllWait ==
  pc = "idle" => \A h \in DOMAIN inst : \A i \in DOMAIN Outgoing(State(h)) : Waits(h, i)

(* The bootstrap instance never leaves the initial state ("always create a new
   instance when going out from the initial state", gen_code.c:465): the rule
   can be triggered again for ever. *)
BootstrapKept == Bootstrap \in DOMAIN inst /\ State(Bootstrap) = Rule.init

(* Instances of one id come from the same first message: a verdict, which ends
   all the instances of an id, ends no other attempt at the rule. *)
First(trace) ==
  LET ms == {trace[e] : e \in {e \in Rule.events : trace[e] # NoMessage}}
  IN  CHOOSE m \in ms : \A k \in ms : m.n <= k.n
FamiliesApart ==
  \A h, g \in Live : inst[h].id = inst[g].id => First(inst[h].trace) = First(inst[g].trace)

(* The attempt that gave a verdict is gone with all its clones, whatever they
   were still waiting for: no first message gives two verdicts. *)
OneVerdict ==
  verdict # "unknown" =>
    \A h \in Live : First(inst[h].trace) # First(validTrace)

(* A message that ended without a verdict left no instance beyond its deadline
   and none that it could have moved on. *)
Overdue(h) == TimedOut(inst[h], msg)
Missed(h) ==
  \E i \in DOMAIN Outgoing(State(h)) :
    LET t == Outgoing(State(h))[i] IN
    /\ t.event # TIMEOUT /\ Concerns(t.event)
    /\ t.action # "create"
    /\ ~ \E e \in Rule.events : inst[h].trace[e] = msg
    /\ inst[h].min <= msg.ts /\ msg.ts <= inst[h].max
    /\ Guard(t.event, msg, inst[h].trace)
NothingMissed ==
  pc = "idle" /\ verdict = "unknown" /\ msg.n > 0 =>
    \A h \in Live : ~Overdue(h) /\ ~Missed(h)

(* The store is consistent at every step of a walk: what is filed under ids and
   events is alive and filed once, and the bootstrap instance stays where it
   was made. *)
ListsSound == TypeOK /\ FiledOnce /\ BootstrapKept

(* The walk is safe although each node it processes may free others: every node
   names a transition its instance can take, and the next node is still there. *)
WalkSafe == NodesCurrent /\ NextAlive

(* Nothing that waits is lost: an instance is filed under all it can do next,
   and a message that ended without a verdict left none overdue or passed over. *)
NothingForgotten == AllWait /\ NothingMissed
=============================================================================
