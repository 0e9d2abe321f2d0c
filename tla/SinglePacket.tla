---------------------------- MODULE SinglePacket ----------------------------
(***************************************************************************)
(* The short way for rules whose two events are looked for in one message  *)
(* (_process_single_packet of src/src/lib/rule_verif_engine.c): there are  *)
(* no instances and no lists, the bootstrap instance is tried and cleaned. *)
(* The engine is a record of the bootstrap instance, the trace kept of the *)
(* last verdict, and the references it holds to each message.              *)
(***************************************************************************)
EXTENDS RuleFsm, FiniteSets

CONSTANT Conclusive (* the outcomes the rule's type gives a verdict for     *)

(* fsm_is_verifying_single_packet *)
IsSinglePacket ==
  /\ Cardinality(Events) = 3 /\ Len(Outgoing(Rule.init)) = 1
  /\ LET s == Outgoing(Rule.init)[1].target
     IN  /\ Temporary(s) /\ Len(Outgoing(s)) = 2
         /\ Outgoing(s)[2].target \in {Rule.error, Rule.success, Rule.incl}

NewEngine(messages) ==
  [fsm |-> NewFsm, valid |-> [e \in Events |-> NoMessage],
   refs |-> [m \in messages |-> 0], val |-> "same"]

Times(trace, m) == Cardinality({e \in DOMAIN trace : trace[e] = m})
Retain(refs, trace) == [m \in DOMAIN refs |-> refs[m] + Times(trace, m)]
Release(refs, trace) == [m \in DOMAIN refs |-> refs[m] - Times(trace, m)]

(* fsm_handle_single_packet: the timeout is taken at once when the second event
   is not met.  The message is recorded twice. *)
HandleSingle(f, m) ==
  LET first == Outgoing(Rule.init)[1]
      out   == Outgoing(first.target)
      g     == [f EXCEPT !.trace[1] = m]
      last  == IF Guard(out[2].event, m, g.trace) THEN out[2] ELSE out[1]
  IN  IF ~Guard(first.event, m, f.trace) THEN [fsm |-> f, val |-> "same", taken |-> 0]
      ELSE [fsm |-> [g EXCEPT !.trace[2] = m], val |-> Outcome(last.target), taken |-> 2]

(* Slip: the instance is not cleaned. *)
ResetFsm_Same(f) == f

(* fsm_reset *)
ResetFsm(f) == [f EXCEPT !.state = Rule.init, !.event = 0, !.trace = NewFsm.trace]

(* A message must have the data of both events. *)
Complete(m) == {1, 2} \subseteq m.has

Process(e, m) ==
  LET r     == HandleSingle(e.fsm, m)
      held  == [e.refs EXCEPT ![m] = @ + r.taken]
      kept  == Retain(Release(held, e.valid), r.fsm.trace)
      ended == r.val \in Conclusive
  IN  IF ~Complete(m) \/ r.val = "same" THEN [e EXCEPT !.val = "same"]
      ELSE [fsm   |-> ResetFsm(r.fsm), val |-> r.val,
            valid |-> IF ended THEN r.fsm.trace ELSE e.valid,
            refs  |-> Release(IF ended THEN kept ELSE held, r.fsm.trace)]

(* rule_engine_free gives back what the instance and the last verdict hold. *)
FreeEngine(e) == Release(Release(e.refs, e.valid), e.fsm.trace)
=============================================================================
