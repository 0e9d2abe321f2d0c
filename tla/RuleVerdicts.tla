---------------------------- MODULE RuleVerdicts ----------------------------
(***************************************************************************)
(* What the verdicts of a rule "a THEN b" mean: the engine with a memory   *)
(* of the messages it went through.  Event 1 is a, event 2 is b, and the   *)
(* initial state leads to the one that waits for b.                        *)
(***************************************************************************)
EXTENDS RuleEngine

VARIABLE shown   (* history: the messages that went through all the lists,    *)
                 (* which a verdict cuts short                                *)

HistoryInit == Init /\ shown = {}
HistoryNext ==
  /\ Next
  /\ shown' = shown \cup (IF pc = "walk" /\ pc' = "idle" /\ verdict' = "unknown"
                         THEN {msg} ELSE {})
HistorySpec == HistoryInit /\ [][HistoryNext]_<<vars, shown>>

Window == Rule.delay[Outgoing(Rule.init)[1].target]
OnlyA(m) == [e \in Events |-> IF e = 1 THEN m ELSE NoMessage]

(* m answers the a of message k: it satisfies b, inside the delay. *)
Answers(m, k) ==
  /\ k.n < m.n
  /\ k.ts + Window.min <= m.ts /\ m.ts <= k.ts + Window.max
  /\ 2 \in Carries[m.kind] /\ Guard(2, m, OnlyA(k))

ShownA == validTrace[1]
ShownB == validTrace[2]

(* A rule is respected when the trace reported with the verdict is an a and the
   b that answers it; it is violated when the trace holds an a and the delay was
   over when the engine said so (doc/verdict.md, mmt_fsm.c, lines 192-218). *)
VerdictTimes ==
  /\ verdict = "respected" => Guard(1, ShownA, NewFsm.trace) /\ Answers(ShownB, ShownA)
  /\ verdict = "not_respected" =>
       Guard(1, ShownA, NewFsm.trace) /\ msg.ts > ShownA.ts + Window.max

(* An a is reported without its b only if no message that went through all the
   lists answered it: "A is validated but not B (or we have not B in a given
   delay)" (doc/verdict.md, line 3).  A message with which the engine gave a
   verdict on another attempt is excepted: the engine leaves it there (line 475),
   and the b it may have been is lost. *)
FailureTrue ==
  verdict = "not_respected" => \A m \in shown : ~Answers(m, ShownA)
=============================================================================
