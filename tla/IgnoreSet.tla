------------------------------ MODULE IgnoreSet ------------------------------
(***************************************************************************)
(* The flows a handler ignores because a rule has given a verdict on them  *)
(* (src/src/lib/mmt_set_uint64.h): a table with linear probing, a ring of  *)
(* the slots in the order they were filled, and a filter with one bit for  *)
(* each value of each byte of a flow's number.  A handler's set is read    *)
(* and changed under spin_lock_to_ignore_flow: one step here is one        *)
(* critical section.                                                       *)
(***************************************************************************)
EXTENDS Integers, FiniteSets, SequencesExt

CONSTANTS
  Flows,        (* flow numbers that occur                                  *)
  Base, Digits, (* a number has Digits bytes of Base values: 8 and 256      *)
  Size,         (* buffer_size: slots of the table and of the ring          *)
  BurstOver,    (* a larger ring loses Size \div BurstOver at once: 16      *)
  Home,         (* Home[f]: the slot the hash of flow f gives               *)
  MaxTrace      (* bound: how many messages an execution trace has          *)

(* MMT_SET_ELEMENT_EMPTY_VALUE: all bits one. *)
EMPTY == Base ^ Digits - 1
Slots == 0 .. Size - 1

ASSUME IgnoreAssumption ==
  /\ Size \in Nat \ {0} /\ BurstOver \in Nat \ {0} /\ MaxTrace \in Nat
  /\ Base \in Nat \ {0, 1} /\ Digits \in Nat \ {0}
  /\ Flows \subseteq 0 .. EMPTY - 1 /\ EMPTY \notin Flows
  /\ Home \in [Flows -> Slots]

VARIABLES
  slot,    (* the table: a flow or EMPTY in every slot                      *)
  ring,    (* slots, the one filled first in front                          *)
  filter,  (* the bits that are set                                         *)
  busy,    (* the rules are being tried on a message                        *)
  alerted, (* history: flows that are in the trace of a verdict             *)
  latest   (* history: the last flow added, or EMPTY                        *)

vars == <<slot, ring, filter, busy, alerted, latest>>

-----------------------------------------------------------------------------
(* A byte of x: the index of its bit in the array of its place. *)
Byte(x, d) == (x \div Base ^ d) % Base

(* The bits of a number, one for each of its bytes. *)
Bits(x) == {<<d, Byte(x, d)>> : d \in 0 .. Digits - 1}
FilterAdd(bits, x) == bits \cup Bits(x)
FilterRm(bits, x)  == bits \ Bits(x)
FilterHas(bits, x) == Bits(x) \subseteq bits

(* The slots in the order a search for f visits them, and the one it ends in:
   the first that holds f or is empty.  -1 when there is none. *)
Probe(f) == [i \in 1 .. Size |-> (Home[f] + i - 1) % Size]
Find(table, f) ==
  LET stops == {i \in 1 .. Size : table[Probe(f)[i]] \in {f, EMPTY}}
  IN  IF stops = {} THEN -1
      ELSE Probe(f)[CHOOSE i \in stops : \A k \in stops : i <= k]

(* Slip: full only when every place is taken. *)
RingFull_All(r) == Len(r) = Size

(* mmt_ring_is_full: one place of the ring is never used. *)
RingFull(r) == Len(r) = Size - 1
Enqueue(r, i) == IF RingFull(r) THEN r ELSE Append(r, i)
Dequeue(r) == IF r = <<>> THEN r ELSE Tail(r)

(* Slip: the slot taken from the ring is the one filled last. *)
Evict_Newest(s) ==
  LET i == IF s.ring = <<>> THEN 0 ELSE Last(s.ring)
  IN  [slot   |-> [s.slot EXCEPT ![i] = EMPTY],
       ring   |-> Dequeue(s.ring),
       filter |-> FilterRm(s.filter, s.slot[i])]

(* The oldest slot is emptied, whatever it holds now, and the bits of what it
   holds are cleared; with a ring of one place it is slot 0. *)
Evict(s) ==
  LET i == IF s.ring = <<>> THEN 0 ELSE Head(s.ring)
  IN  [slot   |-> [s.slot EXCEPT ![i] = EMPTY],
       ring   |-> Dequeue(s.ring),
       filter |-> FilterRm(s.filter, s.slot[i])]

Burst == IF Size > BurstOver THEN Size \div BurstOver ELSE 1
MakeRoom(s) ==
  LET after[k \in 0 .. Burst] == IF k = 0 THEN s ELSE Evict(after[k - 1])
  IN  IF RingFull(s.ring) THEN after[Burst] ELSE s

(* mmt_set_ex_add *)
Add(s, f) ==
  LET r == MakeRoom(s)
      i == Find(r.slot, f)
  IN  IF i = -1 THEN r
      ELSE [slot   |-> [r.slot EXCEPT ![i] = f],
            ring   |-> Enqueue(r.ring, i),
            filter |-> FilterAdd(r.filter, f)]
AddAll(s, fs) ==
  LET after[k \in 0 .. Len(fs)] == IF k = 0 THEN s ELSE Add(after[k - 1], fs[k])
  IN  after[Len(fs)]

(* Slip: only the filter is asked. *)
Ignores_Filter(f) == FilterHas(filter, f)

(* mmt_set_check: the search ends in the slot that holds f. *)
Holds(f) == LET i == Find(slot, f) IN i # -1 /\ slot[i] = f

(* mmt_single_is_ignore_remain_flow: the filter is asked first, then the
   table. *)
Ignores(f) == FilterHas(filter, f) /\ Holds(f)

-----------------------------------------------------------------------------
Init ==
  /\ slot = [i \in Slots |-> EMPTY] /\ ring = <<>> /\ filter = {}
  /\ busy = FALSE /\ alerted = {} /\ latest = EMPTY

(* A message comes; its rules are tried unless its flow is ignored. *)
Verify(f) ==
  /\ ~busy /\ ~Ignores(f)
  /\ busy' = TRUE
  /\ UNCHANGED <<slot, ring, filter, alerted, latest>>

(* The flows of a trace, of neighbours with the same flow only the first. *)
Runs(trace) ==
  LET first[k \in 0 .. Len(trace)] ==
        IF k = 0 THEN <<>>
        ELSE IF k > 1 /\ trace[k - 1] = trace[k] THEN first[k - 1] ELSE Append(first[k - 1], trace[k])
  IN  first[Len(trace)]

(* A rule gives a verdict on the message in hand: the flows of its execution
   trace are ignored from now on.  Several rules may do so, and a trace may have
   messages of any flow: one that is ignored was verified before. *)
Verdict(trace) ==
  /\ busy
  /\ \E r \in {AddAll([slot |-> slot, ring |-> ring, filter |-> filter], Runs(trace))} :
       slot' = r.slot /\ ring' = r.ring /\ filter' = r.filter
  /\ alerted' = alerted \cup ToSet(trace)
  /\ latest' = Last(trace)
  /\ UNCHANGED busy

(* All rules have been tried. *)
Finish == busy /\ busy' = FALSE /\ UNCHANGED <<slot, ring, filter, alerted, latest>>

Traces == UNION {[1 .. n -> Flows] : n \in 1 .. MaxTrace}

Next == (\E f \in Flows : Verify(f)) \/ (\E trace \in Traces : Verdict(trace)) \/ Finish

Spec == Init /\ [][Next]_vars

-----------------------------------------------------------------------------
Stored == {f \in Flows : \E i \in Slots : slot[i] = f}

TypeOK ==
  /\ slot \in [Slots -> Flows \cup {EMPTY}]
  /\ ring \in Seq(Slots) /\ Len(ring) < Size
  /\ filter \subseteq UNION {Bits(f) : f \in Flows}
  /\ busy \in BOOLEAN /\ latest \in Flows \cup {EMPTY} /\ alerted \subseteq Flows

(* A slot that is filled is in the ring, however often elements were added
   again and slots emptied twice: no slot is lost to the eviction, so the table
   always has an empty slot and every search ends ("the number of elements the
   set can contain", mmt_set_uint64.h:50). *)
FilledInRing == Size > 1 => \A i \in Slots : slot[i] # EMPTY => i \in ToSet(ring)

(* What was added last is found until the next addition, whatever was evicted
   to make room for it and whatever bits that cleared. *)
LatestFound == latest # EMPTY => Ignores(latest)

(* A flow is ignored only if a verdict was given on it: no wrong answer of the
   filter or of a search makes the handler pass over a flow, and the program drop
   its packets ("found an alert on the flow", mmt_security.h:88). *)
IgnoredAlerted == \A f \in Flows : Ignores(f) => f \in alerted

(* The set is a bounded memory of flows. *)
Memory == INSTANCE FlowMemory WITH mem <- Stored,
            Capacity <- IF Size = 1 THEN 1 ELSE Size - 1, Loss <- Burst * MaxTrace
ImplementsMemory == Memory!Spec

(* The table, the ring and the filter stay consistent with each other through
   every addition and eviction: nothing is lost to the eviction, and what was
   added last is found. *)
TableSound == TypeOK /\ FilledInRing /\ LatestFound
=============================================================================
