------------------------------ MODULE SpscRing ------------------------------
(***************************************************************************)
(* The single-producer single-consumer ring that carries messages from the *)
(* dispatcher to one worker thread (src/src/lib/lock_free_spsc_ring.h).    *)
(*                                                                         *)
(* A thread's access to memory the other one uses is one step: a load of   *)
(* the other's index, the write of a slot, the copy of one slot, the store *)
(* that publishes an index.  The __sync builtins the code uses for loads   *)
(* and stores of the indices are full barriers on the x86 targets of the   *)
(* Makefile, so steps are interleaved in program order.                    *)
(*                                                                         *)
(* ring_push_burst, which only a test calls, is left out.                  *)
(***************************************************************************)
EXTENDS Integers, Sequences

CONSTANTS
  Size,     (* q->_size: the number of slots of the array                  *)
  Values,   (* the pointers that may be pushed                             *)
  Lengths,  (* the limits a consumer passes to ring_pop_burst              *)
  NoValue   (* the content of a slot nothing has been written to           *)

ASSUME SizeAssumption == Size \in Nat /\ Size >= 2
ASSUME LengthsAssumption == Lengths \subseteq Nat \ {0}

VARIABLES
  data,        (* q->_data                                                 *)
  head,        (* q->_head: next slot to write, stored by the producer     *)
  tail,        (* q->_tail: next slot to read, stored by the consumer      *)
  cachedTail,  (* q->_cached_tail: the producer's last look at tail        *)
  cachedHead,  (* q->_cached_head: the consumer's last look at head        *)
  ppc, val,    (* where the producer is in ring_push, and its argument     *)
  pushed,      (* what its last ring_push returned                         *)
  cpc, length, (* where the consumer is in a pop, and its limit            *)
  batch,       (* the local "size": how many slots this pop will copy      *)
  array,       (* the slots copied so far                                  *)
  popped       (* what the last pop returned, <<>> for empty               *)

shared   == <<data, head, tail>>
producer == <<cachedTail, ppc, val, pushed>>
consumer == <<cachedHead, cpc, length, batch, array, popped>>
vars     == <<shared, producer, consumer>>

Slots == 0 .. Size - 1

(* The distance from a forward to b around the ring. *)
Dist(a, b) == IF a <= b THEN b - a ELSE b - a + Size

TypeOK ==
  /\ data \in [Slots -> Values \cup {NoValue}]
  /\ head \in Slots /\ tail \in Slots
  /\ cachedTail \in Slots /\ cachedHead \in Slots
  /\ ppc \in {"idle", "reload", "write", "publish"}
  /\ val \in Values \cup {NoValue}
  /\ pushed \in {"success", "full"}
  /\ cpc \in {"idle", "reload", "copy"}
  /\ length \in Nat
  /\ batch \in 0 .. Size
  /\ array \in Seq(Values \cup {NoValue})
  /\ popped \in Seq(Values \cup {NoValue})

Init ==
  /\ data = [i \in Slots |-> NoValue]
  /\ head = 0 /\ tail = 0
  /\ cachedTail = 0 /\ cachedHead = 0
  /\ ppc = "idle" /\ val = NoValue /\ pushed = "success"
  /\ cpc = "idle" /\ length = 0 /\ batch = 0
  /\ array = <<>> /\ popped = <<>>

-----------------------------------------------------------------------------
(* The producer: ring_push.                                                *)

(* Slip: the slot kept clear of the consumer is given away. *)
LooksFull_NoSpare(t) == (head + 1) % Size = t

(* The test for a full ring, against whatever value of tail is at hand.  It
   also refuses the last slot but one: that slot is left free on purpose. *)
LooksFull(t) == (head + 2) % Size = t

(* ring_push(q, v) begins; only a ring that looks full makes it load tail. *)
PushCheck(v) ==
  /\ ppc = "idle"
  /\ val' = v
  /\ ppc' = IF LooksFull(cachedTail) THEN "reload" ELSE "write"
  /\ UNCHANGED <<shared, cachedTail, pushed, consumer>>

(* The cached tail is refreshed; a ring that is still full refuses. *)
PushReload ==
  /\ ppc = "reload"
  /\ cachedTail' = tail
  /\ \/ LooksFull(tail) /\ ppc' = "idle" /\ pushed' = "full"
     \/ ~LooksFull(tail) /\ ppc' = "write" /\ UNCHANGED pushed
  /\ UNCHANGED <<shared, val, consumer>>

PushWrite ==
  /\ ppc = "write"
  /\ data' = [data EXCEPT ![head] = val]
  /\ ppc' = "publish"
  /\ UNCHANGED <<head, tail, cachedTail, val, pushed, consumer>>

PushPublish ==
  /\ ppc = "publish"
  /\ head' = (head + 1) % Size
  /\ ppc' = "idle"
  /\ pushed' = "success"
  /\ UNCHANGED <<data, tail, cachedTail, val, consumer>>

-----------------------------------------------------------------------------
(* The consumer: ring_pop_burst, and ring_pop, which is a burst of one.    *)

(* The run of filled slots a pop copies: it stops at the end of the array,
   so that one memcpy does it, and at the caller's limit. *)
BatchSize(h, limit) ==
  LET run == IF h > tail THEN h - tail ELSE Size - tail
  IN  IF run > limit THEN limit ELSE run

(* A pop begins; only a ring that looks empty makes it load head. *)
PopCheck(limit) ==
  /\ cpc = "idle"
  /\ length' = limit
  /\ array' = <<>>
  /\ \/ /\ cachedHead = tail
        /\ cpc' = "reload"
        /\ UNCHANGED batch
     \/ /\ cachedHead # tail
        /\ cpc' = "copy"
        /\ batch' = BatchSize(cachedHead, limit)
  /\ UNCHANGED <<shared, producer, cachedHead, popped>>

RingPop == PopCheck(1)

RingPopBurst == \E limit \in Lengths : PopCheck(limit)

(* Slip: the cached head is compared again, but never refreshed. *)
PopReload_Stale ==
  /\ cpc = "reload"
  /\ cpc' = "idle"
  /\ popped' = <<>>
  /\ UNCHANGED <<shared, producer, cachedHead, length, batch, array>>

(* The cached head is refreshed; a ring that is still empty gives nothing. *)
PopReload ==
  /\ cpc = "reload"
  /\ cachedHead' = head
  /\ \/ head = tail /\ cpc' = "idle" /\ popped' = <<>> /\ UNCHANGED batch
     \/ /\ head # tail
        /\ cpc' = "copy"
        /\ batch' = BatchSize(head, length)
        /\ UNCHANGED popped
  /\ UNCHANGED <<shared, producer, length, array>>

(* One slot of the memcpy. *)
PopCopy ==
  /\ cpc = "copy"
  /\ Len(array) < batch
  /\ array' = Append(array, data[tail + Len(array)])
  /\ UNCHANGED <<shared, producer, cachedHead, cpc, length, batch, popped>>

(* Slip: tail moves by the limit asked for, not by what was copied. *)
PopRelease_Limit ==
  /\ cpc = "copy"
  /\ Len(array) = batch
  /\ tail' = (tail + length) % Size
  /\ cpc' = "idle"
  /\ popped' = array
  /\ UNCHANGED <<data, head, producer, cachedHead, length, batch, array>>

(* The copied slots are handed back to the producer all at once. *)
PopRelease ==
  /\ cpc = "copy"
  /\ Len(array) = batch
  /\ tail' = (tail + batch) % Size
  /\ cpc' = "idle"
  /\ popped' = array
  /\ UNCHANGED <<data, head, producer, cachedHead, length, batch, array>>

-----------------------------------------------------------------------------
Push == PushReload \/ PushWrite \/ PushPublish
Pop  == RingPop \/ RingPopBurst \/ PopReload \/ PopCopy \/ PopRelease

Next == (\E v \in Values : PushCheck(v)) \/ Push \/ Pop

Spec == Init /\ [][Next]_vars

(* A worker polls its ring for ever (mmt_smp_security.c, _process_one_thread),
   and a ring_push that has begun returns: neither call blocks.  The producer
   may stop pushing. *)
FairSpec == Spec /\ WF_vars(Pop) /\ WF_vars(Push)

-----------------------------------------------------------------------------
(* The values in the ring, oldest first. *)
SlotAt(i) == IF tail + i < Size THEN tail + i ELSE tail + i - Size
Contents == [i \in 1 .. Dist(tail, head) |-> data[SlotAt(i - 1)]]

(* The producer never stores into a slot the consumer has yet to hand back,
   in particular not into one being copied, although it decides from a tail
   that may be long out of date. *)
NoOverwrite ==
  ppc \in {"write", "publish"} =>
    Dist(tail, head) < Size - 2

(* The consumer copies only slots whose value has been published, although it
   decides from a head that may be long out of date. *)
NoReadAhead ==
  cpc = "copy" => batch \in 1 .. Dist(tail, head)

(* One slot always stays free between head and the slot the consumer reads
   ("I always let 1 available elements between head -- tail", line 91): head
   can never catch up with tail, so a full ring is never taken for an empty
   one. *)
SpareSlot == Dist(tail, head) <= Size - 2

(* What a pop has copied is exactly what is waiting at the front. *)
CopyIsFront ==
  cpc = "copy" =>
    \A i \in 1 .. Len(array) : i <= Dist(tail, head) /\ array[i] = Contents[i]

(* The two sides never collide and never mistake each other's stale indices:
   the type invariant and the four facts above, which are what a caller relies
   on. *)
RingSafe == TypeOK /\ NoOverwrite /\ NoReadAhead /\ SpareSlot /\ CopyIsFront

(* The ring is a bounded first-in first-out channel: nothing is lost, repeated
   or reordered, RING_FULL is returned only by a ring that holds Size-2 values
   and an empty result only by a ring that holds none. *)
Channel == INSTANCE Fifo WITH
             Capacity <- Size - 2, queue <- Contents,
             accepted <- (pushed = "success"), taken <- popped
ImplementsFifo == Channel!Spec

(* The oldest value is always taken in the end, whatever the producer does. *)
OldestTaken == \A i \in Slots : (tail = i /\ head # i) ~> (tail # i)
=============================================================================
