---------------------------- MODULE SmpSecurity -----------------------------
(***************************************************************************)
(* The multi-threaded front end (src/src/lib/mmt_smp_security.c) with the  *)
(* reference counts of the messages (message_t.c, mmt_alloc.h).            *)
(*                                                                         *)
(* One dispatcher hands each message to the threads it concerns, through   *)
(* one ring per thread; a ring is the bounded channel of module Fifo.  A   *)
(* thread verifies the messages it popped, may keep some of them in the    *)
(* traces of its rules, and gives up its reference to the others.  Reading *)
(* a reference count and changing it are two steps (free_message_ts).      *)
(***************************************************************************)
EXTENDS Integers, Sequences, FiniteSets

CONSTANTS
  N,           (* threads_count                                        *)
  Attributes,  (* the attributes a message may carry                   *)
  Hash,        (* Hash[t]: the attributes the rules of thread t need   *)
  Capacity,    (* how many messages a ring holds                       *)
  Burst,       (* the most a thread pops at once, 100 in the code      *)
  MaxMessages  (* bound: how many messages are handed over             *)

Threads == 1 .. N

ASSUME SmpAssumption ==
  /\ N \in Nat \ {0}
  /\ Hash \in [Threads -> SUBSET Attributes]
  /\ Capacity \in Nat \ {0}
  /\ Burst \in Nat \ {0}
  /\ MaxMessages \in Nat

VARIABLES
  submitted,  (* the attributes of the messages handed over so far         *)
  dpc,        (* what the dispatching thread does                          *)
  cur,        (* the message it is pushing                                 *)
  mask,       (* the threads that have not been given it yet               *)
  turn,       (* the thread its loop is at                                 *)
  cut,        (* history: the message whose dispatch a signal cut short    *)
  ring,       (* rings[t]                                                  *)
  batch,      (* what thread t popped and has not verified                 *)
  wpc,        (* what thread t does                                        *)
  held,       (* the messages in the traces of the rules of thread t       *)
  pending,    (* the references thread t is about to give up, in order     *)
  ref,        (* the reference count of each message                       *)
  freed,      (* the messages whose memory was released                    *)
  processed   (* history: the messages thread t verified, in order         *)

dispatcher == <<submitted, dpc, cur, mask, turn, cut>>
worker == <<batch, wpc, held, pending, processed>>
vars == <<dispatcher, ring, worker, ref, freed>>

(* Messages are numbered; NULL tells a thread to stop. *)
NULL == 0
Messages == DOMAIN submitted
Wants(t, m) == submitted[m] \cap Hash[t] # {}

Init ==
  /\ submitted = <<>>
  /\ dpc = "idle" /\ cur = NULL /\ mask = {} /\ turn = 1 /\ cut = NULL
  /\ ring = [t \in Threads |-> <<>>]
  /\ batch = [t \in Threads |-> <<>>]
  /\ wpc = [t \in Threads |-> "poll"]
  /\ held = [t \in Threads |-> {}]
  /\ pending = [t \in Threads |-> <<>>]
  /\ ref = <<>> /\ freed = {}
  /\ processed = [t \in Threads |-> <<>>]

-----------------------------------------------------------------------------
(* The dispatching thread. *)

(* Slip: only threads of which the message has all attributes. *)
Recipients_HasAll(attributes) == {t \in Threads : Hash[t] \subseteq attributes}

(* The threads with a rule that needs an attribute of the message. *)
Recipients(attributes) == {t \in Threads : attributes \cap Hash[t] # {}}

(* mmt_smp_sec_process, a message no thread needs: its only reference goes. *)
Discard(attributes) ==
  /\ dpc = "idle" /\ Len(submitted) < MaxMessages
  /\ Recipients(attributes) = {}
  /\ submitted' = Append(submitted, attributes)
  /\ ref' = Append(ref, 1)
  /\ freed' = freed \cup {Len(submitted')}
  /\ UNCHANGED <<dpc, cur, mask, turn, cut, ring, worker>>

(* Slip: the message keeps the one reference it came with. *)
Submit_NotRetained(attributes) ==
  /\ dpc = "idle" /\ Len(submitted) < MaxMessages
  /\ Recipients(attributes) # {}
  /\ submitted' = Append(submitted, attributes)
  /\ ref' = Append(ref, 1)
  /\ cur' = Len(submitted') /\ mask' = Recipients(attributes) /\ turn' = 1
  /\ dpc' = "push"
  /\ UNCHANGED <<cut, ring, worker, freed>>

(* The message gets one reference for each thread, before any thread has it. *)
Submit(attributes) ==
  /\ dpc = "idle" /\ Len(submitted) < MaxMessages
  /\ Recipients(attributes) # {}
  /\ submitted' = Append(submitted, attributes)
  /\ ref' = Append(ref, 1 + (Cardinality(Recipients(attributes)) - 1))
  /\ cur' = Len(submitted') /\ mask' = Recipients(attributes) /\ turn' = 1
  /\ dpc' = "push"
  /\ UNCHANGED <<cut, ring, worker, freed>>

(* Where the loop leads when no thread is left: back to the caller, or, for
   the NULL of mmt_smp_sec_unregister, to the threads' end. *)
AfterPush == IF cur = NULL THEN "join" ELSE "idle"

Around(t) == IF t = N THEN 1 ELSE t + 1

(* The next thread of the loop, that has been given the message or needs none. *)
PushSkip ==
  /\ dpc = "push" /\ turn \notin mask
  /\ turn' = Around(turn)
  /\ UNCHANGED <<submitted, dpc, cur, mask, cut, ring, worker, ref, freed>>

(* The message is pushed, and the loop ends with the last thread of the mask. *)
PushOne ==
  /\ dpc = "push" /\ turn \in mask
  /\ Len(ring[turn]) < Capacity
  /\ ring' = [ring EXCEPT ![turn] = Append(@, cur)]
  /\ mask' = mask \ {turn}
  /\ IF mask' = {} THEN dpc' = AfterPush /\ turn' = 1
                   ELSE dpc' = dpc /\ turn' = Around(turn)
  /\ UNCHANGED <<submitted, cur, cut, worker, ref, freed>>

(* Slip: a thread whose ring is full is not tried again. *)
PushFull_GiveUp ==
  /\ dpc = "push" /\ turn \in mask
  /\ Len(ring[turn]) = Capacity
  /\ mask' = mask \ {turn}
  /\ IF mask' = {} THEN dpc' = AfterPush /\ turn' = 1
                   ELSE dpc' = dpc /\ turn' = Around(turn)
  /\ UNCHANGED <<submitted, cur, cut, ring, worker, ref, freed>>

(* A full ring is left for the next round. *)
PushFull ==
  /\ dpc = "push" /\ turn \in mask
  /\ Len(ring[turn]) = Capacity
  /\ turn' = Around(turn)
  /\ UNCHANGED <<submitted, dpc, cur, mask, cut, ring, worker, ref, freed>>

(* mmt_smp_sec_unregister, called between two messages or by the signal handler
   of the dispatching thread, which never returns to what it interrupted: NULL
   goes to every thread.  (No caller asks for stop_immediately.) *)
Stop ==
  /\ dpc = "idle" \/ (dpc = "push" /\ cur # NULL)
  /\ cut' = IF dpc = "push" THEN cur ELSE NULL
  /\ cur' = NULL /\ mask' = Threads /\ turn' = 1
  /\ dpc' = "push"
  /\ UNCHANGED <<submitted, ring, worker, ref, freed>>

(* Slip: the threads are not waited for. *)
Join_NoWait ==
  /\ dpc = "join"
  /\ dpc' = (IF turn = N THEN "release" ELSE dpc)
  /\ turn' = Around(turn)
  /\ UNCHANGED <<submitted, cur, mask, cut, ring, worker, ref, freed>>

(* pthread_join, one thread after the other. *)
Join ==
  /\ dpc = "join" /\ wpc[turn] = "done"
  /\ dpc' = (IF turn = N THEN "release" ELSE dpc)
  /\ turn' = Around(turn)
  /\ UNCHANGED <<submitted, cur, mask, cut, ring, worker, ref, freed>>

(* mmt_single_sec_unregister: the rules of a thread go, with the messages in
   their traces; after the last thread, the rings go too. *)
Release ==
  /\ dpc = "release"
  /\ freed' = freed \cup {m \in held[turn] : ref[m] <= 1}
  /\ ref' = [m \in DOMAIN ref |->
               IF m \in held[turn] /\ ref[m] > 1 THEN ref[m] - 1 ELSE ref[m]]
  /\ held' = [held EXCEPT ![turn] = {}]
  /\ dpc' = (IF turn = N THEN "gone" ELSE dpc)
  /\ turn' = Around(turn)
  /\ UNCHANGED <<submitted, cur, mask, cut, ring, batch, wpc, pending, processed>>

-----------------------------------------------------------------------------
(* A verifying thread, _process_one_thread.  Nothing is said of a thread that
   goes on when the memory it works on is gone. *)
Running(t, at) == dpc # "gone" /\ wpc[t] = at

(* ring_pop_burst: some of the oldest messages, at least one. *)
Pop(t) ==
  /\ Running(t, "poll")
  /\ \E n \in 1 .. Len(ring[t]) :
       /\ n <= Burst
       /\ batch' = [batch EXCEPT ![t] = SubSeq(ring[t], 1, n)]
       /\ ring' = [ring EXCEPT ![t] = SubSeq(@, n + 1, Len(@))]
  /\ wpc' = [wpc EXCEPT ![t] = "work"]
  /\ UNCHANGED <<dispatcher, held, pending, processed, ref, freed>>

(* Some order of a set of messages. *)
Ordered(S) == CHOOSE s \in [1 .. Cardinality(S) -> S] : \A m \in S : \E i \in DOMAIN s : s[i] = m

(* mmt_single_sec_process up to the last free: the rules of the thread may keep
   the message and may drop messages they had kept.  The thread repeats the test
   of the dispatcher, which holds as long as its rules stay the same. *)
Verify(t) ==
  /\ Running(t, "work")
  /\ Head(batch[t]) # NULL /\ Wants(t, Head(batch[t]))
  /\ LET m == Head(batch[t]) IN
     \E keep \in {{}, {m}}, drop \in SUBSET held[t] :
       /\ held' = [held EXCEPT ![t] = (@ \ drop) \cup keep]
       /\ ref' = IF keep = {} THEN ref ELSE [ref EXCEPT ![m] = @ + 1]
       /\ pending' = [pending EXCEPT ![t] = Ordered(drop) \o <<m>>]
       /\ processed' = [processed EXCEPT ![t] = Append(@, m)]
  /\ batch' = [batch EXCEPT ![t] = Tail(@)]
  /\ wpc' = [wpc EXCEPT ![t] = "free"]
  /\ UNCHANGED <<dispatcher, ring, freed>>

(* NULL is looked for at the end of a batch only. *)
Exit(t) ==
  /\ Running(t, "work")
  /\ batch[t] = <<NULL>>
  /\ batch' = [batch EXCEPT ![t] = <<>>]
  /\ wpc' = [wpc EXCEPT ![t] = "done"]
  /\ UNCHANGED <<dispatcher, ring, held, pending, processed, ref, freed>>

(* Back to the free of the next message, to the batch or to the ring. *)
Onward(t) ==
  IF Len(pending[t]) > 1 THEN "free" ELSE IF batch[t] = <<>> THEN "poll" ELSE "work"

(* free_message_ts, the test: the last reference frees the message. *)
FreeLast(t) ==
  /\ Running(t, "free") /\ ref[Head(pending[t])] <= 1
  /\ freed' = freed \cup {Head(pending[t])}
  /\ pending' = [pending EXCEPT ![t] = Tail(@)]
  /\ wpc' = [wpc EXCEPT ![t] = Onward(t)]
  /\ UNCHANGED <<dispatcher, ring, batch, held, processed, ref>>

FreeShared(t) ==
  /\ Running(t, "free") /\ ref[Head(pending[t])] > 1
  /\ wpc' = [wpc EXCEPT ![t] = "subtract"]
  /\ UNCHANGED <<dispatcher, ring, batch, held, pending, processed, ref, freed>>

(* free_message_ts, the atomic subtraction. *)
Subtract(t) ==
  /\ Running(t, "subtract")
  /\ ref' = [ref EXCEPT ![Head(pending[t])] = @ - 1]
  /\ pending' = [pending EXCEPT ![t] = Tail(@)]
  /\ wpc' = [wpc EXCEPT ![t] = Onward(t)]
  /\ UNCHANGED <<dispatcher, ring, batch, held, processed, freed>>

-----------------------------------------------------------------------------
Dispatch == PushSkip \/ PushOne \/ PushFull \/ Join \/ Release
Work(t) == Pop(t) \/ Verify(t) \/ Exit(t) \/ FreeLast(t) \/ FreeShared(t) \/ Subtract(t)

Next ==
  \/ \E attributes \in SUBSET Attributes : Discard(attributes) \/ Submit(attributes)
  \/ Stop
  \/ Dispatch
  \/ \E t \in Threads : Work(t)

Spec == Init /\ [][Next]_vars

(* The operating system runs every thread; a loop does not pause for ever. *)
Fairness == WF_vars(Dispatch) /\ \A t \in Threads : WF_vars(Work(t))
FairSpec == Spec /\ Fairness

-----------------------------------------------------------------------------
Elements(seq) == {seq[i] : i \in DOMAIN seq}

TypeOK ==
  /\ submitted \in Seq(SUBSET Attributes)
  /\ dpc \in {"idle", "push", "join", "release", "gone"}
  /\ cur \in Messages \cup {NULL} /\ cut \in Messages \cup {NULL}
  /\ mask \subseteq Threads /\ turn \in Threads
  /\ ring \in [Threads -> Seq(Messages \cup {NULL})]
  /\ batch \in [Threads -> Seq(Messages \cup {NULL})]
  /\ wpc \in [Threads -> {"poll", "work", "free", "subtract", "done"}]
  /\ held \in [Threads -> SUBSET Messages]
  /\ pending \in [Threads -> Seq(Messages)]
  /\ ref \in [Messages -> Nat] /\ freed \subseteq Messages
  /\ processed \in [Threads -> Seq(Messages)]

(* Thread t still has, or is about to be given, a reference to m. *)
Refers(t, m) ==
  \/ dpc = "push" /\ cur = m /\ t \in mask
  \/ m \in Elements(ring[t]) \cup Elements(batch[t]) \cup held[t] \cup Elements(pending[t])

(* A message is released only when no thread can reach it: although the test of
   the count and the subtraction are two steps, no thread is left with, or frees
   again, memory that is gone. *)
FreedUnused == \A m \in freed : \A t \in Threads : ~Refers(t, m)

(* "only the last msg can be NULL" (mmt_smp_security.c, line 127): a NULL met
   earlier would be verified as a message. *)
NullLast ==
  \A t \in Threads : \A i \in 1 .. Len(batch[t]) - 1 : batch[t][i] # NULL

(* When everything is given back, every thread has verified every message that
   concerned it, save the one whose dispatch was cut short by a signal. *)
NothingLost ==
  dpc = "gone" =>
    \A t \in Threads : \A m \in Messages \ {cut} :
      Wants(t, m) => m \in Elements(processed[t])

(* The memory of the threads is given back after their end: "Stop and free every
   threads used by MMT-Security" (doc/smp_workflow.md, section 2.3.1). *)
ThreadsEnded == dpc = "gone" => \A t \in Threads : wpc[t] = "done"

(* Each thread verifies what concerns it, once and in order (module Delivery). *)
Promise == INSTANCE Delivery WITH sent <- submitted, got <- processed
ImplementsDelivery == Promise!Spec

(* A message is verified by every thread it concerns, unless its dispatch was
   cut short: rings that are full delay it, no more. *)
Verified ==
  \A m \in 1 .. MaxMessages, t \in Threads :
    m \in Messages /\ Wants(t, m) ~> m \in Elements(processed[t]) \/ cut = m

(* mmt_smp_sec_unregister comes to its end. *)
StopEnds == dpc = "push" /\ cur = NULL ~> dpc = "gone"

(* Memory is shared safely: every variable has its type, and what has been freed
   is out of every thread's reach. *)
MemorySafe == TypeOK /\ FreedUnused

(* The end comes in order: NULL is met last, the memory goes when every thread
   has ended, and by then each has verified all it was given. *)
EndInOrder == NullLast /\ ThreadsEnded /\ NothingLost
=============================================================================
