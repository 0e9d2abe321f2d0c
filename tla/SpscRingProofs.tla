--------------------------- MODULE SpscRingProofs ---------------------------
(***************************************************************************)
(* The ring is safe for every size, every set of values and every limit a  *)
(* consumer may pass.  The invariants of SpscRing compare head and tail;   *)
(* the threads decide from cachedTail and cachedHead.  IInv ties the two   *)
(* together: going round the ring from cachedTail one meets tail, then     *)
(* cachedHead, then head.                                                  *)
(***************************************************************************)
EXTENDS SpscRing, TLAPS

(* The producer's cached tail lags behind tail, never passes it, and head
   never comes closer to it than the two slots ring_push keeps clear. *)
CachedTailLags ==
  /\ Dist(cachedTail, tail) + Dist(tail, head) = Dist(cachedTail, head)
  /\ Dist(cachedTail, head) <= Size - 2
  /\ ppc \in {"write", "publish"} => Dist(cachedTail, head) < Size - 2

(* The consumer's cached head lies between tail and head. *)
CachedHeadLags ==
  Dist(tail, cachedHead) + Dist(cachedHead, head) = Dist(tail, head)

(* A pop in progress copies filled slots without running off the array. *)
BatchFits ==
  /\ cpc # "idle" => length # 0
  /\ cpc = "copy" => /\ batch \in 1 .. Dist(tail, cachedHead)
                     /\ tail + batch <= Size

(* Nothing that has been copied has changed in the ring since. *)
CopyIsCurrent ==
  /\ cpc = "reload" => array = <<>>
  /\ cpc = "copy" => /\ Len(array) <= batch
                     /\ \A i \in 1 .. Len(array) : array[i] = data[tail + i - 1]

IInv == TypeOK /\ CachedTailLags /\ CachedHeadLags /\ BatchFits /\ CopyIsCurrent

-----------------------------------------------------------------------------
(* Index arithmetic: every index the code reduces modulo the size is below
   twice the size, so the reduction is at most one subtraction. *)
LEMMA Wrap ==
  ASSUME NEW i \in 0 .. 2 * Size - 1
  PROVE  i % Size = IF i < Size THEN i ELSE i - Size
BY SizeAssumption

(* The test of ring_push says how far head is from the tail it looks at. *)
LEMMA LooksFullIsDist ==
  ASSUME TypeOK, NEW t \in Slots, Dist(t, head) <= Size - 2
  PROVE  LooksFull(t) <=> Dist(t, head) = Size - 2
<1>1. CASE Size = 2
  BY <1>1, Wrap DEF TypeOK, Slots, LooksFull, Dist
<1>2. CASE Size > 2
  <2>1. head \in Nat /\ head + 2 \in 0 .. 2 * Size - 1
    BY <1>2, SizeAssumption DEF TypeOK, Slots
  <2>2. (head + 2) % Size = IF head + 2 < Size THEN head + 2 ELSE head + 2 - Size
    BY <2>1, Wrap, SizeAssumption
  <2>3. LooksFull(t) <=> t = IF head + 2 < Size THEN head + 2 ELSE head + 2 - Size
    BY <2>2 DEF LooksFull
  <2>4. (t = IF head + 2 < Size THEN head + 2 ELSE head + 2 - Size)
          <=> Dist(t, head) = Size - 2
    BY <1>2, SizeAssumption DEF TypeOK, Slots, Dist
  <2> QED BY <2>3, <2>4
<1> QED BY <1>1, <1>2, SizeAssumption

(* The indices after a store. *)
LEMMA NextHead ==
  ASSUME TypeOK
  PROVE  (head + 1) % Size = IF head + 1 = Size THEN 0 ELSE head + 1
<1>1. head \in Nat /\ head + 1 \in 0 .. 2 * Size - 1 /\ head + 1 <= Size
  BY SizeAssumption DEF TypeOK, Slots
<1>2. (head + 1) % Size = IF head + 1 < Size THEN head + 1 ELSE head + 1 - Size
  BY <1>1, Wrap, SizeAssumption
<1> QED BY <1>1, <1>2, SizeAssumption DEF TypeOK, Slots

LEMMA NextTail ==
  ASSUME TypeOK, tail + batch <= Size
  PROVE  (tail + batch) % Size = IF tail + batch = Size THEN 0 ELSE tail + batch
<1>1. tail \in Nat /\ batch \in Nat /\ tail + batch \in 0 .. 2 * Size - 1
  BY SizeAssumption DEF TypeOK, Slots
<1>2. (tail + batch) % Size = IF tail + batch < Size THEN tail + batch ELSE tail + batch - Size
  BY <1>1, Wrap, SizeAssumption
<1> QED BY <1>1, <1>2, SizeAssumption DEF TypeOK, Slots

(* The distance between two indices when one of them moves forward. *)
LEMMA DistType ==
  ASSUME NEW a \in Slots, NEW b \in Slots
  PROVE  Dist(a, b) \in 0 .. Size - 1 /\ Dist(a, a) = 0
BY SizeAssumption DEF Slots, Dist

LEMMA DistNext ==
  ASSUME NEW a \in Slots, NEW b \in Slots, Dist(a, b) < Size - 1
  PROVE  Dist(a, IF b + 1 = Size THEN 0 ELSE b + 1) = Dist(a, b) + 1
BY SizeAssumption DEF Slots, Dist

LEMMA DistSkip ==
  ASSUME NEW a \in Slots, NEW b \in Slots,
         NEW n \in 0 .. Dist(a, b), a + n <= Size
  PROVE  /\ Dist(IF a + n = Size THEN 0 ELSE a + n, b) = Dist(a, b) - n
         /\ Dist(a, IF a + n = Size THEN 0 ELSE a + n) = n
BY SizeAssumption DEF Slots, Dist

(* Going from a to d by way of b and c without passing d. *)
LEMMA DistSplit ==
  ASSUME NEW a \in Slots, NEW b \in Slots, NEW c \in Slots, NEW d \in Slots,
         Dist(a, b) + Dist(b, d) = Dist(a, d),
         Dist(b, c) + Dist(c, d) = Dist(b, d)
  PROVE  Dist(a, c) + Dist(c, d) = Dist(a, d)
BY SizeAssumption DEF Slots, Dist

(* How long a run of slots a pop decides to copy. *)
LEMMA BatchSizeFits ==
  ASSUME TypeOK, NEW h \in Slots, h # tail, NEW limit \in Nat \ {0}
  PROVE  /\ BatchSize(h, limit) \in 1 .. Dist(tail, h)
         /\ tail + BatchSize(h, limit) <= Size
BY SizeAssumption DEF TypeOK, Slots, BatchSize, Dist

-----------------------------------------------------------------------------
LEMMA InitIInv == Init => IInv
<1> SUFFICES ASSUME Init PROVE IInv
  OBVIOUS
<1>1. TypeOK
  BY SizeAssumption DEF Init, TypeOK, Slots
<1> QED
  BY <1>1, SizeAssumption DEF Init, IInv, CachedTailLags, CachedHeadLags,
     BatchFits, CopyIsCurrent, Dist

LEMMA NextIInv == IInv /\ [Next]_vars => IInv'
<1> SUFFICES ASSUME IInv, [Next]_vars PROVE IInv'
  OBVIOUS
<1> USE DEF IInv
<1>1. ASSUME NEW v \in Values, PushCheck(v) PROVE IInv'
  <2>1. TypeOK'
    BY <1>1 DEF PushCheck, TypeOK, shared, consumer
  <2>2. cachedTail \in Slots /\ Dist(cachedTail, head) \in Int
    BY DistType DEF TypeOK
  <2>3. LooksFull(cachedTail) <=> Dist(cachedTail, head) = Size - 2
    BY <2>2, LooksFullIsDist DEF CachedTailLags
  <2>4. CachedTailLags'
    <3>1. UNCHANGED <<cachedTail, tail, head>>
      BY <1>1 DEF PushCheck, shared
    <3>2. ppc' \in {"write", "publish"} => ~LooksFull(cachedTail)
      BY <1>1 DEF PushCheck
    <3> QED BY <2>2, <2>3, <3>1, <3>2, SizeAssumption DEF CachedTailLags
  <2> QED
    BY <1>1, <2>1, <2>4 DEF PushCheck, shared, consumer, CachedHeadLags,
       BatchFits, CopyIsCurrent
<1>2. CASE PushReload
  <2>1. TypeOK'
    BY <1>2 DEF PushReload, TypeOK, shared, consumer
  <2>2. Dist(tail, head) <= Size - 2
    BY SizeAssumption DEF CachedTailLags, Dist, TypeOK, Slots
  <2>3. LooksFull(tail) <=> Dist(tail, head) = Size - 2
    BY <2>2, LooksFullIsDist DEF TypeOK
  <2>4. CachedTailLags'
    <3>1. cachedTail' = tail /\ UNCHANGED <<tail, head>>
      BY <1>2 DEF PushReload, shared
    <3>2. ppc' \in {"write", "publish"} => ~LooksFull(tail)
      BY <1>2 DEF PushReload, TypeOK
    <3>3. Dist(tail, tail) = 0 /\ Dist(tail, head) \in Int
      BY DistType DEF TypeOK
    <3> QED BY <2>2, <2>3, <3>1, <3>2, <3>3, SizeAssumption DEF CachedTailLags
  <2> QED
    BY <1>2, <2>1, <2>4 DEF PushReload, shared, consumer, CachedHeadLags,
       BatchFits, CopyIsCurrent
<1>3. CASE PushWrite
  <2>1. TypeOK'
    BY <1>3 DEF PushWrite, TypeOK, consumer
  <2>2. CopyIsCurrent'
    <3> SUFFICES ASSUME cpc = "copy", NEW i \in 1 .. Len(array)
                 PROVE  data'[tail + i - 1] = data[tail + i - 1]
      BY <1>3 DEF PushWrite, consumer, CopyIsCurrent, TypeOK
    <3>1. tail + i - 1 # head /\ tail + i - 1 \in Slots
      BY SizeAssumption
         DEF TypeOK, Slots, CachedHeadLags, BatchFits, CopyIsCurrent, Dist
    <3> QED BY <1>3, <3>1 DEF PushWrite, TypeOK
  <2> QED
    BY <1>3, <2>1, <2>2 DEF PushWrite, consumer, CachedTailLags,
       CachedHeadLags, BatchFits
<1>4. CASE PushPublish
  <2>1. TypeOK'
    BY <1>4, NextHead, SizeAssumption DEF PushPublish, TypeOK, consumer, Slots
  <2>2. CachedTailLags' /\ CachedHeadLags'
    <3>1. /\ head' = IF head + 1 = Size THEN 0 ELSE head + 1
          /\ ppc' = "idle" /\ ppc = "publish"
          /\ UNCHANGED <<tail, cachedTail, cachedHead>>
      BY <1>4, NextHead DEF PushPublish, consumer
    <3>2. \A a \in Slots : Dist(a, head) < Size - 1 => Dist(a, head') = Dist(a, head) + 1
      BY <3>1, DistNext DEF TypeOK
    <3>3. /\ Dist(cachedTail, tail) \in Nat /\ Dist(tail, head) \in Nat
          /\ Dist(tail, cachedHead) \in Nat /\ Dist(cachedHead, head) \in Nat
          /\ Dist(cachedTail, head) \in Nat
      BY DistType DEF TypeOK
    <3>4. /\ Dist(cachedTail, head) < Size - 2
          /\ Dist(tail, head) < Size - 2
          /\ Dist(cachedHead, head) < Size - 2
      BY <3>1, <3>3, SizeAssumption DEF CachedTailLags, CachedHeadLags
    <3>5. /\ Dist(cachedTail, head') = Dist(cachedTail, head) + 1
          /\ Dist(tail, head') = Dist(tail, head) + 1
          /\ Dist(cachedHead, head') = Dist(cachedHead, head) + 1
      BY <3>2, <3>3, <3>4, SizeAssumption DEF TypeOK
    <3> QED BY <3>1, <3>3, <3>4, <3>5, SizeAssumption DEF CachedTailLags, CachedHeadLags
  <2> QED
    BY <1>4, <2>1, <2>2 DEF PushPublish, consumer, BatchFits, CopyIsCurrent
<1>5. ASSUME NEW limit \in Nat \ {0}, PopCheck(limit) PROVE IInv'
  <2>1. cachedHead # tail => /\ BatchSize(cachedHead, limit) \in 1 .. Dist(tail, cachedHead)
                             /\ tail + BatchSize(cachedHead, limit) <= Size
    BY BatchSizeFits DEF TypeOK
  <2>2. TypeOK'
    BY <1>5, <2>1, SizeAssumption DEF PopCheck, TypeOK, shared, producer, Dist, Slots
  <2> QED
    BY <1>5, <2>1, <2>2 DEF PopCheck, shared, producer, CachedTailLags,
       CachedHeadLags, BatchFits, CopyIsCurrent, TypeOK
<1>6. CASE PopReload
  <2>1. head # tail => /\ BatchSize(head, length) \in 1 .. Dist(tail, head)
                       /\ tail + BatchSize(head, length) <= Size
    BY <1>6, BatchSizeFits DEF TypeOK, BatchFits, PopReload
  <2>2. TypeOK'
    BY <1>6, <2>1, SizeAssumption DEF PopReload, TypeOK, shared, producer, Dist, Slots
  <2>3. CachedHeadLags'
    <3>1. cachedHead' = head /\ UNCHANGED <<tail, head>>
      BY <1>6 DEF PopReload, shared
    <3>2. Dist(head, head) = 0 /\ Dist(tail, head) \in Int
      BY DistType DEF TypeOK
    <3> QED BY <3>1, <3>2 DEF CachedHeadLags
  <2>4. BatchFits' /\ CopyIsCurrent'
    <3>1. cpc' = "copy" => head # tail /\ batch' = BatchSize(head, length)
      BY <1>6 DEF PopReload
    <3>2. array = <<>>
      BY <1>6 DEF PopReload, CopyIsCurrent
    <3> QED BY <1>6, <2>1, <3>1, <3>2 DEF PopReload, shared, BatchFits, CopyIsCurrent, TypeOK
  <2> QED
    BY <1>6, <2>2, <2>3, <2>4 DEF PopReload, shared, producer, CachedTailLags
<1>7. CASE PopCopy
  <2>1. data[tail + Len(array)] \in Values \cup {NoValue}
    BY <1>7, SizeAssumption DEF PopCopy, TypeOK, BatchFits, CopyIsCurrent, Slots, Dist
  <2>2. TypeOK'
    BY <1>7, <2>1 DEF PopCopy, TypeOK, shared, producer
  <2>3. CopyIsCurrent'
    BY <1>7, <2>1 DEF PopCopy, CopyIsCurrent, shared, TypeOK
  <2> QED
    BY <1>7, <2>2, <2>3 DEF PopCopy, shared, producer, CachedTailLags,
       CachedHeadLags, BatchFits
<1>8. CASE PopRelease
  <2>1. TypeOK'
    BY <1>8, NextTail, SizeAssumption DEF PopRelease, TypeOK, BatchFits, producer, Slots
  <2>2. CachedTailLags' /\ CachedHeadLags'
    <3>1. /\ tail' = IF tail + batch = Size THEN 0 ELSE tail + batch
          /\ UNCHANGED <<head, ppc, cachedTail, cachedHead>>
      BY <1>8, NextTail DEF PopRelease, producer, BatchFits
    <3>2. /\ Dist(tail, cachedHead) \in Nat /\ Dist(cachedHead, head) \in Nat
          /\ Dist(tail, head) \in Nat /\ batch \in Nat
      BY DistType DEF TypeOK
    <3>3. /\ batch \in 0 .. Dist(tail, cachedHead)
          /\ batch \in 0 .. Dist(tail, head)
          /\ tail + batch <= Size
      BY <1>8, <3>2 DEF PopRelease, BatchFits, CachedHeadLags
    <3>4. /\ Dist(tail', cachedHead) = Dist(tail, cachedHead) - batch
          /\ Dist(tail', head) = Dist(tail, head) - batch
          /\ Dist(tail, tail') = batch
      BY <3>1, <3>3, DistSkip DEF TypeOK
    <3>5. CachedHeadLags'
      BY <3>1, <3>2, <3>4 DEF CachedHeadLags
    <3>6. Dist(cachedTail, tail') + Dist(tail', head) = Dist(cachedTail, head)
      <4>1. /\ cachedTail \in Slots /\ tail \in Slots
            /\ tail' \in Slots /\ head \in Slots
        BY <2>1, <3>1 DEF TypeOK
      <4>2. Dist(cachedTail, tail) + Dist(tail, head) = Dist(cachedTail, head)
        BY DEF CachedTailLags
      <4>3. Dist(tail, tail') + Dist(tail', head) = Dist(tail, head)
        BY <3>2, <3>4
      <4> QED BY <4>1, <4>2, <4>3, DistSplit
    <3> QED BY <3>1, <3>5, <3>6 DEF CachedTailLags
  <2>3. cpc' = "idle"
    BY <1>8 DEF PopRelease
  <2>4. BatchFits' /\ CopyIsCurrent'
    BY <2>3 DEF BatchFits, CopyIsCurrent
  <2> QED BY <2>1, <2>2, <2>4
<1>9. CASE UNCHANGED vars
  BY <1>9 DEF vars, shared, producer, consumer, TypeOK, CachedTailLags,
     CachedHeadLags, BatchFits, CopyIsCurrent
<1> QED
  BY <1>1, <1>2, <1>3, <1>4, <1>5, <1>6, <1>7, <1>8, <1>9, LengthsAssumption
     DEF Next, Push, Pop, RingPop, RingPopBurst

LEMMA Invariance == Spec => []IInv
BY InitIInv, NextIInv, PTL DEF Spec

-----------------------------------------------------------------------------
(* The state of the ring, its two caches and both threads keeps its types:
   in particular both indices stay inside the array. *)
THEOREM TypeCorrect == Spec => []TypeOK
<1>1. IInv => TypeOK
  BY DEF IInv
<1> QED BY <1>1, Invariance, PTL

(* What a producer writes and a consumer copies never collide, head never
   catches up with tail, and a copy is what waits at the front: the safety
   of ring_push, ring_pop and ring_pop_burst for every ring size. *)
THEOREM Safety == Spec => []RingSafe
<1>1. IInv => RingSafe
  <2> SUFFICES ASSUME IInv PROVE RingSafe
    OBVIOUS
  <2>1. NoOverwrite /\ NoReadAhead /\ SpareSlot
    BY SizeAssumption DEF IInv, TypeOK, CachedTailLags, CachedHeadLags, BatchFits,
       NoOverwrite, NoReadAhead, SpareSlot, Dist, Slots
  <2>2. CopyIsFront
    <3> SUFFICES ASSUME cpc = "copy", NEW i \in 1 .. Len(array)
                 PROVE  i <= Dist(tail, head) /\ array[i] = Contents[i]
      BY DEF CopyIsFront
    <3>1. i \in 1 .. Dist(tail, head) /\ SlotAt(i - 1) = tail + i - 1
      BY <2>1, SizeAssumption DEF IInv, TypeOK, BatchFits, CopyIsCurrent,
         NoReadAhead, SlotAt, Slots, Dist
    <3> QED BY <3>1 DEF IInv, CopyIsCurrent, Contents
  <2> QED BY <2>1, <2>2 DEF RingSafe, IInv
<1> QED BY <1>1, Invariance, PTL

-----------------------------------------------------------------------------
(* What each kind of step does to the contents of the ring.                *)
LEMMA ContentsIsSeq ==
  ASSUME TypeOK
  PROVE  /\ Contents \in Seq(Values \cup {NoValue})
         /\ Len(Contents) = Dist(tail, head)
         /\ \A i \in 1 .. Dist(tail, head) : SlotAt(i - 1) \in Slots
<1>1. Dist(tail, head) \in Nat
  BY DistType DEF TypeOK
<1>2. \A i \in 1 .. Dist(tail, head) : SlotAt(i - 1) \in Slots
  BY SizeAssumption DEF TypeOK, Slots, SlotAt, Dist
<1> QED BY <1>1, <1>2 DEF Contents, TypeOK

(* Neither thread changes the contents before it stores its index. *)
LEMMA ContentsKept ==
  ASSUME IInv, PushWrite
  PROVE  Contents' = Contents
<1>1. Dist(tail, head)' = Dist(tail, head)
  BY DEF PushWrite, Dist
<1>2. \A i \in 1 .. Dist(tail, head) : SlotAt(i - 1) # head /\ SlotAt(i - 1) \in Slots
  BY SizeAssumption DEF IInv, TypeOK, Slots, SlotAt, Dist
<1>3. \A i \in 1 .. Dist(tail, head) :
        SlotAt(i - 1)' = SlotAt(i - 1) /\ data'[SlotAt(i - 1)] = data[SlotAt(i - 1)]
  BY <1>2 DEF PushWrite, SlotAt, IInv, TypeOK
<1> QED BY <1>1, <1>3 DEF Contents

(* The value stored at head joins the contents when head is published. *)
LEMMA ContentsGrow ==
  ASSUME IInv, PushPublish, data[head] = val
  PROVE  Contents' = Append(Contents, val)
<1> DEFINE n == Dist(tail, head)
<1>1. n \in Nat /\ n < Size - 2
  <2>1. /\ Dist(cachedTail, tail) \in Nat /\ n \in Nat
        /\ Dist(cachedTail, head) \in Nat
    BY DistType, SizeAssumption DEF IInv, TypeOK
  <2>2. /\ Dist(cachedTail, tail) + n = Dist(cachedTail, head)
        /\ Dist(cachedTail, head) < Size - 2
    BY DEF IInv, CachedTailLags, PushPublish
  <2> QED BY <2>1, <2>2, SizeAssumption
<1>2. Dist(tail, head)' = n + 1
  BY <1>1, NextHead, DistNext, SizeAssumption DEF IInv, TypeOK, PushPublish
<1>3. \A i \in 1 .. n + 1 : SlotAt(i - 1)' = SlotAt(i - 1)
  BY DEF SlotAt, PushPublish
<1>4. SlotAt(n) = head
  BY SizeAssumption DEF IInv, TypeOK, Slots, SlotAt, Dist
<1>5. /\ Contents \in Seq(Values \cup {NoValue}) /\ Len(Contents) = n
      /\ val \in Values \cup {NoValue}
  BY ContentsIsSeq DEF IInv, TypeOK
<1>6. Contents' = [i \in 1 .. n + 1 |-> data[SlotAt(i - 1)]]
  BY <1>2, <1>3 DEF Contents, PushPublish
<1>7. Append(Contents, val) = [i \in 1 .. n + 1 |-> data[SlotAt(i - 1)]]
  <2>1. \A i \in 1 .. n : Append(Contents, val)[i] = data[SlotAt(i - 1)]
    BY <1>1, <1>5 DEF Contents
  <2>2. Append(Contents, val)[n + 1] = data[SlotAt(n + 1 - 1)]
    BY <1>1, <1>4, <1>5
  <2>3. /\ Append(Contents, val) \in Seq(Values \cup {NoValue})
        /\ Len(Append(Contents, val)) = n + 1
    BY <1>1, <1>5
  <2>4. \A i \in 1 .. n + 1 : Append(Contents, val)[i] = data[SlotAt(i - 1)]
    <3> SUFFICES ASSUME NEW i \in 1 .. n + 1
                 PROVE  Append(Contents, val)[i] = data[SlotAt(i - 1)]
      OBVIOUS
    <3>1. CASE i = n + 1
      <4>1. i - 1 = n /\ n + 1 - 1 = n
        BY <1>1, <3>1
      <4> HIDE DEF n
      <4> QED BY <2>2, <3>1, <4>1
    <3>2. CASE i # n + 1
      <4>1. i \in 1 .. n
        BY <1>1, <3>2
      <4> QED BY <2>1, <4>1
    <3> QED BY <3>1, <3>2
  <2>5. ASSUME NEW S, NEW s \in Seq(S), Len(s) = n + 1
        PROVE  s = [i \in 1 .. n + 1 |-> s[i]]
    BY <2>5
  <2>6. Append(Contents, val) = [i \in 1 .. n + 1 |-> Append(Contents, val)[i]]
    BY <2>3, <2>5
  <2> HIDE DEF n
  <2> QED BY <2>4, <2>6, Zenon
<1> QED BY <1>6, <1>7

(* The copied values leave the contents when tail is published. *)
LEMMA ContentsShrink ==
  ASSUME IInv, PopRelease
  PROVE  /\ batch \in 1 .. Len(Contents)
         /\ popped' = SubSeq(Contents, 1, batch)
         /\ Contents' = SubSeq(Contents, batch + 1, Len(Contents))
<1> DEFINE n == Dist(tail, head)
<1>1. /\ Contents \in Seq(Values \cup {NoValue}) /\ Len(Contents) = n
      /\ n \in Nat
  <2>1. n \in Nat
    BY DistType, SizeAssumption DEF IInv, TypeOK
  <2> QED BY <2>1, ContentsIsSeq DEF IInv
<1>2. batch \in 1 .. n
  BY DistType DEF PopRelease, BatchFits, CachedHeadLags, IInv, TypeOK
<1>3. popped' = SubSeq(Contents, 1, batch)
  <2>1. /\ popped' = array /\ array \in Seq(Values \cup {NoValue}) /\ Len(array) = batch
        /\ \A i \in 1 .. batch : array[i] = data[tail + i - 1]
    BY DEF PopRelease, IInv, TypeOK, CopyIsCurrent
  <2>2. \A i \in 1 .. batch : Contents[i] = data[tail + i - 1]
    BY <1>2, SizeAssumption
       DEF Contents, SlotAt, IInv, TypeOK, Slots, BatchFits, PopRelease, Dist
  <2>3. /\ SubSeq(Contents, 1, batch) \in Seq(Values \cup {NoValue})
        /\ Len(SubSeq(Contents, 1, batch)) = batch
        /\ \A i \in 1 .. batch : SubSeq(Contents, 1, batch)[i] = Contents[i]
    BY <1>1, <1>2
  <2> QED BY <2>1, <2>2, <2>3, <1>2
<1>4. Contents' = SubSeq(Contents, batch + 1, Len(Contents))
  <2>1. tail' = IF tail + batch = Size THEN 0 ELSE tail + batch
    BY NextTail DEF PopRelease, IInv, BatchFits
  <2>2. tail + batch <= Size
    BY DEF PopRelease, IInv, BatchFits
  <2>3. Dist(tail, head)' = n - batch
    BY <1>1, <1>2, <2>1, <2>2, DistSkip DEF PopRelease, IInv, TypeOK
  <2>4. \A i \in 1 .. n - batch : SlotAt(i - 1)' = SlotAt(i + batch - 1)
    BY <1>1, <1>2, <2>1, <2>2, SizeAssumption
       DEF SlotAt, IInv, TypeOK, Slots, Dist
  <2>5. Contents' = [i \in 1 .. n - batch |-> data[SlotAt(i + batch - 1)]]
    BY <2>3, <2>4 DEF Contents, PopRelease
  <2>6. \A i \in 1 .. n - batch : Contents[i + batch] = data[SlotAt(i + batch - 1)]
    BY <1>1, <1>2 DEF Contents
  <2>7. /\ SubSeq(Contents, batch + 1, Len(Contents)) \in Seq(Values \cup {NoValue})
        /\ Len(SubSeq(Contents, batch + 1, Len(Contents))) = n - batch
        /\ \A i \in 1 .. n - batch :
             SubSeq(Contents, batch + 1, Len(Contents))[i] = Contents[i + batch]
    BY <1>1, <1>2
  <2>8. \A i \in 1 .. n - batch :
          SubSeq(Contents, batch + 1, Len(Contents))[i] = data[SlotAt(i + batch - 1)]
    BY <2>6, <2>7
  <2> HIDE DEF n
  <2> QED BY <2>5, <2>7, <2>8
<1> QED BY <1>1, <1>2, <1>3, <1>4

(* A value is in the slot at head before head is published. *)
ValueStored ==
  /\ ppc # "idle" => val \in Values
  /\ ppc = "publish" => data[head] = val

LEMMA ValueStoredInvariance == Spec => []ValueStored
<1>1. Init => ValueStored
  BY DEF Init, ValueStored
<1>2. TypeOK /\ ValueStored /\ [Next]_vars => ValueStored'
  <2> SUFFICES ASSUME TypeOK, ValueStored, [Next]_vars PROVE ValueStored'
    OBVIOUS
  <2> USE DEF ValueStored, shared, producer, consumer
  <2>1. CASE \E v \in Values : PushCheck(v)
    BY <2>1 DEF PushCheck
  <2>2. CASE Push
    BY <2>2 DEF Push, PushReload, PushWrite, PushPublish, TypeOK
  <2>3. CASE Pop
    BY <2>3 DEF Pop, RingPop, RingPopBurst, PopCheck, PopReload, PopCopy, PopRelease
  <2>4. CASE UNCHANGED vars
    BY <2>4 DEF vars
  <2> QED BY <2>1, <2>2, <2>3, <2>4 DEF Next
<1> QED BY <1>1, <1>2, TypeCorrect, PTL DEF Spec

(* The ring implements a bounded channel of capacity Size-2, step by step:
   publishing head is Put, publishing tail is Take, the two refusals are
   Refuse and TakeNothing, and every other step leaves the channel alone. *)
THEOREM Refinement == Spec => ImplementsFifo
<1>1. Init => Channel!Init
  <2> SUFFICES ASSUME Init PROVE Channel!Init
    OBVIOUS
  <2>1. Contents = <<>>
    BY DEF Init, Contents, Dist
  <2> QED BY <2>1 DEF Init, Channel!Init
<1>2. IInv /\ ValueStored /\ [Next]_vars => [Channel!Next]_(Channel!vars)
  <2> SUFFICES ASSUME IInv, ValueStored, [Next]_vars
               PROVE  Channel!Next \/ UNCHANGED Channel!vars
    OBVIOUS
  <2>1. UNCHANGED <<data, head, tail>> => Contents' = Contents
    BY DEF Contents, Dist, SlotAt
  <2>2. CASE \E v \in Values : PushCheck(v)
    BY <2>1, <2>2 DEF PushCheck, shared, consumer, Channel!vars
  <2>3. CASE PushReload
    <3>1. LooksFull(tail) => Len(Contents) = Size - 2
      <4>1. Dist(cachedTail, tail) \in Nat /\ Dist(tail, head) \in Nat
        BY DistType, SizeAssumption DEF IInv, TypeOK
      <4>2. Dist(tail, head) <= Size - 2 /\ tail \in Slots
        BY <4>1, SizeAssumption DEF IInv, TypeOK, CachedTailLags
      <4> QED BY <4>2, ContentsIsSeq, LooksFullIsDist DEF IInv
    <3> QED
      BY <2>1, <2>3, <3>1 DEF PushReload, shared, consumer, Channel!vars, Channel!Next, Channel!Refuse
  <2>4. CASE PushWrite
    BY <2>4, ContentsKept DEF PushWrite, consumer, Channel!vars
  <2>5. CASE PushPublish
    <3>1. Contents' = Append(Contents, val)
      BY <2>5, ContentsGrow DEF ValueStored, PushPublish
    <3>2. Len(Contents) < Size - 2
      <4>1. Dist(cachedTail, tail) \in Nat /\ Dist(tail, head) \in Nat
        BY DistType, SizeAssumption DEF IInv, TypeOK
      <4> QED BY <2>5, <4>1, ContentsIsSeq, SizeAssumption
              DEF PushPublish, IInv, CachedTailLags
    <3>3. val \in Values
      BY <2>5 DEF ValueStored, PushPublish
    <3> QED
      BY <2>5, <3>1, <3>2, <3>3 DEF PushPublish, consumer, Channel!Next, Channel!Put
  <2>6. CASE RingPop \/ RingPopBurst
    BY <2>1, <2>6 DEF RingPop, RingPopBurst, PopCheck, shared, producer, Channel!vars
  <2>7. CASE PopReload
    <3>1. head = tail => Contents = <<>>
      <4>1. head = tail => Dist(tail, head) = 0
        BY DistType DEF IInv, TypeOK
      <4> QED BY <4>1, ContentsIsSeq DEF IInv
    <3> QED
      BY <2>1, <2>7, <3>1 DEF PopReload, shared, producer, Channel!vars, Channel!Next, Channel!TakeNothing
  <2>8. CASE PopCopy
    BY <2>1, <2>8 DEF PopCopy, shared, producer, Channel!vars
  <2>9. CASE PopRelease
    BY <2>9, ContentsShrink DEF PopRelease, producer, Channel!Next, Channel!Take
  <2>10. CASE UNCHANGED vars
    BY <2>1, <2>10 DEF vars, shared, producer, consumer, Channel!vars
  <2> QED BY <2>2, <2>3, <2>4, <2>5, <2>6, <2>7, <2>8, <2>9, <2>10 DEF Next, Push, Pop
<1> QED
  BY <1>1, <1>2, Invariance, ValueStoredInvariance, PTL
     DEF Spec, ImplementsFifo, Channel!Spec
=============================================================================
