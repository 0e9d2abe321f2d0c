--------------------------- MODULE IgnoreSetProofs ---------------------------
(***************************************************************************)
(* Theorems about the flows to ignore: table, ring and filter agree after  *)
(* any additions, only flows that were alerted are ignored, and the set is *)
(* the bounded memory of module FlowMemory.                                *)
(***************************************************************************)
EXTENDS IgnoreSet, FiniteSetTheorems, SequenceTheorems, WellFoundedInduction, TLAPS

AllBits == UNION {Bits(f) : f \in Flows}
Tables == [slot : [Slots -> Flows \cup {EMPTY}], ring : Seq(Slots), filter : SUBSET AllBits]
Now == [slot |-> slot, ring |-> ring, filter |-> filter]

(* The flows a table holds, and its slots that are filled. *)
In(s) == {f \in Flows : \E i \in Slots : s.slot[i] = f}
Filled(s) == {i \in Slots : s.slot[i] # EMPTY}

(* No slot is lost to the eviction. *)
Fit(s) ==
  /\ s \in Tables /\ Len(s.ring) < Size
  /\ Size > 1 => Filled(s) \subseteq ToSet(s.ring)

(* f is found. *)
Found(s, f) ==
  /\ Bits(f) \subseteq s.filter
  /\ Find(s.slot, f) \in Slots /\ s.slot[Find(s.slot, f)] = f

(* s became r, and at most n flows went; others only came from new. *)
Lost(s, r, n) == IsFiniteSet(In(s) \ In(r)) /\ Cardinality(In(s) \ In(r)) <= n

-----------------------------------------------------------------------------
(* Induction up to n, about the set of numbers that something is true of. *)
LEMMA UpTo ==
  ASSUME NEW n \in Nat, NEW A, 0 \in A, \A k \in 1 .. n : k - 1 \in A => k \in A
  PROVE  \A k \in 0 .. n : k \in A
<1> DEFINE T == (0 .. n) \ A
           R == OpToRel(<, Nat)
<1>1. SUFFICES ASSUME T # {} PROVE FALSE
  OBVIOUS
<1>2. IsWellFoundedOn(R, Nat)
  BY NatLessThanWellFounded
<1>3. \A x \in Nat, y \in Nat : <<y, x>> \in R <=> y < x
  BY DEF OpToRel
<1>4. PICK r : IsWellFoundedOn(r, Nat) /\ \A x \in Nat, y \in Nat : <<y, x>> \in r <=> y < x
  <2> HIDE DEF R
  <2> QED BY <1>2, <1>3
<1>5. T \subseteq Nat
  OBVIOUS
<1>6. PICK x \in T : \A y \in T : ~(<<y, x>> \in r)
  <2> HIDE DEF T
  <2> QED BY <1>1, <1>4, <1>5, WFMin
<1>7. x \in 1 .. n /\ x - 1 \in Nat /\ x - 1 < x /\ x - 1 \in 0 .. n
  <2>1. x \in 0 .. n /\ x # 0
    BY <1>6
  <2> QED BY <2>1
<1>8. x - 1 \notin T
  <2> HIDE DEF T
  <2>1. x \in Nat /\ <<x - 1, x>> \in r
    BY <1>4, <1>7
  <2> QED BY <1>6, <2>1
<1>9. x - 1 \in A /\ x \notin A
  BY <1>6, <1>7, <1>8
<1> QED BY <1>7, <1>9

(* A value is stepped n times. *)
LEMMA Stepped ==
  ASSUME NEW S, NEW s \in S, NEW n \in Nat, NEW step \in [1 .. n -> [S -> S]]
  PROVE  \E F \in [0 .. n -> S] : F[0] = s /\ \A k \in 1 .. n : F[k] = step[k][F[k - 1]]
<1> DEFINE Good(m) == \E F \in [0 .. m -> S] : F[0] = s /\ \A k \in 1 .. m : F[k] = step[k][F[k - 1]]
           A == {m \in 0 .. n : Good(m)}
<1>1. 0 \in A
  <2> DEFINE H == [i \in 0 .. 0 |-> s]
  <2>1. H \in [0 .. 0 -> S] /\ H[0] = s
    OBVIOUS
  <2>2. \A k \in 1 .. 0 : H[k] = step[k][H[k - 1]]
    OBVIOUS
  <2>3. Good(0)
    <3> HIDE DEF H
    <3> QED BY <2>1, <2>2
  <2> HIDE DEF Good
  <2> QED BY <2>3
<1>2. ASSUME NEW m \in 1 .. n, m - 1 \in A PROVE m \in A
  <2>1. PICK G \in [0 .. m - 1 -> S] : G[0] = s /\ \A k \in 1 .. m - 1 : G[k] = step[k][G[k - 1]]
    BY <1>2
  <2> DEFINE F == [k \in 0 .. m |-> IF k = m THEN step[m][G[m - 1]] ELSE G[k]]
  <2>2. m - 1 \in 0 .. m - 1 /\ G[m - 1] \in S
    OBVIOUS
  <2>3. step[m][G[m - 1]] \in S
    BY <2>2
  <2>4. F \in [0 .. m -> S]
    BY <2>3
  <2>5. F[0] = s
    BY <2>1
  <2>6. ASSUME NEW k \in 1 .. m PROVE F[k] = step[k][F[k - 1]]
    <3>1. F[k - 1] = G[k - 1]
      OBVIOUS
    <3>2. CASE k = m
      BY <3>1, <3>2
    <3>3. CASE k # m
      <4>1. k \in 1 .. m - 1 /\ F[k] = G[k]
        BY <3>3
      <4> QED BY <4>1, <3>1, <2>1
    <3> QED BY <3>2, <3>3
  <2>7. Good(m)
    <3> HIDE DEF F
    <3> QED BY <2>4, <2>5, <2>6
  <2> HIDE DEF Good
  <2>8. m \in 0 .. n
    OBVIOUS
  <2> QED BY <2>7, <2>8
<1>3. n \in A
  <2> HIDE DEF A
  <2>1. n \in 0 .. n
    OBVIOUS
  <2> QED BY <1>1, <1>2, <2>1, UpTo
<1> QED BY <1>3

-----------------------------------------------------------------------------
Fits == {s \in Tables : Fit(s)}

LEMMA SlotsAre == 0 \in Slots /\ Slots \subseteq Nat /\ IsFiniteSet(Slots) /\ Cardinality(Slots) = Size
<1>1. Size \in Nat /\ Size >= 1
  BY IgnoreAssumption
<1>2. IsFiniteSet(0 .. Size - 1) /\ Cardinality(0 .. Size - 1) = Size
  BY <1>1, FS_Interval
<1> QED BY <1>1, <1>2 DEF Slots

LEMMA BurstIs == Burst \in Nat /\ Burst >= 1 /\ (Size = 1 => Burst = 1)
<1>1. Size \in Nat /\ BurstOver \in Nat /\ Size >= 1 /\ BurstOver >= 1
  BY IgnoreAssumption
<1>2. CASE Size > BurstOver
  BY <1>1, <1>2 DEF Burst
<1>3. CASE ~(Size > BurstOver)
  BY <1>3 DEF Burst
<1> QED BY <1>2, <1>3

(* Both ends of a sequence. *)
LEMMA TailIs ==
  ASSUME NEW S, NEW q \in Seq(S), q # <<>>
  PROVE  /\ Head(q) \in S /\ Tail(q) \in Seq(S) /\ Len(Tail(q)) = Len(q) - 1
         /\ \A x \in ToSet(q) : x = Head(q) \/ x \in ToSet(Tail(q))
<1>1. Head(q) \in S /\ Tail(q) \in Seq(S) /\ Len(Tail(q)) = Len(q) - 1
  OBVIOUS
<1>2. ASSUME NEW x \in ToSet(q) PROVE x = Head(q) \/ x \in ToSet(Tail(q))
  <2>1. PICK k \in 1 .. Len(q) : x = q[k]
    BY <1>2 DEF ToSet
  <2>2. CASE k = 1
    BY <2>1, <2>2
  <2>3. CASE k # 1
    <3>1. k - 1 \in 1 .. Len(Tail(q)) /\ Tail(q)[k - 1] = q[k]
      BY <1>1, <2>3
    <3>2. DOMAIN Tail(q) = 1 .. Len(Tail(q))
      BY <1>1
    <3> QED BY <3>1, <3>2, <2>1 DEF ToSet
  <2> QED BY <2>2, <2>3
<1> QED BY <1>1, <1>2

LEMMA AppendIs ==
  ASSUME NEW S, NEW q \in Seq(S), NEW x \in S
  PROVE  /\ Append(q, x) \in Seq(S) /\ Len(Append(q, x)) = Len(q) + 1
         /\ ToSet(Append(q, x)) = ToSet(q) \cup {x}
<1>1. Append(q, x) \in Seq(S) /\ Len(Append(q, x)) = Len(q) + 1
  OBVIOUS
<1>2. \A k \in 1 .. Len(q) + 1 : Append(q, x)[k] = IF k = Len(q) + 1 THEN x ELSE q[k]
  OBVIOUS
<1>3. DOMAIN Append(q, x) = 1 .. Len(q) + 1 /\ DOMAIN q = 1 .. Len(q) /\ Len(q) \in Nat
  OBVIOUS
<1>4. ToSet(Append(q, x)) \subseteq ToSet(q) \cup {x}
  BY <1>2, <1>3 DEF ToSet
<1>5. ToSet(q) \subseteq ToSet(Append(q, x))
  <2> SUFFICES ASSUME NEW k \in 1 .. Len(q) PROVE q[k] \in ToSet(Append(q, x))
    BY <1>3 DEF ToSet
  <2>1. k \in 1 .. Len(q) + 1 /\ Append(q, x)[k] = q[k]
    BY <1>2, <1>3
  <2> QED BY <2>1, <1>3 DEF ToSet
<1>6. x \in ToSet(Append(q, x))
  <2>1. Len(q) + 1 \in 1 .. Len(q) + 1
    BY <1>3
  <2>2. Append(q, x)[Len(q) + 1] = x
    BY <1>2, <2>1
  <2> QED BY <2>1, <2>2, <1>3 DEF ToSet
<1> QED BY <1>1, <1>4, <1>5, <1>6

LEMMA TableIs ==
  ASSUME NEW s \in Tables
  PROVE  /\ s.slot \in [Slots -> Flows \cup {EMPTY}] /\ s.ring \in Seq(Slots)
         /\ s.filter \subseteq AllBits
BY DEF Tables

(* An eviction empties one slot, the oldest. *)
LEMMA EvictFits ==
  ASSUME NEW s, Fit(s)
  PROVE  /\ Fit(Evict(s))
         /\ Len(Evict(s).ring) <= Len(s.ring)
         /\ Len(Evict(s).ring) < Len(s.ring) \/ s.ring = <<>>
         /\ Size = 1 => Filled(Evict(s)) = {}
         /\ In(Evict(s)) \subseteq In(s)
         /\ \E f : In(s) \subseteq In(Evict(s)) \cup {f}
<1> DEFINE i == IF s.ring = <<>> THEN 0 ELSE Head(s.ring)
           r == Evict(s)
<1>1. s \in Tables /\ Len(s.ring) < Size /\ (Size > 1 => Filled(s) \subseteq ToSet(s.ring))
  BY DEF Fit
<1>2. i \in Slots
  BY <1>1, TableIs, SlotsAre, TailIs
<1>3. r.slot = [s.slot EXCEPT ![i] = EMPTY] /\ r.ring = Dequeue(s.ring) /\ r.filter = s.filter \ Bits(s.slot[i])
  BY DEF Evict, FilterRm
<1>4. r = [slot |-> r.slot, ring |-> r.ring, filter |-> r.filter]
  BY DEF Evict
<1> HIDE DEF i, r
<1>5. \A j \in Slots : r.slot[j] = IF j = i THEN EMPTY ELSE s.slot[j]
  BY <1>1, <1>2, <1>3, TableIs
<1>6. /\ r.ring \in Seq(Slots) /\ Len(r.ring) <= Len(s.ring)
      /\ Len(r.ring) < Len(s.ring) \/ s.ring = <<>>
  <2>1. CASE s.ring = <<>>
    BY <2>1, <1>1, <1>3, TableIs DEF Dequeue
  <2>2. CASE s.ring # <<>>
    <3>1. Len(s.ring) \in Nat
      BY <1>1, TableIs
    <3> QED BY <2>2, <3>1, <1>1, <1>3, TableIs, TailIs DEF Dequeue
  <2> QED BY <2>1, <2>2
<1>7. r \in Tables
  <2>1. r.slot \in [Slots -> Flows \cup {EMPTY}]
    BY <1>1, <1>3, TableIs
  <2>2. r.filter \subseteq AllBits
    BY <1>1, <1>3, TableIs
  <2> QED BY <2>1, <2>2, <1>4, <1>6 DEF Tables
<1>8. ASSUME Size > 1 PROVE Filled(r) \subseteq ToSet(r.ring)
  <2> SUFFICES ASSUME NEW j \in Slots, r.slot[j] # EMPTY PROVE j \in ToSet(r.ring)
    BY DEF Filled
  <2>1. j # i /\ j \in ToSet(s.ring)
    BY <1>1, <1>5, <1>8 DEF Filled
  <2>2. s.ring # <<>>
    BY <2>1 DEF ToSet
  <2>3. i = Head(s.ring) /\ r.ring = Tail(s.ring)
    BY <2>2, <1>3 DEF i, Dequeue
  <2> QED BY <2>1, <2>2, <2>3, <1>1, TableIs, TailIs
<1>9. Fit(r)
  <2>1. Len(r.ring) \in Nat /\ Len(s.ring) \in Nat /\ Size \in Nat
    BY <1>1, <1>6, TableIs, IgnoreAssumption
  <2>2. Len(r.ring) < Size
    BY <2>1, <1>1, <1>6
  <2> QED BY <2>2, <1>7, <1>8 DEF Fit
<1>10. Size = 1 => Filled(r) = {}
  BY <1>2, <1>5 DEF Filled, Slots
<1>11. In(r) \subseteq In(s)
  BY <1>5, IgnoreAssumption DEF In
<1>12. In(s) \subseteq In(r) \cup {s.slot[i]}
  BY <1>5 DEF In
<1> QED BY <1>6, <1>9, <1>10, <1>11, <1>12 DEF r

-----------------------------------------------------------------------------
(* Losses add up. *)
LEMMA LostNone == ASSUME NEW s, NEW n \in Nat PROVE Lost(s, s, n)
<1>1. In(s) \ In(s) = {}
  OBVIOUS
<1> QED BY <1>1, FS_EmptySet DEF Lost

LEMMA LostMore ==
  ASSUME NEW s, NEW r, NEW t, NEW n \in Nat, NEW m \in Nat, Lost(s, r, n), Lost(r, t, m)
  PROVE  Lost(s, t, n + m)
<1> DEFINE A == In(s) \ In(r)
           B == In(r) \ In(t)
           C == In(s) \ In(t)
<1>1. IsFiniteSet(A) /\ IsFiniteSet(B) /\ Cardinality(A) <= n /\ Cardinality(B) <= m
  BY DEF Lost
<1>2. C \subseteq A \cup B
  OBVIOUS
<1> HIDE DEF A, B, C
<1>3. /\ IsFiniteSet(A \cup B)
      /\ Cardinality(A \cup B) = Cardinality(A) + Cardinality(B) - Cardinality(A \cap B)
  BY <1>1, FS_Union
<1>4. IsFiniteSet(A \cap B)
  BY <1>1, FS_Intersection
<1>5. Cardinality(A) \in Nat /\ Cardinality(B) \in Nat /\ Cardinality(A \cap B) \in Nat
  BY <1>1, <1>4, FS_CardinalityType
<1>6. Cardinality(A \cup B) <= n + m /\ Cardinality(A \cup B) \in Nat
  <2>1. Cardinality(A \cup B) \in Nat
    BY <1>3, FS_CardinalityType
  <2> QED BY <2>1, <1>1, <1>3, <1>5
<1>7. IsFiniteSet(C) /\ Cardinality(C) <= Cardinality(A \cup B)
  BY <1>2, <1>3, FS_Subset
<1>8. Cardinality(C) \in Nat
  BY <1>7, FS_CardinalityType
<1>9. Cardinality(C) <= n + m
  BY <1>6, <1>7, <1>8
<1> QED BY <1>7, <1>9 DEF Lost, C

LEMMA LostOne ==
  ASSUME NEW s, NEW r, NEW f, In(s) \subseteq In(r) \cup {f}
  PROVE  Lost(s, r, 1)
<1>1. In(s) \ In(r) \subseteq {f}
  OBVIOUS
<1>2. IsFiniteSet({f}) /\ Cardinality({f}) = 1
  BY FS_Singleton
<1>3. IsFiniteSet(In(s) \ In(r)) /\ Cardinality(In(s) \ In(r)) <= 1
  BY <1>1, <1>2, FS_Subset
<1> QED BY <1>3 DEF Lost

(* The evictions of MakeRoom, one after the other. *)
Evictions(s, F) == F = [k \in 0 .. Burst |-> IF k = 0 THEN s ELSE Evict(F[k - 1])]

LEMMA EvictionsAre ==
  ASSUME NEW s, Fit(s)
  PROVE  \E F \in [0 .. Burst -> Fits] :
           /\ F[0] = s /\ \A k \in 1 .. Burst : F[k] = Evict(F[k - 1])
           /\ MakeRoom(s) = IF RingFull(s.ring) THEN F[Burst] ELSE s
<1> DEFINE step == [k \in 1 .. Burst |-> [x \in Fits |-> Evict(x)]]
<1>1. s \in Fits /\ \A x \in Fits : Evict(x) \in Fits
  BY EvictFits DEF Fits, Fit
<1>2. step \in [1 .. Burst -> [Fits -> Fits]]
  BY <1>1
<1>3. PICK G \in [0 .. Burst -> Fits] : G[0] = s /\ \A k \in 1 .. Burst : G[k] = step[k][G[k - 1]]
  <2> HIDE DEF step
  <2> QED BY <1>1, <1>2, BurstIs, Stepped
<1>4. \A k \in 1 .. Burst : k - 1 \in 0 .. Burst /\ k \in 0 .. Burst
  BY BurstIs
<1>5. \A k \in 1 .. Burst : G[k] = Evict(G[k - 1])
  BY <1>3, <1>4
<1>6. Evictions(s, G)
  <2>1. \A k \in 0 .. Burst : G[k] = IF k = 0 THEN s ELSE Evict(G[k - 1])
    BY <1>3, <1>5, BurstIs
  <2>2. G = [k \in 0 .. Burst |-> G[k]]
    OBVIOUS
  <2> QED BY <2>1, <2>2 DEF Evictions
<1> DEFINE F == CHOOSE g : Evictions(s, g)
<1>7. Evictions(s, F)
  BY <1>6
<1>8. MakeRoom(s) = IF RingFull(s.ring) THEN F[Burst] ELSE s
  BY DEF MakeRoom, Evictions
<1> HIDE DEF F
<1>9. F[0] = s /\ \A k \in 1 .. Burst : F[k] = Evict(F[k - 1])
  <2>1. \A k \in 0 .. Burst : F[k] = IF k = 0 THEN s ELSE Evict(F[k - 1])
    BY <1>7 DEF Evictions
  <2>2. 0 \in 0 .. Burst
    BY BurstIs
  <2> QED BY <2>1, <2>2, <1>4
<1>10. F \in [0 .. Burst -> Fits]
  <2> DEFINE A == {k \in 0 .. Burst : F[k] \in Fits}
  <2>1. 0 \in A
    BY <1>1, <1>9, BurstIs
  <2>2. \A k \in 1 .. Burst : k - 1 \in A => k \in A
    BY <1>1, <1>4, <1>9
  <2>3. \A k \in 0 .. Burst : k \in A
    <3> HIDE DEF A
    <3> QED BY <2>1, <2>2, BurstIs, UpTo
  <2>4. \A k \in 0 .. Burst : F[k] \in Fits
    BY <2>3
  <2>5. F = [k \in 0 .. Burst |-> F[k]]
    BY <1>7 DEF Evictions
  <2> QED BY <2>4, <2>5
<1> QED BY <1>8, <1>9, <1>10

(* There is room then, for a table of one slot too. *)
LEMMA RoomFits ==
  ASSUME NEW s, Fit(s)
  PROVE  /\ Fit(MakeRoom(s)) /\ In(MakeRoom(s)) \subseteq In(s) /\ Lost(s, MakeRoom(s), Burst)
         /\ Size > 1 => ~RingFull(MakeRoom(s).ring)
         /\ Size = 1 => Filled(MakeRoom(s)) = {}
<1>0. s \in Tables /\ Len(s.ring) < Size /\ Len(s.ring) \in Nat /\ Size \in Nat /\ Size >= 1
  BY TableIs, IgnoreAssumption DEF Fit
<1>1. CASE ~RingFull(s.ring)
  <2>1. MakeRoom(s) = s
    BY <1>1 DEF MakeRoom
  <2>2. Size # 1
    BY <1>0, <1>1 DEF RingFull
  <2> QED BY <2>1, <2>2, <1>1, BurstIs, LostNone
<1>2. CASE RingFull(s.ring)
  <2>1. PICK F \in [0 .. Burst -> Fits] :
          /\ F[0] = s /\ \A k \in 1 .. Burst : F[k] = Evict(F[k - 1])
          /\ MakeRoom(s) = F[Burst]
    BY <1>2, EvictionsAre
  <2> DEFINE Good(k) ==
        /\ In(F[k]) \subseteq In(s) /\ Lost(s, F[k], k)
        /\ k # 0 => /\ Len(F[k].ring) < Len(s.ring) \/ Len(F[k].ring) = 0
                    /\ Size = 1 => Filled(F[k]) = {}
      A == {k \in 0 .. Burst : Good(k)}
  <2>2. \A k \in 0 .. Burst : Fit(F[k]) /\ F[k] \in Tables /\ Len(F[k].ring) \in Nat
    BY TableIs DEF Fits
  <2>3. 0 \in A
    BY <2>1, LostNone, BurstIs
  <2>4. ASSUME NEW k \in 1 .. Burst, k - 1 \in A PROVE k \in A
    <3>1. k - 1 \in 0 .. Burst /\ k \in 0 .. Burst /\ k - 1 \in Nat /\ k = (k - 1) + 1 /\ Good(k - 1)
      BY <2>4, BurstIs
    <3> DEFINE x == F[k - 1]
    <3>2. F[k] = Evict(x) /\ Fit(x) /\ Len(x.ring) \in Nat /\ x \in Tables
      BY <2>1, <2>2, <3>1
    <3>3. In(F[k]) \subseteq In(x) /\ Lost(x, F[k], 1)
      <4> HIDE DEF x
      <4>1. In(F[k]) \subseteq In(x) /\ \E f : In(x) \subseteq In(F[k]) \cup {f}
        BY <3>2, EvictFits
      <4> QED BY <4>1, LostOne
    <3>4. In(F[k]) \subseteq In(s)
      BY <3>1, <3>3
    <3>5. Lost(s, F[k], (k - 1) + 1)
      <4>1. Lost(s, x, k - 1)
        BY <3>1
      <4> HIDE DEF x
      <4> QED BY <4>1, <3>1, <3>3, LostMore
    <3>6. Size = 1 => Filled(F[k]) = {}
      BY <3>2, EvictFits
    <3>7. Len(F[k].ring) < Len(s.ring) \/ Len(F[k].ring) = 0
      <4>1. Len(F[k].ring) \in Nat
        BY <2>2, <3>1
      <4>2. Len(F[k].ring) <= Len(x.ring) /\ (Len(F[k].ring) < Len(x.ring) \/ Len(x.ring) = 0)
        BY <3>2, EvictFits
      <4>3. Len(x.ring) <= Len(s.ring)
        <5>1. CASE k - 1 = 0
          BY <5>1, <2>1, <1>0
        <5>2. CASE k - 1 # 0
          BY <5>2, <3>1, <3>2, <1>0
        <5> QED BY <5>1, <5>2
      <4> QED BY <4>1, <4>2, <4>3, <3>2, <1>0
    <3> QED BY <3>1, <3>4, <3>5, <3>6, <3>7
  <2>5. \A k \in 0 .. Burst : k \in A
    <3> HIDE DEF A
    <3> QED BY <2>3, <2>4, BurstIs, UpTo
  <2>6. Burst \in 0 .. Burst /\ Burst # 0
    BY BurstIs
  <2>7. Good(Burst)
    BY <2>5, <2>6
  <2>8. Size > 1 => ~RingFull(F[Burst].ring)
    <3>1. Len(F[Burst].ring) \in Nat
      BY <2>2, <2>6
    <3> QED BY <3>1, <2>6, <2>7, <1>0 DEF RingFull
  <2> QED BY <2>1, <2>2, <2>6, <2>7, <2>8
<1> QED BY <1>1, <1>2

-----------------------------------------------------------------------------
LEMMA Wrap ==
  ASSUME NEW i \in 0 .. 2 * Size - 1
  PROVE  i % Size = IF i < Size THEN i ELSE i - Size
BY IgnoreAssumption

(* A search visits every slot. *)
LEMMA ProbeAll ==
  ASSUME NEW f \in Flows
  PROVE  /\ \A i \in 1 .. Size : Probe(f)[i] \in Slots
         /\ \A j \in Slots : \E i \in 1 .. Size : Probe(f)[i] = j
<1> DEFINE h == Home[f]
<1>1. h \in Slots /\ Size \in Nat /\ Size >= 1
  BY IgnoreAssumption
<1>2. h \in 0 .. Size - 1
  BY <1>1 DEF Slots
<1> HIDE DEF h
<1>3. ASSUME NEW i \in 1 .. Size
      PROVE  Probe(f)[i] = IF h + i - 1 < Size THEN h + i - 1 ELSE h + i - 1 - Size
  <2> DEFINE x == h + i - 1
  <2>1. x \in 0 .. 2 * Size - 1
    BY <1>1, <1>2
  <2>2. Probe(f)[i] = x % Size
    BY DEF Probe, h
  <2> HIDE DEF x
  <2>3. Probe(f)[i] = IF x < Size THEN x ELSE x - Size
    BY <2>1, <2>2, Wrap
  <2> QED BY <2>3, <1>1, <1>2 DEF x
<1>4. \A i \in 1 .. Size : Probe(f)[i] \in Slots
  BY <1>1, <1>2, <1>3 DEF Slots
<1>5. ASSUME NEW j \in Slots PROVE \E i \in 1 .. Size : Probe(f)[i] = j
  <2>1. j \in 0 .. Size - 1
    BY DEF Slots
  <2>2. CASE j >= h
    <3>1. j - h + 1 \in 1 .. Size /\ h + (j - h + 1) - 1 = j
      BY <2>1, <2>2, <1>1, <1>2
    <3>2. Probe(f)[j - h + 1] = j
      BY <3>1, <1>3, <2>1, <1>1, <1>2
    <3> QED BY <3>1, <3>2
  <2>3. CASE j < h
    <3>1. j - h + 1 + Size \in 1 .. Size /\ h + (j - h + 1 + Size) - 1 = j + Size
      BY <2>1, <2>3, <1>1, <1>2
    <3>2. Probe(f)[j - h + 1 + Size] = j
      BY <3>1, <1>3, <2>1, <1>1, <1>2
    <3> QED BY <3>1, <3>2
  <2> QED BY <2>1, <2>2, <2>3, <1>2
<1> QED BY <1>4, <1>5

(* A set of numbers has one least. *)
LEMMA Least ==
  ASSUME NEW n \in Nat, NEW T \in SUBSET (1 .. n), T # {}
  PROVE  \E i \in T : \A k \in T : i <= k
<1> DEFINE A == {k \in 0 .. n : (\E i \in T : \A j \in T : i <= j) \/ \A j \in T : j > k}
<1>1. 0 \in A
  OBVIOUS
<1>2. ASSUME NEW k \in 1 .. n, k - 1 \in A PROVE k \in A
  <2>1. CASE \E i \in T : \A j \in T : i <= j
    BY <2>1
  <2>2. CASE \A j \in T : j > k - 1
    <3>1. CASE k \in T
      BY <2>2, <3>1
    <3>2. CASE k \notin T
      BY <2>2, <3>2
    <3> QED BY <3>1, <3>2
  <2> QED BY <1>2, <2>1, <2>2
<1>3. \A k \in 0 .. n : k \in A
  <2> HIDE DEF A
  <2> QED BY <1>1, <1>2, UpTo
<1>4. n \in A
  <2> HIDE DEF A
  <2> QED BY <1>3
<1>5. PICK j : j \in T
  OBVIOUS
<1>6. j <= n /\ n \in Nat /\ j \in Nat
  BY <1>5
<1> QED BY <1>4, <1>5, <1>6

Stops(table, f) == {i \in 1 .. Size : table[Probe(f)[i]] \in {f, EMPTY}}

LEMMA FindIs ==
  ASSUME NEW table, NEW f \in Flows, NEW j \in Slots, table[j] = EMPTY
  PROVE  /\ Find(table, f) \in Slots /\ table[Find(table, f)] \in {f, EMPTY}
         /\ \A t : Stops(t, f) = Stops(table, f) => Find(t, f) = Find(table, f)
<1> DEFINE T == Stops(table, f)
           c == CHOOSE i \in T : \A k \in T : i <= k
<1>1. PICK i \in 1 .. Size : Probe(f)[i] = j
  BY ProbeAll
<1>2. T # {} /\ T \in SUBSET (1 .. Size) /\ Size \in Nat
  BY <1>1, IgnoreAssumption DEF Stops
<1>3. \E k \in T : \A l \in T : k <= l
  <2> HIDE DEF T
  <2> QED BY <1>2, Least
<1>4. c \in T
  <2> HIDE DEF T
  <2> QED BY <1>3
<1>5. Find(table, f) = Probe(f)[c]
  BY <1>2 DEF Find, Stops
<1>6. \A t : Stops(t, f) = T => Find(t, f) = Probe(f)[c]
  BY <1>2 DEF Find, Stops
<1>7. c \in 1 .. Size /\ table[Probe(f)[c]] \in {f, EMPTY}
  <2> HIDE DEF c
  <2> QED BY <1>4 DEF Stops
<1> HIDE DEF c, T
<1>8. Probe(f)[c] \in Slots
  BY <1>7, ProbeAll
<1> QED BY <1>5, <1>6, <1>7, <1>8 DEF T

(* One slot is empty when there is room. *)
LEMMA EmptyIs ==
  ASSUME NEW s, Fit(s), Size > 1 \/ Filled(s) = {}
  PROVE  \E j \in Slots : s.slot[j] = EMPTY
<1>1. CASE Filled(s) = {}
  BY <1>1, SlotsAre DEF Filled
<1>2. CASE Size > 1
  <2>1. s.ring \in Seq(Slots) /\ Len(s.ring) < Size /\ Filled(s) \subseteq ToSet(s.ring)
    BY <1>2, TableIs DEF Fit
  <2>2. Len(s.ring) \in Nat /\ Size \in Nat
    BY <2>1, IgnoreAssumption
  <2>3. s.ring \in Surjection(1 .. Len(s.ring), ToSet(s.ring))
    BY <2>1 DEF Surjection, ToSet
  <2>4. IsFiniteSet(1 .. Len(s.ring)) /\ Cardinality(1 .. Len(s.ring)) = Len(s.ring)
    BY <2>2, FS_Interval
  <2>5. IsFiniteSet(ToSet(s.ring)) /\ Cardinality(ToSet(s.ring)) <= Len(s.ring)
    BY <2>3, <2>4, FS_Surjection
  <2>6. SUFFICES ASSUME Slots \subseteq ToSet(s.ring) PROVE FALSE
    BY <2>1 DEF Filled
  <2>7. Cardinality(Slots) <= Cardinality(ToSet(s.ring))
    BY <2>5, <2>6, FS_Subset
  <2>8. Cardinality(ToSet(s.ring)) \in Nat
    BY <2>5, FS_CardinalityType
  <2> QED BY <2>1, <2>2, <2>5, <2>7, <2>8, SlotsAre
<1> QED BY <1>1, <1>2

-----------------------------------------------------------------------------
(* An addition: f is found, the others may go, as many as are evicted. *)
LEMMA AddFits ==
  ASSUME NEW s, Fit(s), NEW f \in Flows
  PROVE  /\ Fit(Add(s, f)) /\ Found(Add(s, f), f)
         /\ In(Add(s, f)) \subseteq In(s) \cup {f} /\ Lost(s, Add(s, f), Burst)
<1> DEFINE r == MakeRoom(s)
           i == Find(r.slot, f)
           t == Add(s, f)
<1>1. /\ Fit(r) /\ In(r) \subseteq In(s) /\ Lost(s, r, Burst)
      /\ Size > 1 => ~RingFull(r.ring)
      /\ Size = 1 => Filled(r) = {}
  BY RoomFits
<1>2. Size > 1 \/ Size = 1
  BY IgnoreAssumption
<1>3. PICK j \in Slots : r.slot[j] = EMPTY
  <2> HIDE DEF r
  <2> QED BY <1>1, <1>2, EmptyIs
<1>4. /\ i \in Slots /\ r.slot[i] \in {f, EMPTY}
      /\ \A q : Stops(q, f) = Stops(r.slot, f) => Find(q, f) = i
  <2> HIDE DEF r
  <2> QED BY <1>3, FindIs
<1>5. i # -1
  BY <1>4, SlotsAre
<1>6. t = [slot |-> [r.slot EXCEPT ![i] = f], ring |-> Enqueue(r.ring, i), filter |-> r.filter \cup Bits(f)]
  BY <1>5 DEF Add, FilterAdd
<1> HIDE DEF r, i, t
<1>7. t.slot = [r.slot EXCEPT ![i] = f] /\ t.ring = Enqueue(r.ring, i) /\ t.filter = r.filter \cup Bits(f)
  BY <1>6
<1>8. r \in Tables /\ Len(r.ring) < Size /\ Len(r.ring) \in Nat /\ Size \in Nat
  BY <1>1, TableIs, IgnoreAssumption DEF Fit
<1>9. \A k \in Slots : t.slot[k] = IF k = i THEN f ELSE r.slot[k]
  BY <1>4, <1>7, <1>8, TableIs
<1>10. t \in Tables
  <2>1. t.slot \in [Slots -> Flows \cup {EMPTY}]
    BY <1>4, <1>7, <1>8, TableIs
  <2>2. t.ring \in Seq(Slots)
    BY <1>4, <1>7, <1>8, TableIs, AppendIs DEF Enqueue
  <2>3. t.filter \subseteq AllBits
    BY <1>7, <1>8, TableIs DEF AllBits
  <2> QED BY <2>1, <2>2, <2>3, <1>6, <1>7 DEF Tables
<1>11. Len(t.ring) < Size
  <2>1. CASE RingFull(r.ring)
    BY <2>1, <1>7, <1>8 DEF Enqueue
  <2>2. CASE ~RingFull(r.ring)
    <3>1. Len(t.ring) = Len(r.ring) + 1
      BY <2>2, <1>4, <1>7, <1>8, TableIs, AppendIs DEF Enqueue
    <3> QED BY <3>1, <2>2, <1>8 DEF RingFull
  <2> QED BY <2>1, <2>2
<1>12. ASSUME Size > 1 PROVE Filled(t) \subseteq ToSet(t.ring)
  <2>1. ToSet(t.ring) = ToSet(r.ring) \cup {i}
    BY <1>12, <1>1, <1>4, <1>7, <1>8, TableIs, AppendIs DEF Enqueue
  <2>2. Filled(r) \subseteq ToSet(r.ring)
    BY <1>12, <1>1 DEF Fit
  <2> QED BY <2>1, <2>2, <1>9 DEF Filled
<1>13. Fit(t)
  BY <1>10, <1>11, <1>12 DEF Fit
<1>14. f # EMPTY
  BY IgnoreAssumption
<1>15. Found(t, f)
  <2>1. \A k \in 1 .. Size : Probe(f)[k] \in Slots
    BY ProbeAll
  <2>2. Stops(t.slot, f) = Stops(r.slot, f)
    BY <2>1, <1>4, <1>9 DEF Stops
  <2>3. Find(t.slot, f) = i
    BY <2>2, <1>4
  <2> QED BY <2>3, <1>4, <1>7, <1>9 DEF Found
<1>16. In(t) \subseteq In(s) \cup {f}
  BY <1>1, <1>9 DEF In
<1>17. In(r) \subseteq In(t)
  <2> SUFFICES ASSUME NEW g \in Flows, NEW k \in Slots, r.slot[k] = g PROVE \E l \in Slots : t.slot[l] = g
    BY DEF In
  <2>1. g # EMPTY
    BY IgnoreAssumption
  <2> QED BY <2>1, <1>4, <1>9
<1>18. Lost(s, t, Burst)
  <2>1. In(s) \ In(t) \subseteq In(s) \ In(r)
    BY <1>17
  <2>2. IsFiniteSet(In(s) \ In(r)) /\ Cardinality(In(s) \ In(r)) <= Burst
    BY <1>1 DEF Lost
  <2>3. IsFiniteSet(In(s) \ In(t)) /\ Cardinality(In(s) \ In(t)) <= Cardinality(In(s) \ In(r))
    BY <2>1, <2>2, FS_Subset
  <2>4. Cardinality(In(s) \ In(t)) \in Nat /\ Cardinality(In(s) \ In(r)) \in Nat
    BY <2>2, <2>3, FS_CardinalityType
  <2> QED BY <2>2, <2>3, <2>4, BurstIs DEF Lost
<1> QED BY <1>13, <1>15, <1>16, <1>18 DEF t

(* The additions of AddAll, one after the other. *)
Additions(s, fs, F) == F = [k \in 0 .. Len(fs) |-> IF k = 0 THEN s ELSE Add(F[k - 1], fs[k])]

LEMMA AdditionsAre ==
  ASSUME NEW s, Fit(s), NEW fs \in Seq(Flows)
  PROVE  \E F \in [0 .. Len(fs) -> Fits] :
           /\ F[0] = s /\ \A k \in 1 .. Len(fs) : F[k] = Add(F[k - 1], fs[k])
           /\ AddAll(s, fs) = F[Len(fs)]
<1> DEFINE n == Len(fs)
           step == [k \in 1 .. n |-> [x \in Fits |-> Add(x, fs[k])]]
<1>0. n \in Nat /\ \A k \in 1 .. n : fs[k] \in Flows
  OBVIOUS
<1>1. s \in Fits /\ \A x \in Fits, g \in Flows : Add(x, g) \in Fits
  BY AddFits DEF Fits, Fit
<1>2. step \in [1 .. n -> [Fits -> Fits]]
  BY <1>0, <1>1
<1>3. PICK G \in [0 .. n -> Fits] : G[0] = s /\ \A k \in 1 .. n : G[k] = step[k][G[k - 1]]
  <2>1. n \in Nat /\ s \in Fits
    BY <1>0, <1>1
  <2> HIDE DEF step, n
  <2> QED BY <2>1, <1>2, Stepped
<1>4. \A k \in 1 .. n : k - 1 \in 0 .. n /\ k \in 0 .. n
  BY <1>0
<1>5. \A k \in 1 .. n : G[k] = Add(G[k - 1], fs[k])
  BY <1>3, <1>4
<1>6. Additions(s, fs, G)
  <2>1. \A k \in 0 .. n : G[k] = IF k = 0 THEN s ELSE Add(G[k - 1], fs[k])
    BY <1>0, <1>3, <1>5
  <2>2. G = [k \in 0 .. n |-> G[k]]
    OBVIOUS
  <2> QED BY <2>1, <2>2 DEF Additions
<1> DEFINE F == CHOOSE g : Additions(s, fs, g)
<1>7. Additions(s, fs, F)
  BY <1>6
<1>8. AddAll(s, fs) = F[n]
  BY DEF AddAll, Additions
<1> HIDE DEF F
<1>9. F[0] = s /\ \A k \in 1 .. n : F[k] = Add(F[k - 1], fs[k])
  <2>1. \A k \in 0 .. n : F[k] = IF k = 0 THEN s ELSE Add(F[k - 1], fs[k])
    BY <1>7 DEF Additions
  <2>2. 0 \in 0 .. n
    BY <1>0
  <2> QED BY <2>1, <2>2, <1>4
<1>10. F \in [0 .. n -> Fits]
  <2> DEFINE A == {k \in 0 .. n : F[k] \in Fits}
  <2>1. 0 \in A
    BY <1>0, <1>1, <1>9
  <2>2. \A k \in 1 .. n : k - 1 \in A => k \in A
    BY <1>0, <1>1, <1>4, <1>9
  <2>3. \A k \in 0 .. n : k \in A
    <3> HIDE DEF A, n
    <3> QED BY <2>1, <2>2, <1>0, UpTo
  <2>4. \A k \in 0 .. n : F[k] \in Fits
    BY <2>3
  <2>5. F = [k \in 0 .. n |-> F[k]]
    BY <1>7 DEF Additions
  <2> QED BY <2>4, <2>5
<1> QED BY <1>8, <1>9, <1>10

(* The flows of one verdict: the last is found, each costs one eviction at most. *)
LEMMA AllFits ==
  ASSUME NEW s, Fit(s), NEW fs \in Seq(Flows), fs # <<>>
  PROVE  /\ Fit(AddAll(s, fs)) /\ Found(AddAll(s, fs), fs[Len(fs)])
         /\ In(AddAll(s, fs)) \subseteq In(s) \cup ToSet(fs)
         /\ Lost(s, AddAll(s, fs), Burst * Len(fs))
<1> DEFINE n == Len(fs)
<1>0. n \in Nat /\ n >= 1 /\ \A k \in 1 .. n : fs[k] \in Flows /\ fs[k] \in ToSet(fs)
  BY DEF ToSet
<1>1. PICK F \in [0 .. n -> Fits] :
        /\ F[0] = s /\ \A k \in 1 .. n : F[k] = Add(F[k - 1], fs[k])
        /\ AddAll(s, fs) = F[n]
  BY AdditionsAre
<1>2. \A k \in 0 .. n : Fit(F[k])
  BY DEF Fits
<1> HIDE DEF n
<1> DEFINE Good(k) == In(F[k]) \subseteq In(s) \cup ToSet(fs) /\ Lost(s, F[k], Burst * k)
           A == {k \in 0 .. n : Good(k)}
<1>3. \A k \in 1 .. n : k - 1 \in 0 .. n /\ k \in 0 .. n
  BY <1>0
<1>4. 0 \in A
  <2>1. Burst * 0 \in Nat
    BY BurstIs
  <2>2. Lost(s, s, Burst * 0)
    BY <2>1, LostNone
  <2> QED BY <2>2, <1>0, <1>1
<1>5. ASSUME NEW k \in 1 .. n, k - 1 \in A PROVE k \in A
  <2>1. Good(k - 1)
    BY <1>5
  <2> DEFINE x == F[k - 1]
  <2>2. F[k] = Add(x, fs[k]) /\ Fit(x) /\ fs[k] \in Flows /\ fs[k] \in ToSet(fs)
    BY <1>0, <1>1, <1>2, <1>3
  <2>3. In(F[k]) \subseteq In(x) \cup {fs[k]} /\ Lost(x, F[k], Burst)
    BY <2>2, AddFits
  <2>4. In(F[k]) \subseteq In(s) \cup ToSet(fs)
    BY <2>1, <2>2, <2>3
  <2>5. Burst * (k - 1) \in Nat /\ Burst * (k - 1) + Burst = Burst * k
    <3>1. k - 1 \in Nat /\ Burst \in Nat
      BY <1>0, BurstIs
    <3> HIDE DEF Good
    <3> QED BY <3>1
  <2>6. Lost(s, F[k], Burst * (k - 1) + Burst)
    <3>1. Lost(s, x, Burst * (k - 1))
      BY <2>1
    <3> HIDE DEF x
    <3> QED BY <3>1, <2>3, <2>5, BurstIs, LostMore
  <2> QED BY <2>4, <2>5, <2>6, <1>3
<1>6. \A k \in 0 .. n : k \in A
  <2> HIDE DEF A
  <2> QED BY <1>0, <1>4, <1>5, UpTo
<1>7. n \in 0 .. n /\ n \in 1 .. n /\ n - 1 \in 0 .. n
  BY <1>0
<1>8. Good(n)
  BY <1>6, <1>7
<1>9. Found(F[n], fs[n])
  BY <1>0, <1>1, <1>2, <1>7, AddFits
<1> QED BY <1>1, <1>2, <1>7, <1>8, <1>9 DEF n

-----------------------------------------------------------------------------
(* Which flows of a trace are added: the first of each run of one flow. *)
Firsts(trace, F) ==
  F = [k \in 0 .. Len(trace) |->
         IF k = 0 THEN <<>>
         ELSE IF k > 1 /\ trace[k - 1] = trace[k] THEN F[k - 1] ELSE Append(F[k - 1], trace[k])]

Grown(trace, k, x) == IF k > 1 /\ trace[k - 1] = trace[k] THEN x ELSE Append(x, trace[k])

GrowIn(t, n, Q)  == \A k \in 1 .. n, x \in Q : Grown(t, k, x) \in Q
Grow(t, n, z, F) == F[0] = z /\ \A k \in 1 .. n : F[k] = Grown(t, k, F[k - 1])

LEMMA GrownSteps ==
  ASSUME NEW t, NEW Q, NEW none \in Q, NEW n \in Nat, GrowIn(t, n, Q)
  PROVE  /\ \E F \in [0 .. n -> Q] : Grow(t, n, none, F)
         /\ \A F : Grow(t, n, none, F) => \A k \in 0 .. n : F[k] \in Q
<1> DEFINE step == [k \in 1 .. n |-> [x \in Q |-> Grown(t, k, x)]]
<1>1. \A k \in 1 .. n : k - 1 \in 0 .. n
  OBVIOUS
<1>2. step \in [1 .. n -> [Q -> Q]]
  BY DEF GrowIn
<1>3. PICK F \in [0 .. n -> Q] : F[0] = none /\ \A k \in 1 .. n : F[k] = step[k][F[k - 1]]
  <2> HIDE DEF step
  <2> QED BY <1>2, Stepped
<1>4. \A k \in 1 .. n : F[k] = Grown(t, k, F[k - 1])
  BY <1>1, <1>3
<1>5. ASSUME NEW G, Grow(t, n, none, G)
      PROVE  \A k \in 0 .. n : G[k] \in Q
  <2> DEFINE A == {k \in 0 .. n : G[k] \in Q}
  <2>1. 0 \in A
    BY <1>5 DEF Grow
  <2>2. \A k \in 1 .. n : k - 1 \in A => k \in A
    BY <1>5 DEF Grow, GrowIn
  <2>3. \A k \in 0 .. n : k \in A
    <3> HIDE DEF A
    <3> QED BY <2>1, <2>2, UpTo
  <2> QED BY <2>3
<1>6. Grow(t, n, none, F)
  BY <1>3, <1>4 DEF Grow
<1> QED BY <1>5, <1>6

LEMMA FirstsAre ==
  ASSUME NEW trace \in Seq(Flows)
  PROVE  \E F \in [0 .. Len(trace) -> Seq(Flows)] :
           Grow(trace, Len(trace), <<>>, F) /\ Runs(trace) = F[Len(trace)]
<1> DEFINE n == Len(trace)
           Q == Seq(Flows)
           none == <<>>
<1>1. n \in Nat /\ none \in Q /\ GrowIn(trace, n, Q)
  BY DEF Grown, GrowIn
<1>2. \A f : Firsts(trace, f) <=> f = [k \in 0 .. n |-> IF k = 0 THEN none ELSE Grown(trace, k, f[k - 1])]
  BY DEF Firsts, Grown
<1> DEFINE F == CHOOSE g : Firsts(trace, g)
<1>3. Runs(trace) = F[n]
  BY DEF Runs, Firsts
<1> HIDE DEF n, Q, none
<1>4. PICK G \in [0 .. n -> Q] : Grow(trace, n, none, G)
  BY <1>1, GrownSteps
<1>5. G = [k \in 0 .. n |-> IF k = 0 THEN none ELSE Grown(trace, k, G[k - 1])]
  <2>1. \A k \in 0 .. n : G[k] = IF k = 0 THEN none ELSE Grown(trace, k, G[k - 1])
    BY <1>1, <1>4 DEF Grow
  <2>2. G = [k \in 0 .. n |-> G[k]]
    OBVIOUS
  <2> QED BY <2>1, <2>2
<1>6. Firsts(trace, F)
  BY <1>2, <1>5
<1> HIDE DEF F
<1>7. F = [k \in 0 .. n |-> IF k = 0 THEN none ELSE Grown(trace, k, F[k - 1])]
  BY <1>2, <1>6
<1>8. Grow(trace, n, none, F)
  <2>1. \A k \in 0 .. n : F[k] = IF k = 0 THEN none ELSE Grown(trace, k, F[k - 1])
    BY <1>7
  <2>2. 0 \in 0 .. n /\ \A k \in 1 .. n : k \in 0 .. n /\ k # 0
    BY <1>1
  <2> QED BY <2>1, <2>2 DEF Grow
<1>9. F \in [0 .. n -> Q]
  <2>1. \A k \in 0 .. n : F[k] \in Q
    BY <1>1, <1>8, GrownSteps
  <2> QED BY <2>1, <1>7
<1> QED BY <1>3, <1>8, <1>9 DEF n, Q, none

LEMMA RunsAre ==
  ASSUME NEW trace \in Seq(Flows), trace # <<>>
  PROVE  /\ Runs(trace) \in Seq(Flows) /\ Runs(trace) # <<>> /\ Len(Runs(trace)) <= Len(trace)
         /\ Runs(trace)[Len(Runs(trace))] = trace[Len(trace)]
         /\ ToSet(Runs(trace)) \subseteq ToSet(trace)
<1> DEFINE n == Len(trace)
<1>0. n \in Nat /\ n >= 1 /\ \A k \in 1 .. n : trace[k] \in Flows /\ trace[k] \in ToSet(trace)
  BY DEF ToSet
<1>1. PICK F \in [0 .. n -> Seq(Flows)] :
        /\ F[0] = <<>> /\ \A k \in 1 .. n : F[k] = Grown(trace, k, F[k - 1])
        /\ Runs(trace) = F[n]
  BY FirstsAre DEF Grow
<1> HIDE DEF n
<1>2. \A k \in 1 .. n : k - 1 \in 0 .. n /\ k \in 0 .. n
  BY <1>0
<1> DEFINE Good(k) ==
             /\ F[k] \in Seq(Flows) /\ Len(F[k]) <= k /\ ToSet(F[k]) \subseteq ToSet(trace)
             /\ k # 0 => F[k] # <<>> /\ F[k][Len(F[k])] = trace[k]
           A == {k \in 0 .. n : Good(k)}
<1>3. 0 \in A
  <2> DEFINE none == <<>>
  <2>1. none \in Seq(Flows) /\ Len(none) <= 0 /\ ToSet(none) = {}
    BY DEF ToSet
  <2>2. F[0] = none
    BY <1>1
  <2> HIDE DEF none
  <2>3. Good(0)
    BY <2>1, <2>2
  <2> HIDE DEF Good
  <2> QED BY <2>3, <1>0
<1>4. ASSUME NEW k \in 1 .. n, k - 1 \in A PROVE k \in A
  <2> DEFINE x == F[k - 1]
  <2>1. x \in Seq(Flows) /\ Len(x) <= k - 1 /\ Len(x) \in Nat /\ ToSet(x) \subseteq ToSet(trace)
    BY <1>4
  <2>2. k - 1 # 0 => x # <<>> /\ x[Len(x)] = trace[k - 1]
    BY <1>4
  <2>3. F[k] = Grown(trace, k, x)
    BY <1>1
  <2> HIDE DEF x
  <2>4. CASE k > 1 /\ trace[k - 1] = trace[k]
    <3>1. F[k] = x
      BY <2>3, <2>4 DEF Grown
    <3> QED BY <3>1, <2>1, <2>2, <2>4, <1>2
  <2>5. CASE ~(k > 1 /\ trace[k - 1] = trace[k])
    <3>1. F[k] = Append(x, trace[k])
      BY <2>3, <2>5 DEF Grown
    <3>2. trace[k] \in Flows /\ trace[k] \in ToSet(trace)
      BY <1>0
    <3>3. F[k] \in Seq(Flows) /\ Len(F[k]) = Len(x) + 1 /\ ToSet(F[k]) = ToSet(x) \cup {trace[k]}
      BY <3>1, <3>2, <2>1, AppendIs
    <3>4. F[k] # <<>> /\ F[k][Len(F[k])] = trace[k]
      BY <3>1, <3>2, <3>3, <2>1
    <3> QED BY <3>2, <3>3, <3>4, <2>1, <1>2
  <2> QED BY <2>4, <2>5
<1>5. \A k \in 0 .. n : k \in A
  <2> HIDE DEF A
  <2> QED BY <1>0, <1>3, <1>4, UpTo
<1>6. Good(n) /\ n # 0
  BY <1>0, <1>5
<1> QED BY <1>1, <1>6 DEF n

-----------------------------------------------------------------------------
(* What an addition leaves of the invariant: the table fits, what was added last is
   found, and all that is in the table was alerted. *)
Sound ==
  /\ Fit(Now) /\ busy \in BOOLEAN
  /\ latest \in Flows \cup {EMPTY} /\ alerted \subseteq Flows
  /\ latest # EMPTY => Found(Now, latest)
  /\ In(Now) \subseteq alerted

LEMMA NowIs ==
  /\ Now.slot = slot /\ Now.ring = ring /\ Now.filter = filter
  /\ In(Now) = Stored
BY DEF Now, In, Stored

LEMMA TracesAre ==
  ASSUME NEW trace \in Traces
  PROVE  /\ trace \in Seq(Flows) /\ trace # <<>> /\ Len(trace) \in 1 .. MaxTrace
         /\ Last(trace) = trace[Len(trace)] /\ ToSet(trace) \subseteq Flows
<1>1. PICK n \in 1 .. MaxTrace : trace \in [1 .. n -> Flows]
  BY DEF Traces
<1>2. n \in Nat /\ n >= 1
  BY <1>1, IgnoreAssumption
<1>3. trace \in Seq(Flows) /\ Len(trace) = n
  BY <1>1, <1>2
<1>4. trace # <<>>
  BY <1>2, <1>3
<1> QED BY <1>1, <1>3, <1>4 DEF Last, ToSet

(* A verdict. *)
LEMMA VerdictIs ==
  ASSUME Sound, NEW trace \in Traces, Verdict(trace)
  PROVE  /\ Now' = AddAll(Now, Runs(trace))
         /\ Fit(Now)' /\ Found(Now', Last(trace))
         /\ In(Now)' \subseteq In(Now) \cup ToSet(trace)
         /\ Lost(Now, Now', Burst * MaxTrace)
         /\ Last(trace) \in Flows /\ Last(trace) \in ToSet(trace)
<1> DEFINE q == Runs(trace)
           r == AddAll(Now, q)
<1>1. /\ trace \in Seq(Flows) /\ trace # <<>> /\ Len(trace) \in 1 .. MaxTrace
      /\ Last(trace) = trace[Len(trace)]
  BY TracesAre
<1>2. /\ q \in Seq(Flows) /\ q # <<>> /\ Len(q) <= Len(trace)
      /\ q[Len(q)] = Last(trace) /\ ToSet(q) \subseteq ToSet(trace)
  BY <1>1, RunsAre
<1>3. slot' = r.slot /\ ring' = r.ring /\ filter' = r.filter
  BY DEF Verdict, Now
<1> HIDE DEF q
<1>4. Fit(Now)
  BY DEF Sound
<1>5. /\ Fit(r) /\ Found(r, Last(trace)) /\ In(r) \subseteq In(Now) \cup ToSet(q)
      /\ Lost(Now, r, Burst * Len(q))
  BY <1>2, <1>4, AllFits
<1> HIDE DEF r
<1>6. r = [slot |-> r.slot, ring |-> r.ring, filter |-> r.filter]
  BY <1>5 DEF Fit, Tables
<1>7. Now' = r
  BY <1>3, <1>6 DEF Now
<1>8. Lost(Now, r, Burst * MaxTrace)
  <2>1. Len(q) \in Nat /\ Len(q) <= MaxTrace /\ MaxTrace \in Nat /\ Burst \in Nat
    BY <1>1, <1>2, IgnoreAssumption, BurstIs
  <2>2. Burst * Len(q) <= Burst * MaxTrace /\ Burst * Len(q) \in Int /\ Burst * MaxTrace \in Int
    BY <2>1
  <2>3. Cardinality(In(Now) \ In(r)) \in Nat
    BY <1>5, FS_CardinalityType DEF Lost
  <2> QED BY <2>2, <2>3, <1>5 DEF Lost
<1>9. Last(trace) \in Flows /\ Last(trace) \in ToSet(trace)
  BY <1>1 DEF ToSet
<1> QED BY <1>2, <1>5, <1>7, <1>8, <1>9 DEF r, q

-----------------------------------------------------------------------------
LEMMA InitSound == ASSUME Init PROVE Sound
<1>1. slot = [i \in Slots |-> EMPTY] /\ ring = <<>> /\ filter = {}
  BY DEF Init
<1>2. Now \in Tables
  <2>1. slot \in [Slots -> Flows \cup {EMPTY}] /\ ring \in Seq(Slots) /\ filter \in SUBSET AllBits
    BY <1>1
  <2> QED BY <2>1 DEF Now, Tables
<1>3. Len(ring) < Size
  BY <1>1, IgnoreAssumption
<1>4. Filled(Now) = {}
  BY <1>1, NowIs DEF Filled
<1>5. Fit(Now)
  BY <1>2, <1>3, <1>4, NowIs DEF Fit
<1>6. In(Now) = {}
  BY <1>1, NowIs, IgnoreAssumption DEF Stored
<1> QED BY <1>5, <1>6 DEF Init, Sound

LEMMA StepSound == ASSUME Sound, [Next]_vars PROVE Sound'
<1>1. ASSUME UNCHANGED <<slot, ring, filter, alerted, latest>>, busy' \in BOOLEAN PROVE Sound'
  <2>1. Now' = Now
    BY <1>1 DEF Now
  <2>2. Fit(Now) /\ In(Now) \subseteq alerted /\ (latest # EMPTY => Found(Now, latest))
    BY DEF Sound
  <2>3. latest \in Flows \cup {EMPTY} /\ alerted \subseteq Flows
    BY DEF Sound
  <2> HIDE DEF Now
  <2>4. Fit(Now)' /\ In(Now)' \subseteq alerted' /\ (latest' # EMPTY => Found(Now', latest'))
    <3>1. Fit(Now') /\ In(Now') \subseteq alerted' /\ (latest' # EMPTY => Found(Now', latest'))
      BY <1>1, <2>1, <2>2
    <3> QED BY <3>1 DEF Fit, In, Tables, Filled, Now
  <2> QED BY <1>1, <2>3, <2>4 DEF Sound
<1>2. CASE \E f \in Flows : Verify(f)
  BY <1>1, <1>2 DEF Verify
<1>3. CASE Finish
  BY <1>1, <1>3 DEF Finish
<1>4. CASE UNCHANGED vars
  BY <1>1, <1>4 DEF vars, Sound
<1>5. ASSUME NEW trace \in Traces, Verdict(trace) PROVE Sound'
  <2>1. /\ Fit(Now)' /\ Found(Now', Last(trace)) /\ In(Now)' \subseteq In(Now) \cup ToSet(trace)
        /\ Last(trace) \in Flows
    BY <1>5, VerdictIs
  <2>2. alerted' = alerted \cup ToSet(trace) /\ latest' = Last(trace) /\ busy' = busy
    BY <1>5 DEF Verdict
  <2>3. ToSet(trace) \subseteq Flows
    BY TracesAre
  <2>4. busy \in BOOLEAN /\ In(Now) \subseteq alerted /\ alerted \subseteq Flows
    BY DEF Sound
  <2>5. busy' \in BOOLEAN
    BY <2>2, <2>4
  <2>6. latest' \in Flows \cup {EMPTY} /\ alerted' \subseteq Flows /\ In(Now)' \subseteq alerted'
    BY <2>1, <2>2, <2>3, <2>4
  <2>7. Found(Now', latest')
    BY <2>1, <2>2
  <2> QED BY <2>1, <2>5, <2>6, <2>7 DEF Sound
<1> QED BY <1>2, <1>3, <1>4, <1>5 DEF Next

LEMMA SoundTable == ASSUME Sound PROVE TableSound
<1>1. /\ slot \in [Slots -> Flows \cup {EMPTY}] /\ ring \in Seq(Slots) /\ filter \subseteq AllBits
      /\ Len(ring) < Size /\ (Size > 1 => Filled(Now) \subseteq ToSet(ring))
  BY TableIs, NowIs DEF Sound, Fit
<1>2. TypeOK
  BY <1>1 DEF Sound, TypeOK, AllBits
<1>3. FilledInRing
  BY <1>1, NowIs DEF FilledInRing, Filled
<1>4. LatestFound
  <2> SUFFICES ASSUME latest # EMPTY PROVE Ignores(latest)
    BY DEF LatestFound
  <2>1. Bits(latest) \subseteq filter /\ Find(slot, latest) \in Slots /\ slot[Find(slot, latest)] = latest
    BY NowIs DEF Sound, Found
  <2>2. Find(slot, latest) # -1
    BY <2>1, SlotsAre
  <2> QED BY <2>1, <2>2 DEF Ignores, FilterHas, Holds
<1> QED BY <1>2, <1>3, <1>4 DEF TableSound

LEMMA SoundIgnored == ASSUME Sound PROVE IgnoredAlerted
<1> SUFFICES ASSUME NEW f \in Flows, Ignores(f) PROVE f \in alerted
  BY DEF IgnoredAlerted
<1> DEFINE T == Stops(slot, f)
           c == CHOOSE i \in T : \A k \in T : i <= k
<1>1. Find(slot, f) # -1 /\ slot[Find(slot, f)] = f
  BY DEF Ignores, Holds
<1>2. T # {} /\ Find(slot, f) = Probe(f)[c]
  BY <1>1 DEF Find, Stops
<1>3. T \in SUBSET (1 .. Size) /\ Size \in Nat
  BY IgnoreAssumption DEF Stops
<1>4. \E k \in T : \A l \in T : k <= l
  <2> HIDE DEF T
  <2> QED BY <1>2, <1>3, Least
<1>5. c \in 1 .. Size
  <2> HIDE DEF T
  <2> QED BY <1>3, <1>4
<1>6. Find(slot, f) \in Slots
  <2> HIDE DEF c
  <2> QED BY <1>2, <1>5, ProbeAll
<1>7. f \in Stored
  BY <1>1, <1>6 DEF Stored
<1> QED BY <1>7, NowIs DEF Sound

-----------------------------------------------------------------------------
LEMMA Invariance == Spec => []Sound
<1>1. Init => Sound
  BY InitSound
<1>2. Sound /\ [Next]_vars => Sound'
  BY StepSound
<1> QED BY <1>1, <1>2, PTL DEF Spec

(* After any additions, in any order and of flows that share homes and bits, every
   filled slot is in the ring, so that none is lost to the eviction, a search ends,
   and the flow that was added last is found (mmt_set_ex_add); for tables of any size,
   any hash and evictions of any number of elements. *)
THEOREM TableIsSound == Spec => []TableSound
<1>1. Sound => TableSound
  BY SoundTable
<1> QED BY <1>1, Invariance, PTL

(* Neither the filter nor a search that ends in another flow's slot makes a flow be
   ignored that no verdict was given on (mmt_single_is_ignore_remain_flow). *)
THEOREM OnlyAlerted == Spec => []IgnoredAlerted
<1>1. Sound => IgnoredAlerted
  BY SoundIgnored
<1> QED BY <1>1, Invariance, PTL

-----------------------------------------------------------------------------
MemorySize == IF Size = 1 THEN 1 ELSE Size - 1

(* No more flows than the ring has places. *)
LEMMA StoredFew == ASSUME Sound PROVE IsFiniteSet(Stored) /\ Cardinality(Stored) <= MemorySize
<1> DEFINE W == Filled(Now)
           g == [i \in W |-> slot[i]]
<1>1. /\ slot \in [Slots -> Flows \cup {EMPTY}] /\ ring \in Seq(Slots) /\ Len(ring) < Size
      /\ (Size > 1 => W \subseteq ToSet(ring)) /\ Len(ring) \in Nat /\ Size \in Nat
  BY TableIs, NowIs, IgnoreAssumption DEF Sound, Fit
<1>2. W \subseteq Slots /\ (\A i \in W : slot[i] \in Flows) /\ \A f \in Stored : \E i \in W : slot[i] = f
  BY <1>1, NowIs, IgnoreAssumption DEF Filled, Stored
<1>3. g \in Surjection(W, Stored)
  <2>1. \A i \in W : slot[i] \in Stored
    BY <1>2 DEF Stored
  <2> HIDE DEF W
  <2> QED BY <1>2, <2>1 DEF Surjection
<1> HIDE DEF g, W
<1>4. IsFiniteSet(W)
  BY <1>2, SlotsAre, FS_Subset
<1>5. Cardinality(W) <= MemorySize
  <2>1. CASE Size = 1
    <3>1. Cardinality(W) <= Cardinality(Slots)
      BY <1>2, SlotsAre, FS_Subset
    <3> QED BY <2>1, <3>1, SlotsAre DEF MemorySize
  <2>2. CASE Size # 1
    <3>1. ring \in Surjection(1 .. Len(ring), ToSet(ring))
      BY <1>1 DEF Surjection, ToSet
    <3>0. Len(ring) \in Nat
      BY <1>1
    <3>2. IsFiniteSet(1 .. Len(ring)) /\ Cardinality(1 .. Len(ring)) = Len(ring)
      BY SMTT(30), <3>0, FS_Interval
    <3>3. IsFiniteSet(ToSet(ring)) /\ Cardinality(ToSet(ring)) <= Len(ring)
      BY <3>1, <3>2, FS_Surjection
    <3>4. Size > 1
      BY <2>2, IgnoreAssumption
    <3>5. Cardinality(W) <= Cardinality(ToSet(ring))
      BY <1>1, <3>3, <3>4, FS_Subset
    <3>6. Cardinality(W) \in Nat /\ Cardinality(ToSet(ring)) \in Nat
      BY <1>4, <3>3, FS_CardinalityType
    <3> QED BY <1>1, <2>2, <3>3, <3>5, <3>6 DEF MemorySize
  <2> QED BY <2>1, <2>2
<1>6. IsFiniteSet(Stored) /\ Cardinality(Stored) <= Cardinality(W)
  BY <1>3, <1>4, FS_Surjection
<1>7. Cardinality(Stored) \in Nat /\ Cardinality(W) \in Nat /\ MemorySize \in Nat
  BY <1>1, <1>4, <1>6, FS_CardinalityType, IgnoreAssumption DEF MemorySize
<1> QED BY <1>5, <1>6, <1>7

LEMMA SameCardinality == \A S : Memory!Cardinality(S) = Cardinality(S)
BY DEF Memory!Cardinality, Cardinality

LEMMA VerdictRemembers ==
  ASSUME Sound, NEW trace \in Traces, Verdict(trace)
  PROVE  Memory!Remember
<1> DEFINE new == ToSet(trace)
           kept == Stored'
<1>1. /\ In(Now)' \subseteq In(Now) \cup ToSet(trace) /\ Lost(Now, Now', Burst * MaxTrace)
      /\ Found(Now', Last(trace)) /\ Last(trace) \in Flows /\ Last(trace) \in ToSet(trace)
  BY VerdictIs
<1>2. In(Now) = Stored /\ In(Now)' = kept /\ In(Now') = kept /\ Now'.slot = slot'
  BY DEF In, Now, Stored
<1>3. new \in (SUBSET Flows) \ {{}} /\ kept \in SUBSET Flows
  <2>1. new \subseteq Flows
    BY TracesAre
  <2> QED BY <2>1, <1>1 DEF Stored
<1>4. Last(trace) \in kept \cap new
  <2>1. \E i \in Slots : slot'[i] = Last(trace)
    BY <1>1, <1>2 DEF Found
  <2> QED BY <2>1, <1>1 DEF Stored
<1>5. Cardinality(Stored \ kept) <= Burst * MaxTrace
  BY <1>1, <1>2 DEF Lost
<1>6. Cardinality(kept) <= MemorySize
  <2>1. Sound'
    BY StepSound DEF Next
  <2>2. (IsFiniteSet(Stored) /\ Cardinality(Stored) <= MemorySize)'
    BY <2>1, StoredFew, PTL
  <2> QED BY <2>2 DEF MemorySize
<1>7. kept \subseteq Stored \cup new
  BY <1>1, <1>2
<1> HIDE DEF new, kept
<1>8. \E n \in (SUBSET Flows) \ {{}}, k \in SUBSET Flows :
        /\ k \subseteq Stored \cup n /\ k \cap n # {}
        /\ Cardinality(Stored \ k) <= Burst * MaxTrace
        /\ Cardinality(k) <= MemorySize
        /\ kept = k
  BY <1>3, <1>4, <1>5, <1>6, <1>7
<1> QED BY <1>8, SameCardinality DEF Memory!Remember, MemorySize, kept

(* The table, with its ring and its filter, implements a bounded memory: a verdict adds
   its flows, may make as many others be forgotten as it may evict, and nothing is
   forgotten otherwise. *)
THEOREM MemoryRefinement == Spec => ImplementsMemory
<1>1. Init => Memory!Init
  <2> SUFFICES ASSUME Init PROVE Stored = {}
    BY DEF Memory!Init
  <2> QED BY IgnoreAssumption DEF Init, Stored
<1>2. Sound /\ [Next]_vars => [Memory!Remember]_Stored
  <2> SUFFICES ASSUME Sound, [Next]_vars PROVE Memory!Remember \/ Stored' = Stored
    OBVIOUS
  <2>1. CASE \E trace \in Traces : Verdict(trace)
    BY <2>1, VerdictRemembers
  <2>2. CASE UNCHANGED slot
    BY <2>2 DEF Stored
  <2> QED BY <2>1, <2>2 DEF Next, Verify, Finish, vars
<1> QED BY <1>1, <1>2, Invariance, PTL DEF Spec, ImplementsMemory, Memory!Spec
=============================================================================
