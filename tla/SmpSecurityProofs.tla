------------------------- MODULE SmpSecurityProofs --------------------------
(***************************************************************************)
(* The multi-threaded front end is safe for every number of threads, every *)
(* capacity of the rings and every set of rules.  What a thread verified,  *)
(* popped and has in its ring is one line of messages: the dispatcher adds *)
(* to its end and only the NULL that ends the thread leaves it.  LineInv   *)
(* says what the line of each thread looks like, RefInv that the count of  *)
(* a message is never below the references the threads still have.         *)
(***************************************************************************)
EXTENDS SmpSecurity, FiniteSetTheorems, SequenceTheorems, TLAPS

(* What thread t was given, from the first message it verified to the last one
   in its ring. *)
Line(t) == (processed[t] \o batch[t]) \o ring[t]

(* The numbers go up, and NULL comes last. *)
Rising(s) ==
  \A i, j \in DOMAIN s : i < j => s[i] # NULL /\ (s[j] = NULL \/ s[i] < s[j])

(* mmt_smp_sec_unregister has begun. *)
Stopped == cur = NULL /\ dpc # "idle"

LinesRise == \A t \in Threads : Rising(Line(t))

(* A thread meets NULL, or has ended, only when NULL was pushed to it. *)
EndGiven ==
  \A t \in Threads :
    NULL \in Elements(Line(t)) \/ wpc[t] = "done" =>
      Stopped /\ (dpc = "push" => t \notin mask)

(* The message being pushed is the newest, and new to those still to get it. *)
CurNewest ==
  dpc = "push" /\ cur # NULL =>
    cur = Len(submitted) /\ \A t \in mask : cur \notin Elements(Line(t))

(* Only the last message can have been cut short. *)
CutNewest == cut # NULL => Stopped /\ cut = Len(submitted)

(* Every message is in the line of each thread it concerns, or on its way. *)
AllInLine ==
  \A t \in Threads, m \in Messages :
    Wants(t, m) => \/ m \in Elements(Line(t))
                   \/ m = cut
                   \/ dpc = "push" /\ cur = m /\ t \in mask

(* What a thread does says what it has in hand. *)
InHand ==
  \A t \in Threads :
    /\ wpc[t] = "poll" => batch[t] = <<>>
    /\ wpc[t] = "work" => batch[t] # <<>>
    /\ wpc[t] \in {"free", "subtract"} <=> pending[t] # <<>>
    /\ wpc[t] = "done" => batch[t] = <<>> /\ ring[t] = <<>>

(* The dispatcher waits for the threads in order, then for none. *)
JoinedInTurn ==
  /\ dpc = "join" => \A t \in 1 .. turn - 1 : wpc[t] = "done"
  /\ dpc \in {"release", "gone"} => \A t \in Threads : wpc[t] = "done"

LineInv ==
  /\ LinesRise /\ EndGiven /\ CurNewest /\ CutNewest /\ AllInLine
  /\ InHand /\ JoinedInTurn

(* The threads that are to verify m, those that keep it, those giving it up. *)
Way(m) ==
  {t \in Threads : \/ dpc = "push" /\ cur = m /\ t \in mask
                   \/ m \in Elements(ring[t]) \cup Elements(batch[t])}
Keep(m) == {t \in Threads : m \in held[t]}
Give(m) == {t \in Threads : m \in Elements(pending[t])}

(* The count of a message covers every reference to it, a thread that keeps a
   message and gives up its own reference having two. *)
Counted ==
  \A m \in Messages :
    ref[m] >= Cardinality(Way(m)) + Cardinality(Keep(m)) + Cardinality(Give(m))

(* What is kept was verified before; nothing is given up twice. *)
KeptVerified == \A t \in Threads : held[t] \subseteq Elements(processed[t])
GivenOnce ==
  \A t \in Threads : \A i, j \in DOMAIN pending[t] : pending[t][i] = pending[t][j] => i = j

(* A message that is freed is in no thread's reach. *)
Unreachable == \A m \in freed : Way(m) = {} /\ Keep(m) = {} /\ Give(m) = {}

RefInv == Counted /\ KeptVerified /\ GivenOnce /\ Unreachable

IInv == TypeOK /\ LineInv /\ RefInv

-----------------------------------------------------------------------------
(* Sequences as the sets of their elements. *)
LEMMA ElementsConcat ==
  ASSUME NEW S, NEW s \in Seq(S), NEW u \in Seq(S)
  PROVE  Elements(s \o u) = Elements(s) \cup Elements(u)
<1>1. /\ DOMAIN (s \o u) = 1 .. Len(s) + Len(u)
      /\ \A i \in 1 .. Len(s) + Len(u) :
           (s \o u)[i] = IF i <= Len(s) THEN s[i] ELSE u[i - Len(s)]
  BY ConcatProperties
<1>2. ASSUME NEW x \in Elements(s \o u) PROVE x \in Elements(s) \cup Elements(u)
  <2>1. PICK i \in 1 .. Len(s) + Len(u) : (s \o u)[i] = x
    BY <1>1 DEF Elements
  <2>2. CASE i <= Len(s)
    BY <1>1, <2>1, <2>2 DEF Elements
  <2>3. CASE i > Len(s)
    <3>1. i - Len(s) \in DOMAIN u /\ u[i - Len(s)] = x
      BY <1>1, <2>1, <2>3
    <3> QED BY <3>1 DEF Elements
  <2> QED BY <2>2, <2>3
<1>3. ASSUME NEW x \in Elements(s) PROVE x \in Elements(s \o u)
  <2>1. PICK i \in 1 .. Len(s) : s[i] = x
    BY DEF Elements
  <2>2. i \in 1 .. Len(s) + Len(u) /\ (s \o u)[i] = x
    BY <1>1, <2>1
  <2> QED BY <1>1, <2>2 DEF Elements
<1>4. ASSUME NEW x \in Elements(u) PROVE x \in Elements(s \o u)
  <2>1. PICK i \in 1 .. Len(u) : u[i] = x
    BY DEF Elements
  <2>2. Len(s) + i \in 1 .. Len(s) + Len(u) /\ (s \o u)[Len(s) + i] = x
    BY <1>1, <2>1
  <2> QED BY <1>1, <2>2 DEF Elements
<1> QED BY <1>2, <1>3, <1>4

LEMMA ElementsOne == ASSUME NEW x PROVE Elements(<<x>>) = {x} /\ Elements(<<>>) = {}
BY DEF Elements

LEMMA ElementsAppend ==
  ASSUME NEW S, NEW s \in Seq(S), NEW x \in S
  PROVE  Elements(Append(s, x)) = Elements(s) \cup {x}
<1>1. Append(s, x) = s \o <<x>> /\ <<x>> \in Seq(S)
  BY AppendIsConcat
<1>2. Elements(s \o <<x>>) = Elements(s) \cup Elements(<<x>>)
  BY <1>1, ElementsConcat, Zenon
<1> QED BY <1>1, <1>2, ElementsOne

LEMMA ElementsHeadTail ==
  ASSUME NEW S, NEW s \in Seq(S), s # <<>>
  PROVE  /\ Elements(s) = {Head(s)} \cup Elements(Tail(s))
         /\ s = <<Head(s)>> \o Tail(s)
         /\ Head(s) \in S /\ Tail(s) \in Seq(S) /\ Len(Tail(s)) = Len(s) - 1
<1>1. /\ Head(s) \in S /\ Tail(s) \in Seq(S) /\ s = <<Head(s)>> \o Tail(s)
      /\ Len(Tail(s)) = Len(s) - 1
  BY ConcatProperties, HeadTailProperties, SeqEqual
<1>2. <<Head(s)>> \in Seq(S)
  BY <1>1
<1>3. Elements(<<Head(s)>> \o Tail(s)) = Elements(<<Head(s)>>) \cup Elements(Tail(s))
  BY <1>1, <1>2, ElementsConcat, Zenon
<1>4. Elements(s) = Elements(<<Head(s)>>) \cup Elements(Tail(s))
  BY <1>1, <1>3
<1>5. Elements(<<Head(s)>>) = {Head(s)}
  BY ElementsOne
<1> QED BY <1>1, <1>4, <1>5

LEMMA ElementsSplit ==
  ASSUME NEW S, NEW s \in Seq(S), NEW n \in 1 .. Len(s)
  PROVE  /\ s = SubSeq(s, 1, n) \o SubSeq(s, n + 1, Len(s))
         /\ SubSeq(s, 1, n) \in Seq(S) /\ SubSeq(s, n + 1, Len(s)) \in Seq(S)
         /\ SubSeq(s, 1, n) # <<>>
         /\ Elements(s) = Elements(SubSeq(s, 1, n)) \cup Elements(SubSeq(s, n + 1, Len(s)))
<1>1. SubSeq(s, 1, n) \in Seq(S) /\ SubSeq(s, n + 1, Len(s)) \in Seq(S) /\ Len(SubSeq(s, 1, n)) = n
  BY SubSeqProperties
<1>2. s = SubSeq(s, 1, n) \o SubSeq(s, n + 1, Len(s))
  BY ConcatAdjacentSubSeq, SubSeqFull
<1>3. SubSeq(s, 1, n) # <<>>
  BY <1>1
<1>4. Elements(SubSeq(s, 1, n) \o SubSeq(s, n + 1, Len(s)))
        = Elements(SubSeq(s, 1, n)) \cup Elements(SubSeq(s, n + 1, Len(s)))
  BY <1>1, ElementsConcat, Zenon
<1> QED BY <1>1, <1>2, <1>3, <1>4

LEMMA ElementsIn ==
  ASSUME NEW S, NEW s \in Seq(S)
  PROVE  Elements(s) \subseteq S
BY ElementOfSeq DEF Elements

(* Cardinalities of sets of threads. *)
LEMMA Count ==
  ASSUME NEW S \in SUBSET Threads
  PROVE  /\ Cardinality(S) \in Nat
         /\ S = {} => Cardinality(S) = 0
         /\ S # {} => Cardinality(S) >= 1
         /\ \A t \in S : Cardinality(S \ {t}) = Cardinality(S) - 1
         /\ \A t \in Threads \ S : Cardinality(S \cup {t}) = Cardinality(S) + 1
         /\ \A T \in SUBSET S : Cardinality(T) \in Nat /\ Cardinality(T) <= Cardinality(S)
<1>1. IsFiniteSet(Threads)
  BY FS_Interval, SmpAssumption DEF Threads
<1>2. IsFiniteSet(S) /\ \A T \in SUBSET S : IsFiniteSet(T) /\ Cardinality(T) <= Cardinality(S)
  BY <1>1, FS_Subset
<1>3. Cardinality(S) \in Nat /\ \A T \in SUBSET S : Cardinality(T) \in Nat
  BY <1>2, FS_CardinalityType
<1>4. S = {} <=> Cardinality(S) = 0
  BY <1>2, FS_EmptySet
<1>5. \A t \in S : Cardinality(S \ {t}) = Cardinality(S) - 1
  BY <1>2, FS_RemoveElement
<1>6. \A t \in Threads \ S : Cardinality(S \cup {t}) = Cardinality(S) + 1
  BY <1>2, FS_AddElement
<1> QED BY <1>2, <1>3, <1>4, <1>5, <1>6

(* The order Verify puts the dropped messages in lists each of them once. *)
LEMMA OrderedOnce ==
  ASSUME NEW S, IsFiniteSet(S)
  PROVE  /\ Ordered(S) \in Seq(S) /\ Elements(Ordered(S)) = S
         /\ \A i, j \in DOMAIN Ordered(S) : Ordered(S)[i] = Ordered(S)[j] => i = j
<1> DEFINE n == Cardinality(S)
<1>1. n \in Nat /\ \E f : f \in Bijection(1 .. n, S)
  BY FS_CardinalityType DEF ExistsBijection
<1>2. \E s \in [1 .. n -> S] : \A m \in S : \E i \in DOMAIN s : s[i] = m
  BY <1>1 DEF Bijection, Surjection
<1>3. /\ Ordered(S) \in [1 .. n -> S]
      /\ \A m \in S : \E i \in DOMAIN Ordered(S) : Ordered(S)[i] = m
  BY <1>2 DEF Ordered
<1>4. Ordered(S) \in Seq(S) /\ Elements(Ordered(S)) = S
  BY <1>1, <1>3 DEF Elements
<1>5. Ordered(S) \in Surjection(1 .. n, S)
  BY <1>3 DEF Surjection
<1>6. IsFiniteSet(1 .. n) /\ Cardinality(1 .. n) = n
  BY <1>1, FS_Interval
<1>7. Ordered(S) \in Injection(1 .. n, S)
  BY <1>5, <1>6, FS_SurjSameCardinalityImpliesInj
<1>8. \A i, j \in DOMAIN Ordered(S) : Ordered(S)[i] = Ordered(S)[j] => i = j
  BY <1>3, <1>7 DEF Injection, IsInjective
<1> QED BY <1>4, <1>8

-----------------------------------------------------------------------------
LEMMA InitTypeOK == Init => TypeOK
<1> SUFFICES ASSUME Init PROVE TypeOK
  OBVIOUS
<1>1. 1 \in Threads
  BY SmpAssumption DEF Threads
<1> QED BY <1>1 DEF Init, TypeOK, Messages, NULL

(* A message more: what was typed by the messages before still is. *)
LEMMA MoreMessages ==
  ASSUME TypeOK, NEW attributes \in SUBSET Attributes, NEW n \in Nat,
         submitted' = Append(submitted, attributes),
         ref' = Append(ref, n)
  PROVE  /\ submitted' \in Seq(SUBSET Attributes)
         /\ Messages' = Messages \cup {Len(submitted) + 1}
         /\ Len(submitted') = Len(submitted) + 1
         /\ Len(submitted) + 1 \notin Messages
         /\ ref' \in [Messages' -> Nat]
         /\ \A m \in Messages : submitted'[m] = submitted[m] /\ ref'[m] = ref[m]
         /\ submitted'[Len(submitted) + 1] = attributes
         /\ ref'[Len(submitted) + 1] = n
         /\ ring \in [Threads -> Seq(Messages' \cup {NULL})]
         /\ batch \in [Threads -> Seq(Messages' \cup {NULL})]
         /\ held \in [Threads -> SUBSET Messages']
         /\ pending \in [Threads -> Seq(Messages')]
         /\ processed \in [Threads -> Seq(Messages')]
<1>1. /\ submitted' \in Seq(SUBSET Attributes)
      /\ Len(submitted') = Len(submitted) + 1
      /\ \A m \in 1 .. Len(submitted) : submitted'[m] = submitted[m]
      /\ submitted'[Len(submitted) + 1] = attributes
  BY AppendProperties DEF TypeOK
<1>2. Messages = 1 .. Len(submitted) /\ Messages' = 1 .. Len(submitted) + 1 /\ Len(submitted) \in Nat
  BY <1>1, LenProperties DEF TypeOK, Messages
<1>3. ref \in Seq(Nat) /\ Len(ref) = Len(submitted)
  <2>1. ref \in [1 .. Len(submitted) -> Nat]
    BY <1>2 DEF TypeOK
  <2>2. ref \in Seq(Nat)
    BY <1>2, <2>1
  <2>3. DOMAIN ref = 1 .. Len(submitted) /\ DOMAIN ref = 1 .. Len(ref) /\ Len(ref) \in Nat
    BY <2>1, <2>2, LenProperties
  <2> QED BY <1>2, <2>2, <2>3
<1>4. /\ ref' \in Seq(Nat) /\ Len(ref') = Len(submitted) + 1
      /\ \A m \in Messages : ref'[m] = ref[m]
      /\ ref'[Len(submitted) + 1] = n
  BY <1>2, <1>3, AppendProperties
<1>5. ref' \in [Messages' -> Nat]
  BY <1>2, <1>4, LenProperties
<1>6. Messages \subseteq Messages'
  BY <1>2
<1>7. /\ ring \in [Threads -> Seq(Messages' \cup {NULL})]
      /\ batch \in [Threads -> Seq(Messages' \cup {NULL})]
  <2>1. \A s \in Seq(Messages \cup {NULL}) : s \in Seq(Messages' \cup {NULL})
    BY <1>6, SeqMonotonic
  <2> QED BY <2>1 DEF TypeOK
<1>8. pending \in [Threads -> Seq(Messages')] /\ processed \in [Threads -> Seq(Messages')]
  <2>1. \A s \in Seq(Messages) : s \in Seq(Messages')
    BY <1>6, SeqMonotonic
  <2> QED BY <2>1 DEF TypeOK
<1>9. held \in [Threads -> SUBSET Messages']
  BY <1>6 DEF TypeOK
<1> QED BY <1>1, <1>2, <1>4, <1>5, <1>7, <1>8, <1>9

LEMMA AroundType == ASSUME NEW t \in Threads PROVE Around(t) \in Threads
BY SmpAssumption DEF Around, Threads

(* How many threads a message concerns. *)
LEMMA RecipientsCount ==
  ASSUME NEW attributes, Recipients(attributes) # {}
  PROVE  /\ Recipients(attributes) \subseteq Threads
         /\ Cardinality(Recipients(attributes)) \in Nat \ {0}
         /\ 1 + (Cardinality(Recipients(attributes)) - 1) = Cardinality(Recipients(attributes))
<1>1. Recipients(attributes) \in SUBSET Threads
  BY DEF Recipients
<1>2. Cardinality(Recipients(attributes)) \in Nat /\ Cardinality(Recipients(attributes)) >= 1
  BY <1>1, Count
<1> QED BY <1>1, <1>2

(* What the head of a sequence of references is. *)
LEMMA PendingHead ==
  ASSUME TypeOK, NEW t \in Threads, pending[t] # <<>>
  PROVE  /\ Head(pending[t]) \in Messages
         /\ Tail(pending[t]) \in Seq(Messages)
         /\ Elements(pending[t]) = {Head(pending[t])} \cup Elements(Tail(pending[t]))
         /\ Tail(pending[t]) # <<>> <=> Len(pending[t]) > 1
<1>1. pending[t] \in Seq(Messages)
  BY DEF TypeOK
<1>2. /\ Head(pending[t]) \in Messages /\ Tail(pending[t]) \in Seq(Messages)
      /\ Elements(pending[t]) = {Head(pending[t])} \cup Elements(Tail(pending[t]))
      /\ Len(Tail(pending[t])) = Len(pending[t]) - 1
  BY <1>1, ElementsHeadTail
<1>3. Tail(pending[t]) # <<>> <=> Len(Tail(pending[t])) # 0
  BY <1>2, EmptySeq
<1>4. Len(pending[t]) \in Nat \ {0}
  BY <1>1, EmptySeq
<1> QED BY <1>2, <1>3, <1>4

(* What a thread gives up after a verification. *)
LEMMA GivenUp ==
  ASSUME TypeOK, NEW t \in Threads, NEW drop \in SUBSET held[t], NEW m \in Messages
  PROVE  /\ Ordered(drop) \o <<m>> \in Seq(Messages)
         /\ Elements(Ordered(drop) \o <<m>>) = drop \cup {m}
         /\ Ordered(drop) \o <<m>> # <<>>
         /\ m \notin drop =>
              \A i, j \in DOMAIN (Ordered(drop) \o <<m>>) :
                (Ordered(drop) \o <<m>>)[i] = (Ordered(drop) \o <<m>>)[j] => i = j
<1> DEFINE d == Ordered(drop)
           s == d \o <<m>>
<1>1. drop \subseteq Messages /\ IsFiniteSet(drop)
  <2>1. Messages = 1 .. Len(submitted) /\ Len(submitted) \in Nat
    BY LenProperties DEF TypeOK, Messages
  <2>2. IsFiniteSet(Messages)
    BY <2>1, FS_Interval
  <2>3. drop \in SUBSET Messages
    BY DEF TypeOK
  <2> QED BY <2>2, <2>3, FS_Subset
<1>2. /\ d \in Seq(drop) /\ Elements(d) = drop
      /\ \A i, j \in DOMAIN d : d[i] = d[j] => i = j
  BY <1>1, OrderedOnce
<1>3. d \in Seq(Messages) /\ <<m>> \in Seq(Messages) /\ Len(<<m>>) = 1 /\ <<m>>[1] = m
  BY <1>1, <1>2, SeqMonotonic
<1>4. /\ s \in Seq(Messages) /\ Len(s) = Len(d) + 1
      /\ \A i \in 1 .. Len(d) + 1 : s[i] = IF i <= Len(d) THEN d[i] ELSE <<m>>[i - Len(d)]
  BY <1>3, ConcatProperties
<1>5. Elements(s) = drop \cup {m}
  <2>1. Elements(s) = Elements(d) \cup Elements(<<m>>)
    BY <1>3, ElementsConcat
  <2> QED BY <2>1, <1>2, ElementsOne
<1>6. Len(d) \in Nat /\ DOMAIN d = 1 .. Len(d) /\ DOMAIN s = 1 .. Len(d) + 1
  BY <1>3, <1>4, LenProperties
<1>7. s # <<>>
  BY <1>4, <1>6
<1>8. ASSUME m \notin drop, NEW i \in DOMAIN s, NEW j \in DOMAIN s, s[i] = s[j]
      PROVE  i = j
  <2>1. \A k \in 1 .. Len(d) : s[k] = d[k] /\ d[k] \in drop
    BY <1>2, <1>4, <1>6, ElementOfSeq
  <2>2. s[Len(d) + 1] = m
    BY <1>3, <1>4, <1>6
  <2>3. \A k \in DOMAIN s : k \in 1 .. Len(d) \/ k = Len(d) + 1
    BY <1>6
  <2> QED BY <2>1, <2>2, <2>3, <1>2, <1>6, <1>8
<1> QED BY <1>4, <1>5, <1>7, <1>8

LEMMA NextTypeOK ==
  ASSUME TypeOK, LineInv, RefInv, [Next]_vars
  PROVE  TypeOK'
<1> USE DEF TypeOK
<1>1. ASSUME NEW attributes \in SUBSET Attributes, Discard(attributes) PROVE TypeOK'
  <2>1. Messages' = Messages \cup {Len(submitted) + 1} /\ Len(submitted') = Len(submitted) + 1
    BY <1>1, MoreMessages DEF Discard
  <2>2. freed' \subseteq Messages'
    BY <1>1, <2>1 DEF Discard
  <2> QED BY <1>1, <2>1, <2>2, MoreMessages DEF Discard, worker
<1>2. ASSUME NEW attributes \in SUBSET Attributes, Submit(attributes) PROVE TypeOK'
  <2>1. Recipients(attributes) # {} /\ 1 \in Threads
    BY <1>2, SmpAssumption DEF Submit, Threads
  <2>2. 1 + (Cardinality(Recipients(attributes)) - 1) \in Nat /\ Recipients(attributes) \subseteq Threads
    BY <2>1, RecipientsCount
  <2>3. submitted' = Append(submitted, attributes)
        /\ ref' = Append(ref, 1 + (Cardinality(Recipients(attributes)) - 1))
    BY <1>2 DEF Submit
  <2>4. Messages' = Messages \cup {Len(submitted) + 1} /\ Len(submitted') = Len(submitted) + 1
    BY <2>2, <2>3, MoreMessages
  <2>5. cur' \in Messages' \cup {NULL} /\ cut' \in Messages' \cup {NULL} /\ freed' \subseteq Messages'
    BY <1>2, <2>4 DEF Submit
  <2>6. /\ submitted' \in Seq(SUBSET Attributes) /\ ref' \in [Messages' -> Nat]
        /\ ring \in [Threads -> Seq(Messages' \cup {NULL})]
        /\ batch \in [Threads -> Seq(Messages' \cup {NULL})]
        /\ held \in [Threads -> SUBSET Messages']
        /\ pending \in [Threads -> Seq(Messages')]
        /\ processed \in [Threads -> Seq(Messages')]
    BY <2>2, <2>3, MoreMessages
  <2>7. dpc' = "push" /\ mask' \subseteq Threads /\ turn' \in Threads /\ UNCHANGED <<ring, worker>>
    BY <1>2, <2>1, <2>2 DEF Submit
  <2> QED BY <2>5, <2>6, <2>7 DEF worker
<1>3. CASE Stop
  BY SMTT(30), <1>3, SmpAssumption DEF Stop, worker, Messages, Threads
<1>4. CASE PushSkip
  BY <1>4, AroundType DEF PushSkip, worker, Messages
<1>5. CASE PushOne
  <2>1. ring' \in [Threads -> Seq(Messages \cup {NULL})]
    BY <1>5, AppendProperties DEF PushOne
  <2>2. turn' \in Threads /\ mask' \subseteq Threads /\ dpc' \in {"idle", "push", "join", "release", "gone"}
    <3>1. 1 \in Threads /\ Around(turn) \in Threads
      <4>1. 1 \in Threads
        BY SmpAssumption DEF Threads
      <4> QED BY <4>1, AroundType
    <3>2. mask' = mask \ {turn} /\ dpc' \in {dpc, AfterPush} /\ turn' \in {1, Around(turn)}
      BY <1>5 DEF PushOne
    <3>3. AfterPush \in {"idle", "join"}
      BY DEF AfterPush
    <3> QED BY <3>1, <3>2, <3>3
  <2> QED BY <1>5, <2>1, <2>2 DEF PushOne, worker, Messages
<1>6. CASE PushFull
  BY <1>6, AroundType DEF PushFull, worker, Messages
<1>7. CASE Join
  BY <1>7, AroundType DEF Join, worker, Messages
<1>8. CASE Release
  <2>1. Around(turn) \in Threads
    BY AroundType
  <2>2. ref' \in [Messages -> Nat]
    BY <1>8 DEF Release
  <2>3. freed' \subseteq Messages /\ held' \in [Threads -> SUBSET Messages]
    BY <1>8 DEF Release
  <2> QED BY <1>8, <2>1, <2>2, <2>3 DEF Release, Messages
<1>9. ASSUME NEW t \in Threads, Pop(t) PROVE TypeOK'
  <2>1. PICK n \in 1 .. Len(ring[t]) :
          /\ batch' = [batch EXCEPT ![t] = SubSeq(ring[t], 1, n)]
          /\ ring' = [ring EXCEPT ![t] = SubSeq(@, n + 1, Len(@))]
    BY <1>9 DEF Pop
  <2>2. /\ SubSeq(ring[t], 1, n) \in Seq(Messages \cup {NULL})
        /\ SubSeq(ring[t], n + 1, Len(ring[t])) \in Seq(Messages \cup {NULL})
    BY ElementsSplit
  <2> QED BY <1>9, <2>1, <2>2 DEF Pop, dispatcher, Messages
<1>10. ASSUME NEW t \in Threads, Verify(t) PROVE TypeOK'
  <2> DEFINE m == Head(batch[t])
  <2>1. PICK keep \in {{}, {m}}, drop \in SUBSET held[t] :
          /\ held' = [held EXCEPT ![t] = (@ \ drop) \cup keep]
          /\ ref' = IF keep = {} THEN ref ELSE [ref EXCEPT ![m] = @ + 1]
          /\ pending' = [pending EXCEPT ![t] = Ordered(drop) \o <<m>>]
          /\ processed' = [processed EXCEPT ![t] = Append(@, m)]
    BY <1>10 DEF Verify
  <2>2. batch[t] # <<>>
    BY <1>10 DEF Verify, Running, LineInv, InHand
  <2>3. m \in Messages /\ Tail(batch[t]) \in Seq(Messages \cup {NULL})
    BY <1>10, <2>2, HeadTailProperties DEF Verify
  <2>4. Ordered(drop) \o <<m>> \in Seq(Messages) /\ Append(processed[t], m) \in Seq(Messages)
    BY <2>3, GivenUp, AppendProperties
  <2>5. ref' \in [Messages -> Nat] /\ held' \in [Threads -> SUBSET Messages]
    <3>1. ref' \in [Messages -> Nat]
      BY <2>1, <2>3
    <3>2. (held[t] \ drop) \cup keep \in SUBSET Messages
      BY <2>3
    <3> QED BY <2>1, <3>1, <3>2
  <2>6. /\ UNCHANGED <<submitted, dpc, cur, mask, turn, cut, ring, freed>>
        /\ batch' = [batch EXCEPT ![t] = Tail(@)] /\ wpc' = [wpc EXCEPT ![t] = "free"]
    BY <1>10 DEF Verify, dispatcher
  <2> QED BY <2>1, <2>3, <2>4, <2>5, <2>6 DEF Messages
<1>11. ASSUME NEW t \in Threads, Exit(t) PROVE TypeOK'
  BY <1>11, EmptySeq DEF Exit, dispatcher, Messages
<1>12. ASSUME NEW t \in Threads, FreeLast(t) PROVE TypeOK'
  <2>1. pending[t] # <<>>
    BY <1>12 DEF FreeLast, Running, LineInv, InHand
  <2>2. Head(pending[t]) \in Messages /\ Tail(pending[t]) \in Seq(Messages)
    BY <2>1, PendingHead
  <2> QED BY <1>12, <2>2 DEF FreeLast, Onward, dispatcher, Messages
<1>13. ASSUME NEW t \in Threads, FreeShared(t) PROVE TypeOK'
  BY <1>13 DEF FreeShared, dispatcher, Messages
<1>14. ASSUME NEW t \in Threads, Subtract(t) PROVE TypeOK'
  <2> DEFINE m == Head(pending[t])
  <2>1. pending[t] # <<>>
    BY <1>14 DEF Subtract, Running, LineInv, InHand
  <2>2. m \in Messages /\ Tail(pending[t]) \in Seq(Messages) /\ t \in Give(m)
    BY <2>1, PendingHead DEF Give
  <2>3. ref[m] >= 1
    <3>1. /\ Cardinality(Way(m)) \in Nat /\ Cardinality(Keep(m)) \in Nat
          /\ Cardinality(Give(m)) \in Nat /\ Cardinality(Give(m)) >= 1
      <4>1. Way(m) \in SUBSET Threads /\ Keep(m) \in SUBSET Threads /\ Give(m) \in SUBSET Threads
        BY DEF Way, Keep, Give
      <4> QED BY <2>2, <4>1, Count
    <3>2. ref[m] \in Nat /\ ref[m] >= Cardinality(Way(m)) + Cardinality(Keep(m)) + Cardinality(Give(m))
      BY <2>2 DEF RefInv, Counted
    <3> QED BY <3>1, <3>2
  <2>4. ref' \in [Messages -> Nat]
    BY <1>14, <2>2, <2>3 DEF Subtract
  <2> QED BY <1>14, <2>2, <2>4 DEF Subtract, Onward, dispatcher, Messages
<1>15. CASE UNCHANGED vars
  BY <1>15 DEF vars, dispatcher, worker, Messages
<1> QED
  BY <1>1, <1>2, <1>3, <1>4, <1>5, <1>6, <1>7, <1>8, <1>9, <1>10, <1>11, <1>12, <1>13, <1>14, <1>15
  DEF Next, Dispatch, Work

-----------------------------------------------------------------------------
(* The lines of the threads. *)
LEMMA LineType ==
  ASSUME TypeOK, NEW t \in Threads
  PROVE  /\ Line(t) \in Seq(Messages \cup {NULL})
         /\ Elements(Line(t)) =
              (Elements(processed[t]) \cup Elements(batch[t])) \cup Elements(ring[t])
         /\ Elements(Line(t)) \subseteq Messages \cup {NULL}
<1> DEFINE T == Messages \cup {NULL}
<1>1. processed[t] \in Seq(T) /\ batch[t] \in Seq(T) /\ ring[t] \in Seq(T)
  BY SeqMonotonic DEF TypeOK
<1>2. /\ processed[t] \o batch[t] \in Seq(T)
      /\ Elements(processed[t] \o batch[t]) = Elements(processed[t]) \cup Elements(batch[t])
  BY <1>1, ConcatProperties, ElementsConcat
<1>3. /\ Line(t) \in Seq(T)
      /\ Elements(Line(t)) = Elements(processed[t] \o batch[t]) \cup Elements(ring[t])
  <2>1. (processed[t] \o batch[t]) \o ring[t] \in Seq(T)
    BY <1>1, <1>2, ConcatProperties
  <2>2. Elements((processed[t] \o batch[t]) \o ring[t]) = Elements(processed[t] \o batch[t]) \cup Elements(ring[t])
    <3> DEFINE p == processed[t] \o batch[t]
               r == ring[t]
    <3>1. p \in Seq(T) /\ r \in Seq(T)
      BY <1>1, <1>2
    <3> HIDE DEF T, p, r
    <3>2. Elements(p \o r) = Elements(p) \cup Elements(r)
      BY <3>1, ElementsConcat
    <3> QED BY <3>2 DEF p, r
  <2> QED BY <2>1, <2>2 DEF Line
<1>4. Elements(Line(t)) \subseteq T
  BY <1>3, ElementsIn
<1> QED BY <1>2, <1>3, <1>4

LEMMA MessageNumbers ==
  ASSUME TypeOK
  PROVE  /\ Len(submitted) \in Nat /\ Messages = 1 .. Len(submitted)
         /\ NULL = 0 /\ NULL \notin Messages
BY LenProperties DEF TypeOK, Messages, NULL

(* A line goes on rising when something larger, or NULL, is put at its end. *)
LEMMA RisingAppend ==
  ASSUME NEW s \in Seq(Nat), Rising(s), NULL \notin Elements(s), NEW x \in Nat,
         x = NULL \/ \A y \in Elements(s) : y < x
  PROVE  Rising(Append(s, x))
<1> DEFINE u == Append(s, x)
<1>1. /\ Len(s) \in Nat /\ DOMAIN s = 1 .. Len(s) /\ DOMAIN u = 1 .. Len(s) + 1
      /\ \A i \in 1 .. Len(s) : u[i] = s[i] /\ s[i] \in Elements(s)
      /\ u[Len(s) + 1] = x
  BY AppendProperties, LenProperties DEF Elements
<1>2. ASSUME NEW i \in DOMAIN u, NEW j \in DOMAIN u, i < j
      PROVE  u[i] # NULL /\ (u[j] = NULL \/ u[i] < u[j])
  <2>1. i \in 1 .. Len(s)
    BY <1>1, <1>2
  <2>2. CASE j \in 1 .. Len(s)
    BY <1>1, <1>2, <2>1, <2>2 DEF Rising
  <2>3. CASE j = Len(s) + 1
    BY <1>1, <2>1, <2>3
  <2> QED BY <1>1, <2>2, <2>3
<1> QED BY <1>2 DEF Rising

LEMMA RisingPrefix ==
  ASSUME NEW s \in Seq(Nat), NEW u \in Seq(Nat), Rising(s \o u)
  PROVE  Rising(s)
<1>1. /\ Len(s) \in Nat /\ Len(u) \in Nat /\ DOMAIN s = 1 .. Len(s)
      /\ DOMAIN (s \o u) = 1 .. Len(s) + Len(u)
      /\ \A i \in 1 .. Len(s) : (s \o u)[i] = s[i]
  BY ConcatProperties, LenProperties
<1>2. \A i, j \in DOMAIN s : i < j =>
        /\ i \in DOMAIN (s \o u) /\ j \in DOMAIN (s \o u)
        /\ s[i] = (s \o u)[i] /\ s[j] = (s \o u)[j]
  BY <1>1
<1> QED BY <1>2 DEF Rising

(* What comes earlier in a rising line is smaller than what comes later. *)
LEMMA RisingConcat ==
  ASSUME NEW s \in Seq(Nat), NEW u \in Seq(Nat), Rising(s \o u),
         NEW x \in Elements(s), NEW y \in Elements(u)
  PROVE  x # NULL /\ (y = NULL \/ x < y)
<1>1. /\ Len(s) \in Nat /\ Len(u) \in Nat
      /\ DOMAIN s = 1 .. Len(s) /\ DOMAIN u = 1 .. Len(u)
      /\ DOMAIN (s \o u) = 1 .. Len(s) + Len(u)
      /\ \A i \in 1 .. Len(s) + Len(u) :
           (s \o u)[i] = IF i <= Len(s) THEN s[i] ELSE u[i - Len(s)]
  BY ConcatProperties, LenProperties
<1>2. PICK i \in 1 .. Len(s) : s[i] = x
  BY <1>1 DEF Elements
<1>3. PICK j \in 1 .. Len(u) : u[j] = y
  BY <1>1 DEF Elements
<1>4. /\ i \in DOMAIN (s \o u) /\ Len(s) + j \in DOMAIN (s \o u) /\ i < Len(s) + j
      /\ (s \o u)[i] = x /\ (s \o u)[Len(s) + j] = y
  BY <1>1, <1>2, <1>3
<1> QED BY <1>4 DEF Rising

(* The head of what a thread popped comes after all it verified and before all
   the rest. *)
LEMMA RisingHead ==
  ASSUME NEW p \in Seq(Nat), NEW c \in Seq(Nat), NEW r \in Seq(Nat), c # <<>>,
         Rising((p \o c) \o r), Head(c) # NULL
  PROVE  /\ \A x \in Elements(p) : x < Head(c)
         /\ \A y \in Elements(Tail(c)) \cup Elements(r) : y = NULL \/ Head(c) < y
<1> DEFINE q == p \o c
           s == q \o r
<1>1. /\ Len(p) \in Nat /\ Len(c) \in Nat \ {0} /\ Len(r) \in Nat
      /\ DOMAIN p = 1 .. Len(p) /\ DOMAIN c = 1 .. Len(c) /\ DOMAIN r = 1 .. Len(r)
  BY LenProperties, EmptySeq
<1>2. /\ q \in Seq(Nat) /\ Len(q) = Len(p) + Len(c)
      /\ \A i \in 1 .. Len(p) + Len(c) : q[i] = IF i <= Len(p) THEN p[i] ELSE c[i - Len(p)]
  BY ConcatProperties
<1>3. /\ DOMAIN s = 1 .. Len(q) + Len(r)
      /\ \A i \in 1 .. Len(q) + Len(r) : s[i] = IF i <= Len(q) THEN q[i] ELSE r[i - Len(q)]
  <2>0. q \in Seq(Nat)
    BY <1>2
  <2> HIDE DEF q
  <2>1. s \in Seq(Nat) /\ Len(s) = Len(q) + Len(r)
    BY <2>0, ConcatProperties
  <2>2. \A i \in 1 .. Len(q) + Len(r) : s[i] = IF i <= Len(q) THEN q[i] ELSE r[i - Len(q)]
    BY <2>0, ConcatProperties
  <2> QED BY <2>1, <2>2, LenProperties
<1>4. Tail(c) \in Seq(Nat) /\ DOMAIN Tail(c) = 1 .. Len(c) - 1 /\ \A i \in 1 .. Len(c) - 1 : Tail(c)[i] = c[i + 1]
  BY HeadTailProperties, LenProperties
<1>5. \A i, j \in DOMAIN s : i < j => s[i] # NULL /\ (s[j] = NULL \/ s[i] < s[j])
  BY DEF Rising
<1> HIDE DEF q, s
<1>6. Len(p) + 1 \in DOMAIN s /\ s[Len(p) + 1] = Head(c)
  BY <1>1, <1>2, <1>3
<1>7. ASSUME NEW x \in Elements(p) PROVE x < Head(c)
  <2>1. PICK i \in DOMAIN p : p[i] = x
    BY DEF Elements
  <2>2. i \in 1 .. Len(p) + Len(c) /\ i <= Len(p) /\ i < Len(p) + 1
    BY <1>1, <2>1
  <2>3. q[i] = x /\ i <= Len(q) /\ i \in 1 .. Len(q) + Len(r)
    BY <1>1, <1>2, <2>1, <2>2
  <2>4. i \in DOMAIN s /\ s[i] = x
    BY <1>3, <2>3
  <2> QED BY <1>5, <1>6, <2>2, <2>4
<1>8. ASSUME NEW y \in Elements(Tail(c)) PROVE y = NULL \/ Head(c) < y
  <2>1. PICK i \in 1 .. Len(c) - 1 : c[i + 1] = y
    BY <1>4 DEF Elements
  <2>2. /\ Len(p) + 1 + i \in 1 .. Len(p) + Len(c) /\ Len(p) + 1 + i > Len(p)
        /\ Len(p) + 1 + i - Len(p) = i + 1
    BY <1>1, <2>1
  <2>3. q[Len(p) + 1 + i] = c[Len(p) + 1 + i - Len(p)]
    BY <1>2, <2>2
  <2>4. Len(p) + 1 + i \in DOMAIN s /\ s[Len(p) + 1 + i] = y /\ Len(p) + 1 < Len(p) + 1 + i
    <3>1. Len(p) + 1 + i \in Nat /\ Len(p) + 1 < Len(p) + 1 + i
      BY <1>1, <2>1
    <3>2. q[Len(p) + 1 + i] = y
      BY <2>1, <2>2, <2>3
    <3>3. Len(p) + 1 + i <= Len(q) /\ Len(p) + 1 + i \in 1 .. Len(q) + Len(r)
      BY <1>1, <1>2, <2>2
    <3> QED BY <1>3, <3>1, <3>2, <3>3
  <2> QED BY <1>5, <1>6, <2>4
<1>9. ASSUME NEW y \in Elements(r) PROVE y = NULL \/ Head(c) < y
  <2>1. PICK i \in 1 .. Len(r) : r[i] = y
    BY <1>1 DEF Elements
  <2>2. Len(q) + i \in DOMAIN s /\ s[Len(q) + i] = y /\ Len(p) + 1 < Len(q) + i
    <3>1. Len(q) \in Nat /\ Len(q) + i > Len(q) /\ Len(q) + i - Len(q) = i /\ Len(p) + 1 < Len(q) + i
      BY <1>1, <1>2, <2>1
    <3>2. Len(q) + i \in 1 .. Len(q) + Len(r)
      BY <1>1, <2>1, <3>1
    <3> QED BY <1>3, <2>1, <3>1, <3>2
  <2> QED BY <1>5, <1>6, <2>2
<1> QED BY <1>7, <1>8, <1>9

(* Where a line is cut into its pieces does not matter. *)
LEMMA CutAfterHead ==
  ASSUME NEW S, NEW p \in Seq(S), NEW b \in Seq(S), b # <<>>
  PROVE  Append(p, Head(b)) \o Tail(b) = p \o b
<1>1. Head(b) \in S /\ Tail(b) \in Seq(S) /\ b = <<Head(b)>> \o Tail(b)
  BY ElementsHeadTail
<1>2. Append(p, Head(b)) = p \o <<Head(b)>> /\ <<Head(b)>> \in Seq(S)
  BY <1>1, AppendIsConcat
<1>3. (p \o <<Head(b)>>) \o Tail(b) = p \o (<<Head(b)>> \o Tail(b))
  BY <1>1, <1>2, ConcatAssociative
<1> QED BY <1>1, <1>2, <1>3

LEMMA CutInTwo ==
  ASSUME NEW S, NEW p \in Seq(S), NEW b1 \in Seq(S), NEW b2 \in Seq(S)
  PROVE  (p \o b1) \o b2 = (p \o <<>>) \o (b1 \o b2)
<1>1. (p \o b1) \o b2 = p \o (b1 \o b2)
  BY ConcatAssociative
<1>2. p \o <<>> = p
  BY ConcatEmptySeq
<1> QED BY <1>1, <1>2

LEMMA ConcatAppend ==
  ASSUME NEW S, NEW p \in Seq(S), NEW b \in Seq(S), NEW x \in S
  PROVE  p \o Append(b, x) = Append(p \o b, x)
<1>1. Append(b, x) = b \o <<x>> /\ p \o b \in Seq(S)
  BY AppendIsConcat, ConcatProperties
<1>2. Append(p \o b, x) = (p \o b) \o <<x>>
  BY <1>1, AppendIsConcat
<1>3. <<x>> \in Seq(S)
  OBVIOUS
<1>4. (p \o b) \o <<x>> = p \o (b \o <<x>>)
  BY <1>3, ConcatAssociative
<1> QED BY <1>1, <1>2, <1>4

LEMMA CutEmpty ==
  ASSUME NEW S, NEW p \in Seq(S), NEW x \in S
  PROVE  (p \o <<>>) \o <<>> = p /\ (p \o <<x>>) \o <<>> = p \o <<x>>
<1>1. <<x>> \in Seq(S)
  OBVIOUS
<1>2. p \o <<x>> \in Seq(S)
  BY <1>1, ConcatProperties
<1> QED BY <1>2, ConcatEmptySeq

(* Nothing follows NULL. *)
LEMMA NothingAfterNull ==
  ASSUME NEW p \in Seq(Nat), NEW r \in Seq(Nat), Rising((p \o <<NULL>>) \o r)
  PROVE  r = <<>>
<1> SUFFICES ASSUME r # <<>> PROVE FALSE
  OBVIOUS
<1>1. NULL \in Nat /\ <<NULL>> \in Seq(Nat)
  BY DEF NULL
<1>2. p \o <<NULL>> \in Seq(Nat) /\ Elements(p \o <<NULL>>) = Elements(p) \cup Elements(<<NULL>>)
  <2>1. p \o <<NULL>> \in Seq(Nat)
    BY <1>1, ConcatProperties
  <2> QED BY <1>1, <2>1, ElementsConcat
<1>3. NULL \in Elements(p \o <<NULL>>)
  BY <1>2, ElementsOne
<1>4. Head(r) \in Elements(r)
  BY ElementsHeadTail
<1> QED BY <1>2, <1>3, <1>4, RisingConcat

(* The pieces of a line are sequences of numbers. *)
LEMMA LineParts ==
  ASSUME TypeOK, NEW t \in Threads
  PROVE  /\ processed[t] \in Seq(Nat) /\ batch[t] \in Seq(Nat) /\ ring[t] \in Seq(Nat)
         /\ processed[t] \o batch[t] \in Seq(Nat) /\ Line(t) \in Seq(Nat)
<1>1. Messages \subseteq Nat /\ Messages \cup {NULL} \subseteq Nat
  BY MessageNumbers
<1>2. processed[t] \in Seq(Nat) /\ batch[t] \in Seq(Nat) /\ ring[t] \in Seq(Nat)
  BY <1>1, SeqMonotonic DEF TypeOK
<1>3. processed[t] \o batch[t] \in Seq(Nat)
  BY <1>2, ConcatProperties
<1>4. Line(t) \in Seq(Nat)
  BY <1>2, <1>3, ConcatProperties DEF Line
<1> QED BY <1>2, <1>3, <1>4

(* A step that leaves the lines and the dispatcher's message alone. *)
LEMMA LinesKept ==
  ASSUME TypeOK, LineInv, UNCHANGED <<submitted, cur, mask, cut>>,
         dpc' = "push" <=> dpc = "push", dpc' = "idle" <=> dpc = "idle",
         \A t \in Threads : Line(t)' = Line(t),
         \A t \in Threads : wpc'[t] = "done" => wpc[t] = "done"
  PROVE  LinesRise' /\ EndGiven' /\ CurNewest' /\ CutNewest' /\ AllInLine'
<1>1. \A t \in Threads : Elements(Line(t))' = Elements(Line(t))
  BY DEF Elements
<1>2. Stopped' = Stopped /\ Messages' = Messages /\ \A t, m : Wants(t, m)' = Wants(t, m)
  BY DEF Stopped, Messages, Wants
<1>3. LinesRise'
  BY DEF LineInv, LinesRise, Rising
<1>4. EndGiven'
  BY <1>1, <1>2 DEF LineInv, EndGiven
<1>5. mask \subseteq Threads
  BY DEF TypeOK
<1>6. CurNewest'
  BY <1>1, <1>5 DEF LineInv, CurNewest
<1>7. CutNewest'
  BY <1>2 DEF LineInv, CutNewest
<1>8. AllInLine'
  BY <1>1, <1>2 DEF LineInv, AllInLine
<1> QED BY <1>3, <1>4, <1>6, <1>7, <1>8

(* A verification moves the head of the batch, a pop the head of the ring. *)
LEMMA VerifyLine ==
  ASSUME TypeOK, NEW t \in Threads, batch[t] # <<>>, Head(batch[t]) \in Messages,
         processed' = [processed EXCEPT ![t] = Append(@, Head(batch[t]))],
         batch' = [batch EXCEPT ![t] = Tail(@)], ring' = ring
  PROVE  \A u \in Threads : Line(u)' = Line(u)
<1> DEFINE p == processed[t]
           m == Head(batch[t])
           b == Tail(batch[t])
<1>1. p \in Seq(Nat) /\ batch[t] \in Seq(Nat)
  BY LineParts
<1>3. Append(p, m) \o b = p \o batch[t]
  BY <1>1, CutAfterHead
<1>4. processed'[t] = Append(p, m) /\ batch'[t] = b
  BY DEF TypeOK
<1>5. \A u \in Threads \ {t} : processed'[u] = processed[u] /\ batch'[u] = batch[u]
  BY DEF TypeOK
<1> QED BY <1>3, <1>4, <1>5 DEF Line

LEMMA PopLine ==
  ASSUME TypeOK, NEW t \in Threads, batch[t] = <<>>, NEW n \in 1 .. Len(ring[t]),
         batch' = [batch EXCEPT ![t] = SubSeq(ring[t], 1, n)],
         ring' = [ring EXCEPT ![t] = SubSeq(@, n + 1, Len(@))], processed' = processed
  PROVE  \A u \in Threads : Line(u)' = Line(u)
<1> DEFINE p == processed[t]
           r1 == SubSeq(ring[t], 1, n)
           r2 == SubSeq(ring[t], n + 1, Len(ring[t]))
<1>1. p \in Seq(Nat) /\ r1 \in Seq(Nat) /\ r2 \in Seq(Nat)
  BY LineParts, ElementsSplit
<1>2. r1 \o r2 = ring[t]
  BY LineParts, ElementsSplit
<1>3. (p \o r1) \o r2 = (p \o <<>>) \o (r1 \o r2)
  <2>1. p \in Seq(Nat) /\ r1 \in Seq(Nat) /\ r2 \in Seq(Nat)
    BY <1>1
  <2> HIDE DEF p, r1, r2
  <2> QED BY <2>1, CutInTwo, SMTT(20)
<1>4. batch'[t] = r1 /\ ring'[t] = r2
  BY DEF TypeOK
<1>5. \A u \in Threads \ {t} : ring'[u] = ring[u] /\ batch'[u] = batch[u]
  BY DEF TypeOK
<1> QED BY <1>2, <1>3, <1>4, <1>5 DEF Line

LEMMA PushLine ==
  ASSUME TypeOK, NEW t \in Threads,
         ring' = [ring EXCEPT ![t] = Append(@, cur)], UNCHANGED <<batch, processed>>
  PROVE  /\ Line(t)' = Append(Line(t), cur)
         /\ Elements(Line(t))' = Elements(Line(t)) \cup {cur}
         /\ \A u \in Threads \ {t} : Line(u)' = Line(u) /\ Elements(Line(u))' = Elements(Line(u))
<1> DEFINE pb == processed[t] \o batch[t]
<1>1. pb \in Seq(Nat) /\ ring[t] \in Seq(Nat) /\ Line(t) \in Seq(Nat)
  BY LineParts
<1>2. cur \in Nat
  <2>1. cur \in Messages \cup {NULL}
    BY DEF TypeOK
  <2> QED BY <2>1, MessageNumbers
<1>3. pb \o Append(ring[t], cur) = Append(pb \o ring[t], cur)
  <2> HIDE DEF pb
  <2> QED BY <1>1, <1>2, ConcatAppend
<1>5. ring'[t] = Append(ring[t], cur) /\ \A u \in Threads \ {t} : ring'[u] = ring[u]
  BY DEF TypeOK
<1>6. Line(t)' = Append(Line(t), cur) /\ \A u \in Threads \ {t} : Line(u)' = Line(u)
  BY <1>3, <1>5 DEF Line
<1>7. Elements(Append(Line(t), cur)) = Elements(Line(t)) \cup {cur}
  <2> HIDE DEF pb
  <2> QED BY <1>1, <1>2, ElementsAppend
<1>8. Elements(Line(t))' = Elements(Line(t)')
  BY DEF Elements
<1>9. \A u \in Threads \ {t} : Elements(Line(u))' = Elements(Line(u))
  BY <1>6 DEF Elements
<1> QED BY <1>6, <1>7, <1>8, <1>9

(* NULL at the head of a batch that ends is the end of the line. *)
LEMMA ExitLine ==
  ASSUME TypeOK, NEW t \in Threads, Rising(Line(t)), batch[t] = <<NULL>>,
         batch' = [batch EXCEPT ![t] = <<>>], UNCHANGED <<ring, processed>>
  PROVE  /\ ring[t] = <<>>
         /\ Line(t)' = processed[t]
         /\ Line(t) = processed[t] \o <<NULL>>
         /\ \A u \in Threads \ {t} : Line(u)' = Line(u)
<1> DEFINE p == processed[t]
<1>1. p \in Seq(Nat) /\ ring[t] \in Seq(Nat) /\ NULL \in Nat
  BY LineParts, MessageNumbers
<1>2. ring[t] = <<>>
  BY <1>1, NothingAfterNull DEF Line
<1>3. batch'[t] = <<>> /\ \A u \in Threads \ {t} : batch'[u] = batch[u]
  BY DEF TypeOK
<1>4. (p \o <<>>) \o <<>> = p /\ (p \o <<NULL>>) \o <<>> = p \o <<NULL>>
  BY <1>1, CutEmpty
<1> QED BY <1>2, <1>3, <1>4 DEF Line

-----------------------------------------------------------------------------
LEMMA InitLineInv == Init => LineInv
<1> SUFFICES ASSUME Init PROVE LineInv
  OBVIOUS
<1>1. \A t \in Threads : Line(t) = <<>> /\ Elements(Line(t)) = {}
  <2>1. (<<>> \o <<>>) \o <<>> = <<>>
    BY EmptySeq, ConcatEmptySeq
  <2> QED BY <2>1, ElementsOne DEF Init, Line
<1>2. LinesRise
  BY <1>1 DEF LinesRise, Rising
<1>3. EndGiven /\ CurNewest /\ CutNewest /\ AllInLine
  BY <1>1 DEF Init, EndGiven, CurNewest, CutNewest, AllInLine, Messages
<1>4. InHand /\ JoinedInTurn
  BY DEF Init, InHand, JoinedInTurn
<1> QED BY <1>2, <1>3, <1>4 DEF LineInv

(* A new message is in no line yet, and concerns the threads it will go to. *)
LEMMA NewMessageLines ==
  ASSUME TypeOK, LineInv, NEW attributes \in SUBSET Attributes, NEW n \in Nat,
         dpc = "idle",
         submitted' = Append(submitted, attributes), ref' = Append(ref, n),
         UNCHANGED <<cut, ring, worker>>,
         \/ Recipients(attributes) = {} /\ UNCHANGED <<dpc, cur, mask>>
         \/ dpc' = "push" /\ cur' = Len(submitted') /\ mask' = Recipients(attributes)
  PROVE  LinesRise' /\ EndGiven' /\ CurNewest' /\ CutNewest' /\ AllInLine' /\ InHand'
<1> DEFINE new == Len(submitted) + 1
<1>1. \A t \in Threads : /\ Line(t)' = Line(t) /\ Elements(Line(t))' = Elements(Line(t))
                         /\ Elements(Line(t)) \subseteq Messages \cup {NULL}
  BY LineType DEF Line, Elements, worker
<1>2. /\ Messages' = Messages \cup {new} /\ Len(submitted') = new /\ new \notin Messages
      /\ \A m \in Messages : submitted'[m] = submitted[m]
      /\ submitted'[new] = attributes
      /\ new \in Nat /\ new # NULL
  <2>1. new \in Nat /\ new # NULL
    BY MessageNumbers
  <2> QED BY <2>1, MoreMessages
<1>3. \A t \in Threads : NULL \notin Elements(Line(t)) /\ wpc[t] # "done"
  BY DEF LineInv, EndGiven, Stopped
<1>4. cut = NULL
  BY DEF LineInv, CutNewest, Stopped
<1>5. LinesRise'
  BY <1>1 DEF LineInv, LinesRise, Rising
<1>6. EndGiven' /\ CutNewest'
  BY <1>1, <1>3, <1>4 DEF EndGiven, CutNewest, worker
<1>7. CurNewest'
  <2>1. mask' \subseteq Threads \/ dpc' = "idle"
    BY DEF Recipients
  <2> QED BY <1>1, <1>2, <2>1 DEF CurNewest
<1>8. AllInLine'
  <2> SUFFICES ASSUME NEW t \in Threads, NEW m \in Messages', Wants(t, m)'
               PROVE  m \in Elements(Line(t))' \/ (dpc' = "push" /\ cur' = m /\ t \in mask')
    BY DEF AllInLine
  <2>1. CASE m \in Messages
    <3>1. Wants(t, m)
      BY <1>2, <2>1 DEF Wants
    <3>2. m \in Elements(Line(t))
      BY <1>4, <2>1, <3>1, MessageNumbers DEF LineInv, AllInLine
    <3> QED BY <1>1, <3>2
  <2>2. CASE m = new
    <3>1. t \in Recipients(attributes)
      BY <1>2, <2>2 DEF Wants, Recipients
    <3> QED BY <1>2, <2>2, <3>1
  <2> QED BY <1>2, <2>1, <2>2
<1>9. InHand'
  BY DEF LineInv, InHand, worker
<1> QED BY <1>5, <1>6, <1>7, <1>8, <1>9

LEMMA StopLines ==
  ASSUME TypeOK, LineInv, Stop
  PROVE  LineInv'
<1>1. \A t \in Threads : Line(t)' = Line(t) /\ Elements(Line(t))' = Elements(Line(t))
  BY DEF Stop, Line, Elements, worker
<1>2. ~Stopped /\ Stopped' /\ mask' = Threads /\ dpc' = "push" /\ cur' = NULL
  BY DEF Stop, Stopped
<1>3. cut = NULL
  BY <1>2 DEF LineInv, CutNewest
<1>4. LinesRise'
  BY <1>1 DEF LineInv, LinesRise, Rising
<1>5. EndGiven'
  BY <1>1, <1>2 DEF Stop, worker, LineInv, EndGiven
<1>6. CurNewest' /\ JoinedInTurn'
  BY <1>2 DEF CurNewest, JoinedInTurn
<1>7. CutNewest'
  BY <1>2 DEF Stop, LineInv, CurNewest, CutNewest
<1>8. AllInLine'
  <2> SUFFICES ASSUME NEW t \in Threads, NEW m \in Messages, Wants(t, m)
               PROVE  m \in Elements(Line(t))' \/ m = cut'
    BY DEF Stop, AllInLine, Messages, Wants
  <2> QED BY <1>1, <1>3, MessageNumbers DEF Stop, LineInv, AllInLine
<1>9. InHand'
  BY DEF Stop, worker, LineInv, InHand
<1> QED BY <1>4, <1>5, <1>6, <1>7, <1>8, <1>9 DEF LineInv

LEMMA PushLines ==
  ASSUME TypeOK, LineInv, PushOne
  PROVE  LineInv'
<1>0. PICK t \in Threads : t = turn
  BY DEF TypeOK
<1>1. /\ dpc = "push" /\ t \in mask /\ mask' = mask \ {t}
      /\ UNCHANGED <<submitted, cur, cut, worker>>
      /\ ring' = [ring EXCEPT ![t] = Append(@, cur)]
  BY <1>0 DEF PushOne
<1>2. dpc' = "push" \/ (dpc' = AfterPush /\ turn' = 1 /\ mask' = {})
  BY <1>1 DEF PushOne
<1>3. /\ Line(t)' = Append(Line(t), cur)
      /\ Elements(Line(t))' = Elements(Line(t)) \cup {cur}
      /\ \A u \in Threads \ {t} : Line(u)' = Line(u) /\ Elements(Line(u))' = Elements(Line(u))
  BY <1>1, PushLine DEF worker
<1>4. NULL \notin Elements(Line(t)) /\ wpc[t] # "done"
  BY <1>1 DEF LineInv, EndGiven
<1>5. cur \in Nat /\ (cur = NULL \/ \A y \in Elements(Line(t)) : y < cur)
  <2>1. Elements(Line(t)) \subseteq 1 .. Len(submitted)
    BY <1>1, <1>4, LineType, MessageNumbers
  <2>2. cur # NULL => cur = Len(submitted) /\ cur \notin Elements(Line(t))
    BY <1>1 DEF LineInv, CurNewest
  <2>3. cur \in Nat /\ Len(submitted) \in Nat
    <3>1. cur \in Messages \cup {NULL}
      BY DEF TypeOK
    <3> QED BY <3>1, MessageNumbers
  <2>4. CASE cur = NULL
    BY <2>3, <2>4
  <2>5. CASE cur # NULL
    <3>1. \A y \in Elements(Line(t)) : y \in Nat /\ y <= cur /\ y # cur
      BY <2>1, <2>2, <2>3, <2>5
    <3> QED BY <2>3, <3>1
  <2> QED BY <2>4, <2>5
<1>6. LinesRise'
  <2>1. Line(t) \in Seq(Nat) /\ Rising(Line(t))
    BY <1>1, LineParts DEF LineInv, LinesRise
  <2>2. Rising(Append(Line(t), cur))
    BY <1>4, <1>5, <2>1, RisingAppend
  <2>3. \A u \in Threads : Rising(Line(u)')
    BY <1>3, <2>2 DEF LineInv, LinesRise
  <2> QED BY <2>3 DEF LinesRise, Rising
<1>7. Stopped' <=> cur = NULL
  BY <1>1, <1>2 DEF Stopped, AfterPush
<1>8. EndGiven'
  <2> SUFFICES ASSUME NEW u \in Threads, NULL \in Elements(Line(u))' \/ wpc'[u] = "done"
               PROVE  Stopped' /\ (dpc' = "push" => u \notin mask')
    BY DEF EndGiven
  <2>1. CASE u = t
    BY <1>1, <1>3, <1>4, <1>7, <2>1 DEF worker
  <2>2. CASE u # t
    BY <1>1, <1>3, <1>7, <2>2 DEF worker, LineInv, EndGiven, Stopped
  <2> QED BY <2>1, <2>2
<1>9. CurNewest'
  <2>1. mask \subseteq Threads
    BY DEF TypeOK
  <2> QED BY <1>1, <1>3, <2>1 DEF LineInv, CurNewest
<1>10. CutNewest'
  BY <1>1, <1>7 DEF LineInv, CutNewest, Stopped
<1>11. AllInLine'
  <2> SUFFICES ASSUME NEW u \in Threads, NEW m \in Messages, Wants(u, m)
               PROVE  m \in Elements(Line(u))' \/ m = cut \/ (dpc' = "push" /\ cur = m /\ u \in mask')
    BY <1>1 DEF AllInLine, Messages, Wants
  <2>1. m \in Elements(Line(u)) \/ m = cut \/ (cur = m /\ u \in mask)
    BY DEF LineInv, AllInLine
  <2>2. Elements(Line(u)) \subseteq Elements(Line(u))'
    BY <1>3
  <2> QED BY <1>1, <1>2, <1>3, <2>1, <2>2
<1>12. InHand'
  <2>1. \A u \in Threads \ {t} : ring'[u] = ring[u]
    BY <1>1 DEF TypeOK
  <2> QED BY <1>1, <1>4, <2>1 DEF worker, LineInv, InHand
<1>13. JoinedInTurn'
  BY <1>2 DEF JoinedInTurn, AfterPush
<1> QED BY <1>6, <1>8, <1>9, <1>10, <1>11, <1>12, <1>13 DEF LineInv

LEMMA ExitLines ==
  ASSUME TypeOK, LineInv, NEW t \in Threads, Exit(t)
  PROVE  LineInv'
<1>1. /\ batch[t] = <<NULL>> /\ batch' = [batch EXCEPT ![t] = <<>>]
      /\ wpc[t] = "work" /\ wpc' = [wpc EXCEPT ![t] = "done"]
      /\ UNCHANGED <<submitted, dpc, cur, mask, turn, cut, ring, pending, processed>>
  BY DEF Exit, Running, dispatcher
<1>2. /\ ring[t] = <<>> /\ Line(t)' = processed[t] /\ Line(t) = processed[t] \o <<NULL>>
      /\ \A u \in Threads \ {t} : Line(u)' = Line(u)
  BY <1>1, ExitLine DEF LineInv, LinesRise
<1>3. processed[t] \in Seq(Nat) /\ NULL \in Nat /\ <<NULL>> \in Seq(Nat)
  <2>1. processed[t] \in Seq(Nat) /\ NULL \in Nat
    BY LineParts, MessageNumbers
  <2> QED BY <2>1
<1>4. /\ Elements(Line(t)) = Elements(Line(t))' \cup {NULL}
      /\ \A u \in Threads \ {t} : Elements(Line(u))' = Elements(Line(u))
  <2>1. Elements(processed[t] \o <<NULL>>) = Elements(processed[t]) \cup Elements(<<NULL>>)
    BY <1>3, ElementsConcat
  <2>2. Elements(Line(t)) = Elements(processed[t]) \cup {NULL}
    BY <1>2, <2>1, ElementsOne
  <2> QED BY <1>2, <2>2 DEF Elements
<1>5. LinesRise'
  <2>1. Rising(processed[t])
    BY <1>2, <1>3, RisingPrefix DEF LineInv, LinesRise
  <2>2. \A u \in Threads : Rising(Line(u)')
    BY <1>2, <2>1 DEF LineInv, LinesRise
  <2> QED BY <2>2 DEF LinesRise, Rising
<1>6. EndGiven'
  <2>1. Stopped /\ (dpc = "push" => t \notin mask)
    BY <1>4 DEF LineInv, EndGiven
  <2>2. \A u \in Threads \ {t} : wpc'[u] = wpc[u]
    BY <1>1 DEF TypeOK
  <2> QED BY <1>1, <1>4, <2>1, <2>2 DEF LineInv, EndGiven, Stopped
<1>7. CurNewest'
  <2>1. mask \subseteq Threads
    BY DEF TypeOK
  <2> QED BY <1>1, <1>4, <2>1 DEF LineInv, CurNewest
<1>8. CutNewest'
  BY <1>1 DEF LineInv, CutNewest, Stopped
<1>9. AllInLine'
  <2> SUFFICES ASSUME NEW u \in Threads, NEW m \in Messages, Wants(u, m)
               PROVE  m \in Elements(Line(u))' \/ m = cut \/ (dpc = "push" /\ cur = m /\ u \in mask)
    BY <1>1 DEF AllInLine, Messages, Wants
  <2> QED BY <1>4, MessageNumbers DEF LineInv, AllInLine
<1>10. InHand'
  <2>1. batch'[t] = <<>> /\ wpc'[t] = "done"
    BY <1>1 DEF TypeOK
  <2>2. \A u \in Threads \ {t} : wpc'[u] = wpc[u] /\ batch'[u] = batch[u]
    BY <1>1 DEF TypeOK
  <2>3. pending[t] = <<>>
    BY <1>1 DEF LineInv, InHand
  <2> QED BY <1>1, <1>2, <2>1, <2>2, <2>3 DEF LineInv, InHand
<1>11. JoinedInTurn'
  <2>1. \A u \in Threads : wpc[u] = "done" => wpc'[u] = "done"
    BY <1>1 DEF TypeOK
  <2>2. turn \in Threads /\ 1 .. turn - 1 \subseteq Threads
    BY SmpAssumption DEF TypeOK, Threads
  <2> QED BY <1>1, <2>1, <2>2 DEF LineInv, JoinedInTurn
<1> QED BY <1>5, <1>6, <1>7, <1>8, <1>9, <1>10, <1>11 DEF LineInv

(* The steps of a thread between two messages. *)
LEMMA ThreadLines ==
  ASSUME TypeOK, LineInv, NEW t \in Threads,
         Pop(t) \/ Verify(t) \/ FreeLast(t) \/ FreeShared(t) \/ Subtract(t)
  PROVE  LineInv'
<1>1. UNCHANGED <<submitted, dpc, cur, mask, turn, cut>>
  BY DEF Pop, Verify, FreeLast, FreeShared, Subtract, dispatcher
<1>2. \A u \in Threads : Line(u)' = Line(u)
  <2>1. CASE Pop(t)
    <3>1. batch[t] = <<>>
      BY <2>1 DEF Pop, Running, LineInv, InHand
    <3>2. PICK n \in 1 .. Len(ring[t]) :
            /\ batch' = [batch EXCEPT ![t] = SubSeq(ring[t], 1, n)]
            /\ ring' = [ring EXCEPT ![t] = SubSeq(@, n + 1, Len(@))]
      BY <2>1 DEF Pop
    <3>3. processed' = processed
      BY <2>1 DEF Pop
    <3> QED BY <3>1, <3>2, <3>3, PopLine
  <2>2. CASE Verify(t)
    <3>1. /\ processed' = [processed EXCEPT ![t] = Append(@, Head(batch[t]))]
          /\ batch' = [batch EXCEPT ![t] = Tail(@)] /\ ring' = ring
          /\ wpc[t] = "work" /\ Head(batch[t]) # NULL
      BY <2>2 DEF Verify, Running
    <3>2. batch[t] # <<>>
      BY <3>1 DEF LineInv, InHand
    <3>3. Head(batch[t]) \in Messages
      BY <3>1, <3>2, HeadTailProperties DEF TypeOK
    <3> QED BY <3>1, <3>2, <3>3, VerifyLine
  <2>3. CASE FreeLast(t) \/ FreeShared(t) \/ Subtract(t)
    BY <2>3 DEF FreeLast, FreeShared, Subtract, Line
  <2> QED BY <2>1, <2>2, <2>3
<1>3. /\ wpc'[t] # "done" /\ wpc[t] # "done"
      /\ \A u \in Threads \ {t} : /\ wpc'[u] = wpc[u] /\ batch'[u] = batch[u]
                                  /\ ring'[u] = ring[u] /\ pending'[u] = pending[u]
  BY DEF Pop, Verify, FreeLast, FreeShared, Subtract, Running, Onward, TypeOK
<1>4. LinesRise' /\ EndGiven' /\ CurNewest' /\ CutNewest' /\ AllInLine'
  <2>1. \A u \in Threads : wpc'[u] = "done" => wpc[u] = "done"
    BY <1>3
  <2> QED BY <1>1, <1>2, <2>1, LinesKept
<1>5. InHand'
  <2>1. /\ wpc'[t] = "poll" => batch'[t] = <<>>
        /\ wpc'[t] = "work" => batch'[t] # <<>>
        /\ wpc'[t] \in {"free", "subtract"} <=> pending'[t] # <<>>
    <3>1. CASE Pop(t)
      <4>1. PICK n \in 1 .. Len(ring[t]) : batch' = [batch EXCEPT ![t] = SubSeq(ring[t], 1, n)]
        BY <3>1 DEF Pop
      <4>2. batch'[t] # <<>>
        <5>1. SubSeq(ring[t], 1, n) # <<>>
          BY LineParts, ElementsSplit
        <5> QED BY <4>1, <5>1 DEF TypeOK
      <4>3. wpc[t] = "poll" /\ wpc'[t] = "work" /\ pending'[t] = pending[t]
        BY <3>1 DEF Pop, Running, TypeOK
      <4> QED BY <4>2, <4>3 DEF LineInv, InHand
    <3>2. CASE Verify(t)
      <4> DEFINE m == Head(batch[t])
      <4>1. PICK drop \in SUBSET held[t] : pending' = [pending EXCEPT ![t] = Ordered(drop) \o <<m>>]
        BY <3>2 DEF Verify
      <4>2. m \in Messages
        <5>1. batch[t] # <<>> /\ m # NULL
          BY <3>2 DEF Verify, Running, LineInv, InHand
        <5> QED BY <5>1, HeadTailProperties DEF TypeOK
      <4>3. Ordered(drop) \o <<m>> # <<>>
        BY <4>2, GivenUp
      <4>4. wpc'[t] = "free" /\ pending'[t] # <<>>
        BY <3>2, <4>1, <4>3 DEF Verify, TypeOK
      <4> QED BY <4>4
    <3>3. CASE FreeLast(t) \/ Subtract(t)
      <4>1. /\ wpc[t] \in {"free", "subtract"} /\ wpc' = [wpc EXCEPT ![t] = Onward(t)]
            /\ pending' = [pending EXCEPT ![t] = Tail(@)] /\ batch' = batch
        BY <3>3 DEF FreeLast, Subtract, Running
      <4>2. pending[t] # <<>>
        BY <4>1 DEF LineInv, InHand
      <4>3. Tail(pending[t]) # <<>> <=> Len(pending[t]) > 1
        BY <4>2, PendingHead
      <4>4. pending'[t] = Tail(pending[t]) /\ wpc'[t] = Onward(t) /\ batch'[t] = batch[t]
        BY <4>1 DEF TypeOK
      <4> QED BY <4>3, <4>4 DEF Onward
    <3>4. CASE FreeShared(t)
      BY <3>4 DEF FreeShared, Running, LineInv, InHand, TypeOK
    <3> QED BY <3>1, <3>2, <3>3, <3>4
  <2> QED BY <1>3, <2>1 DEF LineInv, InHand
<1>6. JoinedInTurn'
  <2>1. turn \in Threads /\ 1 .. turn - 1 \subseteq Threads
    BY SmpAssumption DEF TypeOK, Threads
  <2> QED BY <1>1, <1>3, <2>1 DEF LineInv, JoinedInTurn
<1> QED BY <1>4, <1>5, <1>6 DEF LineInv

LEMMA NextLineInv ==
  ASSUME TypeOK, LineInv, [Next]_vars
  PROVE  LineInv'
<1>1. ASSUME NEW attributes \in SUBSET Attributes, Discard(attributes) PROVE LineInv'
  <2>1. /\ dpc = "idle" /\ Recipients(attributes) = {}
        /\ submitted' = Append(submitted, attributes) /\ ref' = Append(ref, 1)
        /\ UNCHANGED <<dpc, cur, mask, cut, ring, worker>>
    BY <1>1 DEF Discard
  <2>2. LinesRise' /\ EndGiven' /\ CurNewest' /\ CutNewest' /\ AllInLine' /\ InHand'
    BY <2>1, NewMessageLines
  <2>3. JoinedInTurn'
    BY <2>1 DEF JoinedInTurn
  <2> QED BY <2>2, <2>3 DEF LineInv
<1>2. ASSUME NEW attributes \in SUBSET Attributes, Submit(attributes) PROVE LineInv'
  <2> DEFINE n == 1 + (Cardinality(Recipients(attributes)) - 1)
  <2>1. /\ dpc = "idle" /\ Recipients(attributes) # {}
        /\ submitted' = Append(submitted, attributes) /\ ref' = Append(ref, n)
        /\ dpc' = "push" /\ cur' = Len(submitted') /\ mask' = Recipients(attributes)
        /\ UNCHANGED <<cut, ring, worker>>
    BY <1>2 DEF Submit
  <2>2. n \in Nat
    BY <2>1, RecipientsCount
  <2> HIDE DEF n
  <2>3. LinesRise' /\ EndGiven' /\ CurNewest' /\ CutNewest' /\ AllInLine' /\ InHand'
    BY <2>1, <2>2, NewMessageLines
  <2>4. JoinedInTurn'
    BY <2>1 DEF JoinedInTurn
  <2> QED BY <2>3, <2>4 DEF LineInv
<1>3. CASE Stop
  BY <1>3, StopLines
<1>4. CASE PushSkip \/ PushFull
  <2>1. UNCHANGED <<submitted, dpc, cur, mask, cut, ring, worker>> /\ dpc = "push"
    BY <1>4 DEF PushSkip, PushFull
  <2>2. \A t \in Threads : Line(t)' = Line(t) /\ wpc'[t] = wpc[t]
    BY <2>1 DEF Line, worker
  <2>3. LinesRise' /\ EndGiven' /\ CurNewest' /\ CutNewest' /\ AllInLine'
    BY <2>1, <2>2, LinesKept
  <2>4. InHand' /\ JoinedInTurn'
    BY <2>1 DEF LineInv, InHand, JoinedInTurn, worker
  <2> QED BY <2>3, <2>4 DEF LineInv
<1>5. CASE PushOne
  BY <1>5, PushLines
<1>6. CASE Join \/ Release
  <2>1. /\ UNCHANGED <<submitted, cur, mask, cut, ring, batch, wpc, pending, processed>>
        /\ dpc \in {"join", "release"} /\ dpc' \in {"join", "release", "gone"}
    BY <1>6 DEF Join, Release, worker
  <2>2. \A t \in Threads : Line(t)' = Line(t) /\ wpc'[t] = wpc[t]
    BY <2>1 DEF Line
  <2>3. LinesRise' /\ EndGiven' /\ CurNewest' /\ CutNewest' /\ AllInLine'
    BY <2>1, <2>2, LinesKept
  <2>4. InHand'
    BY <2>1 DEF LineInv, InHand
  <2>5. JoinedInTurn'
    <3>1. CASE Join
      <4>1. turn' = Around(turn) /\ wpc[turn] = "done" /\ dpc = "join"
            /\ dpc' = (IF turn = N THEN "release" ELSE dpc) /\ wpc' = wpc
        BY <3>1 DEF Join, worker
      <4>2. \A t \in 1 .. turn : wpc[t] = "done"
        BY <4>1, SmpAssumption DEF LineInv, JoinedInTurn, TypeOK, Threads
      <4> QED BY <4>1, <4>2, SmpAssumption DEF JoinedInTurn, Around, Threads, TypeOK
    <3>2. CASE Release
      BY <2>1, <3>2 DEF Release, LineInv, JoinedInTurn
    <3> QED BY <1>6, <3>1, <3>2
  <2> QED BY <2>3, <2>4, <2>5 DEF LineInv
<1>7. ASSUME NEW t \in Threads, Work(t) PROVE LineInv'
  BY <1>7, ThreadLines, ExitLines DEF Work
<1>8. CASE UNCHANGED vars
  <2>1. UNCHANGED <<submitted, dpc, cur, mask, turn, cut, ring, batch, wpc, pending, processed>>
    BY <1>8 DEF vars, dispatcher, worker
  <2>2. \A t \in Threads : Line(t)' = Line(t) /\ wpc'[t] = wpc[t]
    BY <2>1 DEF Line
  <2>3. LinesRise' /\ EndGiven' /\ CurNewest' /\ CutNewest' /\ AllInLine'
    BY <2>1, <2>2, LinesKept
  <2>4. InHand' /\ JoinedInTurn'
    BY <2>1 DEF LineInv, InHand, JoinedInTurn
  <2> QED BY <2>3, <2>4 DEF LineInv
<1> QED
  BY <1>1, <1>2, <1>3, <1>4, <1>5, <1>6, <1>7, <1>8 DEF Next, Dispatch

-----------------------------------------------------------------------------
(* The references to the messages. *)
LEMMA InitRefInv == Init => RefInv
BY DEF Init, RefInv, Counted, KeptVerified, GivenOnce, Unreachable, Messages

LEMMA ReferenceSets ==
  ASSUME NEW m
  PROVE  Way(m) \in SUBSET Threads /\ Keep(m) \in SUBSET Threads /\ Give(m) \in SUBSET Threads
BY DEF Way, Keep, Give

(* A step after which no message has a reference more. *)
LEMMA NoReferenceMore ==
  ASSUME TypeOK, RefInv, UNCHANGED <<submitted, ref, freed>>,
         \A m \in Messages : /\ Way(m)' \subseteq Way(m) /\ Keep(m)' \subseteq Keep(m)
                             /\ Give(m)' \subseteq Give(m)
  PROVE  Counted' /\ Unreachable'
<1>1. Messages' = Messages /\ freed \subseteq Messages /\ ref \in [Messages -> Nat]
  BY DEF Messages, TypeOK
<1>2. Unreachable'
  BY <1>1 DEF RefInv, Unreachable
<1>3. ASSUME NEW m \in Messages
      PROVE  ref[m] >= Cardinality(Way(m)') + Cardinality(Keep(m)') + Cardinality(Give(m)')
  <2>1. /\ Cardinality(Way(m)) \in Nat /\ Cardinality(Way(m)') \in Nat
        /\ Cardinality(Way(m)') <= Cardinality(Way(m))
    BY ReferenceSets, Count
  <2>2. /\ Cardinality(Keep(m)) \in Nat /\ Cardinality(Keep(m)') \in Nat
        /\ Cardinality(Keep(m)') <= Cardinality(Keep(m))
    BY ReferenceSets, Count
  <2>3. /\ Cardinality(Give(m)) \in Nat /\ Cardinality(Give(m)') \in Nat
        /\ Cardinality(Give(m)') <= Cardinality(Give(m))
    BY ReferenceSets, Count
  <2>4. ref[m] >= Cardinality(Way(m)) + Cardinality(Keep(m)) + Cardinality(Give(m)) /\ ref[m] \in Nat
    BY <1>1 DEF RefInv, Counted
  <2> QED BY <2>1, <2>2, <2>3, <2>4
<1>4. Counted'
  BY <1>1, <1>3 DEF Counted
<1> QED BY <1>2, <1>4

(* A new message, with one reference for each thread it goes to. *)
LEMMA NewMessageRefs ==
  ASSUME TypeOK, RefInv, NEW attributes \in SUBSET Attributes, NEW n \in Nat,
         dpc = "idle",
         submitted' = Append(submitted, attributes), ref' = Append(ref, n),
         UNCHANGED <<ring, worker>>,
         \/ dpc' = "idle" /\ freed' = freed \cup {Len(submitted')}
         \/ /\ dpc' = "push" /\ cur' = Len(submitted') /\ freed' = freed
            /\ mask' \in SUBSET Threads /\ n = Cardinality(mask')
  PROVE  RefInv'
<1>0. PICK new \in Nat : new = Len(submitted) + 1
  BY MessageNumbers
<1>1. /\ Messages' = Messages \cup {new} /\ Len(submitted') = new /\ new \notin Messages
      /\ \A m \in Messages : ref'[m] = ref[m]
      /\ ref'[new] = n
  BY <1>0, MoreMessages
<1>2. \A t \in Threads :
        /\ new \notin Elements(ring[t]) /\ new \notin Elements(batch[t])
        /\ new \notin held[t] /\ new \notin Elements(pending[t])
  <2>1. new # NULL
    BY <1>0, MessageNumbers
  <2>2. ASSUME NEW t \in Threads
        PROVE  /\ Elements(ring[t]) \subseteq Messages \cup {NULL}
               /\ Elements(batch[t]) \subseteq Messages \cup {NULL}
               /\ Elements(pending[t]) \subseteq Messages /\ held[t] \subseteq Messages
    BY ElementsIn DEF TypeOK
  <2> QED BY <1>1, <2>1, <2>2
<1>3. \A m \in Messages : Way(m)' = Way(m) /\ Keep(m)' = Keep(m) /\ Give(m)' = Give(m)
  BY <1>1 DEF Way, Keep, Give, Elements, worker
<1>4. /\ Way(new)' = IF dpc' = "push" THEN mask' ELSE {}
      /\ Keep(new)' = {} /\ Give(new)' = {}
  <2>1. Keep(new)' = {} /\ Give(new)' = {}
    BY <1>2 DEF Keep, Give, Elements, worker
  <2>2. \A m : Way(m)' = {t \in Threads : \/ dpc' = "push" /\ cur' = m /\ t \in mask'
                                          \/ m \in Elements(ring[t]) \cup Elements(batch[t])}
    BY DEF Way, Elements, worker
  <2>3. Way(new)' = {t \in Threads : dpc' = "push" /\ cur' = new /\ t \in mask'}
    BY <1>2, <2>2
  <2>4. CASE dpc' = "push"
    BY <1>1, <2>1, <2>3, <2>4
  <2>5. CASE dpc' = "idle"
    BY <2>1, <2>3, <2>5
  <2> QED BY <2>4, <2>5
<1>5. Counted'
  <2> SUFFICES ASSUME NEW m \in Messages'
               PROVE  ref'[m] >= Cardinality(Way(m)') + Cardinality(Keep(m)') + Cardinality(Give(m)')
    BY DEF Counted
  <2>1. CASE m \in Messages
    BY <1>1, <1>3, <2>1 DEF RefInv, Counted
  <2>2. CASE m = new
    <3>1. Cardinality({}) = 0
      BY FS_EmptySet
    <3>2. Cardinality(Way(new)') \in Nat /\ Cardinality(Way(new)') <= n
      BY <1>1, <1>4, <3>1
    <3>3. Cardinality(Keep(new)') = 0 /\ Cardinality(Give(new)') = 0
      BY <1>4, <3>1
    <3>4. ref'[new] >= Cardinality(Way(new)') + Cardinality(Keep(new)') + Cardinality(Give(new)')
      BY <1>1, <3>2, <3>3
    <3> QED BY <2>2, <3>4
  <2> QED BY <1>1, <2>1, <2>2
<1>6. Unreachable'
  <2>1. freed \subseteq Messages
    BY DEF TypeOK
  <2> QED BY <1>1, <1>3, <1>4, <2>1 DEF RefInv, Unreachable
<1>7. KeptVerified' /\ GivenOnce'
  BY DEF RefInv, KeptVerified, GivenOnce, Elements, worker
<1> QED BY <1>5, <1>6, <1>7 DEF RefInv

(* The head of what a thread gives up is in no other place of the list. *)
LEMMA GiveHead ==
  ASSUME TypeOK, RefInv, NEW t \in Threads, pending[t] # <<>>,
         NEW h, h = Head(pending[t]),
         pending' = [pending EXCEPT ![t] = Tail(@)]
  PROVE  /\ h \in Messages /\ t \in Give(h) /\ Give(h)' = Give(h) \ {t}
         /\ \A m \in Messages \ {h} : Give(m)' = Give(m)
         /\ GivenOnce'
<1> DEFINE s == pending[t]
<1>1. /\ s \in Seq(Messages) /\ Tail(s) \in Seq(Messages) /\ Len(Tail(s)) = Len(s) - 1
      /\ \A i \in 1 .. Len(Tail(s)) : Tail(s)[i] = s[i + 1]
      /\ h = s[1] /\ Len(s) \in Nat \ {0}
      /\ DOMAIN s = 1 .. Len(s) /\ DOMAIN Tail(s) = 1 .. Len(Tail(s))
  BY HeadTailProperties, EmptySeq, LenProperties DEF TypeOK
<1>2. \A i, j \in DOMAIN s : s[i] = s[j] => i = j
  BY DEF RefInv, GivenOnce
<1>3. \A i \in DOMAIN Tail(s) : /\ i \in Nat /\ i + 1 \in DOMAIN s /\ i + 1 # 1
                               /\ Tail(s)[i] = s[i + 1]
  BY <1>1
<1>4. h \notin Elements(Tail(s))
  <2>1. 1 \in DOMAIN s
    BY <1>1
  <2>2. \A i \in DOMAIN Tail(s) : s[i + 1] # s[1]
    BY <1>2, <1>3, <2>1
  <2> QED BY <1>1, <1>3, <2>2 DEF Elements
<1>5. \A i, j \in DOMAIN Tail(s) : Tail(s)[i] = Tail(s)[j] => i = j
  <2> SUFFICES ASSUME NEW i \in DOMAIN Tail(s), NEW j \in DOMAIN Tail(s), Tail(s)[i] = Tail(s)[j]
               PROVE  i = j
    OBVIOUS
  <2>1. s[i + 1] = s[j + 1] /\ i + 1 \in DOMAIN s /\ j + 1 \in DOMAIN s /\ i \in Nat /\ j \in Nat
    BY <1>3
  <2>2. i + 1 = j + 1
    BY <1>2, <2>1
  <2> QED BY <2>1, <2>2
<1>6. h \in Messages /\ Elements(s) = {h} \cup Elements(Tail(s))
  BY PendingHead
<1>7. pending'[t] = Tail(s) /\ \A u \in Threads \ {t} : pending'[u] = pending[u]
  BY DEF TypeOK
<1>8. GivenOnce'
  BY <1>5, <1>7 DEF RefInv, GivenOnce
<1>9. /\ Elements(pending'[t]) = Elements(Tail(s))
      /\ \A u \in Threads \ {t} : Elements(pending'[u]) = Elements(pending[u])
  BY <1>7
<1>10. \A m : Give(m)' = {u \in Threads : m \in Elements(pending'[u])}
  BY DEF Give, Elements
<1>11. Give(h)' = Give(h) \ {t} /\ t \in Give(h)
  BY <1>4, <1>6, <1>9, <1>10 DEF Give
<1>12. \A m \in Messages \ {h} : Give(m)' = Give(m)
  BY <1>6, <1>9, <1>10 DEF Give
<1> QED BY <1>6, <1>8, <1>11, <1>12

(* A verification turns the thread's way to a message into a reference to give
   up, and what it drops too; a message it keeps gets a reference more. *)
LEMMA VerifyRefs ==
  ASSUME TypeOK, LineInv, RefInv, NEW t \in Threads, Verify(t)
  PROVE  RefInv'
<1>1. PICK h : h = Head(batch[t])
  OBVIOUS
<1>2. PICK keep \in {{}, {h}}, drop \in SUBSET held[t] :
        /\ held' = [held EXCEPT ![t] = (@ \ drop) \cup keep]
        /\ ref' = IF keep = {} THEN ref ELSE [ref EXCEPT ![h] = @ + 1]
        /\ pending' = [pending EXCEPT ![t] = Ordered(drop) \o <<h>>]
        /\ processed' = [processed EXCEPT ![t] = Append(@, h)]
  BY <1>1 DEF Verify
<1>3. /\ wpc[t] = "work" /\ h # NULL /\ batch' = [batch EXCEPT ![t] = Tail(@)]
      /\ UNCHANGED <<submitted, dpc, cur, mask, turn, cut, ring, freed>>
  BY <1>1 DEF Verify, Running, dispatcher
<1>4. batch[t] # <<>> /\ pending[t] = <<>>
  BY <1>3 DEF LineInv, InHand
<1>5. /\ h \in Messages /\ Elements(batch[t]) = {h} \cup Elements(Tail(batch[t]))
      /\ Tail(batch[t]) \in Seq(Nat) /\ batch[t] = <<h>> \o Tail(batch[t])
  <2>1. Head(batch[t]) \in Messages \cup {NULL}
    BY <1>4, HeadTailProperties DEF TypeOK
  <2>2. batch[t] \in Seq(Nat)
    BY LineParts
  <2> QED BY <1>1, <1>3, <1>4, <2>1, <2>2, ElementsHeadTail
(* The message is nowhere else in the line, and so it is not kept already. *)
<1>6. /\ h \notin Elements(processed[t]) /\ h \notin Elements(Tail(batch[t]))
      /\ h \notin Elements(ring[t])
  <2>1. /\ processed[t] \in Seq(Nat) /\ batch[t] \in Seq(Nat) /\ ring[t] \in Seq(Nat)
        /\ Rising((processed[t] \o batch[t]) \o ring[t])
    BY LineParts DEF LineInv, LinesRise, Line
  <2>2. /\ \A x \in Elements(processed[t]) : x < h
        /\ \A y \in Elements(Tail(batch[t])) \cup Elements(ring[t]) : y = NULL \/ h < y
    BY <1>1, <1>3, <1>4, <2>1, RisingHead
  <2>3. h \in Nat
    BY <1>5, MessageNumbers
  <2> QED BY <1>3, <2>2, <2>3
<1>7. h \notin held[t] /\ ~(dpc = "push" /\ cur = h /\ t \in mask)
  <2>1. h \in Elements(Line(t))
    BY <1>5, LineType
  <2>2. h \notin held[t]
    BY <1>6 DEF RefInv, KeptVerified
  <2> QED BY <1>3, <2>1, <2>2 DEF LineInv, CurNewest
<1>8. /\ Ordered(drop) \o <<h>> \in Seq(Messages)
      /\ Elements(Ordered(drop) \o <<h>>) = drop \cup {h}
      /\ \A i, j \in DOMAIN (Ordered(drop) \o <<h>>) :
           (Ordered(drop) \o <<h>>)[i] = (Ordered(drop) \o <<h>>)[j] => i = j
  BY <1>5, <1>7, GivenUp
<1>9. /\ batch'[t] = Tail(batch[t]) /\ held'[t] = (held[t] \ drop) \cup keep
      /\ Elements(pending'[t]) = drop \cup {h}
      /\ Elements(processed'[t]) = Elements(processed[t]) \cup {h}
  <2>1. Elements(Append(processed[t], h)) = Elements(processed[t]) \cup {h}
    BY <1>5, ElementsAppend DEF TypeOK
  <2> QED BY <1>2, <1>3, <1>8, <2>1 DEF TypeOK
<1>10. \A u \in Threads \ {t} : /\ batch'[u] = batch[u] /\ held'[u] = held[u]
                                /\ pending'[u] = pending[u] /\ processed'[u] = processed[u]
  BY <1>2, <1>3 DEF TypeOK
<1>11. \A m : /\ Way(m)' = {u \in Threads : \/ dpc = "push" /\ cur = m /\ u \in mask
                                            \/ m \in Elements(ring[u]) \cup Elements(batch'[u])}
              /\ Keep(m)' = {u \in Threads : m \in held'[u]}
              /\ Give(m)' = {u \in Threads : m \in Elements(pending'[u])}
  BY <1>3 DEF Way, Keep, Give, Elements
<1>12. /\ t \in Way(h) /\ Way(h)' = Way(h) \ {t}
       /\ \A m \in Messages \ {h} : Way(m)' = Way(m)
  <2>1. t \in Way(h)
    BY <1>5 DEF Way
  <2>2. /\ t \notin Way(h)'
        /\ \A m \in Messages \ {h} : t \in Way(m)' <=> t \in Way(m)
    <3>1. Elements(batch'[t]) = Elements(Tail(batch[t]))
      BY <1>9
    <3>2. t \notin Way(h)'
      BY <1>6, <1>7, <1>11, <3>1
    <3>3. \A m \in Messages \ {h} : m \in Elements(batch'[t]) <=> m \in Elements(batch[t])
      BY <1>5, <3>1
    <3> QED BY <1>11, <3>2, <3>3 DEF Way
  <2>3. \A m, u : u \in Threads \ {t} => (u \in Way(m)' <=> u \in Way(m))
    BY <1>10, <1>11 DEF Way
  <2>4. \A m : Way(m)' \subseteq Threads /\ Way(m) \subseteq Threads
    BY <1>11 DEF Way
  <2> QED BY <2>1, <2>2, <2>3, <2>4
<1>13. \A m : t \notin Give(m)
  BY <1>4, ElementsOne DEF Give
<1>14. \A m \in drop : /\ m # h /\ t \in Keep(m) /\ Keep(m)' = Keep(m) \ {t}
                       /\ Give(m)' = Give(m) \cup {t}
  BY <1>7, <1>9, <1>10, <1>11 DEF Keep, Give
<1>15. \A m \in Messages \ (drop \cup {h}) : Keep(m)' = Keep(m) /\ Give(m)' = Give(m)
  BY <1>4, <1>9, <1>10, <1>11, ElementsOne DEF Keep, Give
<1>16. /\ t \notin Keep(h) /\ Give(h)' = Give(h) \cup {t}
       /\ Keep(h)' = IF keep = {} THEN Keep(h) ELSE Keep(h) \cup {t}
  BY <1>7, <1>9, <1>10, <1>11 DEF Keep, Give
<1>17. /\ Messages' = Messages
       /\ ref'[h] = IF keep = {} THEN ref[h] ELSE ref[h] + 1
       /\ \A m \in Messages \ {h} : ref'[m] = ref[m]
       /\ \A m \in Messages : ref[m] \in Nat
  BY <1>2, <1>3, <1>5 DEF TypeOK, Messages
<1>18. \A m \in Messages : /\ Cardinality(Way(m)) \in Nat /\ Cardinality(Keep(m)) \in Nat
                           /\ Cardinality(Give(m)) \in Nat
                           /\ ref[m] >= Cardinality(Way(m)) + Cardinality(Keep(m)) + Cardinality(Give(m))
  BY ReferenceSets, Count DEF RefInv, Counted
<1>19. Counted'
  <2>1. ref'[h] >= Cardinality(Way(h)') + Cardinality(Keep(h)') + Cardinality(Give(h)')
    <3>1. Cardinality(Way(h)') = Cardinality(Way(h)) - 1
      BY <1>12, ReferenceSets, Count
    <3>2. Cardinality(Give(h)') = Cardinality(Give(h)) + 1
      BY <1>13, <1>16, ReferenceSets, Count
    <3>3. Cardinality(Keep(h)') = IF keep = {} THEN Cardinality(Keep(h)) ELSE Cardinality(Keep(h)) + 1
      BY <1>16, ReferenceSets, Count
    <3>4. /\ ref[h] \in Nat /\ ref[h] >= Cardinality(Way(h)) + Cardinality(Keep(h)) + Cardinality(Give(h))
          /\ Cardinality(Way(h)) \in Nat /\ Cardinality(Keep(h)) \in Nat /\ Cardinality(Give(h)) \in Nat
      BY <1>5, <1>17, <1>18
    <3>5. CASE keep = {}
      BY <1>17, <3>1, <3>2, <3>3, <3>4, <3>5
    <3>6. CASE keep # {}
      BY <1>17, <3>1, <3>2, <3>3, <3>4, <3>6
    <3> QED BY <3>5, <3>6
  <2>2. ASSUME NEW m \in drop
        PROVE  ref'[m] >= Cardinality(Way(m)') + Cardinality(Keep(m)') + Cardinality(Give(m)')
    <3>1. m \in Messages /\ m # h
      BY <1>14 DEF TypeOK
    <3>2. Cardinality(Keep(m)') = Cardinality(Keep(m)) - 1
      BY <1>14, ReferenceSets, Count
    <3>3. Cardinality(Give(m)') = Cardinality(Give(m)) + 1
      BY <1>13, <1>14, ReferenceSets, Count
    <3>4. Cardinality(Way(m)') = Cardinality(Way(m)) /\ ref'[m] = ref[m]
      BY <1>12, <1>17, <3>1
    <3> QED BY <1>17, <1>18, <3>1, <3>2, <3>3, <3>4
  <2>3. ASSUME NEW m \in Messages \ (drop \cup {h})
        PROVE  ref'[m] >= Cardinality(Way(m)') + Cardinality(Keep(m)') + Cardinality(Give(m)')
    BY <1>12, <1>15, <1>17, <1>18, <2>3
  <2> QED BY <1>17, <2>1, <2>2, <2>3 DEF Counted
<1>20. Unreachable'
  <2>1. \A m \in freed : m \in Messages /\ m # h /\ m \notin drop
    BY <1>12, <1>14 DEF RefInv, Unreachable, TypeOK
  <2> QED BY <1>3, <1>12, <1>15, <2>1 DEF RefInv, Unreachable
<1>21. KeptVerified'
  <2>1. \A u \in Threads : held'[u] \subseteq Elements(processed'[u])
    BY <1>9, <1>10 DEF RefInv, KeptVerified
  <2> QED BY <2>1 DEF KeptVerified, Elements
<1>22. GivenOnce'
  <2>1. pending'[t] = Ordered(drop) \o <<h>>
    BY <1>2 DEF TypeOK
  <2>2. \A i, j \in DOMAIN pending'[t] : pending'[t][i] = pending'[t][j] => i = j
    BY <1>8, <2>1
  <2> QED BY <1>10, <2>2 DEF RefInv, GivenOnce
<1> QED BY <1>19, <1>20, <1>21, <1>22 DEF RefInv

(* The last reference frees the message: whoever gives it up was alone. *)
LEMMA FreeLastRefs ==
  ASSUME TypeOK, LineInv, RefInv, NEW t \in Threads, FreeLast(t)
  PROVE  RefInv'
<1>1. PICK h : h = Head(pending[t])
  OBVIOUS
<1>2. /\ wpc[t] = "free" /\ ref[h] <= 1 /\ freed' = freed \cup {h}
      /\ pending' = [pending EXCEPT ![t] = Tail(@)]
      /\ UNCHANGED <<submitted, dpc, cur, mask, ring, batch, held, processed, ref>>
  BY <1>1 DEF FreeLast, Running, dispatcher
<1>3. pending[t] # <<>>
  BY <1>2 DEF LineInv, InHand
<1>4. /\ h \in Messages /\ t \in Give(h) /\ Give(h)' = Give(h) \ {t}
      /\ \A m \in Messages \ {h} : Give(m)' = Give(m)
      /\ GivenOnce'
  BY <1>1, <1>2, <1>3, GiveHead
<1>5. \A m : Way(m)' = Way(m) /\ Keep(m)' = Keep(m)
  BY <1>2 DEF Way, Keep, Elements
<1>6. Way(h) = {} /\ Keep(h) = {} /\ Give(h) \ {t} = {}
  <2>1. /\ Cardinality(Way(h)) \in Nat /\ (Way(h) # {} => Cardinality(Way(h)) >= 1)
        /\ Cardinality(Keep(h)) \in Nat /\ (Keep(h) # {} => Cardinality(Keep(h)) >= 1)
        /\ Cardinality(Give(h)) \in Nat
    BY ReferenceSets, Count
  <2>2. Cardinality(Give(h) \ {t}) = Cardinality(Give(h)) - 1 /\ Cardinality(Give(h) \ {t}) \in Nat
    BY <1>4, ReferenceSets, Count
  <2>3. Give(h) \ {t} \in SUBSET Threads
    BY ReferenceSets
  <2>4. Give(h) \ {t} # {} => Cardinality(Give(h) \ {t}) >= 1
    BY <2>3, Count
  <2>5. ref[h] \in Nat /\ ref[h] >= Cardinality(Way(h)) + Cardinality(Keep(h)) + Cardinality(Give(h))
    BY <1>4 DEF RefInv, Counted, TypeOK
  <2>6. Cardinality(Way(h)) = 0 /\ Cardinality(Keep(h)) = 0 /\ Cardinality(Give(h) \ {t}) = 0
    BY <1>2, <2>1, <2>2, <2>5
  <2> QED BY <2>1, <2>4, <2>6
<1>7. Unreachable'
  <2>1. freed \subseteq Messages
    BY DEF TypeOK
  <2> QED BY <1>2, <1>4, <1>5, <1>6, <2>1 DEF RefInv, Unreachable
<1>8. Counted'
  <2>1. \A m \in Messages :
          /\ Cardinality(Give(m)') \in Nat /\ Cardinality(Give(m)') <= Cardinality(Give(m))
          /\ Cardinality(Way(m)) \in Nat /\ Cardinality(Keep(m)) \in Nat
          /\ Cardinality(Give(m)) \in Nat
    <3>1. \A m \in Messages : Give(m)' \in SUBSET Give(m)
      BY <1>4
    <3> QED BY <3>1, ReferenceSets, Count
  <2>2. \A m \in Messages :
          ref[m] \in Nat /\ ref[m] >= Cardinality(Way(m)) + Cardinality(Keep(m)) + Cardinality(Give(m))
    BY DEF RefInv, Counted, TypeOK
  <2>3. \A m \in Messages : ref[m] >= Cardinality(Way(m)) + Cardinality(Keep(m)) + Cardinality(Give(m)')
    BY <2>1, <2>2
  <2> QED BY <1>2, <1>5, <2>3 DEF Counted, Messages
<1>9. KeptVerified'
  BY <1>2 DEF RefInv, KeptVerified, Elements
<1> QED BY <1>4, <1>7, <1>8, <1>9 DEF RefInv

(* The subtraction: the count goes with the reference. *)
LEMMA SubtractRefs ==
  ASSUME TypeOK, LineInv, RefInv, NEW t \in Threads, Subtract(t)
  PROVE  RefInv'
<1>1. PICK h : h = Head(pending[t])
  OBVIOUS
<1>2. /\ wpc[t] = "subtract" /\ ref' = [ref EXCEPT ![h] = @ - 1]
      /\ pending' = [pending EXCEPT ![t] = Tail(@)]
      /\ UNCHANGED <<submitted, dpc, cur, mask, ring, batch, held, processed, freed>>
  BY <1>1 DEF Subtract, Running, dispatcher
<1>3. pending[t] # <<>>
  BY <1>2 DEF LineInv, InHand
<1>4. /\ h \in Messages /\ t \in Give(h) /\ Give(h)' = Give(h) \ {t}
      /\ \A m \in Messages \ {h} : Give(m)' = Give(m)
      /\ GivenOnce'
  BY <1>1, <1>2, <1>3, GiveHead
<1>5. \A m : Way(m)' = Way(m) /\ Keep(m)' = Keep(m)
  BY <1>2 DEF Way, Keep, Elements
<1>6. Unreachable'
  <2>1. freed \subseteq Messages
    BY DEF TypeOK
  <2> QED BY <1>2, <1>4, <1>5, <2>1 DEF RefInv, Unreachable
<1>7. Counted'
  <2>1. Cardinality(Give(h)') = Cardinality(Give(h)) - 1
    BY <1>4, ReferenceSets, Count
  <2>2. /\ Cardinality(Way(h)) \in Nat /\ Cardinality(Keep(h)) \in Nat /\ Cardinality(Give(h)) \in Nat
        /\ ref[h] \in Nat
        /\ ref[h] >= Cardinality(Way(h)) + Cardinality(Keep(h)) + Cardinality(Give(h))
    BY <1>4, ReferenceSets, Count DEF RefInv, Counted, TypeOK
  <2>3. ref'[h] = ref[h] - 1 /\ \A m \in Messages \ {h} : ref'[m] = ref[m]
    BY <1>2, <1>4 DEF TypeOK
  <2>4. ref'[h] >= Cardinality(Way(h)) + Cardinality(Keep(h)) + Cardinality(Give(h)')
    BY <2>1, <2>2, <2>3
  <2>5. \A m \in Messages \ {h} :
          ref'[m] >= Cardinality(Way(m)) + Cardinality(Keep(m)) + Cardinality(Give(m)')
    BY <1>4, <2>3 DEF RefInv, Counted
  <2>6. Messages' = Messages
    BY <1>2 DEF Messages
  <2> QED BY <1>5, <2>4, <2>5, <2>6 DEF Counted
<1>8. KeptVerified'
  BY <1>2 DEF RefInv, KeptVerified, Elements
<1> QED BY <1>4, <1>6, <1>7, <1>8 DEF RefInv

(* The rules of a thread go with all they kept. *)
LEMMA ReleaseRefs ==
  ASSUME TypeOK, RefInv, Release
  PROVE  RefInv'
<1>1. PICK t \in Threads : t = turn
  BY DEF TypeOK
<1>2. /\ freed' = freed \cup {m \in held[t] : ref[m] <= 1}
      /\ ref' = [m \in DOMAIN ref |-> IF m \in held[t] /\ ref[m] > 1 THEN ref[m] - 1 ELSE ref[m]]
      /\ held' = [held EXCEPT ![t] = {}]
      /\ dpc # "push" /\ dpc' # "push"
      /\ UNCHANGED <<submitted, cur, mask, ring, batch, pending, processed>>
  BY <1>1 DEF Release
<1>3. held'[t] = {} /\ \A u \in Threads \ {t} : held'[u] = held[u]
  BY <1>2 DEF TypeOK
<1>4. \A m : Way(m)' = Way(m) /\ Give(m)' = Give(m) /\ Keep(m)' = Keep(m) \ {t}
  <2>1. \A m : Way(m)' = Way(m) /\ Give(m)' = Give(m)
    BY <1>2 DEF Way, Give, Elements
  <2>2. \A m : Keep(m)' = Keep(m) \ {t}
    BY <1>3 DEF Keep
  <2> QED BY <2>1, <2>2
<1>5. Messages' = Messages /\ held[t] \subseteq Messages /\ freed \subseteq Messages /\ ref \in [Messages -> Nat]
  BY <1>2 DEF TypeOK, Messages
<1>6. ASSUME NEW m \in Messages
      PROVE  /\ ref[m] \in Nat
             /\ ref[m] >= Cardinality(Way(m)) + Cardinality(Keep(m)) + Cardinality(Give(m))
             /\ Cardinality(Way(m)) \in Nat /\ Cardinality(Keep(m)) \in Nat /\ Cardinality(Give(m)) \in Nat
             /\ Way(m) # {} => Cardinality(Way(m)) >= 1
             /\ Give(m) # {} => Cardinality(Give(m)) >= 1
             /\ Cardinality(Keep(m) \ {t}) = Cardinality(Keep(m)) - (IF m \in held[t] THEN 1 ELSE 0)
             /\ Cardinality(Keep(m) \ {t}) \in Nat
             /\ Keep(m) \ {t} # {} => Cardinality(Keep(m) \ {t}) >= 1
  <2>1. ref[m] \in Nat /\ ref[m] >= Cardinality(Way(m)) + Cardinality(Keep(m)) + Cardinality(Give(m))
    BY <1>5 DEF RefInv, Counted
  <2>2. /\ Cardinality(Way(m)) \in Nat /\ Cardinality(Keep(m)) \in Nat /\ Cardinality(Give(m)) \in Nat
        /\ Way(m) # {} => Cardinality(Way(m)) >= 1
        /\ Give(m) # {} => Cardinality(Give(m)) >= 1
    BY ReferenceSets, Count
  <2>3. t \in Keep(m) <=> m \in held[t]
    BY DEF Keep
  <2>4. t \notin Keep(m) => Keep(m) \ {t} = Keep(m)
    OBVIOUS
  <2>5. Cardinality(Keep(m) \ {t}) = Cardinality(Keep(m)) - (IF m \in held[t] THEN 1 ELSE 0)
    <3>1. CASE m \in held[t]
      BY <2>3, <3>1, ReferenceSets, Count
    <3>2. CASE m \notin held[t]
      BY <2>2, <2>3, <2>4, <3>2
    <3> QED BY <3>1, <3>2
  <2>6. Keep(m) \ {t} \in SUBSET Threads
    BY ReferenceSets
  <2>7. /\ Cardinality(Keep(m) \ {t}) \in Nat
        /\ Keep(m) \ {t} # {} => Cardinality(Keep(m) \ {t}) >= 1
    BY <2>6, Count
  <2> QED BY <2>1, <2>2, <2>5, <2>7
<1>7. ASSUME NEW m \in Messages
      PROVE  ref'[m] = IF m \in held[t] /\ ref[m] > 1 THEN ref[m] - 1 ELSE ref[m]
  BY <1>2, <1>5
<1>8. Counted'
  <2> SUFFICES ASSUME NEW m \in Messages
               PROVE  ref'[m] >= Cardinality(Way(m)) + Cardinality(Keep(m) \ {t}) + Cardinality(Give(m))
    BY <1>4, <1>5 DEF Counted
  <2>1. CASE m \in held[t] /\ ref[m] > 1
    BY <1>6, <1>7, <2>1
  <2>2. CASE ~(m \in held[t] /\ ref[m] > 1)
    BY <1>6, <1>7, <2>2
  <2> QED BY <2>1, <2>2
<1>9. Unreachable'
  <2> SUFFICES ASSUME NEW m \in freed' PROVE Way(m) = {} /\ Keep(m) \ {t} = {} /\ Give(m) = {}
    BY <1>4 DEF Unreachable
  <2>1. CASE m \in freed
    BY <2>1 DEF RefInv, Unreachable
  <2>2. CASE m \in held[t] /\ ref[m] <= 1
    <3>1. m \in Messages
      BY <1>5, <2>2
    <3>2. Cardinality(Way(m)) = 0 /\ Cardinality(Keep(m) \ {t}) = 0 /\ Cardinality(Give(m)) = 0
      BY <1>6, <2>2, <3>1
    <3> QED BY <1>6, <3>1, <3>2
  <2> QED BY <1>2, <2>1, <2>2
<1>10. KeptVerified' /\ GivenOnce'
  <2>1. GivenOnce'
    BY <1>2 DEF RefInv, GivenOnce
  <2>2. \A u \in Threads : held'[u] \subseteq Elements(processed[u])
    BY <1>3 DEF RefInv, KeptVerified
  <2>3. KeptVerified'
    BY <1>2, <2>2 DEF KeptVerified, Elements
  <2> QED BY <2>1, <2>3
<1> QED BY <1>8, <1>9, <1>10 DEF RefInv

LEMMA NextRefInv ==
  ASSUME TypeOK, LineInv, RefInv, [Next]_vars
  PROVE  RefInv'
<1>1. ASSUME NEW attributes \in SUBSET Attributes, Discard(attributes) PROVE RefInv'
  <2>1. /\ dpc = "idle" /\ dpc' = "idle" /\ freed' = freed \cup {Len(submitted')}
        /\ submitted' = Append(submitted, attributes) /\ ref' = Append(ref, 1)
        /\ UNCHANGED <<ring, worker>>
    BY <1>1 DEF Discard
  <2> QED BY <2>1, NewMessageRefs
<1>2. ASSUME NEW attributes \in SUBSET Attributes, Submit(attributes) PROVE RefInv'
  <2>1. PICK n : n = 1 + (Cardinality(Recipients(attributes)) - 1)
    OBVIOUS
  <2>2. /\ dpc = "idle" /\ Recipients(attributes) # {}
        /\ submitted' = Append(submitted, attributes) /\ ref' = Append(ref, n)
        /\ dpc' = "push" /\ cur' = Len(submitted') /\ mask' = Recipients(attributes)
        /\ UNCHANGED <<ring, worker, freed>>
    BY <1>2, <2>1 DEF Submit
  <2>3. n \in Nat /\ n = Cardinality(mask') /\ mask' \in SUBSET Threads
    BY <2>1, <2>2, RecipientsCount
  <2> QED BY <2>2, <2>3, NewMessageRefs
<1>3. CASE Stop \/ PushSkip \/ PushFull \/ Join
  <2>1. UNCHANGED <<submitted, ring, worker, ref, freed>>
    BY <1>3 DEF Stop, PushSkip, PushFull, Join
  <2>2. \A m \in Messages : Way(m)' \subseteq Way(m)
    <3>1. \A m \in Messages : dpc' = "push" /\ cur' = m => dpc = "push" /\ cur = m /\ mask' = mask
      BY <1>3, MessageNumbers DEF Stop, PushSkip, PushFull, Join
    <3> QED BY <2>1, <3>1 DEF Way, Elements, worker
  <2>3. \A m : Keep(m)' = Keep(m) /\ Give(m)' = Give(m)
    BY <2>1 DEF Keep, Give, Elements, worker
  <2>4. Counted' /\ Unreachable'
    BY <2>1, <2>2, <2>3, NoReferenceMore
  <2>5. KeptVerified' /\ GivenOnce'
    BY <2>1 DEF RefInv, KeptVerified, GivenOnce, Elements, worker
  <2> QED BY <2>4, <2>5 DEF RefInv
<1>4. CASE PushOne
  <2>0. PICK t \in Threads : t = turn
    BY DEF TypeOK
  <2>1. /\ dpc = "push" /\ t \in mask /\ mask' = mask \ {t} /\ cur' = cur
        /\ ring' = [ring EXCEPT ![t] = Append(@, cur)]
        /\ UNCHANGED <<submitted, worker, ref, freed>>
    BY <1>4, <2>0 DEF PushOne
  <2>2. /\ Elements(ring'[t]) = Elements(ring[t]) \cup {cur}
        /\ \A u \in Threads \ {t} : ring'[u] = ring[u]
    <3>1. Elements(Append(ring[t], cur)) = Elements(ring[t]) \cup {cur}
      <4>1. ring[t] \in Seq(Messages \cup {NULL}) /\ cur \in Messages \cup {NULL}
        BY DEF TypeOK
      <4> QED BY <4>1, ElementsAppend
    <3> QED BY <2>1, <3>1 DEF TypeOK
  <2>3. \A m : Way(m)' \subseteq Way(m)
    <3>1. \A m : Way(m)' = {u \in Threads : \/ dpc' = "push" /\ cur = m /\ u \in mask'
                                            \/ m \in Elements(ring'[u]) \cup Elements(batch[u])}
      BY <2>1 DEF Way, Elements, worker
    <3> QED BY <2>1, <2>2, <3>1 DEF Way
  <2>4. \A m : Keep(m)' = Keep(m) /\ Give(m)' = Give(m)
    BY <2>1 DEF Keep, Give, Elements, worker
  <2>5. Counted' /\ Unreachable'
    BY <2>1, <2>3, <2>4, NoReferenceMore
  <2>6. KeptVerified' /\ GivenOnce'
    BY <2>1 DEF RefInv, KeptVerified, GivenOnce, Elements, worker
  <2> QED BY <2>5, <2>6 DEF RefInv
<1>5. CASE Release
  BY <1>5, ReleaseRefs
<1>6. ASSUME NEW t \in Threads, Pop(t) \/ Exit(t) \/ FreeShared(t) PROVE RefInv'
  <2>1. UNCHANGED <<submitted, dpc, cur, mask, held, pending, processed, ref, freed>>
    BY <1>6 DEF Pop, Exit, FreeShared, dispatcher
  <2>2. \A u \in Threads : Elements(ring'[u]) \cup Elements(batch'[u])
                             \subseteq Elements(ring[u]) \cup Elements(batch[u])
    <3>1. CASE Pop(t)
      <4>1. PICK n \in 1 .. Len(ring[t]) :
              /\ batch' = [batch EXCEPT ![t] = SubSeq(ring[t], 1, n)]
              /\ ring' = [ring EXCEPT ![t] = SubSeq(@, n + 1, Len(@))]
        BY <3>1 DEF Pop
      <4>2. ring[t] \in Seq(Nat)
        BY LineParts
      <4>3. Elements(ring[t]) = Elements(SubSeq(ring[t], 1, n)) \cup Elements(SubSeq(ring[t], n + 1, Len(ring[t])))
        BY <4>2, ElementsSplit
      <4>4. /\ batch'[t] = SubSeq(ring[t], 1, n) /\ ring'[t] = SubSeq(ring[t], n + 1, Len(ring[t]))
            /\ \A u \in Threads \ {t} : batch'[u] = batch[u] /\ ring'[u] = ring[u]
        BY <4>1 DEF TypeOK
      <4> QED BY <4>3, <4>4
    <3>2. CASE Exit(t)
      <4>1. ring' = ring /\ batch'[t] = <<>> /\ \A u \in Threads \ {t} : batch'[u] = batch[u]
        BY <3>2 DEF Exit, TypeOK
      <4> QED BY <4>1, ElementsOne
    <3>3. CASE FreeShared(t)
      BY <3>3 DEF FreeShared
    <3> QED BY <1>6, <3>1, <3>2, <3>3
  <2>3. \A m : Way(m)' \subseteq Way(m)
    <3>1. \A m : Way(m)' = {u \in Threads : \/ dpc = "push" /\ cur = m /\ u \in mask
                                            \/ m \in Elements(ring'[u]) \cup Elements(batch'[u])}
      BY <2>1 DEF Way, Elements
    <3> QED BY <2>2, <3>1 DEF Way
  <2>4. \A m : Keep(m)' = Keep(m) /\ Give(m)' = Give(m)
    BY <2>1 DEF Keep, Give, Elements
  <2>5. Counted' /\ Unreachable'
    BY <2>1, <2>3, <2>4, NoReferenceMore
  <2>6. KeptVerified' /\ GivenOnce'
    BY <2>1 DEF RefInv, KeptVerified, GivenOnce, Elements
  <2> QED BY <2>5, <2>6 DEF RefInv
<1>7. ASSUME NEW t \in Threads, Verify(t) \/ FreeLast(t) \/ Subtract(t) PROVE RefInv'
  BY <1>7, VerifyRefs, FreeLastRefs, SubtractRefs
<1>8. CASE UNCHANGED vars
  <2>1. UNCHANGED <<submitted, dpc, cur, mask, ring, batch, held, pending, processed, ref, freed>>
    BY <1>8 DEF vars, dispatcher, worker
  <2>2. \A m : Way(m)' = Way(m) /\ Keep(m)' = Keep(m) /\ Give(m)' = Give(m)
    BY <2>1 DEF Way, Keep, Give, Elements
  <2>3. Counted' /\ Unreachable'
    BY <2>1, <2>2, NoReferenceMore
  <2>4. KeptVerified' /\ GivenOnce'
    BY <2>1 DEF RefInv, KeptVerified, GivenOnce, Elements
  <2> QED BY <2>3, <2>4 DEF RefInv
<1> QED
  BY <1>1, <1>2, <1>3, <1>4, <1>5, <1>6, <1>7, <1>8 DEF Next, Dispatch, Work

-----------------------------------------------------------------------------
LEMMA Invariance == Spec => []IInv
<1>1. Init => IInv
  BY InitTypeOK, InitLineInv, InitRefInv DEF IInv
<1>2. IInv /\ [Next]_vars => IInv'
  BY NextTypeOK, NextLineInv, NextRefInv DEF IInv
<1> QED BY <1>1, <1>2, PTL DEF Spec

(* In every state, every variable has its type and no thread can reach a message
   whose memory was released: neither through its ring, nor in its batch, nor in
   the traces of its rules, nor among the references it is giving up
   (free_message_ts, mmt_smp_sec_process). *)
THEOREM MemoryIsSafe == Spec => []MemorySafe
<1>1. IInv => MemorySafe
  <2> SUFFICES ASSUME IInv PROVE FreedUnused
    BY DEF IInv, MemorySafe
  <2>1. \A m \in freed, t \in Threads : t \notin Way(m) /\ t \notin Keep(m) /\ t \notin Give(m)
    BY DEF IInv, RefInv, Unreachable
  <2> QED BY <2>1 DEF FreedUnused, Refers, Way, Keep, Give
<1> QED BY <1>1, Invariance, PTL

(* NULL is only ever the last message of a batch; when the memory of the threads
   is given back they have all ended; and by then each has verified every message
   that concerned it, save the one whose dispatch a signal cut short
   (_process_one_thread, mmt_smp_sec_unregister). *)
THEOREM EndsInOrder == Spec => []EndInOrder
<1>1. IInv => NullLast
  <2> SUFFICES ASSUME IInv, NEW t \in Threads, NEW i \in 1 .. Len(batch[t]) - 1, batch[t][i] = NULL
               PROVE  FALSE
    BY DEF NullLast
  <2> DEFINE p == processed[t]
             b == batch[t]
  <2>1. p \in Seq(Nat) /\ b \in Seq(Nat) /\ ring[t] \in Seq(Nat) /\ p \o b \in Seq(Nat)
    BY LineParts DEF IInv
  <2>2. Rising((p \o b) \o ring[t])
    BY DEF IInv, LineInv, LinesRise, Line
  <2>3. Rising(p \o b)
    BY <2>1, <2>2, RisingPrefix
  <2>4. /\ Len(p) \in Nat /\ Len(b) \in Nat /\ DOMAIN (p \o b) = 1 .. Len(p) + Len(b)
        /\ \A k \in 1 .. Len(p) + Len(b) : (p \o b)[k] = IF k <= Len(p) THEN p[k] ELSE b[k - Len(p)]
    <3> HIDE DEF p, b
    <3>1. /\ Len(p) \in Nat /\ Len(b) \in Nat /\ Len(p \o b) = Len(p) + Len(b)
          /\ \A k \in 1 .. Len(p) + Len(b) : (p \o b)[k] = IF k <= Len(p) THEN p[k] ELSE b[k - Len(p)]
      BY <2>1, ConcatProperties, LenProperties
    <3>2. DOMAIN (p \o b) = 1 .. Len(p \o b)
      BY <2>1, LenProperties
    <3> QED BY <3>1, <3>2
  <2>5. /\ Len(p) \in Nat /\ Len(b) \in Nat /\ i \in 1 .. Len(b) - 1
        /\ batch[t][i] = NULL /\ b[i] = NULL
    BY <2>4
  <2> HIDE DEF p, b
  <2>6. /\ Len(p) + i \in 1 .. Len(p) + Len(b) /\ Len(p) + Len(b) \in 1 .. Len(p) + Len(b)
        /\ Len(p) + i < Len(p) + Len(b) /\ Len(p) + i > Len(p) /\ Len(p) + i - Len(p) = i
    BY <2>5
  <2>7. (p \o b)[Len(p) + i] = NULL
    BY <2>4, <2>5, <2>6
  <2> QED BY <2>3, <2>4, <2>6, <2>7 DEF Rising
<1>2. IInv => ThreadsEnded
  BY DEF IInv, LineInv, JoinedInTurn, ThreadsEnded
<1>3. IInv => NothingLost
  <2> SUFFICES ASSUME IInv, dpc = "gone", NEW t \in Threads, NEW m \in Messages \ {cut}, Wants(t, m)
               PROVE  m \in Elements(processed[t])
    BY DEF NothingLost
  <2>1. batch[t] = <<>> /\ ring[t] = <<>>
    BY DEF IInv, LineInv, JoinedInTurn, InHand
  <2>2. m \in Elements(Line(t))
    BY DEF IInv, LineInv, AllInLine
  <2> QED BY <2>1, <2>2, LineType, ElementsOne DEF IInv
<1> QED BY <1>1, <1>2, <1>3, Invariance, PTL DEF EndInOrder

-----------------------------------------------------------------------------
(* What module Delivery calls Left, the messages a thread was not given yet. *)
LEMMA LeftIs ==
  ASSUME NEW t \in Threads
  PROVE  Promise!Left(t) =
           {m \in Messages : Wants(t, m) /\ (processed[t] # <<>> => processed[t][Len(processed[t])] < m)}
BY DEF Promise!Left, Promise!Concerns, Messages, Wants

(* A thread verifies the first of the messages that are left for it. *)
LEMMA VerifyGets ==
  ASSUME IInv, NEW t \in Threads, Verify(t)
  PROVE  Promise!Get(t)
<1> USE DEF IInv
<1>1. PICK h : h = Head(batch[t])
  OBVIOUS
<1>2. /\ h # NULL /\ Wants(t, h) /\ wpc[t] = "work" /\ submitted' = submitted
      /\ processed' = [processed EXCEPT ![t] = Append(@, h)]
  BY <1>1 DEF Verify, Running, dispatcher
<1>3. batch[t] # <<>>
  BY <1>2 DEF LineInv, InHand
<1>4. /\ h \in Messages /\ h \in Nat /\ Len(submitted) \in Nat
      /\ Elements(batch[t]) = {h} \cup Elements(Tail(batch[t]))
  <2>1. Head(batch[t]) \in Messages \cup {NULL}
    BY <1>3, HeadTailProperties DEF TypeOK
  <2>2. batch[t] \in Seq(Nat)
    BY LineParts
  <2> QED BY <1>1, <1>2, <1>3, <2>1, <2>2, ElementsHeadTail, MessageNumbers
<1>5. /\ \A x \in Elements(processed[t]) : x < h
      /\ \A y \in Elements(Tail(batch[t])) \cup Elements(ring[t]) : y = NULL \/ h < y
  <2>1. /\ processed[t] \in Seq(Nat) /\ batch[t] \in Seq(Nat) /\ ring[t] \in Seq(Nat)
        /\ Rising((processed[t] \o batch[t]) \o ring[t])
    BY LineParts DEF LineInv, LinesRise, Line
  <2> QED BY <1>1, <1>2, <1>3, <2>1, RisingHead
<1>6. processed[t] # <<>> => processed[t][Len(processed[t])] \in Elements(processed[t])
  <2>1. processed[t] \in Seq(Nat)
    BY LineParts
  <2>2. processed[t] # <<>> => Len(processed[t]) \in DOMAIN processed[t]
    BY <2>1, EmptySeq, LenProperties
  <2> QED BY <2>2 DEF Elements
<1>7. h \in Promise!Left(t)
  BY <1>2, <1>4, <1>5, <1>6, LeftIs
<1>8. ASSUME NEW k \in Promise!Left(t) PROVE h <= k
  <2>1. k \in Messages /\ Wants(t, k) /\ (processed[t] # <<>> => processed[t][Len(processed[t])] < k)
    BY LeftIs
  <2>2. k \in Nat /\ k # NULL /\ k <= Len(submitted) /\ h <= Len(submitted)
    BY <1>4, <2>1, MessageNumbers
  <2>3. CASE k \in Elements(Line(t))
    <3>1. k \notin Elements(processed[t])
      (* It would not be after the last one, the line being in order. *)
      <4> SUFFICES ASSUME k \in Elements(processed[t]) PROVE FALSE
        OBVIOUS
      <4>1. PICK i \in DOMAIN processed[t] : processed[t][i] = k
        BY DEF Elements
      <4>2. /\ processed[t] \in Seq(Nat) /\ batch[t] \in Seq(Nat) /\ ring[t] \in Seq(Nat)
            /\ processed[t] \o batch[t] \in Seq(Nat)
            /\ Rising((processed[t] \o batch[t]) \o ring[t])
        BY LineParts DEF LineInv, LinesRise, Line
      <4>3. Rising(processed[t])
        <5>1. Rising(processed[t] \o batch[t])
          BY <4>2, RisingPrefix
        <5> QED BY <4>2, <5>1, RisingPrefix
      <4>4. /\ DOMAIN processed[t] = 1 .. Len(processed[t]) /\ Len(processed[t]) \in Nat
            /\ i <= Len(processed[t]) /\ processed[t] # <<>>
            /\ processed[t][Len(processed[t])] \in Nat
        BY <4>1, <4>2, LenProperties, EmptySeq, ElementOfSeq
      <4>5. processed[t][Len(processed[t])] \in Messages
        BY <4>4 DEF TypeOK
      <4>6. CASE i = Len(processed[t])
        BY <2>1, <2>2, <4>1, <4>4, <4>6
      <4>7. CASE i < Len(processed[t])
        BY <2>1, <2>2, <4>1, <4>3, <4>4, <4>5, <4>7, MessageNumbers DEF Rising
      <4> QED BY <4>1, <4>4, <4>6, <4>7
    <3>2. k = h \/ k \in Elements(Tail(batch[t])) \cup Elements(ring[t])
      BY <1>4, <2>3, <3>1, LineType
    <3> QED BY <1>4, <1>5, <2>2, <3>2
  <2>4. CASE k = cut
    BY <2>2, <2>4 DEF LineInv, CutNewest
  <2>5. CASE dpc = "push" /\ cur = k /\ t \in mask
    BY <2>2, <2>5 DEF LineInv, CurNewest
  <2> QED BY <2>1, <2>3, <2>4, <2>5 DEF LineInv, AllInLine
<1> QED BY <1>2, <1>7, <1>8 DEF Promise!Get

(* The threads and the rings keep the promise of module Delivery: what concerns
   a thread reaches it once and in the order it was handed over, however many
   rings are full, and whatever is verified is the oldest message left. *)
THEOREM DeliveryRefinement == Spec => ImplementsDelivery
<1>1. Init => Promise!Init
  BY DEF Init, Promise!Init
<1>2. IInv /\ [Next]_vars => [Promise!Next]_Promise!vars
  <2> SUFFICES ASSUME IInv, [Next]_vars PROVE [Promise!Next]_Promise!vars
    OBVIOUS
  <2>1. ASSUME NEW attributes \in SUBSET Attributes, Discard(attributes) \/ Submit(attributes)
        PROVE  Promise!Send(attributes)
    BY <2>1 DEF Discard, Submit, worker, Promise!Send
  <2>2. ASSUME NEW t \in Threads, Verify(t) PROVE Promise!Get(t)
    BY <2>2, VerifyGets
  <2>3. CASE \/ Stop \/ PushSkip \/ PushOne \/ PushFull \/ Join \/ Release
             \/ \E t \in Threads : Pop(t) \/ Exit(t) \/ FreeLast(t) \/ FreeShared(t) \/ Subtract(t)
             \/ UNCHANGED vars
    BY <2>3 DEF Stop, PushSkip, PushOne, PushFull, Join, Release, Pop, Exit, FreeLast, FreeShared,
       Subtract, vars, dispatcher, worker, Promise!vars
  <2> QED BY <2>1, <2>2, <2>3 DEF Next, Dispatch, Work, Promise!Next
<1> QED BY <1>1, <1>2, Invariance, PTL DEF Spec, ImplementsDelivery, Promise!Spec
=============================================================================
