----------------------------- MODULE MessageProofs -----------------------------
(***************************************************************************)
(* Proofs about messages (Messages) and the text of an alert (TraceText):  *)
(* the data of a message lie in its buffer and say what the input says,    *)
(* for all options, reports and packets, of any length and in any order;   *)
(* and an alert that fits its buffer shows what its messages say.          *)
(***************************************************************************)
EXTENDS TraceText, FiniteSetTheorems, SequenceTheorems, WellFoundedInduction, TLAPS

(* Induction up to n, about the set of numbers that something is true of. *)
LEMMA UpTo ==
  ASSUME NEW n \in Nat, NEW A, 0 \in A, \A k \in 1 .. n : k - 1 \in A => k \in A
  PROVE  \A k \in 0 .. n : k \in A
<1> DEFINE T == (0 .. n) \ A
           R == OpToRel(<, Nat)
<1>1. SUFFICES ASSUME T # {} PROVE FALSE
  OBVIOUS
<1>2. IsWellFoundedOn(R, Nat)
  BY NatLessThanWellFounded
<1>3. \A x \in Nat, y \in Nat : <<y, x>> \in R <=> y < x
  BY DEF OpToRel
<1>4. PICK r : IsWellFoundedOn(r, Nat) /\ \A x \in Nat, y \in Nat : <<y, x>> \in r <=> y < x
  <2> HIDE DEF R
  <2> QED BY <1>2, <1>3
<1>5. T \subseteq Nat
  OBVIOUS
<1>6. PICK x \in T : \A y \in T : ~(<<y, x>> \in r)
  <2> HIDE DEF T
  <2> QED BY <1>1, <1>4, <1>5, WFMin
<1>7. x \in 1 .. n /\ x - 1 \in Nat /\ x - 1 < x /\ x - 1 \in 0 .. n
  <2>1. x \in 0 .. n /\ x # 0
    BY <1>6
  <2> QED BY <2>1
<1>8. x - 1 \notin T
  <2> HIDE DEF T
  <2>1. x \in Nat /\ <<x - 1, x>> \in r
    BY <1>4, <1>7
  <2> QED BY <1>6, <2>1
<1>9. x - 1 \in A /\ x \notin A
  BY <1>6, <1>7, <1>8
<1> QED BY <1>7, <1>9

(* Max is the greatest. *)
LEMMA MaxIs ==
  ASSUME NEW k \in Nat, NEW u \in SUBSET (1 .. k), k \in u
  PROVE  Max(u) = k
<1>1. \A y \in u : k >= y
  OBVIOUS
<1>2. \A x \in u : (\A y \in u : x >= y) => x = k
  BY <1>1
<1> QED BY <1>1, <1>2 DEF Max

-----------------------------------------------------------------------------
(* Sums.  What Total adds up, place by place. *)
Sums(f, n, g) == g = [k \in 0 .. n |-> IF k = 0 THEN 0 ELSE g[k - 1] + f[k]]

LEMMA SumsExist ==
  ASSUME NEW f, NEW n \in Nat
  PROVE  \E g : Sums(f, n, g)
<1> DEFINE A == {k \in 0 .. n : \E g : Sums(f, k, g)}
<1>1. 0 \in A
  <2>1. PICK g : g = [k \in 0 .. 0 |-> 0]
    OBVIOUS
  <2>2. Sums(f, 0, g)
    BY <2>1 DEF Sums
  <2> QED BY <2>2
<1>2. ASSUME NEW k \in 1 .. n, k - 1 \in A PROVE k \in A
  <2>1. PICK g : Sums(f, k - 1, g)
    BY <1>2
  <2>2. PICK h : h = [l \in 0 .. k |-> IF l = k THEN g[k - 1] + f[k] ELSE g[l]]
    OBVIOUS
  <2>3. \A l \in 0 .. k : l # k => l \in 0 .. k - 1
    OBVIOUS
  <2>4. \A l \in 0 .. k - 1 : h[l] = g[l] /\ g[l] = IF l = 0 THEN 0 ELSE g[l - 1] + f[l]
    BY <2>1, <2>2 DEF Sums
  <2>5. \A l \in 0 .. k - 1 : l # 0 => l - 1 \in 0 .. k - 1
    OBVIOUS
  <2>6. ASSUME NEW l \in 0 .. k PROVE h[l] = IF l = 0 THEN 0 ELSE h[l - 1] + f[l]
    <3>1. CASE l = k
      <4>1. h[l] = g[k - 1] + f[k] /\ k - 1 \in 0 .. k - 1 /\ l # 0
        BY <2>2, <3>1
      <4> QED BY <2>4, <3>1, <4>1
    <3>2. CASE l # k
      <4>1. l \in 0 .. k - 1
        BY <2>3, <3>2
      <4> QED BY <2>4, <2>5, <4>1
    <3> QED BY <3>1, <3>2
  <2>7. Sums(f, k, h)
    BY <2>2, <2>6 DEF Sums
  <2> QED BY <2>7
<1>3. n \in A
  <2> HIDE DEF A
  <2>1. n \in 0 .. n
    OBVIOUS
  <2> QED BY <1>1, <1>2, <2>1, UpTo
<1> QED BY <1>3

Agree(f, e, n) == \A k \in 1 .. n : f[k] = e[k]

LEMMA SumsAgree ==
  ASSUME NEW f, NEW e, NEW n \in Nat, NEW m \in Nat, n <= m, Agree(f, e, n),
         NEW g, Sums(f, n, g), NEW h, Sums(e, m, h)
  PROVE  g[n] = h[n]
<1> DEFINE A == {k \in 0 .. n : g[k] = h[k]}
<1>1. 0 \in A
  <2>1. g[0] = 0 /\ h[0] = 0
    BY DEF Sums
  <2> QED BY <2>1
<1>2. ASSUME NEW k \in 1 .. n, k - 1 \in A PROVE k \in A
  <2>1. k \in 0 .. n /\ k \in 0 .. m /\ k # 0
    OBVIOUS
  <2>2. g[k] = g[k - 1] + f[k]
    BY <2>1 DEF Sums
  <2>3. h[k] = h[k - 1] + e[k]
    BY <2>1 DEF Sums
  <2>4. g[k - 1] = h[k - 1] /\ f[k] = e[k]
    BY <1>2 DEF Agree
  <2> QED BY <2>1, <2>2, <2>3, <2>4
<1>3. n \in A
  <2> HIDE DEF A
  <2>1. n \in 0 .. n
    OBVIOUS
  <2> QED BY <1>1, <1>2, <2>1, UpTo
<1> QED BY <1>3

LEMMA TotalIs ==
  ASSUME NEW f, NEW n \in Nat
  PROVE  \E g : Sums(f, n, g) /\ Total(f, n) = g[n]
<1>1. PICK g : g = CHOOSE h : Sums(f, n, h)
  OBVIOUS
<1>2. Sums(f, n, g)
  BY <1>1, SumsExist
<1>3. Total(f, n) = g[n]
  BY <1>1 DEF Total, Sums
<1> QED BY <1>2, <1>3

LEMMA TotalAgrees ==
  ASSUME NEW f, NEW e, NEW n \in Nat, \A k \in 1 .. n : f[k] = e[k]
  PROVE  Total(f, n) = Total(e, n)
<1>1. PICK g : Sums(f, n, g) /\ Total(f, n) = g[n]
  BY TotalIs
<1>2. PICK h : Sums(e, n, h) /\ Total(e, n) = h[n]
  BY TotalIs
<1>3. g[n] = h[n]
  <2>1. n <= n /\ Agree(f, e, n)
    BY DEF Agree
  <2> QED BY <1>1, <1>2, <2>1, SumsAgree
<1> QED BY <1>1, <1>2, <1>3

LEMMA TotalNext ==
  ASSUME NEW f, NEW n \in Nat
  PROVE  Total(f, 0) = 0 /\ Total(f, n + 1) = Total(f, n) + f[n + 1]
<1>1. PICK g : Sums(f, n, g) /\ Total(f, n) = g[n]
  BY TotalIs
<1>2. n + 1 \in Nat /\ n <= n + 1 /\ n + 1 \in 0 .. n + 1 /\ n + 1 # 0 /\ n + 1 - 1 = n
  OBVIOUS
<1>3. PICK h : Sums(f, n + 1, h) /\ Total(f, n + 1) = h[n + 1]
  BY <1>2, TotalIs
<1>4. g[n] = h[n]
  <2>1. Agree(f, f, n)
    BY DEF Agree
  <2> QED BY <1>1, <1>2, <1>3, <2>1, SumsAgree
<1>5. h[n + 1] = h[n] + f[n + 1]
  BY <1>2, <1>3 DEF Sums
<1>6. Total(f, 0) = 0
  <2>1. PICK e : Sums(f, 0, e) /\ Total(f, 0) = e[0]
    BY TotalIs
  <2> QED BY <2>1 DEF Sums
<1> QED BY <1>1, <1>3, <1>4, <1>5, <1>6

(* A sum of naturals is one, and grows. *)
LEMMA TotalGrows ==
  ASSUME NEW n \in Nat, NEW f \in [1 .. n -> Nat]
  PROVE  \A k \in 0 .. n : Total(f, k) \in Nat /\ Total(f, k) <= Total(f, n)
<1> DEFINE A == {k \in 0 .. n : \A l \in 0 .. k : Total(f, l) \in Nat /\ Total(f, l) <= Total(f, k)}
<1>1. 0 \in A
  <2>1. Total(f, 0) = 0
    BY TotalNext
  <2>2. \A l \in 0 .. 0 : l = 0
    OBVIOUS
  <2> QED BY <2>1, <2>2
<1>2. ASSUME NEW k \in 1 .. n, k - 1 \in A PROVE k \in A
  <2>1. PICK m \in Nat : m = k - 1 /\ m + 1 = k
    OBVIOUS
  <2>2. Total(f, k) = Total(f, m) + f[k]
    BY <2>1, TotalNext
  <2>3. f[k] \in Nat
    OBVIOUS
  <2>4. Total(f, m) \in Nat /\ \A l \in 0 .. m : Total(f, l) \in Nat /\ Total(f, l) <= Total(f, m)
    <3>1. m \in 0 .. m
      BY <2>1
    <3> QED BY <1>2, <2>1, <3>1
  <2>5. Total(f, k) \in Nat /\ Total(f, m) <= Total(f, k)
    BY <2>2, <2>3, <2>4
  <2>6. ASSUME NEW l \in 0 .. k PROVE Total(f, l) \in Nat /\ Total(f, l) <= Total(f, k)
    <3>1. CASE l = k
      BY <2>5, <3>1
    <3>2. CASE l \in 0 .. m
      BY <2>4, <2>5, <3>2
    <3> QED BY <2>1, <3>1, <3>2
  <2>7. k \in 0 .. n
    OBVIOUS
  <2> QED BY <2>6, <2>7
<1>3. \A k \in 0 .. n : k \in A
  <2> HIDE DEF A
  <2> QED BY <1>1, <1>2, UpTo
<1>4. n \in 0 .. n /\ \A k \in 0 .. n : Total(f, k) \in Nat /\ Total(f, k) <= Total(f, n)
  <2>1. n \in 0 .. n
    OBVIOUS
  <2> QED BY <1>3, <2>1
<1> QED BY <1>4

-----------------------------------------------------------------------------
(* Lengths.  A set of numbers has a least. *)
LEMMA LeastOf == ASSUME NEW T \in SUBSET Nat, T # {} PROVE \E k \in T : \A l \in T : k <= l
<1> DEFINE R == OpToRel(<, Nat)
<1>1. IsWellFoundedOn(R, Nat)
  BY NatLessThanWellFounded
<1>2. \A k \in Nat, l \in Nat : <<l, k>> \in R <=> l < k
  BY DEF OpToRel
<1>3. PICK r : IsWellFoundedOn(r, Nat) /\ \A k \in Nat, l \in Nat : <<l, k>> \in r <=> l < k
  <2> HIDE DEF R
  <2> QED BY <1>1, <1>2
<1> HIDE DEF R
<1>4. PICK k \in T : \A l \in T : ~(<<l, k>> \in r)
  BY <1>3, WFMin
<1>5. ASSUME NEW l \in T PROVE k <= l
  <2>1. k \in Nat /\ l \in Nat /\ ~(<<l, k>> \in r)
    BY <1>4
  <2>2. ~(l < k)
    BY <1>3, <2>1
  <2> QED BY <2>1, <2>2
<1> QED BY <1>5

LastOf(x) == IF x.by = "probe" THEN Len(x.fields) ELSE Len(Types)

(* What an input is, by its fields. *)
LEMMA InputIs ==
  ASSUME NEW x \in Inputs
  PROVE  /\ x.by \in {"probe", "dpi"} /\ x # NoInput /\ LastOf(x) \in Nat
         /\ \A k \in 1 .. LastOf(x) : FieldOf(x, k) \in AField
         /\ x.by = "dpi" => x \in APacket
<1>1. Len(Types) \in Nat
  BY TypesAssumption, LenProperties
<1>2. CASE x \in AReport
  <2>1. x.by = "probe" /\ x.fields \in Seq(AField)
    BY <1>2 DEF AReport
  <2>2. Len(x.fields) \in Nat /\ \A k \in 1 .. Len(x.fields) : x.fields[k] \in AField
    BY <2>1, LenProperties, ElementOfSeq
  <2> QED BY <2>1, <2>2 DEF NoInput, LastOf, FieldOf
<1>3. CASE x \in APacket /\ Len(x.data) = Len(Types)
  <2>1. x.by = "dpi" /\ x.data \in Seq(AField)
    BY <1>3 DEF APacket
  <2>2. \A k \in 1 .. Len(Types) : x.data[k] \in AField
    BY <1>3, <2>1, LenProperties, ElementOfSeq
  <2> QED BY <1>1, <1>3, <2>1, <2>2 DEF NoInput, LastOf, FieldOf
<1> QED BY <1>2, <1>3, InputAssumption

(* Offsets grow along the path. *)
LEMMA OffsetsGrow ==
  ASSUME NEW p \in APacket
  PROVE  /\ Len(p.path) \in Nat /\ p.caplen \in Nat
         /\ \A k \in 1 .. Len(p.path) : /\ Offset(p, k) \in Nat /\ Offset(p, k) <= Offset(p, Len(p.path))
                                        /\ \A l \in 1 .. k : Offset(p, l) <= Offset(p, k)
<1>1. p.path \in Seq([proto : STRING, offset : Nat]) /\ p.caplen \in Nat
  BY WidthAssumption DEF APacket
<1>2. PICK n \in Nat : n = Len(p.path)
  BY <1>1, LenProperties
<1>3. \A k \in 1 .. n : p.path[k].offset \in Nat
  <2> SUFFICES ASSUME NEW k \in 1 .. n PROVE p.path[k].offset \in Nat
    OBVIOUS
  <2>1. p.path[k] \in [proto : STRING, offset : Nat]
    BY <1>1, <1>2, ElementOfSeq
  <2> QED BY <2>1
<1>4. PICK f : f = [l \in 1 .. n |-> IF l = 1 THEN 0 ELSE p.path[l].offset]
  OBVIOUS
<1>5. f \in [1 .. n -> Nat]
  BY <1>3, <1>4
<1>6. ASSUME NEW k \in 1 .. n PROVE Offset(p, k) = Total(f, k)
  <2>1. PICK e : e = [l \in 1 .. k |-> IF l = 1 THEN 0 ELSE p.path[l].offset]
    OBVIOUS
  <2>2. \A l \in 1 .. k : l \in 1 .. n
    OBVIOUS
  <2>3. \A l \in 1 .. k : e[l] = f[l]
    BY <1>4, <2>1, <2>2
  <2>4. Total(e, k) = Total(f, k)
    BY <2>3, TotalAgrees
  <2> QED BY <2>1, <2>4 DEF Offset
<1>7. \A k \in 0 .. n : Total(f, k) \in Nat /\ Total(f, k) <= Total(f, n)
  BY <1>5, TotalGrows
<1>8. ASSUME NEW k \in 1 .. n, NEW l \in 1 .. k PROVE Offset(p, l) <= Offset(p, k)
  <2>1. PICK e : e = [j \in 1 .. k |-> f[j]]
    OBVIOUS
  <2>2. \A j \in 1 .. k : j \in 1 .. n /\ f[j] \in Nat
    BY <1>5
  <2>3. e \in [1 .. k -> Nat]
    BY <2>1, <2>2
  <2>4. k \in Nat /\ l \in 0 .. k /\ l \in Nat /\ l \in 1 .. n
    OBVIOUS
  <2>5. Total(e, l) <= Total(e, k)
    BY <2>3, <2>4, TotalGrows
  <2>6. \A j \in 1 .. k : e[j] = f[j]
    BY <2>1
  <2>7. Total(e, k) = Total(f, k) /\ Total(e, l) = Total(f, l)
    <3>1. \A j \in 1 .. l : e[j] = f[j]
      BY <2>6
    <3> QED BY <2>4, <2>6, <3>1, TotalAgrees
  <2> QED BY <1>6, <2>4, <2>5, <2>7
<1>9. ASSUME NEW k \in 1 .. n PROVE Offset(p, k) \in Nat /\ Offset(p, k) <= Offset(p, n)
  <2>1. n \in 1 .. n /\ k \in 0 .. n
    OBVIOUS
  <2> QED BY <1>6, <1>7, <2>1
<1> QED BY <1>1, <1>2, <1>8, <1>9

(* Where a protocol first is. *)
LEMMA PlaceIs ==
  ASSUME NEW p \in APacket, NEW proto, Places(p, proto) # {}
  PROVE  Place(p, proto) \in 2 .. Len(p.path)
<1>1. Places(p, proto) \in SUBSET Nat /\ Places(p, proto) \subseteq 2 .. Len(p.path)
  BY OffsetsGrow DEF Places
<1>2. \E k \in Places(p, proto) : \A l \in Places(p, proto) : k <= l
  BY <1>1, LeastOf
<1>3. Place(p, proto) \in Places(p, proto)
  BY <1>2 DEF Place
<1> QED BY <1>1, <1>3

(* What is left of a number that wraps. *)
LEMMA WrapIs ==
  ASSUME NEW a \in Int, NEW w \in Nat \ {0}
  PROVE  a % w \in 0 .. w - 1 /\ a % w \in Nat /\ (a \in Nat => a % w <= a) /\ (a \in 0 .. w - 1 => a % w = a)
<1>1. a % w \in 0 .. w - 1 /\ (a \in 0 .. w - 1 => a % w = a)
  OBVIOUS
<1>2. PICK b \in 0 .. w - 1 : b = a % w
  BY <1>1
<1>3. a \in Nat => b <= a
  BY <1>1, <1>2
<1> QED BY <1>1, <1>2, <1>3

LEMMA BehindIs ==
  ASSUME NEW p \in APacket, NEW k \in 1 .. Len(p.path)
  PROVE  /\ Behind(p, k) \in 0 .. UINT16 - 1 /\ Behind(p, k) \in Nat
         /\ Offset(p, k) <= p.caplen => /\ Offset(p, k) + Behind(p, k) <= p.caplen
                                        /\ p.caplen - Offset(p, k) < UINT16 => Offset(p, k) + Behind(p, k) = p.caplen
<1>1. PICK c, o : c = p.caplen /\ o = Offset(p, k)
  OBVIOUS
<1>2. o \in Nat /\ c \in Nat
  BY <1>1, OffsetsGrow
<1>3. PICK w \in Nat \ {0} : w = UINT16
  BY WidthAssumption
<1>4. PICK d \in Int : d = c - o
  BY <1>2
<1>5. PICK b : b = d % w
  OBVIOUS
<1>6. b \in 0 .. w - 1 /\ b \in Nat /\ (d \in Nat => b <= d) /\ (d \in 0 .. w - 1 => b = d)
  BY <1>5, WrapIs
<1>7. o <= c => o + b <= c /\ (c - o < w => o + b = c)
  BY <1>2, <1>3, <1>4, <1>6
<1>8. Behind(p, k) = b
  BY <1>1, <1>3, <1>4, <1>5 DEF Behind
<1> QED BY <1>1, <1>3, <1>6, <1>7, <1>8

LEMMA LengthsAre ==
  ASSUME NEW p \in APacket, NEW proto
  PROVE  PayloadLen(p, proto) \in 0 .. UINT16 - 1 /\ DataLen(p, proto) \in 0 .. UINT16 - 1
<1>1. 0 \in 0 .. UINT16 - 1
  BY WidthAssumption
<1>2. CASE Places(p, proto) = {}
  BY <1>1, <1>2 DEF PayloadLen, DataLen
<1>3. CASE Places(p, proto) # {}
  <2>1. PICK k \in 2 .. Len(p.path) : k = Place(p, proto)
    BY <1>3, PlaceIs
  <2>2. Len(p.path) \in Nat
    BY OffsetsGrow
  <2>3. k \in 1 .. Len(p.path) /\ (k # Len(p.path) => k + 1 \in 1 .. Len(p.path))
    BY <2>2
  <2>4. Behind(p, k) \in 0 .. UINT16 - 1 /\ (k # Len(p.path) => Behind(p, k + 1) \in 0 .. UINT16 - 1)
    BY <2>3, BehindIs
  <2> QED BY <1>1, <1>3, <2>1, <2>4 DEF PayloadLen, DataLen
<1> QED BY <1>2, <1>3

(* A length that cannot wrap any sum it is added to. *)
Short(len) == len \in Nat /\ len < UINT32 + 256
(* Options of a header that is too short to have any. *)
Wraps(x, i) == x.by = "dpi" /\ x.ipHeader \in 0 .. 19 /\ Pointee[i] = "options"

LEMMA OptionsAre ==
  ASSUME NEW p \in APacket
  PROVE  OptionLen(p) \in Nat /\ (p.ipHeader \notin 0 .. 19 => OptionLen(p) < 256)
<1>1. PICK h \in -1 .. 255 : h = p.ipHeader
  BY DEF APacket
<1>2. PICK w \in Nat \ {0} : w = SIZE_T /\ w > 255
  BY WidthAssumption
<1>3. PICK d \in Int : d = h - 20
  OBVIOUS
<1>4. d % w \in Nat /\ (d \in 0 .. w - 1 => d % w = d)
  BY WrapIs
<1>5. OptionLen(p) = IF h = -1 THEN 0 ELSE d % w
  BY <1>1, <1>2, <1>3 DEF OptionLen
<1>6. h \notin 0 .. 19 => h = -1 \/ (d \in 0 .. w - 1 /\ d < 256)
  BY <1>2, <1>3
<1> QED BY <1>1, <1>4, <1>5, <1>6

LEMMA LengthIs ==
  ASSUME NEW x \in Inputs, NEW k \in 1 .. LastOf(x)
  PROVE  /\ LengthOf(x, k) \in Nat /\ (LengthOf(x, k) # 0 => AttOf(x, k) \in Attributes)
         /\ Short(LengthOf(x, k)) \/ (Wraps(x, k) /\ AttOf(x, k) = k)
<1>1. PICK i, f : i = AttOf(x, k) /\ f = FieldOf(x, k)
  OBVIOUS
<1>2. f.len \in 0 .. UINT32 - 1 /\ f.null \in BOOLEAN
  BY <1>1, InputIs DEF AField
<1>3. ASSUME NEW l \in 0 .. UINT32 - 1 PROVE l \in Nat /\ Short(l)
  BY WidthAssumption DEF Short
<1>4. f.len \in Nat /\ Short(f.len) /\ Short(0)
  <2>1. 0 \in 0 .. UINT32 - 1
    BY WidthAssumption
  <2> QED BY <1>2, <1>3, <2>1
<1>5. SizeOf(i, f) \in Nat /\ Short(SizeOf(i, f))
  <2>1. CASE Types[i] \in DOMAIN Sizes
    <3>1. Sizes[Types[i]] \in 0 .. UINT32 - 1
      BY <2>1, TypesAssumption
    <3>2. SizeOf(i, f) \in 0 .. UINT32 - 1
      BY <1>2, <2>1, <3>1, WidthAssumption DEF SizeOf
    <3> QED BY <1>3, <3>2
  <2>2. CASE Types[i] \notin DOMAIN Sizes /\ Types[i] \in Texts
    BY <1>4, <2>2 DEF SizeOf
  <2>3. CASE Types[i] \notin DOMAIN Sizes /\ Types[i] \notin Texts
    BY <1>4, <2>3 DEF SizeOf
  <2> QED BY <2>1, <2>2, <2>3
<1>6. x.by = "dpi" => /\ PointeeLen(x, i, f) \in Nat
                      /\ Short(PointeeLen(x, i, f)) \/ (Wraps(x, i) /\ i = k)
  <2> SUFFICES ASSUME x.by = "dpi" PROVE PointeeLen(x, i, f) \in Nat /\ (Short(PointeeLen(x, i, f)) \/ (Wraps(x, i) /\ i = k))
    OBVIOUS
  <2>1. x \in APacket /\ i = k
    BY <1>1, InputIs DEF AttOf
  <2>2. OptionLen(x) \in Nat /\ (x.ipHeader \notin 0 .. 19 => Short(OptionLen(x)))
    <3>1. \A l \in Nat : l < 256 => Short(l)
      BY WidthAssumption DEF Short
    <3> QED BY <2>1, <3>1, OptionsAre
  <2>3. /\ PayloadLen(x, Owner[i]) \in Nat /\ Short(PayloadLen(x, Owner[i]))
        /\ DataLen(x, Owner[i]) \in Nat /\ Short(DataLen(x, Owner[i]))
    <3>1. \A l \in 0 .. UINT16 - 1 : l \in 0 .. UINT32 - 1
      BY WidthAssumption
    <3> QED BY <1>3, <2>1, <3>1, LengthsAre
  <2>4. CASE Pointee[i] = "options"
    <3>1. PointeeLen(x, i, f) = OptionLen(x)
      BY <2>4 DEF PointeeLen
    <3> QED BY <2>1, <2>2, <2>4, <3>1 DEF Wraps
  <2>5. CASE Pointee[i] # "options"
    BY <1>4, <2>3, <2>5 DEF PointeeLen
  <2> QED BY <2>4, <2>5
<1>7. LengthOf(x, k) = IF i \notin Attributes \/ f.null THEN 0
                       ELSE CASE x.by = "probe" /\ Types[i] \in Pointers \cup {"pointer"} -> f.len
                              [] x.by = "dpi" /\ Types[i] = "pointer" -> PointeeLen(x, i, f)
                              [] OTHER -> SizeOf(i, f)
  BY <1>1 DEF LengthOf
<1>8. CASE i \notin Attributes \/ f.null
  BY <1>1, <1>4, <1>7, <1>8
<1>9. CASE i \in Attributes /\ ~f.null
  <2>1. CASE x.by = "probe" /\ Types[i] \in Pointers \cup {"pointer"}
    <3>1. ~(x.by = "dpi")
      BY <2>1
    <3> QED BY <1>1, <1>4, <1>7, <1>9, <2>1, <3>1
  <2>2. CASE x.by = "dpi" /\ Types[i] = "pointer"
    <3>1. ~(x.by = "probe")
      BY <2>2
    <3> QED BY <1>1, <1>6, <1>7, <1>9, <2>2, <3>1
  <2>3. CASE ~(x.by = "probe" /\ Types[i] \in Pointers \cup {"pointer"}) /\ ~(x.by = "dpi" /\ Types[i] = "pointer")
    BY <1>1, <1>5, <1>7, <1>9, <2>3
  <2> QED BY <2>1, <2>2, <2>3
<1> QED BY <1>8, <1>9

-----------------------------------------------------------------------------
(* Messages.  Their data lie in the buffer, apart, and the bits say which there are. *)
AnElement == {Absent} \cup [at : Nat, len : Nat \ {0}, field : Nat \ {0}]
AMessage == [elements : [Attributes -> AnElement], hash : SUBSET Attributes, index : Nat, overrun : BOOLEAN, length : Nat]

Apart(m, i, j) ==
  \/ m.elements[i].at + m.elements[i].len < m.elements[j].at - Header
  \/ m.elements[j].at + m.elements[j].len < m.elements[i].at - Header

Kept(m) ==
  /\ m \in AMessage /\ m.hash = Present(m) /\ m.index < UINT32 /\ m.length < UINT32
  /\ \A i \in Present(m) : /\ m.elements[i].at >= Header
                           /\ m.elements[i].at + m.elements[i].len < m.index
                           /\ m.elements[i].at + m.elements[i].len < m.length
  /\ \A i, j \in Present(m) : i # j => Apart(m, i, j)

LEMMA ElementIs ==
  ASSUME NEW m \in AMessage, NEW i \in Attributes
  PROVE  /\ m.elements[i] \in AnElement
         /\ i \in Present(m) => /\ m.elements[i].at \in Nat /\ m.elements[i].len \in Nat \ {0}
                                /\ m.elements[i].field \in Nat \ {0}
         /\ i \notin Present(m) => m.elements[i].at = -1 /\ m.elements[i].len = 0 /\ m.elements[i].field = 0
<1>1. m.elements[i] \in AnElement
  BY DEF AMessage
<1>2. i \in Present(m) <=> m.elements[i] # Absent
  BY DEF Present
<1> QED BY <1>1, <1>2 DEF AnElement, Absent

LEMMA NewIsKept ==
  ASSUME config \in [DOMAIN Defaults -> 0 .. UINT32 - 1]
  PROVE  Kept(Create) /\ Create.index = 0 /\ Create.overrun = FALSE /\ \A i \in Attributes : Create.elements[i].field = 0
<1>1. PICK c : c = (config["input.max_message_size"] + Len(Types) * Header) % UINT32
  OBVIOUS
<1>2. c \in Nat /\ c < UINT32 /\ 0 < UINT32
  <2>1. config["input.max_message_size"] \in Nat
    BY ConfigAssumption, WidthAssumption
  <2>2. Len(Types) \in Nat /\ Header \in Nat
    BY TypesAssumption, WidthAssumption, LenProperties
  <2>3. \A a, b, d \in Nat : a + b * d \in Int
    OBVIOUS
  <2>4. PICK a \in Int : c = a % UINT32
    BY <1>1, <2>1, <2>2, <2>3
  <2>5. PICK w \in Nat \ {0} : w = UINT32
    BY WidthAssumption
  <2>6. a % w \in 0 .. w - 1
    BY WrapIs
  <2> QED BY <2>4, <2>5, <2>6
<1>3. PICK e : e = [i \in Attributes |-> Absent]
  OBVIOUS
<1>4. PICK m : m = [elements |-> e, hash |-> {}, index |-> 0, overrun |-> FALSE, length |-> c]
  OBVIOUS
<1>5. m = Create
  BY <1>1, <1>3, <1>4 DEF Create
<1>6. m.elements = e /\ m.hash = {} /\ m.index = 0 /\ m.overrun = FALSE /\ m.length = c
  BY <1>4
<1>7. m \in AMessage
  <2>1. e \in [Attributes -> AnElement] /\ {} \in SUBSET Attributes
    BY <1>3 DEF AnElement
  <2> HIDE DEF AnElement
  <2> QED BY <1>2, <1>4, <2>1 DEF AMessage
<1>8. Present(m) = {} /\ \A i \in Attributes : m.elements[i].field = 0
  <2>1. \A i \in Attributes : m.elements[i] = Absent
    BY <1>3, <1>6
  <2> QED BY <2>1 DEF Present, Absent
<1>9. Kept(m)
  BY <1>2, <1>6, <1>7, <1>8 DEF Kept
<1> QED BY <1>5, <1>6, <1>8, <1>9

(* Nothing but a length that wraps is found to fit when it does not. *)
LEMMA FitsIs ==
  ASSUME NEW m, Kept(m), NEW len \in Nat
  PROVE  /\ TooBig(m, len) => m.index + len + Header + 1 >= m.length
         /\ Short(len) /\ ~TooBig(m, len) => ~(m.index + len + Header + 1 >= m.length)
<1>1. m.index \in Nat /\ m.length \in Nat /\ m.index < UINT32
  BY DEF Kept, AMessage
<1>2. PICK h \in Nat, w \in Nat \ {0}, u \in Nat : h = Header /\ w = SIZE_T /\ u = UINT32 /\ 2 * u + h + 256 <= w
  BY WidthAssumption
<1>3. PICK a \in Int : a = m.index + len + Header + 1
  BY <1>1, <1>2
<1>4. a \in Nat
  BY <1>1, <1>2, <1>3
<1>5. a % w \in Nat /\ a % w <= a /\ (a \in 0 .. w - 1 => a % w = a)
  BY <1>4, WrapIs
<1>6. Short(len) => a \in 0 .. w - 1
  BY <1>1, <1>2, <1>3 DEF Short
<1>7. TooBig(m, len) <=> a % w >= m.length
  BY <1>2, <1>3 DEF TooBig
<1> QED BY <1>1, <1>3, <1>4, <1>5, <1>6, <1>7

(* What is stored goes behind what is there. *)
Stored(m, i, f, len) ==
  [m EXCEPT !.hash = @ \cup {i}, !.index = @ + len + Header + 1,
            !.elements[i] = [at |-> m.index + Header, len |-> len, field |-> f]]

LEMMA StoredIs ==
  ASSUME NEW m, Kept(m), NEW i \in Attributes, NEW f \in Nat \ {0}, NEW len \in Nat \ {0},
         ~(m.index + len + Header + 1 >= m.length), NEW s, s = Stored(m, i, f, len)
  PROVE  /\ Kept(s) /\ s.length = m.length /\ s.index = m.index + len + Header + 1 /\ s.overrun = m.overrun
         /\ s.elements[i].field = f /\ s.elements[i].len = len
         /\ \A j \in Attributes : j # i => s.elements[j] = m.elements[j]
<1>1. /\ m \in AMessage /\ m.hash = Present(m) /\ m.index \in Nat /\ m.length \in Nat /\ Header \in Nat
      /\ m.overrun \in BOOLEAN /\ m.length < UINT32 /\ UINT32 \in Nat
  BY WidthAssumption DEF Kept, AMessage
<1>2. m.elements \in [Attributes -> AnElement] /\ m.hash \in SUBSET Attributes
  BY <1>1 DEF AMessage
<1>3. PICK e : e = [at |-> m.index + Header, len |-> len, field |-> f]
  OBVIOUS
<1>4. e.at = m.index + Header /\ e.len = len /\ e.field = f /\ e \in AnElement /\ e # Absent
  <2>1. e.at = m.index + Header /\ e.len = len /\ e.field = f
    BY <1>3
  <2>2. m.index + Header \in Nat
    BY <1>1
  <2>3. e \in AnElement
    BY <1>3, <2>2 DEF AnElement
  <2>4. e # Absent
    BY <2>1 DEF Absent
  <2> QED BY <2>1, <2>3, <2>4
<1>5. PICK els : els = [m.elements EXCEPT ![i] = e]
  OBVIOUS
<1>6. els \in [Attributes -> AnElement] /\ els[i] = e /\ \A j \in Attributes : j # i => els[j] = m.elements[j]
  <2> HIDE DEF AnElement
  <2> QED BY <1>2, <1>4, <1>5
<1>7. /\ s.elements = els /\ s.hash = m.hash \cup {i} /\ s.index = m.index + len + Header + 1 /\ s.length = m.length
      /\ s.overrun = m.overrun
  BY <1>1, <1>3, <1>5 DEF Stored, AMessage
<1>8. s \in AMessage
  <2>1. s = [elements |-> els, hash |-> m.hash \cup {i}, index |-> m.index + len + Header + 1, overrun |-> m.overrun,
             length |-> m.length]
    BY <1>1, <1>3, <1>5 DEF Stored, AMessage
  <2>2. m.hash \cup {i} \in SUBSET Attributes /\ m.index + len + Header + 1 \in Nat
    BY <1>1, <1>2
  <2> HIDE DEF AnElement
  <2> QED BY <1>1, <1>6, <2>1, <2>2 DEF AMessage
<1>9. Present(s) = Present(m) \cup {i}
  BY <1>4, <1>6, <1>7 DEF Present
<1>10. e.at + e.len < s.index /\ e.at + e.len < s.length /\ e.at >= Header /\ s.index < UINT32 /\ s.length < UINT32
  BY <1>1, <1>4, <1>7
<1>11. ASSUME NEW j \in Present(m), j # i
       PROVE  /\ s.elements[j].at >= Header
              /\ s.elements[j].at + s.elements[j].len < s.index
              /\ s.elements[j].at + s.elements[j].len < s.length
              /\ s.elements[j].at + s.elements[j].len < e.at - Header
  <2>1. j \in Attributes /\ s.elements[j] = m.elements[j]
    BY <1>6, <1>7, <1>11 DEF Present
  <2>2. /\ m.elements[j].at >= Header
        /\ m.elements[j].at + m.elements[j].len < m.index
        /\ m.elements[j].at + m.elements[j].len < m.length
    BY DEF Kept
  <2>3. m.elements[j].at \in Nat /\ m.elements[j].len \in Nat
    BY <1>1, <2>1, ElementIs
  <2> QED BY <1>1, <1>4, <1>7, <2>1, <2>2, <2>3
<1>12. ASSUME NEW a \in Present(s), NEW b \in Present(s), a # b PROVE Apart(s, a, b)
  <2>1. CASE a = i
    BY <1>6, <1>7, <1>9, <1>11, <1>12, <2>1 DEF Apart
  <2>2. CASE b = i
    BY <1>6, <1>7, <1>9, <1>11, <1>12, <2>2 DEF Apart
  <2>3. CASE a # i /\ b # i
    <3>1. a \in Present(m) /\ b \in Present(m) /\ Apart(m, a, b)
      BY <1>9, <1>12, <2>3 DEF Kept
    <3>2. s.elements[a] = m.elements[a] /\ s.elements[b] = m.elements[b]
      BY <1>6, <1>7, <2>3, <3>1 DEF Present
    <3> QED BY <3>1, <3>2 DEF Apart
  <2> QED BY <2>1, <2>2, <2>3
<1>13. s.hash = Present(s)
  BY <1>1, <1>7, <1>9
<1>14. \A j \in Present(s) : /\ s.elements[j].at >= Header
                             /\ s.elements[j].at + s.elements[j].len < s.index
                             /\ s.elements[j].at + s.elements[j].len < s.length
  BY <1>6, <1>7, <1>9, <1>10, <1>11
<1>15. Kept(s)
  BY <1>8, <1>10, <1>12, <1>13, <1>14 DEF Kept
<1> QED BY <1>4, <1>6, <1>7, <1>15

-----------------------------------------------------------------------------
(* A message says what the first n fields say. *)
Holds(m, x, n, i) ==
  LET f    == m.elements[i].field
      said == Said(x, n, i)
  IN  /\ f # 0 => f \in said /\ m.elements[i].len = LengthOf(x, f)
      /\ Needed(x, n) < m.length /\ said # {} => f = Max(said)

Says(m, x, n) ==
  /\ m.index <= Needed(x, n)
  /\ \A i \in Attributes : Holds(m, x, n, i)

LEMMA NeededIs ==
  ASSUME NEW x \in Inputs, NEW n \in 0 .. LastOf(x)
  PROVE  /\ Needed(x, n) \in Nat /\ Needed(x, 0) = 0
         /\ n + 1 <= LastOf(x) => Needed(x, n + 1) = Needed(x, n) + LengthOf(x, n + 1) + Header + 1
<1>1. n \in Nat /\ LastOf(x) \in Nat
  BY InputIs
<1>2. ASSUME NEW k \in 1 .. LastOf(x) PROVE LengthOf(x, k) + Header + 1 \in Nat
  <2>1. LengthOf(x, k) \in Nat /\ Header \in Nat
    BY LengthIs, WidthAssumption
  <2> QED BY <2>1
<1>3. PICK f : f = [k \in 1 .. n |-> LengthOf(x, k) + Header + 1]
  OBVIOUS
<1>4. f \in [1 .. n -> Nat] /\ Needed(x, n) = Total(f, n)
  <2>1. \A k \in 1 .. n : k \in 1 .. LastOf(x)
    BY <1>1
  <2> QED BY <1>2, <1>3, <2>1 DEF Needed
<1>5. Needed(x, n) \in Nat
  <2>1. n \in 0 .. n
    BY <1>1
  <2> QED BY <1>1, <1>4, <2>1, TotalGrows
<1>6. Needed(x, 0) = 0
  BY TotalNext DEF Needed
<1>7. ASSUME n + 1 <= LastOf(x) PROVE Needed(x, n + 1) = Needed(x, n) + LengthOf(x, n + 1) + Header + 1
  <2>1. PICK g : g = [k \in 1 .. n + 1 |-> LengthOf(x, k) + Header + 1]
    OBVIOUS
  <2>2. Needed(x, n + 1) = Total(g, n + 1)
    BY <2>1 DEF Needed
  <2>3. Total(g, n + 1) = Total(g, n) + g[n + 1]
    BY <1>1, TotalNext
  <2>4. Total(g, n) = Total(f, n)
    <3>1. \A k \in 1 .. n : k \in 1 .. n + 1
      BY <1>1
    <3>2. \A k \in 1 .. n : g[k] = f[k]
      BY <1>3, <2>1, <3>1
    <3> QED BY <1>1, <3>2, TotalAgrees
  <2>5. PICK l \in Nat : l = LengthOf(x, n + 1)
    <3>1. n + 1 \in 1 .. LastOf(x)
      BY <1>1, <1>7
    <3> QED BY <3>1, LengthIs
  <2>6. g[n + 1] = l + Header + 1
    <3>1. n + 1 \in 1 .. n + 1
      BY <1>1
    <3> QED BY <2>1, <2>5, <3>1
  <2> QED BY <1>4, <1>5, <2>2, <2>3, <2>4, <2>5, <2>6, WidthAssumption
<1> QED BY <1>5, <1>6, <1>7

(* One field more. *)
IsSaid(x, k, i) == AttOf(x, k) = i /\ LengthOf(x, k) > 0 /\ ~(FieldOf(x, k).zero /\ i \in Flags)

LEMMA SaidNext ==
  ASSUME NEW x, NEW n \in Nat, NEW i
  PROVE  /\ Said(x, 0, i) = {} /\ Said(x, n, i) \in SUBSET (1 .. n)
         /\ IsSaid(x, n + 1, i) => Said(x, n + 1, i) = Said(x, n, i) \cup {n + 1} /\ Max(Said(x, n + 1, i)) = n + 1
         /\ ~IsSaid(x, n + 1, i) => Said(x, n + 1, i) = Said(x, n, i)
<1>1. \A m : Said(x, m, i) = {k \in 1 .. m : IsSaid(x, k, i)}
  BY DEF Said, IsSaid
<1>2. 1 .. n + 1 = (1 .. n) \cup {n + 1} /\ 1 .. 0 = {} /\ n + 1 \in Nat /\ n + 1 \in 1 .. n + 1
  OBVIOUS
<1>3. Said(x, 0, i) = {} /\ Said(x, n, i) \in SUBSET (1 .. n)
  BY <1>1, <1>2
<1>4. ASSUME IsSaid(x, n + 1, i)
      PROVE  Said(x, n + 1, i) = Said(x, n, i) \cup {n + 1} /\ Max(Said(x, n + 1, i)) = n + 1
  <2>1. Said(x, n + 1, i) = Said(x, n, i) \cup {n + 1}
    BY <1>1, <1>2, <1>4
  <2>2. PICK u \in SUBSET (1 .. n + 1) : u = Said(x, n + 1, i)
    BY <1>1
  <2>3. Max(u) = n + 1
    BY <1>2, <2>1, <2>2, MaxIs
  <2> QED BY <2>1, <2>2, <2>3
<1>5. ASSUME ~IsSaid(x, n + 1, i) PROVE Said(x, n + 1, i) = Said(x, n, i)
  <2>1. ASSUME NEW k PROVE k \in 1 .. n + 1 /\ IsSaid(x, k, i) <=> k \in 1 .. n /\ IsSaid(x, k, i)
    <3>1. k \in 1 .. n + 1 <=> k \in 1 .. n \/ k = n + 1
      BY <1>2
    <3> QED BY <1>5, <3>1
  <2>2. {k \in 1 .. n + 1 : IsSaid(x, k, i)} = {k \in 1 .. n : IsSaid(x, k, i)}
    BY <2>1
  <2> QED BY <1>1, <2>2
<1> QED BY <1>3, <1>4, <1>5

Taken(m, x, k) ==
  IF LengthOf(x, k) = 0 THEN m ELSE SetElement(m, AttOf(x, k), k, LengthOf(x, k), FieldOf(x, k).zero)

LEMMA TakenSays ==
  ASSUME NEW x \in Inputs, NEW n \in Nat, n + 1 <= LastOf(x), NEW m, Kept(m), Says(m, x, n),
         NEW s, s = Taken(m, x, n + 1)
  PROVE  Kept(s) /\ Says(s, x, n + 1) /\ (s.overrun => m.overrun \/ Wraps(x, n + 1))
<1>1. PICK k, len, i : k = n + 1 /\ len = LengthOf(x, k) /\ i = AttOf(x, k)
  OBVIOUS
<1>2. k \in 1 .. LastOf(x) /\ n \in 0 .. LastOf(x) /\ k \in Nat \ {0}
  BY <1>1, InputIs
<1>3. len \in Nat /\ (len # 0 => i \in Attributes) /\ (Short(len) \/ Wraps(x, k))
  BY <1>1, <1>2, LengthIs
<1>4. PICK old, new : old = Needed(x, n) /\ new = Needed(x, k)
  OBVIOUS
<1>5. old \in Nat /\ Header \in Nat /\ new = old + len + Header + 1 /\ m.index \in Nat /\ m.length \in Nat /\ m.index <= old
  <2>1. n + 1 <= LastOf(x)
    OBVIOUS
  <2>2. old \in Nat /\ new = old + len + Header + 1
    BY <1>1, <1>2, <1>4, <2>1, NeededIs
  <2>3. m.index \in Nat /\ m.length \in Nat
    BY DEF Kept, AMessage
  <2> QED BY <1>4, <2>2, <2>3, WidthAssumption DEF Says
<1>6. /\ \A j : IsSaid(x, k, j) => Said(x, k, j) = Said(x, n, j) \cup {k} /\ Max(Said(x, k, j)) = k
      /\ \A j : ~IsSaid(x, k, j) => Said(x, k, j) = Said(x, n, j)
  <2> SUFFICES ASSUME NEW j
               PROVE  /\ IsSaid(x, k, j) => Said(x, k, j) = Said(x, n, j) \cup {k} /\ Max(Said(x, k, j)) = k
                      /\ ~IsSaid(x, k, j) => Said(x, k, j) = Said(x, n, j)
    OBVIOUS
  <2> QED BY <1>1, SaidNext
<1>7. ASSUME NEW j \in Attributes, ~IsSaid(x, k, j), NEW q, q.elements[j] = m.elements[j], q.length = m.length
      PROVE  Holds(q, x, k, j)
  <2>1. Holds(m, x, n, j)
    BY DEF Says
  <2>2. Said(x, k, j) = Said(x, n, j)
    BY <1>6, <1>7
  <2>3. new < m.length => old < m.length
    BY <1>3, <1>5
  <2> QED BY <1>4, <1>7, <2>1, <2>2, <2>3 DEF Holds
<1>8. CASE s = m /\ \A j \in Attributes : ~IsSaid(x, k, j)
  <2>1. \A j \in Attributes : Holds(m, x, k, j)
    BY <1>7, <1>8
  <2>2. m.index <= new
    BY <1>3, <1>5
  <2> QED BY <1>1, <1>4, <1>8, <2>1, <2>2 DEF Says
<1>9. ASSUME s.elements = m.elements, s.index = m.index, s.length = m.length, new >= m.length PROVE Says(s, x, k)
  <2>1. ASSUME NEW j \in Attributes PROVE Holds(s, x, k, j)
    <3>1. Holds(m, x, n, j)
      BY DEF Says
    <3>2. ~(new < m.length)
      BY <1>3, <1>5, <1>9
    <3>3. Said(x, n, j) \subseteq Said(x, k, j)
      BY <1>6
    <3> QED BY <1>4, <1>9, <3>1, <3>2, <3>3 DEF Holds
  <2>2. m.index <= new
    BY <1>3, <1>5
  <2> QED BY <1>1, <1>4, <1>9, <2>1, <2>2 DEF Says
<1>10. CASE len = 0
  <2>1. s = m
    BY <1>1, <1>10 DEF Taken
  <2>2. \A j \in Attributes : ~IsSaid(x, k, j)
    BY <1>1, <1>10 DEF IsSaid
  <2> QED BY <1>8, <2>1, <2>2
<1>11. CASE len # 0
  <2>1. s = SetElement(m, i, k, len, FieldOf(x, k).zero)
    BY <1>1, <1>11 DEF Taken
  <2>2. CASE TooBig(m, len)
    <3>1. s = m
      BY <2>1, <2>2 DEF SetElement
    <3>2. new >= m.length
      <4>1. m.index + len + Header + 1 >= m.length
        BY <1>3, <2>2, FitsIs
      <4> QED BY <1>3, <1>5, <4>1
    <3> QED BY <1>1, <1>9, <3>1, <3>2
  <2>3. CASE FieldOf(x, k).zero /\ i \in Flags
    <3>1. Types[i] \in Numbers
      BY <1>3, <1>11, <2>3, TypesAssumption
    <3>2. s = m
      BY <2>1, <2>3, <3>1 DEF SetElement
    <3>3. \A j \in Attributes : ~IsSaid(x, k, j)
      BY <1>1, <2>3 DEF IsSaid
    <3> QED BY <1>8, <3>2, <3>3
  <2>4. CASE ~TooBig(m, len) /\ ~(FieldOf(x, k).zero /\ i \in Flags) /\ m.index + len + Header + 1 >= m.length
    <3>1. s = [m EXCEPT !.overrun = TRUE]
      BY <1>11, <2>1, <2>4 DEF SetElement
    <3>2. s.elements = m.elements /\ s.hash = m.hash /\ s.index = m.index /\ s.length = m.length /\ s \in AMessage
      <4>1. m \in AMessage
        BY DEF Kept
      <4> QED BY <3>1, <4>1 DEF AMessage
    <3>3. Kept(s)
      BY <3>2 DEF Kept, Present, Apart
    <3>4. Wraps(x, k)
      BY <1>3, <2>4, FitsIs
    <3>5. new >= m.length
      BY <1>3, <1>5, <2>4
    <3> QED BY <1>1, <1>9, <3>2, <3>3, <3>4, <3>5
  <2>5. CASE ~TooBig(m, len) /\ ~(FieldOf(x, k).zero /\ i \in Flags) /\ ~(m.index + len + Header + 1 >= m.length)
    <3>1. s = Stored(m, i, k, len)
      BY <1>11, <2>1, <2>5 DEF SetElement, Stored
    <3>2. i \in Attributes /\ len \in Nat \ {0}
      BY <1>3, <1>11
    <3>3. /\ Kept(s) /\ s.length = m.length /\ s.index = m.index + len + Header + 1 /\ s.overrun = m.overrun
          /\ s.elements[i].field = k /\ s.elements[i].len = len
          /\ \A j \in Attributes : j # i => s.elements[j] = m.elements[j]
      BY <1>2, <2>5, <3>1, <3>2, StoredIs
    <3>4. IsSaid(x, k, i) /\ \A j : j # i => ~IsSaid(x, k, j)
      BY <1>1, <2>5, <3>2 DEF IsSaid
    <3>5. ASSUME NEW j \in Attributes PROVE Holds(s, x, k, j)
      <4>1. CASE j = i
        <5>1. Said(x, k, i) = Said(x, n, i) \cup {k} /\ Max(Said(x, k, i)) = k
          BY <1>6, <3>4
        <5> QED BY <1>1, <3>3, <4>1, <5>1 DEF Holds
      <4>2. CASE j # i
        BY <1>7, <3>3, <3>4, <4>2
      <4> QED BY <4>1, <4>2
    <3>6. s.index <= new
      BY <1>3, <1>5, <3>3
    <3> QED BY <1>1, <1>4, <3>3, <3>5, <3>6 DEF Says
  <2> QED BY <2>2, <2>3, <2>4, <2>5
<1> QED BY <1>10, <1>11

LEMMA NewSays ==
  ASSUME NEW x \in Inputs, NEW m, m.index = 0, \A i \in Attributes : m.elements[i].field = 0
  PROVE  Says(m, x, 0)
<1>1. Needed(x, 0) = 0
  <2>1. 0 \in 0 .. LastOf(x)
    BY InputIs
  <2> QED BY <2>1, NeededIs
<1>2. \A i : Said(x, 0, i) = {}
  BY SaidNext
<1> QED BY <1>1, <1>2 DEF Says, Holds

-----------------------------------------------------------------------------
(* The text of an alert.  A recursion along 1 .. n has a solution. *)
Goes(g, n, b, F) == g = [k \in 0 .. n |-> IF k = 0 THEN b ELSE F[<<k, g[k - 1]>>]]

LEMMA SolutionExists ==
  ASSUME NEW n \in Nat, NEW S, NEW b \in S, NEW F \in [(1 .. n) \X S -> S]
  PROVE  \E g \in [0 .. n -> S] : Goes(g, n, b, F)
<1> DEFINE Solves(g, k) == g \in [0 .. k -> S] /\ \A l \in 0 .. k : g[l] = IF l = 0 THEN b ELSE F[<<l, g[l - 1]>>]
           A == {k \in 0 .. n : \E g : Solves(g, k)}
<1>1. 0 \in A
  <2>1. PICK g : g = [k \in 0 .. 0 |-> b]
    OBVIOUS
  <2>2. \A l \in 0 .. 0 : l = 0
    OBVIOUS
  <2>3. Solves(g, 0)
    BY <2>1, <2>2
  <2> QED BY <2>3
<1>2. ASSUME NEW k \in 1 .. n, k - 1 \in A PROVE k \in A
  <2>1. PICK g : Solves(g, k - 1)
    BY <1>2
  <2>2. PICK last : last = F[<<k, g[k - 1]>>]
    OBVIOUS
  <2>3. last \in S
    <3>1. k - 1 \in 0 .. k - 1
      OBVIOUS
    <3>2. g[k - 1] \in S
      BY <2>1, <3>1
    <3>3. <<k, g[k - 1]>> \in (1 .. n) \X S
      BY <3>2
    <3> QED BY <2>2, <3>3
  <2>4. PICK h : h = [l \in 0 .. k |-> IF l = k THEN last ELSE g[l]]
    OBVIOUS
  <2>5. \A l \in 0 .. k : l # k => l \in 0 .. k - 1
    OBVIOUS
  <2>6. \A l \in 0 .. k - 1 : h[l] = g[l] /\ g[l] \in S /\ g[l] = IF l = 0 THEN b ELSE F[<<l, g[l - 1]>>]
    BY <2>1, <2>4
  <2>7. \A l \in 0 .. k - 1 : l # 0 => l - 1 \in 0 .. k - 1
    OBVIOUS
  <2>8. ASSUME NEW l \in 0 .. k PROVE h[l] \in S /\ h[l] = IF l = 0 THEN b ELSE F[<<l, h[l - 1]>>]
    <3>1. CASE l = k
      <4>1. h[l] = last /\ k - 1 \in 0 .. k - 1 /\ l # 0
        BY <2>4, <3>1
      <4>2. h[k - 1] = g[k - 1]
        BY <2>6, <4>1
      <4> QED BY <2>2, <2>3, <3>1, <4>1, <4>2
    <3>2. CASE l # k
      <4>1. l \in 0 .. k - 1
        BY <2>5, <3>2
      <4>2. l # 0 => h[l - 1] = g[l - 1]
        BY <2>6, <2>7, <4>1
      <4> QED BY <2>6, <4>1, <4>2
    <3> QED BY <3>1, <3>2
  <2>9. Solves(h, k)
    <3>1. h \in [0 .. k -> S]
      BY <2>4, <2>8
    <3> QED BY <2>8, <3>1
  <2> QED BY <2>9
<1>3. n \in A
  <2> HIDE DEF A
  <2>1. n \in 0 .. n
    OBVIOUS
  <2> QED BY <1>1, <1>2, <2>1, UpTo
<1>4. PICK g : Solves(g, n)
  BY <1>3
<1>5. g = [k \in 0 .. n |-> IF k = 0 THEN b ELSE F[<<k, g[k - 1]>>]]
  BY <1>4
<1> QED BY <1>4, <1>5 DEF Goes

(* What is written: tokens. *)
Token == {"{", "}", "[", "]", "]}", ",", "event"} \cup Int
AText == [out : Seq(Token), last : Seq(Token), pos : Int, room : Int, size : Nat,
          first : BOOLEAN, cut : BOOLEAN, done : BOOLEAN, whole : BOOLEAN, over : BOOLEAN]
AMemory == [Attributes -> Nat]

LEMMA OneIn ==
  ASSUME NEW S, NEW a \in S
  PROVE  <<a>> \in Seq(S) /\ Len(<<a>>) = 1 /\ <<a>>[1] = a /\ <<a>> # << >>
OBVIOUS

LEMMA TwoIn ==
  ASSUME NEW S, NEW a \in S, NEW b \in S
  PROVE  <<a, b>> \in Seq(S) /\ Len(<<a, b>>) = 2 /\ <<a, b>>[1] = a /\ <<a, b>>[2] = b
OBVIOUS

LEMMA ThreeIn ==
  ASSUME NEW S, NEW a \in S, NEW b \in S, NEW c \in S
  PROVE  /\ <<a, b, c>> \in Seq(S) /\ Len(<<a, b, c>>) = 3 /\ <<a, b, c>> # << >>
         /\ <<a, b, c>>[1] = a /\ <<a, b, c>>[2] = b /\ <<a, b, c>>[3] = c
OBVIOUS

LEMMA Letters ==
  /\ "{" \in Token /\ "}" \in Token /\ "[" \in Token /\ "]" \in Token /\ "]}" \in Token /\ "," \in Token /\ "event" \in Token
  /\ \A i \in Int : i \in Token
BY DEF Token

LEMMA Signs ==
  /\ <<"{">> \in Seq(Token) /\ <<"}">> \in Seq(Token) /\ <<"]">> \in Seq(Token) /\ <<",">> \in Seq(Token)
  /\ <<"]}">> \in Seq(Token) /\ <<"]}">> # << >> /\ << >> \in Seq(Token)
<1>1. << >> \in Seq(Token)
  BY EmptySeq
<1> QED BY <1>1, Letters, OneIn

LEMMA Names ==
  ASSUME NEW i \in Int
  PROVE  /\ <<"[", i>> \in Seq(Token) /\ <<"[", i, "]">> \in Seq(Token) /\ <<"[", i, "]">> # << >>
         /\ <<"event", i, "[">> \in Seq(Token) /\ <<"event", i, "[">> # << >>
<1>1. i \in Token
  BY Letters
<1>2. <<"[", i>> \in Seq(Token)
  BY <1>1, Letters, TwoIn
<1>3. <<"[", i, "]">> \in Seq(Token) /\ <<"[", i, "]">> # << >>
  BY <1>1, Letters, ThreeIn
<1>4. <<"event", i, "[">> \in Seq(Token) /\ <<"event", i, "[">> # << >>
  BY <1>1, Letters, ThreeIn
<1> QED BY <1>2, <1>3, <1>4

LEMMA TwoAndOne ==
  ASSUME NEW S, NEW a \in S, NEW b \in S, NEW c \in S
  PROVE  <<a, b>> \o <<c>> = <<a, b, c>>
<1>1. PICK s \in Seq(S) : s = <<a, b>> /\ Len(s) = 2 /\ s[1] = a /\ s[2] = b
  <2>1. /\ <<a, b>> \in Seq(S) /\ Len(<<a, b>>) = 2 /\ <<a, b>>[1] = a /\ <<a, b>>[2] = b
    BY TwoIn
  <2> QED BY ONLY <2>1
<1>2. PICK t \in Seq(S) : t = <<c>> /\ Len(t) = 1 /\ t[1] = c
  <2>1. <<c>> \in Seq(S) /\ Len(<<c>>) = 1 /\ <<c>>[1] = c
    BY OneIn
  <2> QED BY ONLY <2>1
<1>3. PICK u \in Seq(S) : u = <<a, b, c>> /\ Len(u) = 3 /\ u[1] = a /\ u[2] = b /\ u[3] = c
  <2>1. /\ <<a, b, c>> \in Seq(S) /\ Len(<<a, b, c>>) = 3
        /\ <<a, b, c>>[1] = a /\ <<a, b, c>>[2] = b /\ <<a, b, c>>[3] = c
    BY ThreeIn
  <2> QED BY ONLY <2>1
<1>4. PICK v : v = s \o t
  OBVIOUS
<1>5. v \in Seq(S) /\ Len(v) = 3
  BY <1>1, <1>2, <1>4, ConcatProperties
<1>6. \A k \in 1 .. 3 : v[k] = IF k <= 2 THEN s[k] ELSE t[k - 2]
  BY <1>1, <1>2, <1>4, ConcatProperties
<1>7. v[1] = u[1] /\ v[2] = u[2] /\ v[3] = u[3]
  BY <1>1, <1>2, <1>3, <1>6
<1>8. \A k \in 1 .. 3 : v[k] = u[k]
  <2>1. \A k \in 1 .. 3 : k = 1 \/ k = 2 \/ k = 3
    OBVIOUS
  <2> QED BY <1>7, <2>1
<1>9. v = u
  BY <1>3, <1>5, <1>8, SeqEqual
<1> QED BY <1>1, <1>2, <1>3, <1>4, <1>9

(* One piece behind the other. *)
Cat(a, b) == a \o b

LEMMA Brackets ==
  ASSUME NEW i \in Int
  PROVE  Cat(<<"[", i>>, <<"]">>) = <<"[", i, "]">>
<1>1. PICK a, c : a = "[" /\ c = "]" /\ a \in Token /\ c \in Token /\ i \in Token
  BY Letters
<1>2. <<a, i>> \o <<c>> = <<a, i, c>>
  BY <1>1, TwoAndOne
<1> QED BY <1>1, <1>2 DEF Cat

LEMMA CatIs ==
  ASSUME NEW S, NEW a \in Seq(S), NEW b \in Seq(S)
  PROVE  /\ Cat(a, b) \in Seq(S) /\ Cat(a, << >>) = a /\ Cat(<< >>, a) = a
         /\ Cat(a, b) = << >> <=> a = << >> /\ b = << >>
BY ConcatProperties, ConcatEmptySeq, ConcatEqualIffEmpty DEF Cat

(* Pieces put together one way are those put together the other way. *)
LEMMA CatGroups ==
  ASSUME NEW S, NEW a \in Seq(S), NEW b \in Seq(S), NEW c \in Seq(S)
  PROVE  Cat(Cat(a, b), c) = Cat(a, Cat(b, c))
BY ConcatAssociative DEF Cat

LEMMA FourGroup ==
  ASSUME NEW S, NEW a \in Seq(S), NEW b \in Seq(S), NEW c \in Seq(S), NEW d \in Seq(S)
  PROVE  Cat(Cat(Cat(a, b), c), d) = Cat(a, Cat(Cat(b, c), d))
BY CatIs, CatGroups

LEMMA FiveGroup ==
  ASSUME NEW S, NEW a \in Seq(S), NEW b \in Seq(S), NEW c \in Seq(S), NEW d \in Seq(S), NEW e \in Seq(S)
  PROVE  Cat(Cat(Cat(Cat(a, b), c), d), e) = Cat(a, Cat(Cat(b, c), Cat(d, e)))
<1>1. PICK x, y \in Seq(S) : x = Cat(b, c) /\ y = Cat(d, e)
  BY CatIs
<1>2. Cat(Cat(a, b), c) = Cat(a, x)
  BY <1>1, CatGroups
<1>3. PICK z \in Seq(S) : z = Cat(a, x)
  BY CatIs
<1>4. Cat(Cat(z, d), e) = Cat(z, y)
  BY <1>1, CatGroups
<1>5. Cat(z, y) = Cat(a, Cat(x, y))
  BY <1>3, CatGroups
<1> QED BY <1>1, <1>2, <1>3, <1>4, <1>5

LEMMA AppendIs ==
  ASSUME NEW S, NEW a \in Seq(S), NEW b \in S
  PROVE  Append(a, b) = Cat(a, <<b>>)
BY AppendIsConcat DEF Cat

LEMMA TextIs ==
  ASSUME NEW t \in AText
  PROVE  /\ t.out \in Seq(Token) /\ t.last \in Seq(Token) /\ t.pos \in Int /\ t.room \in Int /\ t.size \in Nat
         /\ t.first \in BOOLEAN /\ t.cut \in BOOLEAN /\ t.done \in BOOLEAN /\ t.whole \in BOOLEAN /\ t.over \in BOOLEAN
         /\ t = [out |-> t.out, last |-> t.last, pos |-> t.pos, room |-> t.room, size |-> t.size,
                 first |-> t.first, cut |-> t.cut, done |-> t.done, whole |-> t.whole, over |-> t.over]
BY DEF AText

(* The least of two numbers, and of three. *)
LEMMA LeastIs ==
  ASSUME NEW a \in Int, NEW b \in Int, NEW l, l = Min({a, b})
  PROVE  l \in Int /\ l <= a /\ l <= b /\ (l = a \/ l = b)
<1>1. \E x \in {a, b} : \A y \in {a, b} : x <= y
  <2>1. CASE a <= b
    BY <2>1
  <2>2. CASE b <= a
    BY <2>2
  <2> QED BY <2>1, <2>2
<1>2. PICK S : S = {a, b}
  OBVIOUS
<1>3. Min(S) \in S /\ \A y \in S : Min(S) <= y
  BY <1>1, <1>2 DEF Min
<1> QED BY <1>2, <1>3

LEMMA LeastOfThree ==
  ASSUME NEW a \in Int, NEW b \in Int, NEW c \in Int, NEW l, l = Min({a, b, c})
  PROVE  l \in Int /\ l <= a /\ l <= b /\ l <= c
<1>1. \E x \in {a, b, c} : \A y \in {a, b, c} : x <= y
  <2>1. CASE a <= b /\ a <= c
    BY <2>1
  <2>2. CASE b <= a /\ b <= c
    BY <2>2
  <2>3. CASE c <= a /\ c <= b
    BY <2>3
  <2> QED BY <2>1, <2>2, <2>3
<1>2. PICK S : S = {a, b, c}
  OBVIOUS
<1>3. Min(S) \in S /\ \A y \in S : Min(S) <= y
  BY <1>1, <1>2 DEF Min
<1> QED BY <1>2, <1>3

(* The most that a value takes. *)
Takes(m, i) == IF Types[i] \in Fixed THEN NumberText ELSE Min({m[i], 255}) + 2

LEMMA ValueIs ==
  ASSUME NEW m \in AMemory, NEW i \in Attributes, NEW r \in Int
  PROVE  /\ ValueLen(m, i, r) \in Int /\ Takes(m, i) \in Nat
         /\ r > Takes(m, i) => ValueLen(m, i, r) <= Takes(m, i)
<1>1. NumberText \in Nat /\ Zeros \in Nat /\ NumberText - Zeros \in Nat
  BY TextAssumption
<1>2. PICK len \in Nat : len = m[i]
  BY DEF AMemory
<1>3. PICK a \in Nat : a = Min({len, 255}) /\ (a < 255 => a = len) /\ a \in {len, 255}
  <2>1. PICK c \in Int : c = 255
    OBVIOUS
  <2>2. PICK a : a = Min({len, c})
    OBVIOUS
  <2>3. a \in Int /\ a <= len /\ a <= c /\ (a = len \/ a = c)
    <3>1. len \in Int /\ c \in Int
      OBVIOUS
    <3> QED BY ONLY <2>2, <3>1, LeastIs, Zenon
  <2> QED BY <2>1, <2>2, <2>3
<1>4. PICK b \in Int : b = Min({len, 255, r - 20}) /\ b <= len /\ b <= 255
  <2>1. PICK c \in Int, d \in Int : c = 255 /\ d = r - 20
    OBVIOUS
  <2>2. PICK b : b = Min({len, c, d})
    OBVIOUS
  <2>3. b \in Int /\ b <= len /\ b <= c
    <3>1. len \in Int /\ c \in Int /\ d \in Int
      OBVIOUS
    <3> QED BY ONLY <2>2, <3>1, LeastOfThree, Zenon
  <2> QED BY <2>1, <2>2, <2>3
<1>5. CASE Types[i] \in Fixed
  <2>1. ValueLen(m, i, r) = NumberText - (IF Types[i] \in Numbers THEN Zeros ELSE 0)
    BY <1>5 DEF ValueLen
  <2>2. ValueLen(m, i, r) \in Int /\ ValueLen(m, i, r) <= NumberText
    BY <1>1, <2>1
  <2> QED BY <1>1, <1>5, <2>2 DEF Takes
<1>6. CASE Types[i] \notin Fixed
  <2>1. ValueLen(m, i, r) = (IF r < 20 THEN len ELSE b) + 2
    BY <1>2, <1>4, <1>6 DEF ValueLen, TextLen
  <2>2. Takes(m, i) = a + 2
    BY <1>2, <1>3, <1>6 DEF Takes
  <2>3. b <= a
    BY <1>3, <1>4
  <2>4. CASE r < 20
    <3>1. r > a + 2 => a = len
      BY <1>3, <2>4
    <3> QED BY <1>3, <2>1, <2>2, <2>4, <3>1
  <2>5. CASE ~(r < 20)
    BY <1>3, <2>1, <2>2, <2>3, <2>5
  <2> QED BY <2>4, <2>5
<1> QED BY <1>5, <1>6

LEMMA CutIs ==
  ASSUME NEW i \in Attributes, NEW r
  PROVE  i \in Int /\ (IF IsCut(i, r) THEN 0 ELSE i) \in Int /\ IsCut(i, r) \in BOOLEAN
<1>1. i \in Int
  BY TypesAssumption, LenProperties DEF Attributes
<1> QED BY <1>1 DEF IsCut

LEMMA PassesIs ==
  ASSUME NEW p \in Int, NEW size \in Int, NEW r \in Int
  PROVE  Passes(p, size, r) \in BOOLEAN /\ (p + size <= MaxText => ~Passes(p, size, r))
<1>1. PICK a \in Int : a = Min({size, r - 1}) /\ a <= size
  <2>1. PICK d \in Int : d = r - 1
    OBVIOUS
  <2> QED BY <2>1, LeastIs
<1>2. PICK last \in Nat : last = MaxText
  BY TextAssumption
<1>3. p + size <= last => ~(p + a > last) /\ ~(p + size > last)
  BY <1>1, <1>2
<1> QED BY <1>1, <1>2, <1>3 DEF Passes

LEMMA ValuePassesIs ==
  ASSUME NEW i, NEW p \in Int, NEW r \in Int
  PROVE  ValuePasses(i, p, r) \in BOOLEAN /\ (p + NumberText <= MaxText => ~ValuePasses(i, p, r))
<1>1. NumberText \in Int /\ MaxText \in Int
  BY TextAssumption
<1>2. Passes(p, NumberText, r) \in BOOLEAN /\ (p + NumberText <= MaxText => ~Passes(p, NumberText, r))
  BY <1>1, PassesIs
<1>3. p + NumberText <= MaxText => ~(p + NumberText > MaxText)
  BY <1>1
<1>4. (p + NumberText > MaxText) \in BOOLEAN
  OBVIOUS
<1>5. CASE Types[i] = "ip6"
  BY <1>3, <1>4, <1>5 DEF ValuePasses
<1>6. CASE Types[i] # "ip6"
  <2>1. ValuePasses(i, p, r) <=> Types[i] \in Fixed /\ Passes(p, NumberText, r)
    BY <1>6 DEF ValuePasses
  <2>2. ValuePasses(i, p, r) \in BOOLEAN
    BY <1>6 DEF ValuePasses
  <2> QED BY <1>2, <2>1, <2>2
<1> QED BY <1>5, <1>6

(* One element. *)
LEMMA AttributeCut ==
  ASSUME NEW m, NEW i, NEW t \in AText, NEW u, u = Attribute(m, t, i), t.cut \/ t.room - t.size <= 0
  PROVE  /\ u \in AText /\ u.cut /\ u.done = t.done /\ u.size = t.size /\ u.whole = t.whole
         /\ u.room = IF t.cut THEN t.room ELSE t.room - t.size
<1>1. CASE t.cut
  BY <1>1, TextIs DEF Attribute
<1>2. CASE ~t.cut
  <2>1. u = [t EXCEPT !.room = @ - t.size, !.cut = TRUE]
    BY <1>2 DEF Attribute
  <2>2. t.room - t.size \in Int
    BY TextIs
  <2>3. u = [out |-> t.out, last |-> t.last, pos |-> t.pos, room |-> t.room - t.size, size |-> t.size,
             first |-> t.first, cut |-> TRUE, done |-> t.done, whole |-> t.whole, over |-> t.over]
    BY <2>1, TextIs
  <2>4. u \in AText
    BY <2>2, <2>3, TextIs DEF AText
  <2> QED BY <1>2, <2>3, <2>4
<1> QED BY <1>1, <1>2

(* What introduces an attribute, and where its value begins and ends. *)
Intro(t)        == NameText + (IF t.first THEN 0 ELSE 1)
Behinds(t)      == t.room - t.size - Intro(t)
From(t)         == t.pos + t.size + Intro(t)
Until(m, t, i)  == From(t) + ValueLen(m, i, Behinds(t))
PassesAt(m, t, i) ==
  \/ t.over \/ Passes(t.pos + t.size, Intro(t), t.room - t.size)
  \/ ValuePasses(i, From(t), Behinds(t)) \/ Until(m, t, i) + 1 > MaxText

ShownAs(m, t, i, u) ==
  /\ u \in AText /\ u.cut = FALSE /\ u.done = t.done /\ u.size = 1 /\ u.first = FALSE
  /\ u.room = Behinds(t) /\ u.pos = Until(m, t, i) /\ u.last = <<"]">>
  /\ u.whole = (t.whole /\ ~IsCut(i, u.room)) /\ u.over = PassesAt(m, t, i)
  /\ u.out = Cat(Cat(Cat(t.out, t.last), IF t.first THEN << >> ELSE <<",">>), <<"[", IF IsCut(i, u.room) THEN 0 ELSE i>>)

LEMMA PlacesAre ==
  ASSUME NEW m \in AMemory, NEW i \in Attributes, NEW t \in AText
  PROVE  /\ Intro(t) \in Nat /\ Intro(t) <= NameText + 1 /\ Behinds(t) \in Int /\ From(t) \in Int /\ Until(m, t, i) \in Int
         /\ PassesAt(m, t, i) \in BOOLEAN
<1>1. NameText \in Nat /\ MaxText \in Int
  BY TextAssumption
<1>2. Intro(t) \in Nat /\ Intro(t) <= NameText + 1
  BY <1>1, TextIs DEF Intro
<1>3. Behinds(t) \in Int /\ From(t) \in Int /\ t.room - t.size \in Int /\ t.pos + t.size \in Int
  BY <1>2, TextIs DEF Behinds, From
<1>4. Until(m, t, i) \in Int
  BY <1>3, ValueIs DEF Until
<1>5. Passes(t.pos + t.size, Intro(t), t.room - t.size) \in BOOLEAN
  BY <1>2, <1>3, PassesIs
<1>6. ValuePasses(i, From(t), Behinds(t)) \in BOOLEAN
  BY <1>3, ValuePassesIs
<1>7. PassesAt(m, t, i) \in BOOLEAN
  BY <1>5, <1>6, TextIs DEF PassesAt
<1> QED BY <1>2, <1>3, <1>4, <1>7

LEMMA AttributeShown ==
  ASSUME NEW m \in AMemory, NEW i \in Attributes, NEW t \in AText, NEW u, u = Attribute(m, t, i),
         ~t.cut, t.room - t.size > 0
  PROVE  ShownAs(m, t, i, u)
<1>1. PICK a : a = [t EXCEPT !.room = @ - t.size]
  OBVIOUS
<1>2. PICK b : b = StepOver(a)
  OBVIOUS
<1>3. a = [out |-> t.out, last |-> t.last, pos |-> t.pos, room |-> t.room - t.size, size |-> t.size,
           first |-> t.first, cut |-> t.cut, done |-> t.done, whole |-> t.whole, over |-> t.over]
  BY <1>1, TextIs
<1>4. b = [out |-> Cat(t.out, t.last), last |-> << >>, pos |-> t.pos + t.size, room |-> t.room - t.size, size |-> 0,
           first |-> t.first, cut |-> t.cut, done |-> t.done, whole |-> t.whole, over |-> t.over]
  BY <1>2, <1>3 DEF StepOver, Cat
<1>5. PICK intro, room, value, end : /\ intro = Intro(t) /\ room = Behinds(t)
                                     /\ value = From(t) /\ end = Until(m, t, i)
  OBVIOUS
<1>6. /\ b.room = t.room - t.size /\ b.pos = t.pos + t.size /\ room = b.room - intro /\ value = b.pos + intro
      /\ end = value + ValueLen(m, i, room)
  BY <1>4, <1>5 DEF Behinds, From, Until
<1>7. PICK over, comma, val, whole : /\ over = PassesAt(m, t, i)
                                     /\ comma = (IF t.first THEN << >> ELSE <<",">>)
                                     /\ val = (IF IsCut(i, room) THEN 0 ELSE i)
                                     /\ whole = (t.whole /\ ~IsCut(i, room))
  OBVIOUS
<1>8. u = [b EXCEPT !.room = room, !.pos = end,
                    !.out = @ \o (IF t.first THEN <<>> ELSE <<",">>) \o << "[", IF IsCut(i, room) THEN 0 ELSE i >>,
                    !.last = << "]" >>, !.size = 1, !.first = FALSE, !.whole = @ /\ ~IsCut(i, room),
                    !.over = \/ @
                             \/ Passes(b.pos, intro, b.room)
                             \/ ValuePasses(i, value, room)
                             \/ end + 1 > MaxText]
  <2>1. ~(t.room - t.size <= 0)
    BY TextIs
  <2>2. intro = NameText + (IF t.first THEN 0 ELSE 1)
    BY <1>5 DEF Intro
  <2> QED BY ONLY <1>1, <1>2, <1>6, <2>1, <2>2, ~t.cut, u = Attribute(m, t, i), Zenon DEF Attribute
<1>9. u = [out |-> Cat(Cat(Cat(t.out, t.last), comma), <<"[", val>>), last |-> <<"]">>, pos |-> end, room |-> room, size |-> 1,
           first |-> FALSE, cut |-> t.cut, done |-> t.done, whole |-> whole, over |-> over]
  <2>1. over = \/ t.over
               \/ Passes(b.pos, intro, b.room)
               \/ ValuePasses(i, value, room)
               \/ end + 1 > MaxText
    BY <1>5, <1>6, <1>7 DEF PassesAt
  <2>2. u = [b EXCEPT !.room = room, !.pos = end, !.out = Cat(Cat(@, comma), <<"[", val>>), !.last = <<"]">>, !.size = 1,
                      !.first = FALSE, !.whole = whole, !.over = over]
    BY <1>4, <1>7, <1>8, <2>1 DEF Cat
  <2> QED BY <1>4, <2>2
<1>10. room \in Int /\ end \in Int /\ over \in BOOLEAN /\ val \in Int /\ whole \in BOOLEAN
  BY <1>5, <1>7, TextIs, PlacesAre, CutIs
<1>11. Cat(Cat(Cat(t.out, t.last), comma), <<"[", val>>) \in Seq(Token)
  <2>1. comma \in Seq(Token) /\ <<"[", val>> \in Seq(Token)
    BY <1>7, <1>10, Signs, Names
  <2>2. Cat(t.out, t.last) \in Seq(Token)
    BY TextIs, CatIs
  <2>3. Cat(Cat(t.out, t.last), comma) \in Seq(Token)
    BY <2>1, <2>2, CatIs
  <2> QED BY <2>1, <2>3, CatIs
<1>12. PICK o, l : o = Cat(Cat(Cat(t.out, t.last), comma), <<"[", val>>) /\ l = <<"]">>
  OBVIOUS
<1>13. u = [out |-> o, last |-> l, pos |-> end, room |-> room, size |-> 1, first |-> FALSE, cut |-> t.cut, done |-> t.done,
            whole |-> whole, over |-> over]
  BY <1>9, <1>12
<1>14. o \in Seq(Token) /\ l \in Seq(Token)
  BY <1>11, <1>12, Signs
<1>15. u \in AText
  BY <1>10, <1>13, <1>14, TextIs DEF AText
<1>16. /\ u.room = room /\ u.pos = end /\ u.cut = FALSE /\ u.done = t.done /\ u.size = 1 /\ u.first = FALSE
       /\ u.last = l /\ u.out = o /\ u.whole = whole /\ u.over = over
  BY <1>13, TextIs
<1> QED BY <1>5, <1>7, <1>12, <1>15, <1>16 DEF ShownAs

-----------------------------------------------------------------------------
(* The elements of an event.  As long as no piece is cut, what is written is what was
   there, h, and behind it the parts, j, of the elements so far. *)
Showing(h, j, t) ==
  /\ t \in AText /\ ~t.done
  /\ t.room - t.size <= h.room - HeadText /\ t.room <= h.room
  /\ t.cut => t.room <= 0
  /\ t.whole => h.whole
  /\ ~t.cut => (t.first <=> j = << >>) /\ (t.whole => Cat(t.out, t.last) = Cat(Cat(h.out, h.last), j))

(* One part more. *)
More(j, part) == IF part = << >> THEN j ELSE IF j = << >> THEN part ELSE Cat(Cat(j, <<",">>), part)

LEMMA MoreIs ==
  ASSUME NEW j \in Seq(Token), NEW part \in Seq(Token)
  PROVE  More(j, part) \in Seq(Token) /\ (More(j, part) = << >> <=> j = << >> /\ part = << >>)
<1>1. PICK x \in Seq(Token) : x = Cat(j, <<",">>)
  BY Signs, CatIs
<1>2. Cat(x, part) \in Seq(Token) /\ (Cat(x, part) = << >> <=> x = << >> /\ part = << >>)
  BY CatIs
<1> QED BY <1>1, <1>2, Signs DEF More

LEMMA ShowsMore ==
  ASSUME NEW h \in AText, NEW j \in Seq(Token), NEW t, Showing(h, j, t),
         NEW m \in AMemory, NEW i \in Attributes, NEW u, u = Attribute(m, t, i)
  PROVE  Showing(h, More(j, <<"[", i, "]">>), u)
<1>1. /\ t \in AText /\ ~t.done /\ t.room \in Int /\ t.size \in Nat /\ h.room \in Int
      /\ HeadText \in Nat /\ Intro(t) \in Nat
  BY TextIs, TextAssumption, PlacesAre DEF Showing
<1>2. t.room - t.size <= h.room - HeadText /\ t.room <= h.room /\ (t.cut => t.room <= 0)
  BY DEF Showing
<1>3. CASE t.cut \/ t.room - t.size <= 0
  <2>1. /\ u \in AText /\ u.cut /\ u.done = t.done /\ u.size = t.size /\ u.whole = t.whole
        /\ u.room = IF t.cut THEN t.room ELSE t.room - t.size
    BY <1>1, <1>3, AttributeCut
  <2>2. u.room <= 0 /\ u.room <= t.room
    BY <1>1, <1>2, <1>3, <2>1
  <2>3. u.room \in Int /\ u.room - u.size <= h.room - HeadText /\ u.room <= h.room
    BY <1>1, <1>2, <2>1, <2>2
  <2> QED BY <1>1, <2>1, <2>2, <2>3 DEF Showing
<1>4. CASE ~t.cut /\ t.room - t.size > 0
  <2>1. /\ u \in AText /\ u.cut = FALSE /\ u.done = t.done /\ u.size = 1 /\ u.first = FALSE
        /\ u.room = t.room - t.size - Intro(t) /\ u.last = <<"]">>
        /\ u.whole = (t.whole /\ ~IsCut(i, u.room))
        /\ u.out = Cat(Cat(Cat(t.out, t.last), IF t.first THEN << >> ELSE <<",">>), <<"[", IF IsCut(i, u.room) THEN 0 ELSE i>>)
    <3>1. ShownAs(m, t, i, u)
      BY <1>1, <1>4, AttributeShown
    <3> QED BY <3>1 DEF ShownAs, Behinds
  <2>2. PICK part, comma, head : part = <<"[", i, "]">> /\ comma = (IF t.first THEN << >> ELSE <<",">>) /\ head = Cat(h.out, h.last)
    OBVIOUS
  <2>3. u.room \in Int /\ u.room - u.size <= h.room - HeadText /\ u.room <= h.room /\ u.room <= t.room
    <3>1. u.room = t.room - t.size - Intro(t) /\ u.size = 1
      BY <2>1
    <3> QED BY <1>1, <1>2, <3>1
  <2>4. i \in Int /\ part \in Seq(Token) /\ part # << >> /\ More(j, part) # << >>
    <3>1. i \in Int
      BY TypesAssumption, LenProperties DEF Attributes
    <3>2. part \in Seq(Token) /\ part # << >>
      BY <2>2, <3>1, Names
    <3> QED BY <3>1, <3>2, MoreIs
  <2>5. ASSUME u.whole PROVE Cat(u.out, u.last) = Cat(head, More(j, part))
    <3>1. t.whole /\ ~IsCut(i, u.room)
      BY <2>1, <2>5
    <3>2. PICK val : val = IF IsCut(i, u.room) THEN 0 ELSE i
      OBVIOUS
    <3>3. val = i /\ u.out = Cat(Cat(Cat(t.out, t.last), comma), <<"[", val>>)
      BY <2>1, <2>2, <3>1, <3>2
    <3>4. Cat(t.out, t.last) = Cat(head, j) /\ (t.first <=> j = << >>)
      BY <1>4, <2>2, <3>1 DEF Showing
    <3>5. PICK b, c : b = <<"[", i>> /\ c = <<"]">>
      OBVIOUS
    <3>6. comma \in Seq(Token) /\ head \in Seq(Token) /\ b \in Seq(Token) /\ c \in Seq(Token)
      BY <2>2, <2>4, <3>5, Signs, Names, TextIs, CatIs
    <3>7. Cat(u.out, u.last) = Cat(Cat(Cat(Cat(head, j), comma), b), c)
      BY <2>1, <2>2, <3>3, <3>4, <3>5
    <3>8. Cat(Cat(Cat(Cat(head, j), comma), b), c) = Cat(head, Cat(Cat(j, comma), Cat(b, c)))
      BY <3>6, FiveGroup
    <3>9. Cat(b, c) = part
      BY <2>2, <2>4, <3>5, Brackets
    <3>10. Cat(Cat(j, comma), part) = More(j, part)
      <4>1. CASE j = << >>
        <5>1. comma = << >>
          BY <2>2, <3>4, <4>1
        <5>2. Cat(<< >>, << >>) = << >> /\ Cat(<< >>, part) = part
          BY <2>4, Signs, CatIs
        <5> QED BY <2>4, <4>1, <5>1, <5>2 DEF More
      <4>2. CASE j # << >>
        <5>1. comma = <<",">>
          BY <2>2, <3>4, <4>2
        <5> QED BY <2>4, <4>2, <5>1 DEF More
      <4> QED BY <4>1, <4>2
    <3> QED BY <3>7, <3>8, <3>9, <3>10
  <2> QED BY <1>1, <2>1, <2>2, <2>3, <2>4, <2>5 DEF Showing
<1> QED BY <1>1, <1>3, <1>4

(* Parts joined, from the first. *)
JoinedAs(part, n, g) ==
  /\ g \in [0 .. n -> Seq(Token)] /\ g[0] = << >> /\ g[n] = Joined(part, n)
  /\ \A k \in 1 .. n : g[k] = More(g[k - 1], part[k])

LEMMA JoinedIs ==
  ASSUME NEW n \in Nat, NEW part \in [1 .. n -> Seq(Token)]
  PROVE  \E g : JoinedAs(part, n, g)
<1> DEFINE Joins(g) == g = [k \in 0 .. n |->
                              IF k = 0 THEN <<>>
                              ELSE IF part[k] = <<>> THEN g[k - 1]
                              ELSE IF g[k - 1] = <<>> THEN part[k]
                              ELSE g[k - 1] \o <<",">> \o part[k]]
<1>1. PICK S, b : S = Seq(Token) /\ b = << >> /\ b \in S
  BY Signs
<1>2. PICK F : F = [x \in (1 .. n) \X S |-> More(x[2], part[x[1]])]
  OBVIOUS
<1>3. ASSUME NEW k \in 1 .. n, NEW j \in S PROVE F[<<k, j>>] = More(j, part[k]) /\ More(j, part[k]) \in S
  <2>1. F[<<k, j>>] = More(j, part[k])
    BY <1>2
  <2>2. part[k] \in Seq(Token)
    OBVIOUS
  <2> QED BY <1>1, <2>1, <2>2, MoreIs
<1>4. F \in [(1 .. n) \X S -> S]
  BY <1>2, <1>3
<1>5. PICK g \in [0 .. n -> S] : g = [k \in 0 .. n |-> IF k = 0 THEN b ELSE F[<<k, g[k - 1]>>]]
  <2>1. \E g \in [0 .. n -> S] : Goes(g, n, b, F)
    BY <1>1, <1>4, SolutionExists
  <2> QED BY <2>1 DEF Goes
<1>6. Joins(g)
  <2>1. ASSUME NEW k \in 0 .. n
        PROVE  g[k] = IF k = 0 THEN <<>>
                      ELSE IF part[k] = <<>> THEN g[k - 1]
                      ELSE IF g[k - 1] = <<>> THEN part[k]
                      ELSE g[k - 1] \o <<",">> \o part[k]
    <3>1. CASE k = 0
      BY <1>1, <1>5, <3>1
    <3>2. CASE k # 0
      <4>1. k \in 1 .. n /\ k - 1 \in 0 .. n
        BY <3>2
      <4>2. g[k] = F[<<k, g[k - 1]>>] /\ g[k - 1] \in S
        BY <1>5, <3>2, <4>1
      <4> QED BY <1>3, <3>2, <4>1, <4>2 DEF More, Cat
    <3> QED BY <3>1, <3>2
  <2> QED BY <1>5, <2>1
<1>7. PICK f : f = CHOOSE e : Joins(e)
  OBVIOUS
<1>8. Joins(f)
  <2> HIDE DEF Joins
  <2> QED BY <1>6, <1>7
<1>9. f[n] = Joined(part, n)
  BY <1>7 DEF Joined
<1>10. ASSUME NEW k \in 1 .. n PROVE f[k] = More(f[k - 1], part[k])
  <2>1. k \in 0 .. n /\ k # 0
    OBVIOUS
  <2> QED BY <1>8, <2>1 DEF More, Cat
<1>11. f[0] = << >> /\ 0 \in 0 .. n
  <2>1. 0 \in 0 .. n
    OBVIOUS
  <2> QED BY <1>8, <2>1
<1>12. \A k \in 0 .. n : f[k] \in Seq(Token)
  <2> DEFINE A == {k \in 0 .. n : f[k] \in Seq(Token)}
  <2>1. 0 \in A
    BY <1>11, Signs
  <2>2. ASSUME NEW k \in 1 .. n, k - 1 \in A PROVE k \in A
    <3>1. f[k - 1] \in Seq(Token) /\ part[k] \in Seq(Token)
      BY <2>2
    <3>2. f[k] \in Seq(Token)
      BY <1>10, <3>1, MoreIs
    <3> QED BY <3>2
  <2>3. \A k \in 0 .. n : k \in A
    <3> HIDE DEF A
    <3> QED BY <2>1, <2>2, UpTo
  <2> QED BY <2>3
<1>13. f \in [0 .. n -> Seq(Token)]
  BY <1>8, <1>12
<1> QED BY <1>9, <1>10, <1>11, <1>13 DEF JoinedAs

(* All elements of a message. *)
ElementStep(m, e, t, k) == IF IsShown(m, e, k) THEN Attribute(m, t, k) ELSE t

LEMMA StepIsText ==
  ASSUME NEW m \in AMemory, NEW t \in AText, NEW i \in Attributes, NEW e
  PROVE  ElementStep(m, e, t, i) \in AText
<1>1. PICK u : u = Attribute(m, t, i)
  OBVIOUS
<1>2. CASE t.cut \/ t.room - t.size <= 0
  BY <1>1, <1>2, AttributeCut DEF ElementStep
<1>3. CASE ~t.cut /\ t.room - t.size > 0
  <2>1. ShownAs(m, t, i, u)
    BY <1>1, <1>3, AttributeShown
  <2>2. u \in AText
    BY <2>1 DEF ShownAs
  <2> QED BY <1>1, <2>2 DEF ElementStep
<1>4. t.room - t.size <= 0 \/ t.room - t.size > 0
  BY TextIs
<1> QED BY <1>2, <1>3, <1>4

Along(m, h, e, n, g) ==
  g[0] = h /\ g[n] = Elements(m, h, e, n) /\ \A k \in 1 .. n : g[k] = ElementStep(m, e, g[k - 1], k)

LEMMA ElementsAre ==
  ASSUME NEW m \in AMemory, NEW h \in AText, NEW e, NEW n, n = Len(Types)
  PROVE  \E g : Along(m, h, e, n, g)
<1> DEFINE Fits(g) == g = [k \in 0 .. n |->
                             IF k = 0 THEN h
                             ELSE IF IsShown(m, e, k) THEN Attribute(m, g[k - 1], k) ELSE g[k - 1]]
<1>1. n \in Nat /\ Attributes = 1 .. n
  BY TypesAssumption, LenProperties DEF Attributes
<1>2. PICK F : F = [x \in (1 .. n) \X AText |-> ElementStep(m, e, x[2], x[1])]
  OBVIOUS
<1>3. ASSUME NEW k \in 1 .. n, NEW t \in AText PROVE F[<<k, t>>] = ElementStep(m, e, t, k) /\ ElementStep(m, e, t, k) \in AText
  <2>1. F[<<k, t>>] = ElementStep(m, e, t, k)
    BY <1>2
  <2> QED BY <1>1, <2>1, StepIsText
<1>4. F \in [(1 .. n) \X AText -> AText]
  BY <1>2, <1>3
<1>5. PICK g \in [0 .. n -> AText] : g = [k \in 0 .. n |-> IF k = 0 THEN h ELSE F[<<k, g[k - 1]>>]]
  <2>1. \E g \in [0 .. n -> AText] : Goes(g, n, h, F)
    BY <1>1, <1>4, SolutionExists
  <2> QED BY <2>1 DEF Goes
<1>6. Fits(g)
  <2>1. ASSUME NEW k \in 0 .. n
        PROVE  g[k] = IF k = 0 THEN h
                      ELSE IF IsShown(m, e, k) THEN Attribute(m, g[k - 1], k) ELSE g[k - 1]
    <3>1. CASE k = 0
      BY <1>5, <3>1
    <3>2. CASE k # 0
      <4>1. k \in 1 .. n /\ k - 1 \in 0 .. n
        BY <1>1, <3>2
      <4>2. g[k] = F[<<k, g[k - 1]>>] /\ g[k - 1] \in AText
        BY <1>5, <3>2, <4>1
      <4> QED BY <1>3, <3>2, <4>1, <4>2 DEF ElementStep
    <3> QED BY <3>1, <3>2
  <2> QED BY <1>5, <2>1
<1>7. PICK f : f = CHOOSE d : Fits(d)
  OBVIOUS
<1>8. Fits(f)
  <2> HIDE DEF Fits
  <2> QED BY <1>6, <1>7
<1>9. f[n] = Elements(m, h, e, n)
  BY <1>7 DEF Elements
<1>10. ASSUME NEW k \in 1 .. n PROVE f[k] = ElementStep(m, e, f[k - 1], k)
  <2>1. k \in 0 .. n /\ k # 0
    BY <1>1
  <2> QED BY <1>8, <2>1 DEF ElementStep
<1>11. f[0] = h
  <2>1. 0 \in 0 .. n
    BY <1>1
  <2> QED BY <1>8, <2>1
<1> QED BY <1>9, <1>10, <1>11 DEF Along

LEMMA ElementsShow ==
  ASSUME NEW m \in AMemory, NEW h \in AText, NEW n, n = Len(Types), NEW e, NEW part \in [1 .. n -> Seq(Token)],
         \A k \in 1 .. n : part[k] = IF IsShown(m, e, k) THEN <<"[", k, "]">> ELSE << >>,
         h.size = HeadText, h.first, ~h.cut, ~h.done
  PROVE  Joined(part, n) \in Seq(Token) /\ Showing(h, Joined(part, n), Elements(m, h, e, n))
<1>1. n \in Nat /\ Attributes = 1 .. n
  BY TypesAssumption, LenProperties DEF Attributes
<1>2. PICK g : JoinedAs(part, n, g)
  BY <1>1, JoinedIs
<1>3. PICK f : /\ f[0] = h /\ f[n] = Elements(m, h, e, n)
               /\ \A k \in 1 .. n : f[k] = ElementStep(m, e, f[k - 1], k)
  BY ElementsAre DEF Along
<1>4. /\ g \in [0 .. n -> Seq(Token)] /\ g[0] = << >> /\ g[n] = Joined(part, n)
      /\ \A k \in 1 .. n : g[k] = More(g[k - 1], part[k])
  BY <1>2 DEF JoinedAs
<1> DEFINE A == {k \in 0 .. n : Showing(h, g[k], f[k])}
<1>5. 0 \in A
  <2>1. h.room \in Int /\ HeadText \in Nat
    BY TextIs, TextAssumption
  <2>2. Cat(h.out, h.last) \in Seq(Token)
    BY TextIs, CatIs
  <2>3. Cat(Cat(h.out, h.last), << >>) = Cat(h.out, h.last)
    BY <2>2, CatIs
  <2>4. Showing(h, << >>, h)
    BY <2>1, <2>3 DEF Showing
  <2> QED BY <1>1, <1>3, <1>4, <2>4
<1>6. ASSUME NEW k \in 1 .. n, k - 1 \in A PROVE k \in A
  <2>1. PICK j, t : j = g[k - 1] /\ t = f[k - 1]
    OBVIOUS
  <2>2. Showing(h, j, t) /\ j \in Seq(Token)
    <3>1. k - 1 \in 0 .. n
      BY <1>1
    <3> QED BY <1>4, <1>6, <2>1, <3>1
  <2>3. f[k] = ElementStep(m, e, t, k) /\ g[k] = More(j, part[k]) /\ k \in Attributes
    BY <1>1, <1>3, <1>4, <2>1
  <2>4. CASE IsShown(m, e, k)
    <3>1. part[k] = <<"[", k, "]">>
      BY <2>4
    <3>2. f[k] = Attribute(m, t, k)
      BY <2>3, <2>4 DEF ElementStep
    <3>3. Showing(h, More(j, <<"[", k, "]">>), f[k])
      BY <2>2, <2>3, <3>2, ShowsMore
    <3> QED BY <1>1, <2>3, <3>1, <3>3
  <2>5. CASE ~IsShown(m, e, k)
    <3>1. part[k] = << >> /\ f[k] = t
      BY <2>3, <2>5 DEF ElementStep
    <3>2. g[k] = j
      BY <2>3, <3>1 DEF More
    <3> QED BY <1>1, <2>2, <3>1, <3>2
  <2> QED BY <2>4, <2>5
<1>7. n \in A
  <2> HIDE DEF A
  <2>1. n \in 0 .. n
    BY <1>1
  <2> QED BY <1>1, <1>5, <1>6, <2>1, UpTo
<1>8. g[n] \in Seq(Token)
  BY <1>1, <1>4
<1> QED BY <1>3, <1>4, <1>7, <1>8

(* The events.  As long as no piece is cut, what is written is the parts of the events
   so far, and the room tells whether there are any. *)
Telling(t, j) ==
  t \in AText /\ (~t.done => /\ t.last = << >> /\ t.size = 0 /\ t.room <= MaxText
                             /\ t.room # MaxText <=> j # << >>
                             /\ t.whole => t.out = Cat(<<"{">>, j))

Comma(t) == IF t.room # MaxText THEN 1 ELSE 0
PassesHead(t) == \/ t.over \/ (Comma(t) = 1 /\ t.pos > MaxText) \/ Passes(t.pos + Comma(t), HeadText, t.room)

BegunAs(t, e, h) ==
  /\ h \in AText /\ h.room = t.room /\ h.last = <<"event", e, "[">> /\ h.size = HeadText
  /\ h.first = TRUE /\ h.cut = FALSE /\ h.done = t.done /\ h.pos = t.pos + Comma(t)
  /\ h.whole = (t.whole /\ HeadText < t.room) /\ h.over = PassesHead(t)
  /\ h.out = IF t.room # MaxText THEN Cat(t.out, <<",">>) ELSE t.out

LEMMA BegunIs ==
  ASSUME NEW t \in AText, NEW e \in Int, NEW h, h = Begun(t, e)
  PROVE  BegunAs(t, e, h)
<1>1. PICK o, c, whole, over : /\ o = (IF t.room # MaxText THEN Cat(t.out, <<",">>) ELSE t.out) /\ c = Comma(t)
                               /\ whole = (t.whole /\ HeadText < t.room) /\ over = PassesHead(t)
  OBVIOUS
<1>2. c \in Int /\ (c = 1 <=> t.room # MaxText)
  <2>1. CASE t.room # MaxText
    <3>1. c = 1
      BY ONLY <1>1, <2>1 DEF Comma
    <3> QED BY ONLY <2>1, <3>1
  <2>2. CASE t.room = MaxText
    BY <1>1, <2>2 DEF Comma
  <2> QED BY <2>1, <2>2
<1>3. o = t.out \o (IF c = 1 THEN <<",">> ELSE <<>>) /\ o \in Seq(Token)
  <2>1. t.out \in Seq(Token) /\ <<",">> \in Seq(Token)
    BY TextIs, Signs
  <2>2. Cat(t.out, <<",">>) \in Seq(Token) /\ Cat(t.out, << >>) = t.out
    BY <2>1, CatIs
  <2>3. CASE c = 1
    BY <1>1, <1>2, <2>2, <2>3 DEF Cat
  <2>4. CASE c # 1
    BY <1>1, <1>2, <2>1, <2>2, <2>4 DEF Cat
  <2> QED BY <2>3, <2>4
<1>4. PICK l \in Seq(Token) : l = <<"event", e, "[">>
  BY Names
<1>5. h = [t EXCEPT !.out = o, !.pos = @ + c, !.last = l, !.size = HeadText, !.first = TRUE, !.cut = FALSE,
                    !.whole = whole, !.over = over]
  <2>1. c = IF t.room # MaxText THEN 1 ELSE 0
    BY <1>1 DEF Comma
  <2>2. over = (t.over \/ (c = 1 /\ t.pos > MaxText) \/ Passes(t.pos + c, HeadText, t.room))
    BY <1>1 DEF PassesHead
  <2> QED BY <1>1, <1>3, <1>4, <2>1, <2>2, TextIs DEF Begun
<1>6. whole \in BOOLEAN /\ over \in BOOLEAN /\ t.pos + c \in Int
  <2>1. t.pos + c \in Int /\ HeadText \in Int /\ MaxText \in Int /\ t.room \in Int
    BY <1>2, TextIs, TextAssumption
  <2>2. Passes(t.pos + c, HeadText, t.room) \in BOOLEAN
    BY <2>1, PassesIs
  <2>3. over \in BOOLEAN
    BY <1>1, <2>2, TextIs DEF PassesHead
  <2>4. whole \in BOOLEAN
    BY <1>1, TextIs
  <2> QED BY <2>1, <2>3, <2>4
<1>7. h = [out |-> o, last |-> l, pos |-> t.pos + c, room |-> t.room, size |-> HeadText,
           first |-> TRUE, cut |-> FALSE, done |-> t.done, whole |-> whole, over |-> over]
  BY <1>5, TextIs
<1>8. h \in AText
  BY <1>3, <1>6, <1>7, TextIs, TextAssumption DEF AText
<1>9. /\ h.room = t.room /\ h.last = l /\ h.size = HeadText /\ h.first = TRUE /\ h.cut = FALSE
      /\ h.done = t.done /\ h.out = o /\ h.pos = t.pos + c /\ h.whole = whole /\ h.over = over
  BY <1>7
<1> QED BY <1>1, <1>4, <1>8, <1>9 DEF BegunAs

LEMMA EndedFull ==
  ASSUME NEW u \in AText, NEW w, w = Ended(u), u.room - u.size <= 0
  PROVE  w \in AText /\ w.done = TRUE
<1>1. PICK v : v = [u EXCEPT !.room = @ - u.size]
  OBVIOUS
<1>2. v = [out |-> u.out, last |-> u.last, pos |-> u.pos, room |-> u.room - u.size, size |-> u.size,
           first |-> u.first, cut |-> u.cut, done |-> u.done, whole |-> u.whole, over |-> u.over]
  BY <1>1, TextIs
<1>3. PICK close, over : close = (IF v.room < 0 THEN <<"]}">> ELSE << >>) /\ over = (u.over \/ Passes(v.pos, 2, v.room))
  OBVIOUS
<1>4. w = [v EXCEPT !.out = Cat(@, close), !.last = <<>>, !.pos = @ + 2, !.done = TRUE, !.over = over]
  BY <1>1, <1>2, <1>3 DEF Ended, Cat
<1>5. w = [out |-> Cat(u.out, close), last |-> << >>, pos |-> u.pos + 2, room |-> u.room - u.size, size |-> u.size,
           first |-> u.first, cut |-> u.cut, done |-> TRUE, whole |-> u.whole, over |-> over]
  BY <1>2, <1>4
<1>6. Cat(u.out, close) \in Seq(Token)
  <2>1. close \in Seq(Token)
    BY <1>3, Signs
  <2> QED BY <2>1, TextIs, CatIs
<1>7. over \in BOOLEAN
  <2>1. v.pos \in Int /\ v.room \in Int /\ 2 \in Int
    BY <1>2, TextIs
  <2> QED BY <1>3, <2>1, TextIs, PassesIs
<1>8. w \in AText
  <2>1. PICK o, l \in Seq(Token) : o = Cat(u.out, close) /\ l = << >>
    BY <1>6, Signs
  <2>2. w = [out |-> o, last |-> l, pos |-> u.pos + 2, room |-> u.room - u.size, size |-> u.size,
             first |-> u.first, cut |-> u.cut, done |-> TRUE, whole |-> u.whole, over |-> over]
    BY <1>5, <2>1
  <2> QED BY <1>7, <2>1, <2>2, TextIs DEF AText
<1> QED BY <1>5, <1>8

LEMMA EndedFits ==
  ASSUME NEW u \in AText, NEW w, w = Ended(u), u.room - u.size > 0
  PROVE  /\ w \in AText /\ w.done = u.done /\ w.last = << >> /\ w.size = 0 /\ w.room = u.room - u.size
         /\ w.whole = u.whole /\ w.pos = u.pos + u.size + 2 /\ w.over = (u.over \/ u.pos + u.size + 1 > MaxText)
         /\ w.out = Cat(Cat(u.out, u.last), <<"]}">>)
<1>1. PICK v : v = [u EXCEPT !.room = @ - u.size]
  OBVIOUS
<1>2. v = [out |-> u.out, last |-> u.last, pos |-> u.pos, room |-> u.room - u.size, size |-> u.size,
           first |-> u.first, cut |-> u.cut, done |-> u.done, whole |-> u.whole, over |-> u.over]
  BY <1>1, TextIs
<1>3. PICK s : s = StepOver(v)
  OBVIOUS
<1>4. s = [out |-> Cat(u.out, u.last), last |-> << >>, pos |-> u.pos + u.size, room |-> u.room - u.size, size |-> 0,
           first |-> u.first, cut |-> u.cut, done |-> u.done, whole |-> u.whole, over |-> u.over]
  BY <1>2, <1>3 DEF StepOver, Cat
<1>5. PICK over : over = (u.over \/ u.pos + u.size + 1 > MaxText)
  OBVIOUS
<1>6. w = [s EXCEPT !.out = Append(@, "]}"), !.pos = @ + 2, !.over = over]
  <2>1. ~(v.room <= 0)
    BY <1>2, TextIs
  <2>2. over = (s.over \/ s.pos + 1 > MaxText)
    BY <1>4, <1>5
  <2> QED BY <1>1, <1>3, <1>4, <2>1, <2>2 DEF Ended
<1>7. Cat(u.out, u.last) \in Seq(Token) /\ Cat(Cat(u.out, u.last), <<"]}">>) \in Seq(Token)
      /\ Append(Cat(u.out, u.last), "]}") = Cat(Cat(u.out, u.last), <<"]}">>)
  <2>1. Cat(u.out, u.last) \in Seq(Token)
    BY TextIs, CatIs
  <2>2. PICK o \in Seq(Token) : o = Cat(u.out, u.last)
    BY <2>1
  <2>3. Cat(o, <<"]}">>) \in Seq(Token) /\ Append(o, "]}") = Cat(o, <<"]}">>)
    <3>1. "]}" \in Token
      BY Letters
    <3>2. Append(o, "]}") = Cat(o, <<"]}">>)
      BY <3>1, AppendIs
    <3> QED BY <3>2, Signs, CatIs
  <2> QED BY <2>2, <2>3
<1>8. w = [out |-> Cat(Cat(u.out, u.last), <<"]}">>), last |-> << >>, pos |-> u.pos + u.size + 2, room |-> u.room - u.size,
           size |-> 0, first |-> u.first, cut |-> u.cut, done |-> u.done, whole |-> u.whole, over |-> over]
  BY <1>4, <1>6, <1>7
<1>9. PICK o, l \in Seq(Token) : o = Cat(Cat(u.out, u.last), <<"]}">>) /\ l = << >>
  BY <1>7, Signs
<1>10. w = [out |-> o, last |-> l, pos |-> u.pos + u.size + 2, room |-> u.room - u.size,
            size |-> 0, first |-> u.first, cut |-> u.cut, done |-> u.done, whole |-> u.whole, over |-> over]
  BY <1>8, <1>9
<1>11. over \in BOOLEAN
  BY <1>5, TextIs
<1>12. w \in AText
  BY <1>10, <1>11, TextIs DEF AText
<1>13. /\ w.done = u.done /\ w.last = l /\ w.size = 0 /\ w.room = u.room - u.size /\ w.out = o
       /\ w.whole = u.whole /\ w.pos = u.pos + u.size + 2 /\ w.over = over
  BY <1>10
<1> QED BY <1>5, <1>9, <1>12, <1>13

(* The part of an event, by what is remembered of it. *)
PartOf(e, m, p) ==
  /\ p \in [1 .. Len(Types) -> Seq(Token)]
  /\ \A k \in 1 .. Len(Types) : p[k] = IF IsShown(m, e, k) THEN <<"[", k, "]">> ELSE << >>

LEMMA EventPartIs ==
  ASSUME NEW e \in Int, NEW m \in AMemory, m = trace[e], m # NoMessage
  PROVE  \E p : PartOf(e, m, p) /\ EventPart(e) = Cat(Cat(<<"event", e, "[">>, Joined(p, Len(Types))), <<"]}">>)
<1>1. Attributes = 1 .. Len(Types) /\ Len(Types) \in Nat
  BY TypesAssumption, LenProperties DEF Attributes
<1>2. PICK p : p = AttPart(e)
  OBVIOUS
<1>3. ASSUME NEW k \in 1 .. Len(Types)
      PROVE  p[k] = (IF IsShown(m, e, k) THEN <<"[", k, "]">> ELSE << >>) /\ p[k] \in Seq(Token)
  <2>1. p[k] = IF IsShown(m, e, k) THEN <<"[", k, "]">> ELSE << >>
    BY <1>1, <1>2 DEF AttPart, IsShown
  <2>2. <<"[", k, "]">> \in Seq(Token) /\ << >> \in Seq(Token)
    <3>1. k \in Int
      BY <1>1
    <3> QED BY <3>1, Signs, Names
  <2> QED BY <2>1, <2>2
<1>4. p \in [1 .. Len(Types) -> Seq(Token)]
  BY <1>1, <1>2, <1>3 DEF AttPart
<1>5. EventPart(e) = Cat(Cat(<<"event", e, "[">>, Joined(p, Len(Types))), <<"]}">>)
  BY <1>2 DEF EventPart, Cat
<1> QED BY <1>3, <1>4, <1>5 DEF PartOf

IsWhole(head, p, part) == part = Cat(Cat(head, Joined(p, Len(Types))), <<"]}">>)
TellsAlso(w, j, part) == part \in Seq(Token) /\ Telling(w, More(j, part))

LEMMA TellsMore ==
  ASSUME NEW j \in Seq(Token), NEW e \in Int, NEW m \in AMemory, NEW p, PartOf(e, m, p), NEW t, Telling(t, j), ~t.done,
         NEW head, head = <<"event", e, "[">>, NEW w, w = Ended(Elements(m, Begun(t, e), e, Len(Types))),
         NEW part, IsWhole(head, p, part)
  PROVE  TellsAlso(w, j, part)
<1>1. PICK h : h = Begun(t, e)
  OBVIOUS
<1>2. /\ t \in AText /\ t.room \in Int /\ t.room <= MaxText /\ t.last = << >> /\ t.size = 0
      /\ t.room # MaxText <=> j # << >>
      /\ MaxText \in Nat /\ HeadText \in Nat \ {0}
  BY TextIs, TextAssumption DEF Telling
<1>3. /\ h \in AText /\ h.room = t.room /\ h.last = head /\ h.size = HeadText
      /\ h.first = TRUE /\ h.cut = FALSE /\ h.done = t.done /\ (h.whole => t.whole)
      /\ h.out = IF t.room # MaxText THEN Cat(t.out, <<",">>) ELSE t.out
  <2>1. /\ h \in AText /\ h.room = t.room /\ h.last = <<"event", e, "[">> /\ h.size = HeadText
        /\ h.first = TRUE /\ h.cut = FALSE /\ h.done = t.done /\ (h.whole => t.whole)
        /\ h.out = IF t.room # MaxText THEN Cat(t.out, <<",">>) ELSE t.out
    <3>1. BegunAs(t, e, h)
      BY <1>1, <1>2, BegunIs
    <3> QED BY <3>1 DEF BegunAs
  <2> QED BY <2>1
<1>4. PICK u, n, J : u = Elements(m, h, e, n) /\ n = Len(Types) /\ J = Joined(p, n)
  <2>1. PICK n : n = Len(Types)
    OBVIOUS
  <2> QED BY <2>1
<1>5. Showing(h, J, u) /\ J \in Seq(Token)
  BY <1>3, <1>4, ElementsShow DEF PartOf
<1>6. /\ u \in AText /\ u.room \in Int /\ u.size \in Nat /\ h.room \in Int
      /\ u.room - u.size <= h.room - HeadText /\ u.room <= h.room
  BY <1>3, <1>5, TextIs DEF Showing
<1>7. ~u.done /\ (u.cut => u.room <= 0)
      /\ (~u.cut => (u.whole => Cat(u.out, u.last) = Cat(Cat(h.out, h.last), J)))
  BY <1>5 DEF Showing
<1>8. PICK c : part = Cat(Cat(head, J), c) /\ c = <<"]}">>
  BY <1>4 DEF IsWhole
<1>9. head \in Seq(Token) /\ c \in Seq(Token) /\ part \in Seq(Token) /\ part # << >>
  <2>1. head \in Seq(Token) /\ c \in Seq(Token) /\ c # << >>
    BY <1>8, Signs, Names
  <2>2. PICK x \in Seq(Token) : x = Cat(head, J)
    BY <1>5, <2>1, CatIs
  <2>3. Cat(x, c) \in Seq(Token) /\ Cat(x, c) # << >>
    BY <2>1, CatIs
  <2> QED BY <1>8, <2>1, <2>2, <2>3
<1>10. w = Ended(u)
  BY <1>1, <1>4
<1>14. u.whole => h.whole
  BY <1>5 DEF Showing
<1>11. CASE u.room - u.size <= 0
  <2>1. w \in AText /\ w.done = TRUE
    BY <1>6, <1>10, <1>11, EndedFull
  <2>2. Telling(w, More(j, part))
    BY <2>1 DEF Telling
  <2> QED BY <1>9, <2>2 DEF TellsAlso
<1>12. CASE u.room - u.size > 0
  <2>1. /\ w \in AText /\ w.done = u.done /\ w.last = << >> /\ w.size = 0 /\ w.room = u.room - u.size
        /\ w.whole = u.whole /\ w.out = Cat(Cat(u.out, u.last), <<"]}">>)
    BY <1>6, <1>10, <1>12, EndedFits
  <2>2. ~u.cut
    <3>1. u.room > 0
      BY <1>6, <1>12
    <3> QED BY <1>6, <1>7, <3>1
  <2>3. PICK a, b, d, f : a = t.room /\ b = u.room /\ d = w.room /\ f = HeadText /\ a \in Int /\ b \in Int /\ d \in Int /\ f \in Int
    <3>1. HeadText \in Int
      BY <1>2
    <3>2. w.room \in Int
      <4>1. w.room = u.room - u.size
        BY <2>1
      <4> QED BY <1>6, <4>1
    <3> QED BY <1>2, <1>6, <3>1, <3>2
  <2>4. d <= b /\ b <= a /\ d <= a - f /\ a <= MaxText /\ f > 0
    <3>1. h.room = a
      BY <1>3, <2>3
    <3>2. d = b - u.size /\ b - u.size <= a - f /\ b <= a
      BY <1>6, <2>1, <2>3, <3>1
    <3>3. f > 0 /\ a <= MaxText
      BY <1>2, <2>3
    <3> QED BY <1>6, <2>3, <3>2, <3>3
  <2>5. w.room <= MaxText /\ w.room # MaxText
    BY <1>2, <2>3, <2>4
  <2>6. More(j, part) # << >>
    BY <1>9, MoreIs
  <2>7. ASSUME w.whole PROVE w.out = Cat(<<"{">>, More(j, part))
    <3>1. u.whole /\ t.whole
      BY <1>3, <1>14, <2>1, <2>7
    <3>2. t.out = Cat(<<"{">>, j)
      BY <3>1 DEF Telling
    <3>3. w.out = Cat(Cat(Cat(h.out, head), J), c)
      BY <1>3, <1>7, <1>8, <2>1, <2>2, <3>1
    <3>4. PICK x : x = <<"{">>
      OBVIOUS
    <3>5. x \in Seq(Token) /\ h.out \in Seq(Token)
      BY <1>3, <3>4, Signs, TextIs
    <3>6. Cat(Cat(Cat(h.out, head), J), c) = Cat(h.out, part)
      <4>1. PICK z \in Seq(Token) : z = h.out
        BY <3>5
      <4>2. J \in Seq(Token) /\ head \in Seq(Token) /\ c \in Seq(Token)
        BY <1>5, <1>9
      <4>3. Cat(Cat(Cat(z, head), J), c) = Cat(z, Cat(Cat(head, J), c))
        BY ONLY <4>2, z \in Seq(Token), FourGroup
      <4> QED BY <1>8, <4>1, <4>3
    <3>7. CASE j = << >>
      <4>1. h.out = Cat(x, << >>) /\ Cat(x, << >>) = x
        BY <1>2, <1>3, <3>2, <3>4, <3>5, <3>7, CatIs
      <4> QED BY <1>9, <3>3, <3>4, <3>6, <3>7, <4>1 DEF More
    <3>8. CASE j # << >>
      <4>1. PICK comma \in Seq(Token) : comma = <<",">>
        BY Signs
      <4>2. h.out = Cat(Cat(x, j), comma)
        BY <1>2, <1>3, <3>2, <3>4, <3>8, <4>1
      <4>3. Cat(Cat(Cat(x, j), comma), part) = Cat(x, Cat(Cat(j, comma), part))
        BY <1>9, <3>5, FourGroup
      <4> QED BY <1>9, <3>3, <3>4, <3>6, <3>8, <4>1, <4>2, <4>3 DEF More
    <3> QED BY <3>7, <3>8
  <2>8. Telling(w, More(j, part))
    BY <1>7, <2>1, <2>5, <2>6, <2>7 DEF Telling
  <2> QED BY <1>9, <2>8 DEF TellsAlso
<1>13. u.room - u.size <= 0 \/ u.room - u.size > 0
  BY <1>6
<1> QED BY <1>11, <1>12, <1>13

LEMMA EventTells ==
  ASSUME NEW j \in Seq(Token), NEW e \in Int, trace[e] \in {NoMessage} \cup AMemory, NEW t, Telling(t, j)
  PROVE  EventPart(e) \in Seq(Token) /\ Telling(Event(t, e), More(j, EventPart(e)))
<1>1. CASE trace[e] = NoMessage
  <2>1. EventPart(e) = << >> /\ Event(t, e) = t
    BY <1>1 DEF EventPart, Event
  <2>2. More(j, << >>) = j
    BY DEF More
  <2> QED BY <2>1, <2>2, Signs
<1>2. CASE trace[e] # NoMessage
  <2>1. PICK m \in AMemory : m = trace[e]
    BY <1>2
  <2>2. PICK p : PartOf(e, m, p) /\ EventPart(e) = Cat(Cat(<<"event", e, "[">>, Joined(p, Len(Types))), <<"]}">>)
    BY <1>2, <2>1, EventPartIs
  <2>3. CASE t.done
    <3>1. Event(t, e) = t
      BY <2>3 DEF Event
    <3>2. EventPart(e) \in Seq(Token)
      <4>1. PICK J : J = Joined(p, Len(Types))
        OBVIOUS
      <4>2. Len(Types) \in Nat
        BY TypesAssumption, LenProperties
      <4>3. J \in Seq(Token)
        <5>1. PICK g : JoinedAs(p, Len(Types), g)
          BY <2>2, <4>2, JoinedIs DEF PartOf
        <5>2. Len(Types) \in 0 .. Len(Types)
          BY <4>2
        <5> QED BY <4>1, <5>1, <5>2 DEF JoinedAs
      <4>4. Cat(<<"event", e, "[">>, J) \in Seq(Token)
        BY <4>3, Names, CatIs
      <4>5. PICK o \in Seq(Token) : o = Cat(<<"event", e, "[">>, J)
        BY <4>4
      <4>6. Cat(o, <<"]}">>) \in Seq(Token)
        BY Signs, CatIs
      <4> QED BY <2>2, <4>1, <4>5, <4>6
    <3> QED BY <2>3, <3>1, <3>2 DEF Telling
  <2>4. CASE ~t.done
    <3>1. Event(t, e) = Ended(Elements(m, Begun(t, e), e, Len(Types)))
      BY <1>2, <2>1, <2>4 DEF Event
    <3>2. PICK head, w, part : head = <<"event", e, "[">> /\ w = Event(t, e) /\ part = EventPart(e)
      OBVIOUS
    <3>3. part = Cat(Cat(head, Joined(p, Len(Types))), <<"]}">>) /\ w = Ended(Elements(m, Begun(t, e), e, Len(Types)))
      BY <2>2, <3>1, <3>2
    <3>4. TellsAlso(w, j, part)
      BY <2>2, <2>4, <3>2, <3>3, TellsMore DEF IsWhole
    <3> QED BY <3>2, <3>4 DEF TellsAlso
  <2> QED BY <2>3, <2>4
<1> QED BY <1>1, <1>2

LEMMA EventIsText ==
  ASSUME NEW t \in AText, NEW e \in Int, trace[e] \in {NoMessage} \cup AMemory
  PROVE  Event(t, e) \in AText
<1>1. CASE t.done \/ trace[e] = NoMessage
  BY <1>1 DEF Event
<1>2. CASE ~t.done /\ trace[e] # NoMessage
  <2>1. PICK m \in AMemory : m = trace[e]
    BY <1>2
  <2>2. PICK p : PartOf(e, m, p)
    BY <1>2, <2>1, EventPartIs
  <2>3. PICK h : h = Begun(t, e)
    OBVIOUS
  <2>4. h \in AText /\ h.size = HeadText /\ h.first /\ ~h.cut /\ ~h.done
    <3>1. BegunAs(t, e, h)
      BY <2>3, BegunIs
    <3> QED BY <1>2, <3>1 DEF BegunAs
  <2>5. PICK u, n : u = Elements(m, h, e, n) /\ n = Len(Types)
    <3>1. PICK n : n = Len(Types)
      OBVIOUS
    <3> QED BY <3>1
  <2>6. u \in AText
    BY <2>2, <2>4, <2>5, ElementsShow DEF PartOf, Showing
  <2>7. Event(t, e) = Ended(u)
    BY <1>2, <2>1, <2>3, <2>5 DEF Event
  <2>8. u.room - u.size <= 0 \/ u.room - u.size > 0
    BY <2>6, TextIs
  <2> QED BY <2>6, <2>7, <2>8, EndedFull, EndedFits
<1> QED BY <1>1, <1>2

(* All events. *)
LEMMA StartIs ==
  /\ Start \in AText /\ Start.last = << >> /\ Start.size = 0 /\ Start.room = MaxText
  /\ Start.out = <<"{">> /\ Start.done = FALSE /\ Start.pos = 1 /\ Start.whole = TRUE /\ Start.over = FALSE
<1>1. PICK t : t = Start
  OBVIOUS
<1>2. PICK o \in Seq(Token) : o = <<"{">>
  BY Signs
<1>3. PICK l \in Seq(Token) : l = << >>
  BY Signs
<1>4. t = [out |-> o, last |-> l, pos |-> 1, room |-> MaxText, size |-> 0, first |-> TRUE, cut |-> FALSE, done |-> FALSE,
          whole |-> TRUE, over |-> FALSE]
  BY <1>1, <1>2, <1>3 DEF Start
<1>5. t \in AText
  BY <1>4, TextAssumption DEF AText
<1>6. t.last = l /\ t.size = 0 /\ t.room = MaxText /\ t.out = o /\ t.done = FALSE /\ t.pos = 1 /\ t.whole = TRUE /\ t.over = FALSE
  BY <1>4
<1> QED BY <1>1, <1>2, <1>3, <1>5, <1>6

LEMMA EventsAre ==
  ASSUME NEW n \in Nat, \A e \in 0 .. n - 1 : trace[e] \in {NoMessage} \cup AMemory
  PROVE  \E g : /\ g[0] = Start /\ g[n] = EventsOf(n)
                /\ \A k \in 1 .. n : g[k] = Event(g[k - 1], k - 1)
<1> DEFINE Fits(g) == g = [k \in 0 .. n |-> IF k = 0 THEN Start ELSE Event(g[k - 1], k - 1)]
<1>1. Start \in AText
  BY StartIs
<1>2. PICK F : F = [x \in (1 .. n) \X AText |-> Event(x[2], x[1] - 1)]
  OBVIOUS
<1>3. ASSUME NEW k \in 1 .. n, NEW t \in AText PROVE F[<<k, t>>] = Event(t, k - 1) /\ Event(t, k - 1) \in AText
  <2>1. F[<<k, t>>] = Event(t, k - 1)
    BY <1>2
  <2>2. k - 1 \in 0 .. n - 1 /\ k - 1 \in Int
    OBVIOUS
  <2> QED BY <2>1, <2>2, EventIsText
<1>4. F \in [(1 .. n) \X AText -> AText]
  BY <1>2, <1>3
<1>5. PICK b : b = Start
  OBVIOUS
<1>6. PICK g \in [0 .. n -> AText] : g = [k \in 0 .. n |-> IF k = 0 THEN b ELSE F[<<k, g[k - 1]>>]]
  <2>1. b \in AText
    BY <1>1, <1>5
  <2>2. \E g \in [0 .. n -> AText] : Goes(g, n, b, F)
    BY <1>4, <2>1, SolutionExists
  <2> QED BY <2>2 DEF Goes
<1>7. Fits(g)
  <2>1. ASSUME NEW k \in 0 .. n PROVE g[k] = IF k = 0 THEN Start ELSE Event(g[k - 1], k - 1)
    <3>1. CASE k = 0
      BY <1>5, <1>6, <3>1
    <3>2. CASE k # 0
      <4>1. k \in 1 .. n /\ k - 1 \in 0 .. n
        BY <3>2
      <4>2. g[k] = F[<<k, g[k - 1]>>] /\ g[k - 1] \in AText
        BY <1>6, <3>2, <4>1
      <4> QED BY <1>3, <3>2, <4>1, <4>2
    <3> QED BY <3>1, <3>2
  <2> QED BY <1>6, <2>1
<1>8. PICK f : f = CHOOSE d : Fits(d)
  OBVIOUS
<1>9. Fits(f)
  <2> HIDE DEF Fits
  <2> QED BY <1>7, <1>8
<1>10. f[n] = EventsOf(n)
  BY <1>8 DEF EventsOf
<1>11. ASSUME NEW k \in 1 .. n PROVE f[k] = Event(f[k - 1], k - 1)
  <2>1. k \in 0 .. n /\ k # 0
    OBVIOUS
  <2> QED BY <1>9, <2>1
<1>12. f[0] = Start
  <2>1. 0 \in 0 .. n
    OBVIOUS
  <2> QED BY <1>9, <2>1
<1> QED BY <1>10, <1>11, <1>12

LEMMA EventsTell ==
  ASSUME NEW n \in Nat, \A e \in 0 .. n - 1 : trace[e] \in {NoMessage} \cup AMemory,
         NEW part, part = [k \in 1 .. n |-> EventPart(k - 1)]
  PROVE  Joined(part, n) \in Seq(Token) /\ Telling(EventsOf(n), Joined(part, n))
<1>1. Telling(Start, << >>)
  <2>1. PICK t, x, j : t = Start /\ x = <<"{">> /\ j = << >> /\ x \in Seq(Token)
    BY Signs
  <2>2. Cat(x, j) = x
    BY <2>1, CatIs
  <2>3. t \in AText /\ t.last = j /\ t.size = 0 /\ t.room = MaxText /\ t.out = x /\ t.done = FALSE
    BY <2>1, StartIs
  <2>4. MaxText <= MaxText
    BY TextAssumption
  <2>5. Telling(t, j)
    BY <2>1, <2>2, <2>3, <2>4 DEF Telling
  <2> QED BY <2>1, <2>5
<1>2. ASSUME NEW k \in 1 .. n
      PROVE  part[k] = EventPart(k - 1) /\ part[k] \in Seq(Token) /\ k - 1 \in Int
             /\ trace[k - 1] \in {NoMessage} \cup AMemory
  <2>1. k - 1 \in 0 .. n - 1 /\ k - 1 \in Int
    OBVIOUS
  <2> QED BY <1>1, <2>1, EventTells, Signs
<1>3. part \in [1 .. n -> Seq(Token)]
  BY <1>2
<1>4. PICK g : JoinedAs(part, n, g)
  BY <1>3, JoinedIs
<1>5. PICK f : /\ f[0] = Start /\ f[n] = EventsOf(n)
               /\ \A k \in 1 .. n : f[k] = Event(f[k - 1], k - 1)
  BY EventsAre
<1>6. /\ g \in [0 .. n -> Seq(Token)] /\ g[0] = << >> /\ g[n] = Joined(part, n)
      /\ \A k \in 1 .. n : g[k] = More(g[k - 1], part[k])
  BY <1>4 DEF JoinedAs
<1> DEFINE A == {k \in 0 .. n : Telling(f[k], g[k])}
<1>7. 0 \in A
  BY <1>1, <1>5, <1>6
<1>8. ASSUME NEW k \in 1 .. n, k - 1 \in A PROVE k \in A
  <2>1. PICK j, t, e : j = g[k - 1] /\ t = f[k - 1] /\ e = k - 1
    OBVIOUS
  <2>2. Telling(t, j) /\ j \in Seq(Token)
    <3>1. k - 1 \in 0 .. n
      OBVIOUS
    <3> QED BY <1>6, <1>8, <2>1, <3>1
  <2>3. f[k] = Event(t, e) /\ g[k] = More(j, EventPart(e)) /\ e \in Int /\ trace[e] \in {NoMessage} \cup AMemory
    BY <1>2, <1>5, <1>6, <2>1
  <2>4. Telling(f[k], g[k])
    BY <2>2, <2>3, EventTells
  <2> QED BY <2>4
<1>9. n \in A
  <2> HIDE DEF A
  <2>1. n \in 0 .. n
    OBVIOUS
  <2> QED BY <1>7, <1>8, <2>1, UpTo
<1>10. g[n] \in Seq(Token)
  BY <1>6
<1> QED BY <1>5, <1>6, <1>9, <1>10

-----------------------------------------------------------------------------
(* An alert that fits.  At most last bytes are written so far, or will be with the
   next piece, nothing was cut, and the room counts at least what the buffer has. *)
Fitting(t, last) ==
  /\ t \in AText /\ ~t.over /\ ~t.done /\ t.whole
  /\ t.pos + t.size <= last /\ t.room - t.size >= MaxText - last

LEMMA AttributeFits ==
  ASSUME NEW m \in AMemory, NEW i \in Attributes, NEW t, NEW last \in Nat, Fitting(t, last), ~t.cut,
         last + NameText + Takes(m, i) + 2 <= MaxText - 3
  PROVE  Fitting(Attribute(m, t, i), last + NameText + Takes(m, i) + 2) /\ ~Attribute(m, t, i).cut
<1>1. PICK u : u = Attribute(m, t, i)
  OBVIOUS
<1>2. PICK pos, room \in Int, size \in Nat : pos = t.pos /\ room = t.room /\ size = t.size
  BY TextIs DEF Fitting
<1>3. PICK name, number, max, takes \in Nat : name = NameText /\ number = NumberText /\ max = MaxText /\ takes = Takes(m, i)
  <2>1. Behinds(t) \in Int
    BY PlacesAre DEF Fitting
  <2>2. Takes(m, i) \in Nat
    BY <2>1, ValueIs
  <2> QED BY <2>2, TextAssumption
<1>4. t \in AText /\ ~t.over /\ ~t.done /\ t.whole /\ pos + size <= last /\ room - size >= max - last
      /\ last + name + takes + 2 <= max - 3
  BY <1>2, <1>3 DEF Fitting
<1>5. PICK intro \in Nat : intro = Intro(t) /\ intro <= name + 1
  BY <1>3, <1>4, PlacesAre
<1>6. PICK behinds, from \in Int : /\ behinds = Behinds(t) /\ from = From(t)
                                   /\ behinds = room - size - intro /\ from = pos + size + intro
  BY <1>2, <1>5 DEF Behinds, From
<1>7. behinds > takes
  BY <1>4, <1>5, <1>6
<1>8. PICK val \in Int : val = ValueLen(m, i, behinds) /\ val <= takes
  BY <1>3, <1>7, ValueIs
<1>9. PICK until \in Int : until = Until(m, t, i) /\ until = from + val
  BY <1>6, <1>8 DEF Until
<1>10. t.room - t.size > 0
  BY <1>2, <1>4
<1>11. ShownAs(m, t, i, u)
  BY <1>1, <1>4, <1>10, AttributeShown
<1>12. /\ u \in AText /\ u.cut = FALSE /\ u.done = t.done /\ u.size = 1 /\ u.room = behinds /\ u.pos = until
       /\ u.whole = (t.whole /\ ~IsCut(i, behinds)) /\ u.over = PassesAt(m, t, i)
  BY <1>6, <1>9, <1>11 DEF ShownAs
<1>13. Types[i] \in Fixed => takes = number
  BY <1>3 DEF Takes
<1>14. ~IsCut(i, behinds)
  <2>1. ~(behinds <= 0) /\ (takes = number => ~(number >= behinds))
    BY <1>7
  <2> QED BY <1>3, <1>13, <2>1 DEF IsCut
<1>15. ~PassesAt(m, t, i)
  <2>1. ~Passes(t.pos + t.size, Intro(t), t.room - t.size)
    <3>1. PICK p, r \in Int : p = t.pos + t.size /\ r = t.room - t.size /\ p + intro <= max
      <4>1. pos + size \in Int /\ room - size \in Int /\ pos + size + intro <= max
        BY <1>4, <1>5
      <4> QED BY <1>2, <4>1
    <3>2. ~Passes(p, intro, r)
      BY <1>3, <3>1, PassesIs
    <3> QED BY <1>5, <3>1, <3>2
  <2>2. ~ValuePasses(i, From(t), Behinds(t))
    <3>1. CASE Types[i] \in Fixed
      <4>1. from + number <= max
        BY <1>4, <1>5, <1>6, <1>13, <3>1
      <4> QED BY <1>3, <1>6, <4>1, ValuePassesIs
    <3>2. CASE Types[i] \notin Fixed
      BY <3>2 DEF ValuePasses, Fixed
    <3> QED BY <3>1, <3>2
  <2>3. ~(Until(m, t, i) + 1 > MaxText)
    <3>1. until + 1 <= max
      BY <1>4, <1>5, <1>6, <1>8, <1>9
    <3> QED BY <1>3, <1>9, <3>1
  <2> QED BY <1>4, <2>1, <2>2, <2>3 DEF PassesAt
<1>16. PICK next1 \in Nat : next1 = last + name + takes + 2
  OBVIOUS
<1>17. until + 1 <= next1 /\ behinds - 1 >= max - next1
  BY <1>4, <1>5, <1>6, <1>8, <1>9, <1>16
<1>18. Fitting(u, next1)
  <2>1. u.pos + u.size <= next1 /\ u.room - u.size >= MaxText - next1
    BY <1>3, <1>12, <1>17
  <2> QED BY <1>4, <1>12, <1>14, <1>15, <2>1 DEF Fitting
<1> QED BY <1>1, <1>3, <1>12, <1>16, <1>18

LEMMA BegunFits ==
  ASSUME NEW t, NEW last \in Nat, Fitting(t, last), t.size = 0, NEW e \in Int, last + HeadText + 1 <= MaxText - 3
  PROVE  /\ Fitting(Begun(t, e), last + HeadText + 1) /\ ~Begun(t, e).cut
<1>1. PICK h : h = Begun(t, e)
  OBVIOUS
<1>2. PICK pos, room \in Int : pos = t.pos /\ room = t.room
  BY TextIs DEF Fitting
<1>3. PICK head, max \in Nat : head = HeadText /\ max = MaxText
  BY TextAssumption
<1>4. t \in AText /\ ~t.over /\ ~t.done /\ t.whole /\ pos <= last /\ room >= max - last /\ last + head + 1 <= max - 3
  BY <1>2, <1>3 DEF Fitting
<1>5. PICK comma \in 0 .. 1 : comma = Comma(t)
  BY DEF Comma
<1>6. BegunAs(t, e, h)
  BY <1>1, <1>4, BegunIs
<1>7. /\ h \in AText /\ h.room = room /\ h.size = head /\ h.cut = FALSE /\ h.done = t.done /\ h.pos = pos + comma
      /\ h.whole = (t.whole /\ head < room) /\ h.over = PassesHead(t)
  BY <1>2, <1>3, <1>5, <1>6 DEF BegunAs
<1>8. head < room /\ ~(pos > max) /\ pos + comma + head <= max /\ pos + comma \in Int
  BY <1>4, <1>5
<1>9. ~PassesHead(t)
  <2>1. PICK p \in Int : p = pos + comma /\ p + head <= max
    BY <1>8
  <2>2. ~Passes(p, head, room)
    BY <1>3, <2>1, PassesIs
  <2> QED BY <1>2, <1>3, <1>4, <1>5, <1>8, <2>1, <2>2 DEF PassesHead
<1>10. PICK next1 \in Nat : next1 = last + head + 1
  OBVIOUS
<1>11. pos + comma + head <= next1 /\ room - head >= max - next1
  BY <1>4, <1>5, <1>10
<1>12. Fitting(h, next1)
  <2>1. h.pos + h.size <= next1 /\ h.room - h.size >= MaxText - next1
    BY <1>3, <1>7, <1>11
  <2> QED BY <1>4, <1>7, <1>8, <1>9, <2>1 DEF Fitting
<1> QED BY <1>1, <1>3, <1>7, <1>10, <1>12

LEMMA EndFits ==
  ASSUME NEW u, NEW last \in Nat, Fitting(u, last), last + 2 <= MaxText - 1
  PROVE  Fitting(Ended(u), last + 2) /\ Ended(u).size = 0
<1>1. PICK w : w = Ended(u)
  OBVIOUS
<1>2. PICK pos, room \in Int, size \in Nat : pos = u.pos /\ room = u.room /\ size = u.size
  BY TextIs DEF Fitting
<1>3. PICK max \in Nat : max = MaxText
  BY TextAssumption
<1>4. u \in AText /\ ~u.over /\ ~u.done /\ u.whole /\ pos + size <= last /\ room - size >= max - last /\ last + 2 <= max - 1
  BY <1>2, <1>3 DEF Fitting
<1>5. u.room - u.size > 0
  BY <1>2, <1>4
<1>6. /\ w \in AText /\ w.done = u.done /\ w.size = 0 /\ w.room = room - size
      /\ w.whole = u.whole /\ w.pos = pos + size + 2 /\ w.over = (u.over \/ pos + size + 1 > max)
  BY <1>1, <1>2, <1>3, <1>4, <1>5, EndedFits
<1>7. ~(pos + size + 1 > max) /\ pos + size + 2 <= last + 2 /\ room - size >= max - (last + 2)
  BY <1>4
<1>8. Fitting(w, last + 2)
  <2>1. w.pos + w.size <= last + 2 /\ w.room - w.size >= MaxText - (last + 2)
    BY <1>3, <1>6, <1>7
  <2> QED BY <1>4, <1>6, <1>7, <2>1 DEF Fitting
<1> QED BY <1>1, <1>6, <1>8

(* All elements of an event that fits. *)
AttTakes(e, m, F) ==
  F = [i \in Attributes |-> IF IsShown(m, e, i) THEN NameText + Takes(m, i) + 2 ELSE 0]

LEMMA AttFullIs ==
  ASSUME NEW e \in Int, NEW m \in AMemory, m = trace[e]
  PROVE  AttTakes(e, m, AttFull(e)) /\ AttFull(e) \in [1 .. Len(Types) -> Nat]
<1>1. Attributes = 1 .. Len(Types) /\ NameText \in Nat
  BY TypesAssumption, TextAssumption, LenProperties DEF Attributes
<1>2. PICK F : F = [i \in Attributes |-> IF IsShown(m, e, i) THEN NameText + Takes(m, i) + 2 ELSE 0]
  OBVIOUS
<1>3. ASSUME NEW i \in Attributes
      PROVE  (IF AttPart(e)[i] = <<>> THEN 0 ELSE NameText + ValueFull(e, i) + 2) = F[i] /\ F[i] \in Nat
  <2>1. i \in Int /\ i \in DOMAIN F
    BY <1>2, TypesAssumption, LenProperties DEF Attributes
  <2>2. F[i] = IF IsShown(m, e, i) THEN NameText + Takes(m, i) + 2 ELSE 0
    BY <1>2
  <2>3. Takes(m, i) \in Nat
    <3>1. PICK r \in Int : r = 0
      OBVIOUS
    <3> QED BY <3>1, ValueIs
  <2>4. ValueFull(e, i) = Takes(m, i)
    BY DEF ValueFull, Takes
  <2>5. AttPart(e)[i] = IF IsShown(m, e, i) THEN <<"[", i, "]">> ELSE << >>
    BY DEF AttPart, IsShown
  <2>6. <<"[", i, "]">> # << >>
    BY <2>1, Names
  <2>7. CASE IsShown(m, e, i)
    <3>1. AttPart(e)[i] # << >>
      BY <2>5, <2>6, <2>7
    <3>2. NameText + Takes(m, i) + 2 \in Nat
      BY <1>1, <2>3
    <3> QED BY <2>2, <2>4, <2>7, <3>1, <3>2
  <2>8. CASE ~IsShown(m, e, i)
    <3>1. AttPart(e)[i] = << >>
      BY <2>5, <2>8
    <3> QED BY <2>2, <2>8, <3>1
  <2> QED BY <2>7, <2>8
<1>4. AttFull(e) = F
  BY <1>2, <1>3 DEF AttFull
<1> QED BY <1>1, <1>2, <1>3, <1>4 DEF AttTakes

LEMMA ElementsFit ==
  ASSUME NEW e \in Int, NEW m \in AMemory, m = trace[e], NEW h, NEW last \in Nat, Fitting(h, last), ~h.cut,
         last + Total(AttFull(e), Len(Types)) <= MaxText - 3
  PROVE  /\ Total(AttFull(e), Len(Types)) \in Nat
         /\ Fitting(Elements(m, h, e, Len(Types)), last + Total(AttFull(e), Len(Types)))
<1>1. PICK n \in Nat : n = Len(Types) /\ Attributes = 1 .. n
  BY TypesAssumption, LenProperties DEF Attributes
<1>2. PICK F : F = AttFull(e) /\ F \in [1 .. n -> Nat] /\ AttTakes(e, m, F)
  BY <1>1, AttFullIs
<1>3. \A k \in 0 .. n : Total(F, k) \in Nat /\ Total(F, k) <= Total(F, n)
  BY <1>2, TotalGrows
<1>4. PICK g : /\ g[0] = h /\ g[n] = Elements(m, h, e, n)
               /\ \A k \in 1 .. n : g[k] = ElementStep(m, e, g[k - 1], k)
  <2>1. h \in AText
    BY DEF Fitting
  <2>2. \E g : Along(m, h, e, n, g)
    <3>1. n = Len(Types)
      BY <1>1
    <3> QED BY ONLY <2>1, <3>1, m \in AMemory, ElementsAre
  <2> QED BY <2>2 DEF Along
<1> DEFINE A == {k \in 0 .. n : Fitting(g[k], last + Total(F, k)) /\ ~g[k].cut}
<1>5. 0 \in A
  <2>1. Total(F, 0) = 0 /\ last + 0 = last /\ 0 \in 0 .. n
    BY TotalNext
  <2> QED BY <1>4, <2>1
<1>6. ASSUME NEW k \in 1 .. n, k - 1 \in A PROVE k \in A
  <2>1. PICK l \in Nat : l = k - 1 /\ k = l + 1 /\ l \in 0 .. n /\ k \in 0 .. n
    OBVIOUS
  <2>2. PICK t, a, b, c : t = g[l] /\ a = Total(F, l) /\ b = Total(F, k) /\ c = F[k]
    OBVIOUS
  <2>3. b = a + c
    BY <2>1, <2>2, TotalNext
  <2>4. a \in Nat /\ b \in Nat /\ c \in Nat /\ b <= Total(F, n) /\ Total(F, n) \in Nat
    BY <1>2, <1>3, <2>1, <2>2
  <2>5. Fitting(t, last + a) /\ ~t.cut /\ g[k] = ElementStep(m, e, t, k)
    BY <1>4, <1>6, <2>1, <2>2
  <2>6. last + b <= MaxText - 3
    <3>1. MaxText \in Nat /\ last + Total(F, n) <= MaxText - 3
      BY <1>1, <1>2, TextAssumption
    <3> QED BY <2>4, <3>1
  <2>7. Fitting(g[k], last + b) /\ ~g[k].cut
    <3>1. CASE IsShown(m, e, k)
      <4>1. c = NameText + Takes(m, k) + 2
        BY <1>1, <1>2, <2>2, <3>1 DEF AttTakes
      <4>2. PICK name, takes \in Nat : name = NameText /\ takes = Takes(m, k)
        <5>1. Takes(m, k) \in Nat
          BY <1>1, ValueIs, 0 \in Int
        <5> QED BY <5>1, TextAssumption
      <4>3. PICK start \in Nat : start = last + a
        BY <2>4
      <4>4. start + name + takes + 2 = last + b
        <5>1. c = name + takes + 2
          BY <4>1, <4>2
        <5>2. a \in Nat /\ c \in Nat /\ last \in Nat
          BY <2>4
        <5> QED BY ONLY <2>3, <4>3, <5>1, <5>2, name \in Nat, takes \in Nat
      <4>5. start + NameText + Takes(m, k) + 2 <= MaxText - 3
        BY <2>6, <4>2, <4>4
      <4>6. Fitting(Attribute(m, t, k), start + NameText + Takes(m, k) + 2) /\ ~Attribute(m, t, k).cut
        BY <1>1, <2>5, <4>3, <4>5, AttributeFits
      <4>7. g[k] = Attribute(m, t, k)
        BY <2>5, <3>1 DEF ElementStep
      <4> QED BY <4>2, <4>4, <4>6, <4>7
    <3>2. CASE ~IsShown(m, e, k)
      <4>1. c = 0
        BY <1>1, <1>2, <2>2, <3>2 DEF AttTakes
      <4>2. last + b = last + a
        BY <2>3, <2>4, <4>1
      <4> QED BY <2>5, <3>2, <4>2 DEF ElementStep
    <3> QED BY <3>1, <3>2
  <2> QED BY <2>1, <2>2, <2>7
<1>7. n \in A
  <2> HIDE DEF A
  <2>1. n \in 0 .. n
    OBVIOUS
  <2> QED BY <1>5, <1>6, <2>1, UpTo
<1>8. n \in 0 .. n
  OBVIOUS
<1> QED BY <1>1, <1>2, <1>3, <1>4, <1>7, <1>8

LEMMA EventFits ==
  ASSUME NEW e \in Int, trace[e] \in {NoMessage} \cup AMemory, NEW t, NEW last \in Nat, Fitting(t, last), t.size = 0,
         last + EventFull(e) <= MaxText - 1
  PROVE  Fitting(Event(t, e), last + EventFull(e)) /\ Event(t, e).size = 0
<1>1. CASE trace[e] = NoMessage
  <2>1. EventFull(e) = 0 /\ Event(t, e) = t /\ last + 0 = last
    BY <1>1 DEF EventFull, Event
  <2> QED BY <2>1
<1>2. CASE trace[e] # NoMessage
  <2>1. PICK m \in AMemory : m = trace[e]
    BY <1>2
  <2>2. PICK total : total = Total(AttFull(e), Len(Types))
    OBVIOUS
  <2>3. total \in Nat
    <3>1. Len(Types) \in Nat /\ AttFull(e) \in [1 .. Len(Types) -> Nat]
      BY <2>1, TypesAssumption, LenProperties, AttFullIs
    <3>2. Len(Types) \in 0 .. Len(Types)
      BY <3>1
    <3> QED BY <2>2, <3>1, <3>2, TotalGrows
  <2>4. PICK head, max \in Nat : head = HeadText /\ max = MaxText
    BY TextAssumption
  <2>5. EventFull(e) = head + total + 3
    BY <1>2, <2>2, <2>4 DEF EventFull
  <2>6. PICK a, b \in Nat : a = last + head + 1 /\ b = a + total
    BY <2>3
  <2>7. a <= max - 3 /\ b <= max - 3 /\ b + 2 = last + EventFull(e) /\ b + 2 <= max - 1
    BY <2>3, <2>4, <2>5, <2>6
  <2>8. PICK h : h = Begun(t, e)
    OBVIOUS
  <2>9. Fitting(h, a) /\ ~h.cut
    BY <2>4, <2>6, <2>7, <2>8, BegunFits
  <2>10. PICK u : u = Elements(m, h, e, Len(Types))
    OBVIOUS
  <2>11. Fitting(u, b)
    BY <2>1, <2>2, <2>4, <2>6, <2>7, <2>9, <2>10, ElementsFit
  <2>12. Fitting(Ended(u), b + 2) /\ Ended(u).size = 0
    BY <2>4, <2>7, <2>11, EndFits
  <2>13. Event(t, e) = Ended(u)
    BY <1>2, <2>1, <2>8, <2>10 DEF Event, Fitting
  <2> QED BY <2>7, <2>12, <2>13
<1> QED BY <1>1, <1>2

LEMMA TotalIsNat ==
  ASSUME NEW n \in Nat, \A e \in 0 .. n - 1 : trace[e] \in {NoMessage} \cup AMemory,
         NEW F, F = [k \in 1 .. n |-> EventFull(k - 1)]
  PROVE  F \in [1 .. n -> Nat] /\ Total(F, n) \in Nat
<1>1. ASSUME NEW k \in 1 .. n PROVE F[k] \in Nat
  <2>1. PICK e \in Int : e = k - 1 /\ e \in 0 .. n - 1
    OBVIOUS
  <2>2. F[k] = EventFull(e)
    BY <2>1
  <2>3. CASE trace[e] = NoMessage
    BY <2>2, <2>3 DEF EventFull
  <2>4. CASE trace[e] # NoMessage
    <3>1. PICK m \in AMemory : m = trace[e]
      BY <2>1, <2>4
    <3>2. Len(Types) \in Nat /\ AttFull(e) \in [1 .. Len(Types) -> Nat]
      BY <3>1, TypesAssumption, LenProperties, AttFullIs
    <3>3. Len(Types) \in 0 .. Len(Types)
      BY <3>2
    <3>4. Total(AttFull(e), Len(Types)) \in Nat
      BY <3>2, <3>3, TotalGrows
    <3> QED BY <2>2, <2>4, <3>4, TextAssumption DEF EventFull
  <2> QED BY <2>3, <2>4
<1>2. F \in [1 .. n -> Nat]
  BY <1>1
<1>3. n \in 0 .. n
  OBVIOUS
<1> QED BY <1>2, <1>3, TotalGrows

LEMMA EventsFit ==
  ASSUME NEW n \in Nat, \A e \in 0 .. n - 1 : trace[e] \in {NoMessage} \cup AMemory,
         NEW F, F = [k \in 1 .. n |-> EventFull(k - 1)], 1 + Total(F, n) <= MaxText - 1
  PROVE  Total(F, n) \in Nat /\ Fitting(EventsOf(n), 1 + Total(F, n)) /\ EventsOf(n).size = 0
<1>1. ASSUME NEW k \in 1 .. n
      PROVE  F[k] = EventFull(k - 1) /\ k - 1 \in Int /\ trace[k - 1] \in {NoMessage} \cup AMemory
  <2>1. k - 1 \in Int /\ k - 1 \in 0 .. n - 1
    OBVIOUS
  <2> QED BY <2>1
<1>2. F \in [1 .. n -> Nat]
  BY TotalIsNat
<1>3. \A k \in 0 .. n : Total(F, k) \in Nat /\ Total(F, k) <= Total(F, n)
  BY <1>2, TotalGrows
<1>4. PICK g : /\ g[0] = Start /\ g[n] = EventsOf(n)
               /\ \A k \in 1 .. n : g[k] = Event(g[k - 1], k - 1)
  BY EventsAre
<1> DEFINE A == {k \in 0 .. n : Fitting(g[k], 1 + Total(F, k)) /\ g[k].size = 0}
<1>5. 0 \in A
  <2>1. Total(F, 0) = 0 /\ 1 + 0 = 1 /\ 0 \in 0 .. n
    BY TotalNext
  <2>2. PICK t : t = Start
    OBVIOUS
  <2>3. t \in AText /\ t.size = 0 /\ t.room = MaxText /\ t.pos = 1 /\ t.done = FALSE /\ t.whole = TRUE /\ t.over = FALSE
    BY <2>2, StartIs
  <2>4. Fitting(t, 1)
    BY <2>3, TextAssumption DEF Fitting
  <2> QED BY <1>4, <2>1, <2>2, <2>3, <2>4
<1>6. ASSUME NEW k \in 1 .. n, k - 1 \in A PROVE k \in A
  <2>1. PICK l \in Nat : l = k - 1 /\ k = l + 1 /\ l \in 0 .. n /\ k \in 0 .. n
    OBVIOUS
  <2>2. PICK t, a, b, c : t = g[l] /\ a = Total(F, l) /\ b = Total(F, k) /\ c = F[k]
    OBVIOUS
  <2>3. b = a + c
    BY <2>1, <2>2, TotalNext
  <2>4. a \in Nat /\ b \in Nat /\ c \in Nat /\ b <= Total(F, n) /\ Total(F, n) \in Nat
    BY <1>2, <1>3, <2>1, <2>2
  <2>5. Fitting(t, 1 + a) /\ t.size = 0 /\ g[k] = Event(t, l) /\ l \in Int /\ c = EventFull(l)
        /\ trace[l] \in {NoMessage} \cup AMemory
    BY <1>1, <1>4, <1>6, <2>1, <2>2
  <2>6. PICK start \in Nat : start = 1 + a
    BY <2>4
  <2>7. start + c <= MaxText - 1 /\ start + c = 1 + b
    BY <2>3, <2>4, <2>6, TextAssumption
  <2>8. Fitting(Event(t, l), start + EventFull(l)) /\ Event(t, l).size = 0
    BY <2>5, <2>6, <2>7, EventFits
  <2> QED BY <2>1, <2>2, <2>5, <2>7, <2>8
<1>7. n \in A
  <2> HIDE DEF A
  <2>1. n \in 0 .. n
    OBVIOUS
  <2> QED BY <1>5, <1>6, <2>1, UpTo
<1>8. n \in 0 .. n
  OBVIOUS
<1> QED BY <1>3, <1>4, <1>7, <1>8

(* What a rule remembers: nothing, or the bytes of each attribute of a message. *)
TraceFits == trace \in [Events \cup {0} -> {NoMessage} \cup AMemory]

LEMMA IsShownRight == TraceFits => AlertShows
<1> SUFFICES ASSUME TraceFits, NEW n, n = Cardinality(Events)
             PROVE  /\ Full(n) <= MaxText + 1 => ~Text(n).over /\ ~Text(n).done /\ Text(n).whole
                    /\ ~Text(n).over /\ ~Text(n).done /\ Text(n).whole => Text(n).out = Written(n)
  BY DEF AlertShows
<1>1. n \in Nat /\ Events = 1 .. n
  BY TextAssumption, FS_CardinalityType
<1>2. PICK k \in Nat : k = n + 1
  BY <1>1
<1>3. \A e \in 0 .. k - 1 : trace[e] \in {NoMessage} \cup AMemory
  <2>1. \A e \in 0 .. k - 1 : e \in Events \cup {0}
    <3>1. ASSUME NEW e \in 0 .. k - 1 PROVE e = 0 \/ e \in 1 .. n
      <4>1. n \in Nat /\ k = n + 1
        BY <1>1, <1>2
      <4> QED BY <3>1, <4>1
    <3> QED BY <1>1, <3>1
  <2> QED BY <2>1 DEF TraceFits
<1>4. PICK part, J : part = [l \in 1 .. k |-> EventPart(l - 1)] /\ J = Joined(part, k)
  <2>1. PICK part : part = [l \in 1 .. k |-> EventPart(l - 1)]
    OBVIOUS
  <2> QED BY <2>1
<1>5. PICK t : t = EventsOf(k)
  OBVIOUS
<1>6. Telling(t, J) /\ J \in Seq(Token)
  BY <1>3, <1>4, <1>5, EventsTell
<1>7. t \in AText
  BY <1>6 DEF Telling
<1>8. PICK over : over = (t.over \/ t.pos + 1 > MaxText)
  OBVIOUS
<1>9. Text(n) = [t EXCEPT !.out = Append(@, "}"), !.pos = @ + 2, !.over = over]
  BY <1>2, <1>5, <1>7, <1>8, TextIs DEF Text
<1>10. /\ Text(n).done = t.done /\ Text(n).whole = t.whole /\ Text(n).over = over /\ Text(n).out = Append(t.out, "}")
  BY <1>7, <1>9, TextIs
<1>11. ASSUME Full(n) <= MaxText + 1 PROVE ~Text(n).over /\ ~Text(n).done /\ Text(n).whole
  <2>1. PICK F, total : F = [l \in 1 .. k |-> EventFull(l - 1)] /\ total = Total(F, k)
    <3>1. PICK F : F = [l \in 1 .. k |-> EventFull(l - 1)]
      OBVIOUS
    <3> QED BY <3>1
  <2>2. Full(n) = 1 + total + 2
    BY <1>2, <2>1 DEF Full
  <2>3. total \in Nat
    BY <1>3, <2>1, TotalIsNat
  <2>4. 1 + total <= MaxText - 1
    BY <1>11, <2>2, <2>3, TextAssumption
  <2>5. Fitting(t, 1 + total) /\ t.size = 0
    BY <1>3, <1>5, <2>1, <2>4, EventsFit
  <2>6. t.pos \in Int /\ t.pos + 0 <= 1 + total /\ MaxText \in Int /\ ~t.over /\ ~t.done /\ t.whole
    BY <1>7, <2>5, TextIs, TextAssumption DEF Fitting
  <2>7. ~(t.pos + 1 > MaxText)
    BY <2>3, <2>4, <2>6
  <2> QED BY <1>8, <1>10, <2>6, <2>7
<1>12. ASSUME ~Text(n).over, ~Text(n).done, Text(n).whole PROVE Text(n).out = Written(n)
  <2>1. Append(t.out, "}") = Cat(t.out, <<"}">>)
    <3>1. "}" \in Token /\ t.out \in Seq(Token)
      BY <1>7, Letters, TextIs
    <3> QED BY <3>1, AppendIs
  <2>2. t.out = Cat(<<"{">>, J)
    BY <1>6, <1>10, <1>12 DEF Telling
  <2>3. Written(n) = Cat(Cat(<<"{">>, J), <<"}">>)
    BY <1>2, <1>4 DEF Written, Cat
  <2> QED BY <1>10, <2>1, <2>2, <2>3
<1> QED BY <1>11, <1>12

-----------------------------------------------------------------------------
(* The inductive invariant. *)
ConfigFits == /\ config \in [DOMAIN Defaults -> 0 .. UINT32 - 1] /\ loads \in 0 .. 1
              /\ text \in ConfigFiles /\ lines \in Seq(ALine)
IInv ==
  /\ ConfigFits /\ Kept(msg) /\ TraceFits
  /\ \/ input = NoInput /\ next = 0 /\ ~msg.overrun
     \/ /\ input \in Inputs /\ next \in 1 .. LastOf(input) + 1 /\ Says(msg, input, next - 1)
        /\ msg.overrun => Wraps(input, next - 1)

LEMMA Initial == Init => IInv
<1> SUFFICES ASSUME Init PROVE IInv
  OBVIOUS
<1>1. ConfigFits
  BY ConfigAssumption DEF Init, ConfigInit, ConfigFits
<1>2. Kept(msg) /\ ~msg.overrun
  BY <1>1, NewIsKept DEF Init, ConfigFits
<1>3. TraceFits
  BY DEF Init, TraceFits
<1> QED BY <1>1, <1>2, <1>3 DEF Init, IInv

LEMMA ConfigStep ==
  ASSUME ConfigFits, ReadLine \/ ReadAgain
  PROVE  ConfigFits'
<1>1. CASE ReadLine
  <2>1. PICK l : l = Head(lines)
    OBVIOUS
  <2>2. l \in ALine /\ Tail(lines) \in Seq(ALine)
    BY <1>1, <2>1, HeadTailProperties DEF ReadLine, ConfigFits
  <2>3. Value(l) \in 0 .. UINT32 - 1
    <3>1. PICK v \in Int, w \in Nat \ {0} : v = l.value /\ w = UINT32
      BY <2>2, WidthAssumption DEF ALine
    <3>2. v % w \in 0 .. w - 1 /\ 0 \in 0 .. w - 1
      BY WrapIs
    <3> QED BY <3>1, <3>2 DEF Value
  <2>4. CheckThenSet(config, l) \in [DOMAIN Defaults -> 0 .. UINT32 - 1]
    BY <2>3 DEF CheckThenSet, ConfigFits
  <2> QED BY <1>1, <2>1, <2>2, <2>4 DEF ReadLine, ConfigFits
<1>2. CASE ReadAgain
  BY <1>2, ConfigAssumption DEF ReadAgain, ConfigFits
<1> QED BY <1>1, <1>2

LEMMA PutStep ==
  ASSUME IInv, input \in Inputs, next <= LastOf(input), ~msg.overrun, Put
  PROVE  IInv'
<1>1. PICK x, m, s : x = input /\ m = msg /\ s = msg'
  OBVIOUS
<1>2. next \in 1 .. LastOf(x) + 1 /\ Says(m, x, next - 1) /\ Kept(m) /\ ConfigFits
  BY <1>1, InputIs DEF IInv
<1>3. PICK n \in Nat : n = next - 1 /\ n + 1 = next /\ n + 1 <= LastOf(x)
  <2>1. next - 1 \in Nat /\ next - 1 + 1 = next
    BY <1>1, <1>2, InputIs
  <2> QED BY <1>1, <2>1
<1>4. s = Taken(m, x, n + 1)
  BY <1>1, <1>3 DEF Put, Taken
<1>5. Kept(s) /\ Says(s, x, n + 1) /\ (s.overrun => Wraps(x, n + 1))
  BY <1>1, <1>2, <1>3, <1>4, TakenSays
<1>6. /\ input' = x /\ next' = n + 1 + 1 /\ n + 1 + 1 \in 1 .. LastOf(x) + 1 /\ n + 1 + 1 - 1 = n + 1
      /\ UNCHANGED configVars
  BY <1>1, <1>3, InputIs DEF Put
<1>7. ConfigFits'
  BY <1>2, <1>6 DEF configVars, ConfigFits
<1>8. TraceFits'
  BY DEF Put, IInv, TraceFits
<1> QED BY <1>1, <1>5, <1>6, <1>7, <1>8 DEF IInv

(* What is remembered of a message is the bytes of each of its attributes. *)
LEMMA RememberStep ==
  ASSUME IInv, NEW e \in DOMAIN trace, Remember(e)
  PROVE  TraceFits'
<1>1. msg \in AMessage
  BY DEF IInv, Kept
<1>2. PICK memory : memory = [i \in Attributes |-> msg.elements[i].len]
  OBVIOUS
<1>3. ASSUME NEW i \in Attributes PROVE msg.elements[i].len \in Nat
  BY <1>1, ElementIs
<1>4. memory \in AMemory
  BY <1>2, <1>3 DEF AMemory
<1>5. trace' = [trace EXCEPT ![e] = memory]
  BY <1>2 DEF Remember
<1> QED BY <1>4, <1>5 DEF IInv, TraceFits

LEMMA Step == IInv /\ [Next]_<<configVars, messageVars>> => IInv'
<1> SUFFICES ASSUME IInv, [Next]_<<configVars, messageVars>> PROVE IInv'
  OBVIOUS
<1>1. CASE (ReadLine \/ ReadAgain) /\ UNCHANGED messageVars
  <2>1. ConfigFits'
    BY <1>1, ConfigStep DEF IInv
  <2>2. msg' = msg /\ input' = input /\ next' = next /\ trace' = trace
    BY <1>1 DEF messageVars
  <2> QED BY <2>1, <2>2 DEF IInv, TraceFits
<1>2. ASSUME NEW x \in Inputs, Begin(x) PROVE IInv'
  <2>1. input' = x /\ next' = 1 /\ msg' = Create /\ trace' = trace /\ UNCHANGED configVars
    BY <1>2 DEF Begin
  <2>2. Kept(Create) /\ Create.index = 0 /\ ~Create.overrun /\ \A i \in Attributes : Create.elements[i].field = 0
    BY NewIsKept DEF IInv, ConfigFits
  <2>3. Says(Create, x, 0) /\ 1 \in 1 .. LastOf(x) + 1 /\ 1 - 1 = 0
    BY <2>2, NewSays, InputIs
  <2>4. ConfigFits'
    BY <2>1 DEF IInv, ConfigFits, configVars
  <2> QED BY <2>1, <2>2, <2>3, <2>4 DEF IInv, TraceFits
<1>3. CASE Receive
  <2>1. input.by = "probe" /\ next <= LastOf(input) /\ ~msg.overrun /\ Put
    BY <1>3 DEF Receive, LastOf
  <2>2. input \in Inputs
    BY <2>1 DEF IInv, NoInput
  <2> QED BY <2>1, <2>2, PutStep
<1>4. CASE Extract
  <2>1. input.by = "dpi" /\ next \in Attributes /\ ~msg.overrun /\ Put
    BY <1>4 DEF Extract
  <2>2. next <= LastOf(input)
    <3>1. Attributes = 1 .. Len(Types) /\ Len(Types) \in Nat
      BY TypesAssumption, LenProperties DEF Attributes
    <3> QED BY <2>1, <3>1 DEF LastOf
  <2>3. input \in Inputs
    BY <2>1 DEF IInv, NoInput
  <2> QED BY <2>1, <2>2, <2>3, PutStep
<1>5. CASE (\E e \in DOMAIN trace : Remember(e)) \/ Forget
  <2>1. input' = NoInput /\ next' = 0 /\ msg' = Create /\ UNCHANGED configVars
    BY <1>5 DEF Remember, Forget
  <2>2. Kept(Create) /\ ~Create.overrun
    BY NewIsKept DEF IInv, ConfigFits
  <2>3. ConfigFits'
    BY <2>1 DEF IInv, ConfigFits, configVars
  <2>4. TraceFits'
    <3>1. CASE Forget
      BY <3>1 DEF IInv, Forget, TraceFits
    <3>2. ASSUME NEW e \in DOMAIN trace, Remember(e) PROVE TraceFits'
      BY <3>2, RememberStep
    <3> QED BY <1>5, <3>1, <3>2
  <2> QED BY <2>1, <2>2, <2>3, <2>4 DEF IInv
<1>6. CASE UNCHANGED <<configVars, messageVars>>
  <2>1. /\ config' = config /\ text' = text /\ lines' = lines /\ loads' = loads
        /\ msg' = msg /\ input' = input /\ next' = next /\ trace' = trace
    BY <1>6 DEF configVars, messageVars
  <2>2. ConfigFits'
    BY <2>1 DEF IInv, ConfigFits
  <2> QED BY <2>1, <2>2 DEF IInv, TraceFits
<1> QED BY <1>1, <1>2, <1>3, <1>4, <1>5, <1>6 DEF Next

LEMMA Invariant == Spec => []IInv
BY Initial, Step, PTL DEF Spec

-----------------------------------------------------------------------------
LEMMA IsKept == IInv => MessageKept
<1> SUFFICES ASSUME IInv PROVE MessageKept
  OBVIOUS
<1>1. msg \in AMessage /\ msg.hash = Present(msg)
  BY DEF IInv, Kept
<1>2. TypeOK
  <2>1. \A i \in Attributes : msg.elements[i].at >= -1 /\ msg.elements[i].len \in Nat
    <3> SUFFICES ASSUME NEW i \in Attributes PROVE msg.elements[i].at >= -1 /\ msg.elements[i].len \in Nat
      OBVIOUS
    <3>1. CASE i \in Present(msg)
      <4>1. msg.elements[i].at \in Nat /\ msg.elements[i].len \in Nat
        BY <1>1, <3>1, ElementIs
      <4> QED BY <4>1
    <3>2. CASE i \notin Present(msg)
      <4>1. msg.elements[i].at = -1 /\ msg.elements[i].len = 0
        BY <1>1, <3>2, ElementIs
      <4> QED BY <4>1
    <3> QED BY <3>1, <3>2
  <2>2. msg.hash \subseteq Attributes /\ msg.index \in Nat /\ msg.overrun \in BOOLEAN
    BY <1>1 DEF AMessage
  <2>3. next \in 0 .. 1 + Len(Types) + (IF input.by = "probe" THEN Len(input.fields) ELSE 0)
    <3>1. Len(Types) \in Nat
      BY TypesAssumption, LenProperties
    <3>2. CASE input = NoInput /\ next = 0
      <4>1. input.by # "probe"
        BY <3>2 DEF NoInput
      <4> QED BY <3>1, <3>2, <4>1
    <3>3. CASE input \in Inputs /\ next \in 1 .. LastOf(input) + 1
      <4>1. PICK a, b, c : a = Len(Types) /\ b = LastOf(input) /\ c = IF input.by = "probe" THEN Len(input.fields) ELSE 0
        OBVIOUS
      <4>2. a \in Nat /\ b \in Nat
        BY <3>1, <3>3, <4>1, InputIs
      <4>3. c \in Nat /\ b <= a + c
        <5>1. CASE input.by = "probe"
          <6>1. b = c
            BY <4>1, <5>1 DEF LastOf
          <6> QED BY <4>2, <6>1
        <5>2. CASE input.by # "probe"
          <6>1. b = a /\ c = 0
            BY <4>1, <5>2 DEF LastOf
          <6> QED BY <4>2, <6>1
        <5> QED BY <5>1, <5>2
      <4>4. next \in 1 .. b + 1
        BY <3>3, <4>1
      <4>5. next \in 0 .. 1 + a + c
        BY <4>2, <4>3, <4>4
      <4> QED BY <4>1, <4>5
    <3> QED BY <3>2, <3>3 DEF IInv
  <2> QED BY <2>1, <2>2, <2>3 DEF TypeOK, IInv, ConfigFits
<1>3. SegmentsApart
  <2>1. \A i \in Present(msg) :
          msg.elements[i].at >= Header /\ msg.elements[i].at + msg.elements[i].len < msg.length
    BY DEF IInv, Kept
  <2>2. \A i, j \in Present(msg) : i # j => Apart(msg, i, j)
    BY DEF IInv, Kept
  <2> QED BY <2>1, <2>2 DEF SegmentsApart, Apart
<1>4. HashPresent
  BY <1>1 DEF HashPresent
<1>5. MessageSays
  <2>1. ASSUME input # NoInput, NEW i \in Attributes PROVE Holds(msg, input, next - 1, i)
    BY <2>1 DEF IInv, Says
  <2> QED BY <2>1 DEF MessageSays, Holds
<1>6. OverrunExplained
  BY DEF OverrunExplained, IInv, Wraps
<1> QED BY <1>2, <1>3, <1>4, <1>5, <1>6 DEF MessageKept

(* What is copied of a packet is what lies behind a header. *)
LEMMA CopiedIs ==
  ASSUME NEW x \in APacket, x.by = "dpi", NEW i \in Attributes, Copied(i), LengthOf(x, i) # 0
  PROVE  Begins(x, i) \in 2 .. Len(x.path) /\ LengthOf(x, i) = Behind(x, Begins(x, i))
<1>1. PICK f : f = FieldOf(x, i)
  OBVIOUS
<1>2. AttOf(x, i) = i /\ Types[i] = "pointer" /\ x.by # "probe"
  BY DEF AttOf, Copied
<1>3. LengthOf(x, i) = IF f.null THEN 0 ELSE PointeeLen(x, i, f)
  BY <1>1, <1>2 DEF LengthOf
<1>4. LengthOf(x, i) = PointeeLen(x, i, f) /\ PointeeLen(x, i, f) # 0
  BY <1>3
<1>5. Len(x.path) \in Nat
  BY OffsetsGrow
<1>6. CASE Pointee[i] = "payload"
  <2>1. LengthOf(x, i) = PayloadLen(x, Owner[i]) /\ PayloadLen(x, Owner[i]) # 0
    BY <1>4, <1>6 DEF PointeeLen
  <2>2. PICK k : k = Place(x, Owner[i])
    OBVIOUS
  <2>3. Places(x, Owner[i]) # {} /\ k # Len(x.path) /\ PayloadLen(x, Owner[i]) = Behind(x, k + 1)
    BY <2>1, <2>2 DEF PayloadLen
  <2>4. k \in 2 .. Len(x.path)
    BY <2>2, <2>3, PlaceIs
  <2>5. Begins(x, i) = k + 1
    BY <1>6, <2>2 DEF Begins
  <2> QED BY <1>5, <2>1, <2>3, <2>4, <2>5
<1>7. CASE Pointee[i] = "data"
  <2>1. LengthOf(x, i) = DataLen(x, Owner[i]) /\ DataLen(x, Owner[i]) # 0
    BY <1>4, <1>7 DEF PointeeLen
  <2>2. PICK k : k = Place(x, Owner[i])
    OBVIOUS
  <2>3. Places(x, Owner[i]) # {} /\ DataLen(x, Owner[i]) = Behind(x, k)
    BY <2>1, <2>2 DEF DataLen
  <2>4. k \in 2 .. Len(x.path)
    BY <2>2, <2>3, PlaceIs
  <2>5. Begins(x, i) = k
    <3>1. Begins(x, i) = k + 0
      BY <1>7, <2>2 DEF Begins
    <3> QED BY <2>4, <3>1
  <2> QED BY <2>1, <2>3, <2>4, <2>5
<1> QED BY <1>6, <1>7 DEF Copied

LEMMA IsCaptured == IInv => CapturedOnly
<1> SUFFICES ASSUME IInv, input.by = "dpi" PROVE CapturedOnly
  BY DEF CapturedOnly
<1>1. PICK x : x = input /\ x \in Inputs /\ x \in APacket /\ x.by = "dpi"
  BY InputIs DEF IInv, NoInput
<1>2. Kept(msg) /\ Says(msg, x, next - 1)
  BY <1>1, InputIs DEF IInv
<1>3. ASSUME NEW i \in Present(msg), Copied(i)
      PROVE  Begins(x, i) \in 2 .. Len(x.path) /\ msg.elements[i].len = Behind(x, Begins(x, i))
  <2>1. i \in Attributes
    BY DEF Present
  <2>2. PICK f : f = msg.elements[i].field
    OBVIOUS
  <2>3. f # 0 /\ msg.elements[i].len # 0
    <3>1. f \in Nat \ {0} /\ msg.elements[i].len \in Nat \ {0}
      BY <1>2, <2>1, <2>2, ElementIs DEF Kept
    <3> QED BY <3>1
  <2>4. f \in Said(x, next - 1, i) /\ msg.elements[i].len = LengthOf(x, f)
    BY <1>2, <2>1, <2>2, <2>3 DEF Says, Holds
  <2>5. f = i
    BY <1>1, <2>4 DEF Said, AttOf
  <2> QED BY <1>1, <1>3, <2>1, <2>3, <2>4, <2>5, CopiedIs
<1>4. ASSUME NEW i \in Present(msg), Copied(i)
      PROVE  LET len == msg.elements[i].len
                 at  == Offset(x, Begins(x, i))
             IN  /\ Begins(x, i) \in 2 .. Len(x.path)
                 /\ at <= x.caplen => at + len <= x.caplen
                 /\ at <= x.caplen /\ x.caplen - at < UINT16 => at + len = x.caplen
                 /\ \A j \in Present(msg) :
                      Copied(j) /\ Begins(x, j) = Begins(x, i) => msg.elements[j].len = len
  <2>1. PICK k, at, len : k = Begins(x, i) /\ at = Offset(x, k) /\ len = msg.elements[i].len
    OBVIOUS
  <2>2. k \in 2 .. Len(x.path) /\ len = Behind(x, k)
    BY <1>3, <1>4, <2>1
  <2>3. k \in 1 .. Len(x.path)
    BY <1>1, <2>2, OffsetsGrow
  <2>4. at <= x.caplen => /\ at + len <= x.caplen
                          /\ x.caplen - at < UINT16 => at + len = x.caplen
    BY <1>1, <2>1, <2>2, <2>3, BehindIs
  <2>5. ASSUME NEW j \in Present(msg), Copied(j), Begins(x, j) = k PROVE msg.elements[j].len = len
    BY <1>3, <2>2, <2>5
  <2> QED BY <2>1, <2>2, <2>4, <2>5
<1> QED BY <1>1, <1>4 DEF CapturedOnly

(* Whatever the configuration says and whatever reports and packets come: the data of
   a message lie in its buffer and apart from each other, its bits say which there
   are, and they are what the input says, the last word of it as long as all of it
   fits; only the options of an IP header that is said to have less than 20 bytes
   are copied although they do not fit (message_t.c:137-190, dpi_message_t.h:92-100,
   main_sec_server.c:191-261). *)
THEOREM MessageIsKept == Spec => []MessageKept
BY Invariant, IsKept, PTL

(* However much is captured of a packet and wherever its headers are said to be:
   what is copied as a payload, or as data, begins at a header and is what was
   captured behind it, all of it when that is less than 2^16 bytes; of a header
   behind the capture nothing is said but where it is (dpi_message_t.h:46-90). *)
THEOREM WhatWasCaptured == Spec => []CapturedOnly
BY Invariant, IsCaptured, PTL

(* Whichever messages a rule remembers: an alert that is not longer than its buffer,
   with everything in it counted, is written within it and shows every attribute of
   its events, once, in brackets that match; so does a longer one that was not cut
   and did not pass the end of the buffer (mmt_security.c:400-578). *)
THEOREM AlertsShow == Spec => []AlertShows
<1>1. IInv => AlertShows
  BY IsShownRight DEF IInv
<1> QED BY <1>1, Invariant, PTL
=============================================================================
