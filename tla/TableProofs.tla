------------------------------ MODULE TableProofs ------------------------------
(***************************************************************************)
(* Proofs about the structures that attributes, rules and instances are    *)
(* kept in: masks (RuleMask), the table of protocols (DpiTable), lists     *)
(* (LinkList) and maps (BinaryMap), each for all inputs and all sequences  *)
(* of operations.                                                          *)
(***************************************************************************)
EXTENDS BinaryMap, LinkList, DpiTable, RuleMask,
        FiniteSetTheorems, SequenceTheorems, WellFoundedInduction, TLAPS

(* Induction up to n, about the set of numbers that something is true of. *)
LEMMA UpTo ==
  ASSUME NEW n \in Nat, NEW A, 0 \in A, \A k \in 1 .. n : k - 1 \in A => k \in A
  PROVE  \A k \in 0 .. n : k \in A
<1> DEFINE T == (0 .. n) \ A
           R == OpToRel(<, Nat)
<1>1. SUFFICES ASSUME T # {} PROVE FALSE
  OBVIOUS
<1>2. IsWellFoundedOn(R, Nat)
  BY NatLessThanWellFounded
<1>3. \A x \in Nat, y \in Nat : <<y, x>> \in R <=> y < x
  BY DEF OpToRel
<1>4. PICK r : IsWellFoundedOn(r, Nat) /\ \A x \in Nat, y \in Nat : <<y, x>> \in r <=> y < x
  <2> HIDE DEF R
  <2> QED BY <1>2, <1>3
<1>5. T \subseteq Nat
  OBVIOUS
<1>6. PICK x \in T : \A y \in T : ~(<<y, x>> \in r)
  <2> HIDE DEF T
  <2> QED BY <1>1, <1>4, <1>5, WFMin
<1>7. x \in 1 .. n /\ x - 1 \in Nat /\ x - 1 < x /\ x - 1 \in 0 .. n
  <2>1. x \in 0 .. n /\ x # 0
    BY <1>6
  <2> QED BY <2>1
<1>8. x - 1 \notin T
  <2> HIDE DEF T
  <2>1. x \in Nat /\ <<x - 1, x>> \in r
    BY <1>4, <1>7
  <2> QED BY <1>6, <2>1
<1>9. x - 1 \in A /\ x \notin A
  BY <1>6, <1>7, <1>8
<1> QED BY <1>7, <1>9

(* Max is the greatest. *)
LEMMA MaxIs ==
  ASSUME NEW k \in Nat, NEW u \in SUBSET (1 .. k), k \in u
  PROVE  Max(u) = k
<1>1. \A y \in u : k >= y
  OBVIOUS
<1>2. \A x \in u : (\A y \in u : x >= y) => x = k
  BY <1>1
<1> QED BY <1>1, <1>2 DEF Max

(* What is greatest in 1 .. k, and what is left without it. *)
LEMMA Interval ==
  ASSUME NEW k \in Nat, k # 0
  PROVE  /\ Max(1 .. k) = k /\ 1 .. k # {} /\ (1 .. k) \ {Max(1 .. k)} = 1 .. k - 1
         /\ k - 1 \in Nat
<1>1. k \in 1 .. k
  OBVIOUS
<1>2. Max(1 .. k) = k
  BY <1>1, MaxIs
<1>3. (1 .. k) \ {k} = 1 .. k - 1
  OBVIOUS
<1> QED BY <1>1, <1>2, <1>3

(* A set of numbers that is not empty has a greatest. *)
LEMMA MaxIn ==
  ASSUME NEW n \in Nat, NEW v \in SUBSET (1 .. n), v # {}
  PROVE  Max(v) \in v
<1> DEFINE Good(m) == \A u \in SUBSET (1 .. m) : u # {} => Max(u) \in u
           A == {m \in 0 .. n : Good(m)}
<1>1. 0 \in A
  <2>1. \A u \in SUBSET (1 .. 0) : u = {}
    OBVIOUS
  <2>2. 0 \in 0 .. n
    OBVIOUS
  <2> QED BY <2>1, <2>2
<1>2. ASSUME NEW m \in 1 .. n, m - 1 \in A PROVE m \in A
  <2>1. m \in Nat /\ m \in 0 .. n
    OBVIOUS
  <2>2. ASSUME NEW u \in SUBSET (1 .. m), u # {} PROVE Max(u) \in u
    <3>1. CASE m \in u
      BY <3>1, <2>1, MaxIs
    <3>2. CASE m \notin u
      <4>1. u \in SUBSET (1 .. m - 1)
        BY <3>2
      <4> QED BY <4>1, <2>2, <1>2
    <3> QED BY <3>1, <3>2
  <2> QED BY <2>1, <2>2
<1>3. n \in A
  <2> HIDE DEF A
  <2>1. n \in 0 .. n
    OBVIOUS
  <2> QED BY <1>1, <1>2, <2>1, UpTo
<1> QED BY <1>3

(* Folds.  The library's FoldLeft recurs over the places that are left, by the
   greatest of them.  What a fold does is first put as steps from its base, once
   for each operator that is folded, for no lemma can take an operator as its
   parameter. *)
FoldOf(n, D, base, G, it) ==
  \A u \in SUBSET (1 .. n) : it[u] = IF u = {} THEN base ELSE G[Max(u)][it[u \ {Max(u)}]]
FoldExists(n, D, base, G) == \E it \in [SUBSET (1 .. n) -> D] : FoldOf(n, D, base, G, it)

(* The recursion of a fold over a sequence ends. *)
LEMMA FoldDefined ==
  ASSUME NEW n \in Nat, NEW D, NEW base \in D, NEW G \in [1 .. n -> [D -> D]]
  PROVE  FoldExists(n, D, base, G)
<1> DEFINE Eq(m, it) == \A u \in SUBSET (1 .. m) :
                          it[u] = IF u = {} THEN base ELSE G[Max(u)][it[u \ {Max(u)}]]
           A == {m \in 0 .. n : \E it \in [SUBSET (1 .. m) -> D] : Eq(m, it)}
<1>1. 0 \in A
  <2> DEFINE it == [u \in SUBSET (1 .. 0) |-> base]
  <2>1. \A u \in SUBSET (1 .. 0) : u = {}
    OBVIOUS
  <2>2. it \in [SUBSET (1 .. 0) -> D]
    OBVIOUS
  <2>3. Eq(0, it)
    BY <2>1
  <2>4. \E f \in [SUBSET (1 .. 0) -> D] : Eq(0, f)
    <3> HIDE DEF it, Eq
    <3> QED BY <2>2, <2>3
  <2>5. 0 \in 0 .. n
    OBVIOUS
  <2> HIDE DEF it, Eq
  <2> QED BY <2>4, <2>5
<1>2. ASSUME NEW m \in 1 .. n, m - 1 \in A PROVE m \in A
  <2>1. m \in Nat /\ m - 1 \in Nat /\ m \in 0 .. n /\ 1 .. m - 1 \subseteq 1 .. m /\ m \notin 1 .. m - 1
    OBVIOUS
  <2>2. PICK old \in [SUBSET (1 .. m - 1) -> D] : Eq(m - 1, old)
    <3> HIDE DEF Eq
    <3> QED BY <1>2
  <2> DEFINE it == [u \in SUBSET (1 .. m) |-> IF m \in u THEN G[m][old[u \ {m}]] ELSE old[u]]
  <2>3. \A u \in SUBSET (1 .. m) : (m \in u => u \ {m} \in SUBSET (1 .. m - 1)) /\ (m \notin u => u \in SUBSET (1 .. m - 1))
    BY <2>1
  <2>4. \A d \in D : G[m][d] \in D
    OBVIOUS
  <2>5. it \in [SUBSET (1 .. m) -> D]
    <3>1. \A u \in SUBSET (1 .. m) : (IF m \in u THEN G[m][old[u \ {m}]] ELSE old[u]) \in D
      BY <2>3, <2>4
    <3> QED BY <3>1
  <2>6. ASSUME NEW u \in SUBSET (1 .. m) PROVE it[u] = IF u = {} THEN base ELSE G[Max(u)][it[u \ {Max(u)}]]
    <3>1. CASE m \in u
      <4>1. Max(u) = m
        BY <3>1, <2>1, MaxIs
      <4>2. it[u] = G[m][old[u \ {m}]]
        BY <3>1
      <4>3. u \ {m} \in SUBSET (1 .. m) /\ m \notin u \ {m}
        OBVIOUS
      <4>4. it[u \ {m}] = old[u \ {m}]
        BY <4>3
      <4> HIDE DEF it
      <4> QED BY <3>1, <4>1, <4>2, <4>4
    <3>2. CASE m \notin u
      <4>1. u \in SUBSET (1 .. m - 1)
        BY <3>2, <2>3
      <4>2. it[u] = old[u]
        BY <3>2
      <4>3. u \ {Max(u)} \in SUBSET (1 .. m) /\ m \notin u \ {Max(u)}
        BY <3>2
      <4>4. it[u \ {Max(u)}] = old[u \ {Max(u)}]
        BY <4>3
      <4>5. old[u] = IF u = {} THEN base ELSE G[Max(u)][old[u \ {Max(u)}]]
        BY <4>1, <2>2
      <4> HIDE DEF it
      <4> QED BY <4>2, <4>4, <4>5
    <3> QED BY <3>1, <3>2
  <2>7. Eq(m, it)
    <3> HIDE DEF it
    <3> QED BY <2>6
  <2> HIDE DEF it, Eq
  <2> QED BY <2>5, <2>7, <2>1
<1>3. n \in A
  <2> HIDE DEF A
  <2>1. n \in 0 .. n
    OBVIOUS
  <2> QED BY <1>1, <1>2, <2>1, UpTo
<1> QED BY <1>3 DEF FoldExists, FoldOf

(* r is reached from base in n steps, inside D. *)
Steps(n, D, base, G, F) ==
  F \in [0 .. n -> D] /\ F[0] = base /\ \A k \in 1 .. n : F[k] = G[k][F[k - 1]]
Reached(n, D, base, G, r) == \E F : Steps(n, D, base, G, F) /\ r = F[n]

(* A fold over n elements takes n steps. *)
LEMMA Chain ==
  ASSUME NEW n \in Nat, NEW D, NEW base \in D, NEW G \in [1 .. n -> [D -> D]],
         NEW it, it[1 .. 0] = base,
         \A k \in 1 .. n : it[1 .. k - 1] \in D => it[1 .. k] = G[k][it[1 .. k - 1]]
  PROVE  Reached(n, D, base, G, it[1 .. n])
<1> DEFINE A == {k \in 0 .. n : it[1 .. k] \in D}
           F == [k \in 0 .. n |-> it[1 .. k]]
<1>1. 0 \in A
  OBVIOUS
<1>2. \A k \in 1 .. n : k - 1 \in A => k \in A
  OBVIOUS
<1>3. \A k \in 0 .. n : k \in A
  <2> HIDE DEF A
  <2> QED BY <1>1, <1>2, UpTo
<1>4. F \in [0 .. n -> D]
  BY <1>3
<1>5. F[0] = base /\ F[n] = it[1 .. n]
  OBVIOUS
<1>6. ASSUME NEW k \in 1 .. n PROVE F[k] = G[k][F[k - 1]]
  <2>1. k \in 0 .. n /\ k - 1 \in 0 .. n
    OBVIOUS
  <2> QED BY <2>1, <1>3
<1>7. Steps(n, D, base, G, F)
  <2> HIDE DEF F
  <2> QED BY <1>4, <1>5, <1>6 DEF Steps
<1> HIDE DEF F
<1> QED BY <1>5, <1>7 DEF Reached

(* The states a fold goes through. *)
LEMMA StepsIn ==
  ASSUME NEW n \in Nat, NEW D, NEW F \in [0 .. n -> D]
  PROVE  \A k \in 1 .. n : k \in 0 .. n /\ k - 1 \in 0 .. n /\ F[k - 1] \in D /\ F[k] \in D
<1>1. \A k \in 1 .. n : k \in 0 .. n /\ k - 1 \in 0 .. n
  OBVIOUS
<1> QED BY <1>1

(* One element more. *)
LEMMA Appended ==
  ASSUME NEW S, NEW t \in Seq(S), NEW x \in S
  PROVE  /\ Append(t, x) \in Seq(S) /\ Len(t) \in Nat /\ Len(Append(t, x)) = Len(t) + 1
         /\ DOMAIN t = 1 .. Len(t) /\ DOMAIN Append(t, x) = 1 .. Len(t) + 1
         /\ \A i \in 1 .. Len(t) : i \in 1 .. Len(t) + 1 /\ Append(t, x)[i] = t[i]
         /\ Append(t, x)[Len(t) + 1] = x
         /\ ToSet(Append(t, x)) = ToSet(t) \cup {x}
         /\ IsInjective(t) /\ x \notin ToSet(t) => IsInjective(Append(t, x))
<1> DEFINE u == Append(t, x)
           n == Len(t)
<1>1. /\ u \in Seq(S) /\ n \in Nat /\ Len(u) = n + 1 /\ DOMAIN t = 1 .. n /\ DOMAIN u = 1 .. n + 1
      /\ \A i \in 1 .. n : u[i] = t[i]
      /\ u[n + 1] = x
  OBVIOUS
<1> HIDE DEF u, n
<1>2. 1 .. n + 1 = (1 .. n) \cup {n + 1}
  BY <1>1
<1>3. \A i \in 1 .. n : i \in 1 .. n + 1
  BY <1>1
<1>4. ToSet(u) = ToSet(t) \cup {x}
  <2>1. ToSet(u) = {u[i] : i \in (1 .. n) \cup {n + 1}} /\ ToSet(t) = {t[i] : i \in 1 .. n}
    BY <1>1, <1>2 DEF ToSet
  <2> QED BY <2>1, <1>1
<1>5. IsInjective(t) /\ x \notin ToSet(t) => IsInjective(u)
  BY <1>1, <1>2 DEF IsInjective, ToSet
<1> QED BY <1>1, <1>3, <1>4, <1>5 DEF u, n

-----------------------------------------------------------------------------
(* Masks.  Adding numbers one after the other. *)
AddIt(s, xs, f) ==
  f = [u \in SUBSET (DOMAIN xs) |-> IF u = {} THEN s ELSE AddNumber(f[u \ {Max(u)}], xs[Max(u)])]

(* Their result is reached in as many steps. *)
LEMMA AddFold ==
  ASSUME NEW s, NEW xs, NEW n \in Nat, DOMAIN xs = 1 .. n,
         NEW D, s \in D, NEW G \in [1 .. n -> [D -> D]],
         \A k \in 1 .. n : \A r \in D : G[k][r] = AddNumber(r, xs[k])
  PROVE  Reached(n, D, s, G, FoldLeft(AddNumber, s, xs))
<1> DEFINE it == CHOOSE f : AddIt(s, xs, f)
<1>1. \E f : AddIt(s, xs, f)
  <2>1. PICK f \in [SUBSET (1 .. n) -> D] : FoldOf(n, D, s, G, f)
    BY FoldDefined DEF FoldExists
  <2>2. ASSUME NEW u \in SUBSET (1 .. n)
        PROVE  f[u] = IF u = {} THEN s ELSE AddNumber(f[u \ {Max(u)}], xs[Max(u)])
    <3>1. u # {} => Max(u) \in 1 .. n
      BY MaxIn
    <3>2. f[u \ {Max(u)}] \in D
      OBVIOUS
    <3>3. u # {} => G[Max(u)][f[u \ {Max(u)}]] = AddNumber(f[u \ {Max(u)}], xs[Max(u)])
      BY <3>1, <3>2
    <3> QED BY <2>1, <3>3 DEF FoldOf
  <2>3. f = [u \in SUBSET (DOMAIN xs) |-> IF u = {} THEN s ELSE AddNumber(f[u \ {Max(u)}], xs[Max(u)])]
    BY <2>2
  <2> QED BY <2>3 DEF AddIt
<1>2. AddIt(s, xs, it)
  BY <1>1
<1>3. FoldLeft(AddNumber, s, xs) = it[1 .. n]
  BY DEF FoldLeft, MapThenFoldSet, AddIt
<1> HIDE DEF it
<1>4. it[1 .. 0] = s
  BY <1>2 DEF AddIt
<1>5. ASSUME NEW k \in 1 .. n, it[1 .. k - 1] \in D PROVE it[1 .. k] = G[k][it[1 .. k - 1]]
  <2>1. Max(1 .. k) = k /\ 1 .. k # {} /\ (1 .. k) \ {Max(1 .. k)} = 1 .. k - 1
    <3>1. k \in Nat /\ k # 0
      OBVIOUS
    <3> QED BY <3>1, Interval
  <2>2. (1 .. k) \in SUBSET (DOMAIN xs)
    OBVIOUS
  <2>3. it[1 .. k] = AddNumber(it[1 .. k - 1], xs[k])
    BY <2>1, <2>2, <1>2 DEF AddIt
  <2> QED BY <2>3, <1>5
<1>6. Reached(n, D, s, G, it[1 .. n])
  BY <1>4, <1>5, Chain
<1> QED BY <1>3, <1>6

(* What numbers added to an array give: each once, all that were there and all that
   were added. *)
LEMMA NumbersAdded ==
  ASSUME NEW s \in Seq(Int), IsInjective(s), NEW xs \in Seq(Int)
  PROVE  LET r == FoldLeft(AddNumber, s, xs)
         IN  r \in Seq(Int) /\ IsInjective(r) /\ ToSet(r) = ToSet(s) \cup ToSet(xs)
<1> DEFINE n == Len(xs)
           D == Seq(Int)
           G == [k \in 1 .. n |-> [r \in D |-> AddNumber(r, xs[k])]]
           r == FoldLeft(AddNumber, s, xs)
<1>1. n \in Nat /\ DOMAIN xs = 1 .. n /\ \A k \in 1 .. n : xs[k] \in Int
  OBVIOUS
<1>2. ASSUME NEW t \in D, NEW x \in Int
      PROVE  /\ AddNumber(t, x) \in D /\ ToSet(AddNumber(t, x)) = ToSet(t) \cup {x}
             /\ IsInjective(t) => IsInjective(AddNumber(t, x))
  <2>1. CASE x \in ToSet(t)
    BY <2>1 DEF AddNumber
  <2>2. CASE x \notin ToSet(t)
    <3>1. AddNumber(t, x) = Append(t, x)
      BY <2>2 DEF AddNumber
    <3> QED BY <3>1, <2>2, Appended
  <2> QED BY <2>1, <2>2
<1>3. G \in [1 .. n -> [D -> D]]
  <2>1. \A k \in 1 .. n : \A t \in D : AddNumber(t, xs[k]) \in D
    BY <1>1, <1>2
  <2> HIDE DEF D, n
  <2> QED BY <2>1
<1>4. \A k \in 1 .. n : \A t \in D : G[k][t] = AddNumber(t, xs[k])
  OBVIOUS
<1> HIDE DEF G, n
<1>5. Reached(n, D, s, G, r)
  BY <1>1, <1>3, <1>4, AddFold
<1>6. PICK F : Steps(n, D, s, G, F) /\ r = F[n]
  BY <1>5 DEF Reached
<1>7. F \in [0 .. n -> D] /\ F[0] = s /\ \A k \in 1 .. n : F[k] = AddNumber(F[k - 1], xs[k])
  <2>1. F \in [0 .. n -> D] /\ F[0] = s /\ \A k \in 1 .. n : F[k] = G[k][F[k - 1]]
    BY <1>6 DEF Steps
  <2> QED BY <2>1, <1>1, <1>4, StepsIn
<1> DEFINE A == {k \in 0 .. n : IsInjective(F[k]) /\ ToSet(F[k]) = ToSet(s) \cup {xs[j] : j \in 1 .. k}}
<1>8. 0 \in A
  BY <1>7, <1>1
<1>9. ASSUME NEW k \in 1 .. n, k - 1 \in A PROVE k \in A
  <2>1. k - 1 \in 0 .. n /\ k \in 0 .. n /\ F[k - 1] \in D /\ xs[k] \in Int
    BY <1>7, <1>1
  <2>2. IsInjective(F[k]) /\ ToSet(F[k]) = ToSet(F[k - 1]) \cup {xs[k]}
    BY <2>1, <1>2, <1>7, <1>9
  <2>3. {xs[j] : j \in 1 .. k} = {xs[j] : j \in 1 .. k - 1} \cup {xs[k]}
    <3>1. 1 .. k = (1 .. k - 1) \cup {k}
      BY <1>1
    <3> QED BY <3>1
  <2>4. ToSet(F[k - 1]) = ToSet(s) \cup {xs[j] : j \in 1 .. k - 1}
    BY <1>9
  <2>5. ToSet(F[k]) = ToSet(s) \cup {xs[j] : j \in 1 .. k}
    BY <2>2, <2>3, <2>4
  <2> QED BY <2>1, <2>2, <2>5
<1>10. n \in A
  <2> HIDE DEF A
  <2>1. n \in 0 .. n
    BY <1>1
  <2> QED BY <1>1, <1>8, <1>9, <2>1, UpTo
<1>11. ToSet(xs) = {xs[j] : j \in 1 .. n}
  BY <1>1 DEF ToSet
<1>12. r \in D
  BY <1>6, <1>7, <1>1
<1> QED BY <1>6, <1>10, <1>11, <1>12

(* A range of numbers as a sequence. *)
LEMMA RangeAdded ==
  ASSUME NEW s \in Seq(Int), IsInjective(s), NEW a \in Int, NEW b \in Int
  PROVE  /\ AddNumbers(s, a, b) \in Seq(Int) /\ IsInjective(AddNumbers(s, a, b))
         /\ ToSet(AddNumbers(s, a, b)) = ToSet(s) \cup (a .. b)
<1> DEFINE xs == [i \in 1 .. b - a + 1 |-> a + i - 1]
<1>1. PICK n \in Nat : 1 .. n = 1 .. b - a + 1 /\ (n = b - a + 1 \/ (n = 0 /\ b < a))
  <2>1. CASE b - a + 1 >= 0
    <3>1. b - a + 1 \in Nat
      BY <2>1
    <3> QED BY <3>1
  <2>2. CASE b - a + 1 < 0
    <3>1. 1 .. 0 = 1 .. b - a + 1 /\ b < a
      BY <2>2
    <3> QED BY <3>1
  <2> QED BY <2>1, <2>2
<1>2. xs = [i \in 1 .. n |-> a + i - 1]
  BY <1>1
<1>3. \A i \in 1 .. n : a + i - 1 \in Int
  BY <1>1
<1>4. xs \in Seq(Int) /\ DOMAIN xs = 1 .. n /\ \A i \in 1 .. n : xs[i] = a + i - 1
  <2> HIDE DEF xs
  <2> QED BY <1>2, <1>3
<1> HIDE DEF xs
<1>5. ToSet(xs) = a .. b
  <2>1. \A i \in 1 .. n : xs[i] \in a .. b
    BY <1>1, <1>4
  <2>2. \A x \in a .. b : x - a + 1 \in 1 .. n /\ xs[x - a + 1] = x
    BY <1>1, <1>4
  <2>3. ToSet(xs) = {xs[i] : i \in 1 .. n}
    BY <1>4 DEF ToSet
  <2> QED BY <2>1, <2>2, <2>3
<1>6. AddNumbers(s, a, b) = FoldLeft(AddNumber, s, xs)
  BY DEF AddNumbers, xs
<1> QED BY <1>4, <1>5, <1>6, NumbersAdded

(* What an entry that is accepted adds.  A range whose first number is new adds all
   it stands for. *)
LEMMA EntryAdded ==
  ASSUME NEW s \in Seq(Int), IsInjective(s), NEW e \in MaskEntries, NEW left, ~Refused(s, e, left)
  PROVE  /\ Expanded(s, e) \in Seq(Int) /\ IsInjective(Expanded(s, e))
         /\ e.to = -1 \/ e.first \notin ToSet(s) => ToSet(Expanded(s, e)) = ToSet(s) \cup Meant(e)
<1> DEFINE t == AddNumber(s, e.first)
<1>1. e.first \in Int /\ e.to \in Int
  BY DEF MaskEntries
<1>2. /\ t \in Seq(Int) /\ IsInjective(t) /\ ToSet(t) = ToSet(s) \cup {e.first} /\ Last(t) \in Int
      /\ e.first \notin ToSet(s) => Last(t) = e.first
  <2>1. CASE e.first \in ToSet(s)
    <3>1. t = s /\ s # <<>> /\ Len(s) \in DOMAIN s
      BY <2>1 DEF AddNumber, ToSet
    <3>2. s[Len(s)] \in Int
      BY <3>1
    <3> QED BY <2>1, <3>1, <3>2 DEF Last
  <2>2. CASE e.first \notin ToSet(s)
    <3>1. t = Append(s, e.first)
      BY <2>2 DEF AddNumber
    <3>2. Last(Append(s, e.first)) = e.first
      BY <1>1, Appended DEF Last
    <3> QED BY <1>1, <2>2, <3>1, <3>2, Appended
  <2> QED BY <2>1, <2>2
<1> HIDE DEF t
<1>3. CASE e.to = -1
  <2>1. Expanded(s, e) = t /\ Meant(e) = {e.first}
    BY <1>3 DEF Expanded, Meant, t
  <2> QED BY <2>1, <1>2
<1>4. CASE e.to # -1
  <2>1. Expanded(s, e) = AddNumbers(t, Last(t) + 1, e.to) /\ Meant(e) = e.first .. e.to
    BY <1>4 DEF Expanded, AddRange, Meant, t
  <2>2. Last(t) + 1 \in Int /\ Last(t) + 1 <= e.to
    <3>1. ~(Last(t) + 1 > e.to)
      BY <1>4 DEF Refused, t
    <3> QED BY <1>1, <1>2, <3>1
  <2>3. Expanded(s, e) \in Seq(Int) /\ IsInjective(Expanded(s, e))
        /\ ToSet(Expanded(s, e)) = ToSet(t) \cup (Last(t) + 1 .. e.to)
    BY <1>1, <1>2, <2>1, <2>2, RangeAdded
  <2>4. ASSUME e.first \notin ToSet(s)
        PROVE  {e.first} \cup (Last(t) + 1 .. e.to) = e.first .. e.to
    BY <1>1, <1>2, <2>2, <2>4
  <2> QED BY <1>2, <1>4, <2>1, <2>3, <2>4
<1> QED BY <1>3, <1>4

(* How far a text that is well formed has been read, and what that much of it
   stands for. *)
MeantUpTo(text, k) == UNION {Meant(text[i]) : i \in 1 .. k}
ReadUpTo(text, k) ==
  rest = SubSeq(text, k + 1, Len(text)) /\ ToSet(array) = MeantUpTo(text, k)
Reading ==
  reading = "expand" /\ WellFormed(mask[part].text) =>
    \E k \in 0 .. Len(mask[part].text) : ReadUpTo(mask[part].text, k)

MaskParts == [thread : Nat, text : Seq(MaskEntries)]
ThreadRules == [thread : Nat, ids : Seq(Int)]
Masks == Seq(MaskParts) \ {<<>>}
MaskTypes ==
  /\ mask \in Masks /\ reading \in {"expand", "done", "halted"}
  /\ rest \in Seq(MaskEntries) /\ array \in Seq(Int) /\ ids \in Seq(Int)
  /\ special \in Seq(ThreadRules)
  /\ part = Len(special) + 1 /\ Len(special) <= Len(mask)
  /\ reading = "expand" => part <= Len(mask)

MaskIInv == MaskTypes /\ IsInjective(array) /\ Reading /\ MaskMeans /\ ListsAgree

(* An entry of a well-formed text, and what is left when it is the next. *)
LEMMA NextEntry ==
  ASSUME NEW text \in Seq(MaskEntries), WellFormed(text), NEW j \in 1 .. Len(text)
  PROVE  /\ text[j] \in MaskEntries /\ text[j].sep \in {"", ","}
         /\ text[j].first >= 0 /\ (text[j].to = -1 \/ text[j].to > text[j].first)
         /\ text[j].to # -1 => \A i \in 1 .. j - 1 : text[j].first \notin Meant(text[i])
         /\ Head(SubSeq(text, j, Len(text))) = text[j]
         /\ Tail(SubSeq(text, j, Len(text))) = SubSeq(text, j + 1, Len(text))
         /\ text[j].sep = "," => SubSeq(text, j + 1, Len(text)) # <<>>
<1>1. Len(text) \in Nat /\ j \in DOMAIN text /\ Len(text) \in j .. Len(text) /\ text[j] \in MaskEntries
  OBVIOUS
<1>2. /\ text[j].first >= 0 /\ (text[j].to = -1 \/ text[j].to > text[j].first)
      /\ text[j].sep = IF j = Len(text) THEN "" ELSE ","
      /\ text[j].to # -1 => \A i \in 1 .. j - 1 : text[j].first \notin Meant(text[i])
  BY <1>1 DEF WellFormed
<1>3. /\ Head(SubSeq(text, j, Len(text))) = text[j]
      /\ Tail(SubSeq(text, j, Len(text))) = SubSeq(text, j + 1, Len(text))
  BY <1>1, HeadTailOfSubSeq
<1>4. ASSUME j # Len(text) PROVE SubSeq(text, j + 1, Len(text)) # <<>>
  <2>1. \A i \in j + 1 .. Len(text) : text[i] \in MaskEntries
    BY <1>1
  <2>2. j + 1 \in Int /\ j + 1 <= Len(text)
    BY <1>1, <1>4
  <2>3. Len(SubSeq(text, j + 1, Len(text))) = Len(text) - (j + 1) + 1
    BY <1>1, <2>1, <2>2, SubSeqProperties
  <2>4. Len(text) - (j + 1) + 1 # 0
    BY <1>1, <2>2
  <2> QED BY <2>3, <2>4, EmptySeq
<1> QED BY <1>1, <1>2, <1>3, <1>4

(* A well-formed text is not refused, and each entry adds what it stands for. *)
LEMMA WellFormedRead ==
  ASSUME NEW text \in Seq(MaskEntries), WellFormed(text), rest # <<>>,
         array \in Seq(Int), IsInjective(array),
         NEW k \in 0 .. Len(text), ReadUpTo(text, k)
  PROVE  /\ ~Refused(array, Head(rest), Tail(rest))
         /\ k + 1 \in 0 .. Len(text) /\ Tail(rest) = SubSeq(text, k + 2, Len(text))
         /\ ToSet(Expanded(array, Head(rest))) = MeantUpTo(text, k + 1)
<1>1. Len(text) \in Nat /\ k \in Nat /\ k + 1 - 1 = k /\ k + 1 + 1 = k + 2
  OBVIOUS
<1>2. rest = SubSeq(text, k + 1, Len(text)) /\ ToSet(array) = MeantUpTo(text, k)
  BY DEF ReadUpTo
<1>3. k + 1 \in 1 .. Len(text) /\ k + 1 \in 0 .. Len(text)
  <2>1. k < Len(text)
    BY <1>1, <1>2, SubSeqEmpty
  <2> QED BY <1>1, <2>1
<1>4. PICK e \in MaskEntries : e = text[k + 1]
  BY <1>3
<1>5. /\ e.sep \in {"", ","} /\ e.first >= 0 /\ (e.to = -1 \/ e.to > e.first)
      /\ e.to # -1 => \A j \in 1 .. k : e.first \notin Meant(text[j])
      /\ Head(rest) = e /\ Tail(rest) = SubSeq(text, k + 2, Len(text))
      /\ e.sep = "," => Tail(rest) # <<>>
  <2>1. PICK j \in 1 .. Len(text) : j = k + 1
    BY <1>3
  <2>2. j - 1 = k /\ j + 1 = k + 2
    BY <1>1, <2>1
  <2> QED BY <1>2, <1>4, <2>1, <2>2, NextEntry
<1>6. e.to # -1 => e.first \notin ToSet(array)
  BY <1>2, <1>5 DEF MeantUpTo
<1>7. ~Refused(array, e, Tail(rest))
  <2>1. e.first \in Int /\ e.to \in Int
    BY DEF MaskEntries
  <2>2. e.to # -1 => Last(AddNumber(array, e.first)) = e.first
    <3> SUFFICES ASSUME e.to # -1 PROVE Last(AddNumber(array, e.first)) = e.first
      OBVIOUS
    <3>1. AddNumber(array, e.first) = Append(array, e.first)
      BY <1>6 DEF AddNumber
    <3> QED BY <2>1, <3>1, Appended DEF Last
  <2>3. e.first # -1 /\ ~(e.to # -1 /\ Last(AddNumber(array, e.first)) + 1 > e.to)
    <3>1. e.first >= 0 /\ (e.to = -1 \/ e.to > e.first)
      BY <1>5
    <3> QED BY <2>1, <2>2, <3>1
  <2> QED BY <1>5, <2>3 DEF Refused
<1>8. ToSet(Expanded(array, e)) = ToSet(array) \cup Meant(e)
  BY <1>5, <1>6, <1>7, EntryAdded
<1>9. MeantUpTo(text, k + 1) = MeantUpTo(text, k) \cup Meant(e)
  <2>1. 1 .. k + 1 = (1 .. k) \cup {k + 1}
    BY <1>1, <1>3
  <2> QED BY <1>4, <2>1 DEF MeantUpTo
<1> QED BY <1>2, <1>3, <1>5, <1>7, <1>8, <1>9
(* A text of which nothing has been read. *)
LEMMA NothingRead ==
  ASSUME NEW text \in Seq(MaskEntries), rest = text, array = <<>>
  PROVE  0 \in 0 .. Len(text) /\ ReadUpTo(text, 0)
<1>1. Len(text) \in Nat /\ SubSeq(text, 0 + 1, Len(text)) = text
  BY SubSeqFull
<1>2. ToSet(array) = {} /\ MeantUpTo(text, 0) = {}
  BY DEF ToSet, MeantUpTo
<1>3. 0 \in 0 .. Len(text)
  BY <1>1
<1>4. rest = SubSeq(text, 0 + 1, Len(text)) /\ ToSet(array) = MeantUpTo(text, 0)
  BY <1>1, <1>2
<1> QED BY <1>3, <1>4 DEF ReadUpTo

LEMMA MaskInitial == MaskInit => MaskIInv
<1> SUFFICES ASSUME MaskInit PROVE MaskIInv
  OBVIOUS
<1> USE DEF MaskInit
<1>1. mask \in Masks
  <2>1. CASE mask \in MaskTexts
    BY <2>1, MaskAssumption DEF Masks, MaskParts
  <2>2. CASE mask \notin MaskTexts
    <3>1. PICK t \in RangeTexts : mask = <<[thread |-> 0, text |-> t]>>
      BY <2>2
    <3>2. t \in Seq(MaskEntries)
      BY MaskAssumption
    <3>3. [thread |-> 0, text |-> t] \in MaskParts
      BY <3>2 DEF MaskParts
    <3>4. ASSUME NEW x \in MaskParts PROVE <<x>> \in Seq(MaskParts) /\ <<x>> # <<>>
      OBVIOUS
    <3> QED BY <3>1, <3>3, <3>4 DEF Masks
  <2> QED BY <2>1, <2>2
<1>2. 1 \in DOMAIN mask /\ Len(mask) \in Nat /\ 1 <= Len(mask) /\ mask[1].text \in Seq(MaskEntries)
  <2>1. mask \in Seq(MaskParts) /\ mask # <<>>
    BY <1>1 DEF Masks
  <2>2. 1 \in DOMAIN mask /\ Len(mask) \in Nat /\ 1 <= Len(mask)
    BY <2>1
  <2>3. mask[1] \in MaskParts
    BY <2>1, <2>2, ElementOfSeq
  <2> QED BY <2>2, <2>3 DEF MaskParts
<1>3. MaskTypes
  <2>1. <<>> \in Seq(Int) /\ <<>> \in Seq(ThreadRules) /\ Len(<<>>) = 0
    OBVIOUS
  <2> QED BY <1>1, <1>2, <2>1 DEF MaskTypes
<1>4. IsInjective(<<>>) /\ ToSet(<<>>) = {} /\ DOMAIN <<>> = {}
  BY DEF IsInjective, ToSet
<1>5. MaskMeans /\ ListsAgree
  BY <1>4 DEF MaskMeans, ListsAgree
<1>6. Reading
  BY <1>2, NothingRead DEF Reading
<1> QED BY <1>3, <1>4, <1>5, <1>6 DEF MaskIInv

(* The text being read. *)
LEMMA PartText ==
  ASSUME MaskTypes, reading = "expand"
  PROVE  /\ part \in 1 .. Len(mask) /\ mask[part].text \in Seq(MaskEntries) /\ mask[part].thread \in Nat
         /\ Len(mask) \in Nat
         /\ part # Len(mask) => part + 1 \in 1 .. Len(mask) /\ mask[part + 1].text \in Seq(MaskEntries)
<1>1. mask \in Seq(MaskParts) /\ Len(special) \in Nat
  BY DEF MaskTypes, Masks
<1>2. Len(mask) \in Nat /\ part \in 1 .. Len(mask) /\ (part # Len(mask) => part + 1 \in 1 .. Len(mask))
  BY <1>1 DEF MaskTypes
<1>3. \A i \in 1 .. Len(mask) : mask[i] \in MaskParts
  BY <1>1, ElementOfSeq
<1>4. \A i \in 1 .. Len(mask) : mask[i].text \in Seq(MaskEntries) /\ mask[i].thread \in Nat
  BY <1>3 DEF MaskParts
<1> QED BY <1>2, <1>4

LEMMA EntryStep == ASSUME MaskIInv, Entry PROVE MaskIInv'
<1> USE DEF Entry
<1>1. MaskTypes /\ IsInjective(array) /\ Reading
  BY DEF MaskIInv
<1>2. array \in Seq(Int) /\ rest \in Seq(MaskEntries) /\ Head(rest) \in MaskEntries /\ Tail(rest) \in Seq(MaskEntries)
  BY <1>1 DEF MaskTypes
<1>3. array' \in Seq(Int) /\ IsInjective(array')
  BY <1>1, <1>2, EntryAdded
<1>4. MaskTypes'
  BY <1>1, <1>2, <1>3 DEF MaskTypes
<1>5. ASSUME WellFormed(mask[part].text) PROVE \E k \in 0 .. Len(mask[part].text) : ReadUpTo(mask[part].text, k)'
  <2>1. mask[part].text \in Seq(MaskEntries)
    BY <1>1, PartText
  <2>2. PICK k \in 0 .. Len(mask[part].text) : ReadUpTo(mask[part].text, k)
    BY <1>1, <1>5 DEF Reading
  <2>3. /\ k + 1 \in 0 .. Len(mask[part].text)
        /\ rest' = SubSeq(mask[part].text, k + 2, Len(mask[part].text))
        /\ ToSet(array') = MeantUpTo(mask[part].text, k + 1)
    BY <1>1, <1>2, <1>5, <2>1, <2>2, WellFormedRead
  <2>4. k + 1 + 1 = k + 2
    OBVIOUS
  <2>5. ReadUpTo(mask[part].text, k + 1)'
    BY <2>3, <2>4 DEF ReadUpTo, MeantUpTo
  <2> QED BY <2>3, <2>5
<1>6. Reading'
  BY <1>5 DEF Reading
<1>7. MaskMeans' /\ ListsAgree'
  BY DEF MaskIInv, MaskMeans, ListsAgree
<1> QED BY <1>3, <1>4, <1>6, <1>7 DEF MaskIInv

LEMMA RefuseStep == ASSUME MaskIInv, Refuse PROVE MaskIInv'
<1> USE DEF Refuse
<1>1. MaskTypes /\ IsInjective(array) /\ Reading
  BY DEF MaskIInv
<1>2. array' \in Seq(Int) /\ rest' \in Seq(MaskEntries) /\ IsInjective(array')
  BY DEF IsInjective
<1>3. MaskTypes'
  BY <1>1, <1>2 DEF MaskTypes
<1>4. ~WellFormed(mask[part].text)
  <2> SUFFICES ASSUME WellFormed(mask[part].text) PROVE FALSE
    OBVIOUS
  <2>1. mask[part].text \in Seq(MaskEntries) /\ array \in Seq(Int)
    BY <1>1, PartText DEF MaskTypes
  <2>2. PICK k \in 0 .. Len(mask[part].text) : ReadUpTo(mask[part].text, k)
    BY <1>1 DEF Reading
  <2> QED BY <1>1, <2>1, <2>2, WellFormedRead
<1>5. Reading'
  BY <1>4 DEF Reading
<1>6. MaskMeans' /\ ListsAgree'
  BY DEF MaskIInv, MaskMeans, ListsAgree
<1> QED BY <1>2, <1>3, <1>5, <1>6 DEF MaskIInv

(* A text that has been read has given what it stands for. *)
LEMMA TextRead ==
  ASSUME MaskTypes, Reading, reading = "expand", rest = <<>>, WellFormed(mask[part].text)
  PROVE  ToSet(array) = MeantBy(mask[part].text)
<1> DEFINE text == mask[part].text
<1>1. text \in Seq(MaskEntries)
  BY PartText
<1> HIDE DEF text
<1>2. PICK k \in 0 .. Len(text) : rest = SubSeq(text, k + 1, Len(text)) /\ ToSet(array) = MeantUpTo(text, k)
  BY DEF Reading, ReadUpTo, text
<1>3. Len(text) \in Nat /\ DOMAIN text = 1 .. Len(text) /\ k \in Nat /\ k + 1 \in Int /\ k <= Len(text)
  BY <1>1
<1>4. k = Len(text)
  <2>0. ASSUME NEW n \in Nat, k <= n, ~(k + 1 <= n) PROVE k = n
    BY <1>3, <2>0
  <2> SUFFICES ASSUME k + 1 <= Len(text) PROVE FALSE
    BY <1>3, <2>0
  <2>1. \A i \in k + 1 .. Len(text) : text[i] \in MaskEntries
    <3>1. \A i \in k + 1 .. Len(text) : i \in 1 .. Len(text)
      BY <1>3
    <3> QED BY <1>1, <3>1, ElementOfSeq
  <2>2. Len(SubSeq(text, k + 1, Len(text))) = Len(text) - (k + 1) + 1
    BY <1>3, <2>1, SubSeqProperties
  <2>3. ASSUME NEW n \in Nat, k + 1 <= n PROVE n - (k + 1) + 1 # 0
    BY <1>3, <2>3
  <2>4. Len(text) - (k + 1) + 1 # 0
    BY <1>3, <2>3
  <2> QED BY <1>2, <2>2, <2>4, EmptySeq
<1>5. ToSet(array) = UNION {Meant(text[i]) : i \in 1 .. Len(text)}
  BY <1>2, <1>4 DEF MeantUpTo
<1> QED BY <1>3, <1>5 DEF MeantBy, text

(* A union over one number more. *)
LEMMA UnionMore ==
  ASSUME NEW n \in Nat, NEW U
  PROVE  UNION {U[i] : i \in 1 .. n + 1} = (UNION {U[i] : i \in 1 .. n}) \cup U[n + 1]
<1>1. \A i : i \in 1 .. n + 1 <=> i \in 1 .. n \/ i = n + 1
  OBVIOUS
<1>2. ASSUME NEW S, NEW T, NEW m, \A i : i \in T <=> i \in S \/ i = m
      PROVE  UNION {U[i] : i \in T} = (UNION {U[i] : i \in S}) \cup U[m]
  <2> DEFINE X == UNION {U[i] : i \in T}
             Y == UNION {U[i] : i \in S}
  <2>1. \A x : x \in X <=> \E i \in T : x \in U[i]
    OBVIOUS
  <2>2. \A x : x \in Y <=> \E i \in S : x \in U[i]
    OBVIOUS
  <2> HIDE DEF X, Y
  <2>3. \A x : x \in X <=> x \in Y \/ x \in U[m]
    BY <1>2, <2>1, <2>2
  <2>4. X = Y \cup U[m]
    BY <2>3
  <2> QED BY <2>4 DEF X, Y
<1> QED BY <1>1, <1>2

LEMMA ThreadStep == ASSUME MaskIInv, Thread PROVE MaskIInv'
<1> USE DEF Thread
<1> DEFINE new == [thread |-> mask[part].thread, ids |-> array]
           n == Len(special)
<1>1. MaskTypes /\ IsInjective(array) /\ Reading /\ MaskMeans /\ ListsAgree
  BY DEF MaskIInv
<1>2. /\ array \in Seq(Int) /\ ids \in Seq(Int) /\ special \in Seq(ThreadRules)
      /\ part = n + 1 /\ n \in Nat /\ mask \in Masks
  BY <1>1 DEF MaskTypes
<1>3. /\ part \in 1 .. Len(mask) /\ mask[part].text \in Seq(MaskEntries) /\ mask[part].thread \in Nat
      /\ Len(mask) \in Nat
      /\ part # Len(mask) => part + 1 \in 1 .. Len(mask) /\ mask[part + 1].text \in Seq(MaskEntries)
  BY <1>1, PartText
<1>4. new \in ThreadRules
  BY <1>2, <1>3 DEF ThreadRules
<1>5. /\ special' \in Seq(ThreadRules) /\ Len(special') = n + 1
      /\ DOMAIN special = 1 .. n /\ DOMAIN special' = 1 .. n + 1
      /\ \A i \in 1 .. n : i \in 1 .. n + 1 /\ special'[i] = special[i]
      /\ special'[n + 1] = new
  <2> HIDE DEF new
  <2>1. special' = Append(special, new)
    BY DEF new
  <2> QED BY <1>2, <1>4, <2>1, Appended
<1>6. ids' \in Seq(Int) /\ IsInjective(ids') /\ ToSet(ids') = ToSet(ids) \cup ToSet(array)
  <2>1. IsInjective(ids)
    BY <1>1 DEF ListsAgree
  <2> QED BY <1>2, <2>1, NumbersAdded
<1>7. array' \in Seq(Int) /\ IsInjective(array') /\ <<>> \in Seq(MaskEntries)
  BY DEF IsInjective
<1>8. reading' \in {"expand", "done", "halted"} /\ (reading' = "expand" => part # Len(mask))
  OBVIOUS
<1> HIDE DEF n, new
<1>9. MaskTypes'
  <2>1. rest' \in Seq(MaskEntries)
    BY <1>3, <1>7
  <2>2. part' = Len(special') + 1 /\ Len(special') <= Len(mask) /\ (reading' = "expand" => part' <= Len(mask))
    BY <1>2, <1>3, <1>5, <1>8
  <2> QED BY <1>2, <1>5, <1>6, <1>7, <1>8, <2>1, <2>2 DEF MaskTypes
<1>10. Reading'
  <2>1. mask' = mask /\ part' = part + 1
    OBVIOUS
  <2> SUFFICES ASSUME reading' = "expand", NEW next, next = mask[part + 1].text
               PROVE  \E k \in 0 .. Len(next) : ReadUpTo(next, k)'
    BY <2>1 DEF Reading
  <2>2. next \in Seq(MaskEntries) /\ rest' = next /\ array' = <<>>
    BY <1>3, <1>8
  <2>3. Len(next) \in Nat /\ SubSeq(next, 0 + 1, Len(next)) = next
    BY <2>2, SubSeqFull
  <2>4. 0 \in 0 .. Len(next)
    BY <2>3
  <2>5. ToSet(array') = {} /\ MeantUpTo(next, 0) = {}
    BY <2>2 DEF ToSet, MeantUpTo
  <2>6. rest' = SubSeq(next, 0 + 1, Len(next)) /\ ToSet(array') = MeantUpTo(next, 0)
    BY <2>2, <2>3, <2>5
  <2>7. ReadUpTo(next, 0)'
    BY <2>6 DEF ReadUpTo, MeantUpTo
  <2> QED BY <2>4, <2>7
<1>11. MaskMeans'
  <2> SUFFICES ASSUME NEW i \in 1 .. n + 1
               PROVE  /\ IsInjective(special'[i].ids)
                      /\ WellFormed(mask[i].text) => ToSet(special'[i].ids) = MeantBy(mask[i].text)
    BY <1>5 DEF MaskMeans
  <2>1. CASE i = n + 1
    <3>1. special'[i].ids = array /\ i = part
      BY <1>2, <1>5, <2>1 DEF new
    <3> QED BY <1>1, <3>1, TextRead
  <2>2. CASE i # n + 1
    <3>1. i \in 1 .. n
      BY <1>2, <2>2
    <3> QED BY <1>1, <1>5, <3>1 DEF MaskMeans
  <2> QED BY <2>1, <2>2
<1>12. ListsAgree'
  <2> DEFINE U == [i \in 1 .. n + 1 |-> ToSet(special'[i].ids)]
             X == UNION {U[i] : i \in 1 .. n + 1}
             Y == UNION {U[i] : i \in 1 .. n}
  <2>1. /\ X = UNION {ToSet(special'[i].ids) : i \in 1 .. n + 1}
        /\ Y = UNION {ToSet(special'[i].ids) : i \in 1 .. n}
    BY <1>5
  <2>2. U[n + 1] = ToSet(array)
    <3>1. special'[n + 1].ids = array /\ n + 1 \in 1 .. n + 1
      BY <1>2, <1>5 DEF new
    <3> QED BY <3>1
  <2>3. UNION {ToSet(special'[i].ids) : i \in 1 .. n} = UNION {ToSet(special[i].ids) : i \in 1 .. n}
    <3>1. \A i \in 1 .. n : special'[i] = special[i]
      BY <1>5
    <3> QED BY <3>1
  <2> HIDE DEF U
  <2>4. X = Y \cup U[n + 1]
    BY <1>2, UnionMore
  <2> HIDE DEF X, Y
  <2>5. ToSet(ids) = Y
    BY <1>1, <1>5, <2>1, <2>3 DEF ListsAgree
  <2>6. ToSet(ids') = X
    BY <1>6, <2>2, <2>4, <2>5
  <2> QED BY <1>5, <1>6, <2>1, <2>6 DEF ListsAgree
<1> QED BY <1>7, <1>9, <1>10, <1>11, <1>12 DEF MaskIInv

LEMMA MaskStep == MaskIInv /\ [MaskNext]_maskVars => MaskIInv'
<1> SUFFICES ASSUME MaskIInv, [MaskNext]_maskVars PROVE MaskIInv'
  OBVIOUS
<1>1. CASE Entry
  BY <1>1, EntryStep
<1>2. CASE Refuse
  BY <1>2, RefuseStep
<1>3. CASE Thread
  BY <1>3, ThreadStep
<1>4. CASE UNCHANGED maskVars
  BY <1>4 DEF maskVars, MaskIInv, MaskTypes, Reading, ReadUpTo, MaskMeans, ListsAgree
<1> QED BY <1>1, <1>2, <1>3, <1>4 DEF MaskNext

(* For any text, well formed or not: each thread gets the numbers its text stands
   for, each once, and the list that decides which rules are added names the same
   rules (get_special_rules_for_thread and get_rules_id_list_in_mask). *)
THEOREM MaskIsRead == MaskSpec => []MaskRead
<1>1. MaskIInv => MaskRead
  BY DEF MaskIInv, MaskRead
<1> QED BY <1>1, MaskInitial, MaskStep, PTL DEF MaskSpec

-----------------------------------------------------------------------------
(* The table of protocols.  A place holds a protocol DPI has told of, whose
   attributes have the numbers after b, or none. *)
RealRow(id, b) == [id |-> id, name |-> Dpi[id].name, atts |-> Written(Dpi[id].atts, b)]
Rows == {Dummy(i) : i \in Nat} \cup {RealRow(id, b) : id \in DOMAIN Dpi, b \in Nat}
PlaceHolds(i, b) == \/ protos[i] = Dummy(i - 1)
                    \/ i - 1 \in Told /\ protos[i] = RealRow(i - 1, b)

(* base[i] is how many attributes are before those of place i. *)
Numbered(base) ==
  LET n == Len(protos)
  IN  /\ base \in [1 .. n + 1 -> Nat] /\ base[1] = 0 /\ base[n + 1] = gid
      /\ \A i \in 1 .. n : PlaceHolds(i, base[i]) /\ base[i + 1] = base[i] + Len(protos[i].atts)

Sorted == \A i, j \in DOMAIN order : i < j => order[i] <= order[j]
StreamLeft == \E k \in 0 .. Len(order) : /\ stream = SubSeq(order, k + 1, Len(order))
                                         /\ Len(stream) = Len(order) - k

(* The last place is that of a protocol DPI has told of, so one that comes late, in
   the order of numbers, came before. *)
LastTold == protos # <<>> => Len(protos) - 1 \in Told
ToldFound == Sorted => \A id \in Told : id < Len(protos) /\ protos[id + 1].name = Dpi[id].name

TableIInv ==
  /\ order \in Seq(DOMAIN Dpi) /\ StreamLeft /\ protos \in Seq(Rows)
  /\ \E base : Numbered(base)
  /\ LastTold /\ ToldFound

(* What a row says. *)
LEMMA RowSays ==
  ASSUME NEW id \in DOMAIN Dpi, NEW b \in Nat
  PROVE  LET r == RealRow(id, b)
             d == Dpi[id].atts
         IN  /\ r.id = id /\ r.name = Dpi[id].name /\ r.name # NoName /\ id \in Nat
             /\ Len(d) \in Nat /\ Len(r.atts) = Len(d) /\ DOMAIN d = 1 .. Len(d) /\ DOMAIN r.atts = 1 .. Len(d)
             /\ \A i \in 1 .. Len(d) :
                  /\ r.atts[i].gid = b + i /\ r.atts[i].id = d[i].id /\ r.atts[i].name = d[i].name
                  /\ r.atts[i].type = DataTypes[d[i].type + 1]
<1> DEFINE d == Dpi[id].atts
<1>1. d \in Seq(DpiAttributes) /\ Dpi[id].name # "" /\ id \in Nat
  BY DpiAssumption
<1> HIDE DEF d
<1>2. Len(d) \in Nat /\ DOMAIN d = 1 .. Len(d)
  BY <1>1, LenProperties
<1> DEFINE w == Written(d, b)
<1>3. DOMAIN w = 1 .. Len(d) /\ \A i \in 1 .. Len(d) :
        w[i] = [gid |-> b + i, id |-> d[i].id, name |-> d[i].name, type |-> DataTypes[d[i].type + 1]]
  BY <1>2 DEF Written
<1>4. Len(w) = Len(d)
  <2>1. w = [i \in 1 .. Len(d) |-> [gid |-> b + i, id |-> d[i].id, name |-> d[i].name,
                                    type |-> DataTypes[d[i].type + 1]]]
    BY <1>2 DEF Written
  <2> QED BY <1>2, <2>1
<1> HIDE DEF w
<1>5. RealRow(id, b).id = id /\ RealRow(id, b).name = Dpi[id].name /\ RealRow(id, b).atts = w
  BY DEF RealRow, w, d
<1> DEFINE r == RealRow(id, b)
<1>6. r.id = id /\ r.name = Dpi[id].name /\ r.name # NoName /\ id \in Nat
  BY <1>1, <1>5 DEF NoName
<1>7. Len(r.atts) = Len(d) /\ DOMAIN r.atts = 1 .. Len(d)
  BY <1>3, <1>4, <1>5
<1>8. \A i \in 1 .. Len(d) :
        /\ r.atts[i].gid = b + i /\ r.atts[i].id = d[i].id /\ r.atts[i].name = d[i].name
        /\ r.atts[i].type = DataTypes[d[i].type + 1]
  BY <1>3, <1>5
<1> HIDE DEF r
<1> QED BY <1>2, <1>6, <1>7, <1>8 DEF d, r

(* The table with places filled up to one more row. *)
LEMMA Extended ==
  ASSUME protos \in Seq(Rows), NEW id \in Nat, id >= Len(protos), NEW row \in Rows
  PROVE  LET n == Len(protos)
             q == protos \o [i \in 1 .. id - n |-> Dummy(n + i - 1)] \o <<row>>
         IN  /\ q \in Seq(Rows) /\ Len(q) = id + 1 /\ n \in Nat
             /\ \A i \in 1 .. n : q[i] = protos[i]
             /\ \A i \in n + 1 .. id : q[i] = Dummy(i - 1)
             /\ q[id + 1] = row
<1> DEFINE n == Len(protos)
           m == id - n
           f == [i \in 1 .. m |-> Dummy(n + i - 1)]
           h == protos \o f
           q == h \o <<row>>
<1>1. n \in Nat /\ m \in Nat /\ n + m = id
  BY LenProperties
<1>2. \A i \in 1 .. m : Dummy(n + i - 1) \in Rows
  <2>1. \A i \in 1 .. m : n + i - 1 \in Nat
    BY <1>1
  <2> QED BY <2>1 DEF Rows
<1> HIDE DEF m
<1>3. f \in Seq(Rows) /\ Len(f) = m /\ \A i \in 1 .. m : f[i] = Dummy(n + i - 1)
  BY <1>1, <1>2
<1> HIDE DEF f, n
<1>4. h \in Seq(Rows) /\ Len(h) = id /\ \A i \in 1 .. n + m : h[i] = IF i <= n THEN protos[i] ELSE f[i - n]
  BY <1>1, <1>3, ConcatProperties DEF n
<1>5. /\ \A i \in 1 .. n : h[i] = protos[i]
      /\ \A i \in n + 1 .. id : h[i] = Dummy(i - 1)
  <2>1. ASSUME NEW i \in n + 1 .. id PROVE h[i] = Dummy(i - 1)
    <3>1. i \in 1 .. n + m /\ ~(i <= n) /\ i - n \in 1 .. m /\ n + (i - n) - 1 = i - 1
      BY <1>1
    <3>2. h[i] = f[i - n]
      BY <1>4, <3>1
    <3>3. f[i - n] = Dummy(n + (i - n) - 1)
      BY <1>3, <3>1
    <3> QED BY <3>1, <3>2, <3>3
  <2>2. \A i \in 1 .. n : i \in 1 .. n + m /\ i <= n
    BY <1>1
  <2> QED BY <1>4, <2>1, <2>2
<1> HIDE DEF h
<1>6. <<row>> \in Seq(Rows) /\ Len(<<row>>) = 1 /\ <<row>>[1] = row
  OBVIOUS
<1>7. q \in Seq(Rows) /\ Len(q) = id + 1
      /\ \A i \in 1 .. id + 1 : q[i] = IF i <= id THEN h[i] ELSE <<row>>[i - id]
  BY <1>4, <1>6, ConcatProperties
<1> HIDE DEF q
<1>8. /\ \A i \in 1 .. id : q[i] = h[i]
      /\ q[id + 1] = row
  <2>1. \A i \in 1 .. id : i \in 1 .. id + 1 /\ i <= id
    OBVIOUS
  <2>2. id + 1 \in 1 .. id + 1 /\ ~(id + 1 <= id) /\ id + 1 - id = 1
    OBVIOUS
  <2> QED BY <1>6, <1>7, <2>1, <2>2
<1>9. (1 .. n) \subseteq 1 .. id /\ n + 1 .. id \subseteq 1 .. id
  BY <1>1
<1> QED BY <1>1, <1>5, <1>7, <1>8, <1>9 DEF q, h, f, m, n

(* What DPI tells of are protocols. *)
LEMMA ToldAreNumbers ==
  ASSUME order \in Seq(DOMAIN Dpi), StreamLeft
  PROVE  Told \subseteq DOMAIN Dpi /\ Told \subseteq Nat
<1>1. \A i \in 1 .. Len(order) : order[i] \in DOMAIN Dpi
  BY ElementOfSeq
<1>2. 1 .. Len(order) - Len(stream) \subseteq 1 .. Len(order)
  <2>1. \A a \in Nat : \A k \in 0 .. a : 1 .. a - (a - k) \subseteq 1 .. a
    OBVIOUS
  <2>2. Len(order) \in Nat
    BY LenProperties
  <2> QED BY <2>1, <2>2 DEF StreamLeft
<1>3. DOMAIN Dpi \subseteq Nat
  BY DpiAssumption
<1> QED BY <1>1, <1>2, <1>3 DEF Told

(* DPI tells of the next protocol. *)
LEMMA NextTold ==
  ASSUME order \in Seq(DOMAIN Dpi), StreamLeft, stream # <<>>, stream' = Tail(stream), order' = order
  PROVE  /\ Head(stream) \in DOMAIN Dpi /\ Head(stream) \in Nat
         /\ Told' = Told \cup {Head(stream)} /\ StreamLeft'
         /\ Sorted => \A id \in Told : id <= Head(stream)
<1>1. PICK k \in 0 .. Len(order) : stream = SubSeq(order, k + 1, Len(order)) /\ Len(stream) = Len(order) - k
  BY DEF StreamLeft
<1>2. PICK n \in Nat : n = Len(order) /\ DOMAIN order = 1 .. n
  BY LenProperties
<1>3. k \in Nat /\ k <= n /\ k + 1 \in 1 .. n /\ n \in k + 1 .. n
  <2>1. k \in Nat /\ k <= n /\ k + 1 \in Int
    BY <1>2
  <2>2. ~(n < k + 1)
    BY <1>1, <1>2, <2>1, SubSeqEmpty
  <2> QED BY <2>1, <2>2
<1>4. Head(stream) = order[k + 1] /\ Tail(stream) = SubSeq(order, k + 1 + 1, Len(order))
  BY <1>1, <1>2, <1>3, HeadTailOfSubSeq
<1>5. Head(stream) \in DOMAIN Dpi /\ Head(stream) \in Nat
  <2>1. order[k + 1] \in DOMAIN Dpi
    BY <1>2, <1>3, ElementOfSeq
  <2>2. DOMAIN Dpi \subseteq Nat
    BY DpiAssumption
  <2> QED BY <1>4, <2>1, <2>2
<1>6. Len(Tail(stream)) = n - (k + 1)
  <2>1. \A i \in k + 2 .. n : order[i] \in DOMAIN Dpi
    <3>1. \A i \in k + 2 .. n : i \in 1 .. n
      BY <1>3
    <3> QED BY <1>2, <3>1, ElementOfSeq
  <2>2. k + 1 + 1 = k + 2 /\ k + 2 \in Int
    BY <1>3
  <2>3. Len(SubSeq(order, k + 2, n)) = IF k + 2 <= n THEN n - (k + 2) + 1 ELSE 0
    BY <2>1, <2>2, SubSeqProperties
  <2>4. (IF k + 2 <= n THEN n - (k + 2) + 1 ELSE 0) = n - (k + 1)
    BY <1>3
  <2> QED BY <1>2, <1>4, <2>2, <2>3, <2>4
<1>7. StreamLeft'
  <2>1. k + 1 \in 0 .. n
    BY <1>3
  <2> QED BY <1>2, <1>4, <1>6, <2>1 DEF StreamLeft
<1>8. Told = {order[i] : i \in 1 .. k} /\ Told' = {order[i] : i \in 1 .. k + 1}
  <2>1. n - (n - k) = k /\ n - (n - (k + 1)) = k + 1
    BY <1>3
  <2>2. Len(order) - Len(stream) = k /\ Len(order') - Len(stream') = k + 1
    BY <1>1, <1>2, <1>6, <2>1
  <2> QED BY <2>2 DEF Told
<1>9. Told' = Told \cup {Head(stream)}
  <2>1. 1 .. k + 1 = (1 .. k) \cup {k + 1}
    BY <1>3
  <2> QED BY <1>4, <1>8, <2>1
<1>10. ASSUME Sorted, NEW id \in Told PROVE id <= Head(stream)
  <2>1. PICK i \in 1 .. k : id = order[i]
    BY <1>8
  <2>2. i \in DOMAIN order /\ k + 1 \in DOMAIN order /\ i < k + 1
    BY <1>2, <1>3
  <2> QED BY <1>4, <1>10, <2>1, <2>2 DEF Sorted
<1> QED BY <1>5, <1>7, <1>9, <1>10

LEMMA TableInitial == TableInit => TableIInv
<1> SUFFICES ASSUME TableInit PROVE TableIInv
  OBVIOUS
<1>1. order \in Seq(DOMAIN Dpi) /\ stream = order /\ protos = <<>> /\ gid = 0
  BY DpiAssumption DEF TableInit
<1>2. Len(order) \in Nat /\ SubSeq(order, 0 + 1, Len(order)) = order /\ Len(order) = Len(order) - 0
  BY <1>1, LenProperties, SubSeqFull
<1>3. StreamLeft
  <2>1. 0 \in 0 .. Len(order)
    BY <1>2
  <2> QED BY <1>1, <1>2, <2>1 DEF StreamLeft
<1>4. Numbered([i \in 1 .. 1 |-> 0])
  BY <1>1 DEF Numbered
<1>5. Told = {}
  BY <1>1, <1>2 DEF Told
<1> QED BY <1>1, <1>3, <1>4, <1>5 DEF TableIInv, LastTold, ToldFound

(* The protocol is written, after rows for the numbers that are left out. *)
LEMMA ProtocolStep == ASSUME TableIInv, Protocol PROVE TableIInv'
<1> DEFINE n == Len(protos)
           id == Head(stream)
           row == RealRow(id, gid)
<1>1. /\ order \in Seq(DOMAIN Dpi) /\ StreamLeft /\ protos \in Seq(Rows) /\ LastTold /\ ToldFound
      /\ stream # <<>> /\ stream' = Tail(stream) /\ order' = order /\ id >= n
      /\ protos' = protos \o [i \in 1 .. id - n |-> Dummy(n + i - 1)] \o <<row>>
      /\ gid' = gid + Len(Dpi[id].atts)
  BY DEF TableIInv, Protocol, RealRow
<1>2. PICK base : Numbered(base)
  BY DEF TableIInv
<1>3. /\ id \in DOMAIN Dpi /\ id \in Nat /\ Told' = Told \cup {id} /\ StreamLeft'
      /\ Sorted => \A p \in Told : p <= id
  BY <1>1, NextTold
<1>4. /\ n \in Nat /\ base \in [1 .. n + 1 -> Nat] /\ base[1] = 0 /\ base[n + 1] = gid /\ gid \in Nat
      /\ \A i \in 1 .. n : PlaceHolds(i, base[i]) /\ base[i + 1] = base[i] + Len(protos[i].atts)
  <2>1. n \in Nat
    BY <1>1, LenProperties
  <2> QED BY <1>2, <2>1 DEF Numbered
<1>5. row \in Rows /\ Len(row.atts) = Len(Dpi[id].atts) /\ Len(Dpi[id].atts) \in Nat /\ row.name = Dpi[id].name
  BY <1>3, <1>4, RowSays DEF Rows
<1>6. /\ protos' \in Seq(Rows) /\ Len(protos') = id + 1
      /\ \A i \in 1 .. n : protos'[i] = protos[i]
      /\ \A i \in n + 1 .. id : protos'[i] = Dummy(i - 1)
      /\ protos'[id + 1] = row
  BY <1>1, <1>3, <1>5, Extended
<1> DEFINE m == id + 1
<1>7. gid' \in Nat /\ m \in Nat /\ n + 1 <= m
  BY <1>1, <1>3, <1>4, <1>5
<1> HIDE DEF id, n, row
<1>0. PICK next : next = [i \in 1 .. m + 1 |-> IF i <= n + 1 THEN base[i] ELSE IF i <= m THEN gid ELSE gid']
  OBVIOUS
<1>8. next \in [1 .. m + 1 -> Nat] /\ next[1] = 0 /\ next[m + 1] = gid' /\ next[m] = gid
  <2>1. \A i \in 1 .. m + 1 : (IF i <= n + 1 THEN base[i] ELSE IF i <= m THEN gid ELSE gid') \in Nat
    BY <1>4, <1>7
  <2>2. next \in [1 .. m + 1 -> Nat]
    BY <1>0, <2>1
  <2>3. 1 \in 1 .. m + 1 /\ 1 <= n + 1 /\ m + 1 \in 1 .. m + 1 /\ ~(m + 1 <= n + 1) /\ ~(m + 1 <= m) /\ m \in 1 .. m + 1
    BY <1>4, <1>7
  <2>4. m <= n + 1 => m = n + 1
    BY <1>4, <1>7
  <2> QED BY <1>0, <1>4, <2>2, <2>3, <2>4
<1>9. \A i \in 1 .. n : next[i] = base[i] /\ next[i + 1] = base[i + 1]
  <2>1. \A i \in 1 .. n : i \in 1 .. m + 1 /\ i + 1 \in 1 .. m + 1 /\ i <= n + 1 /\ i + 1 <= n + 1
    BY <1>4, <1>7
  <2> QED BY <1>0, <2>1
<1>10. \A i \in n + 1 .. id : next[i] = gid /\ next[i + 1] = gid
  <2>1. ASSUME NEW i \in n + 1 .. id PROVE next[i] = gid /\ next[i + 1] = gid
    <3>1. i \in 1 .. m + 1 /\ i + 1 \in 1 .. m + 1 /\ i <= m /\ i + 1 <= m /\ (i <= n + 1 => i = n + 1) /\ ~(i + 1 <= n + 1)
      BY <1>3, <1>4, <1>7
    <3> QED BY <1>0, <1>4, <3>1
  <2> QED BY <2>1
<1>11. ASSUME NEW i \in 1 .. m PROVE PlaceHolds(i, next[i])' /\ next[i + 1] = next[i] + Len(protos'[i].atts)
  <2>1. CASE i \in 1 .. n
    <3>1. protos'[i] = protos[i] /\ next[i] = base[i] /\ next[i + 1] = base[i + 1]
      BY <1>6, <1>9, <2>1
    <3>2. PlaceHolds(i, base[i])'
      BY <1>3, <1>4, <2>1, <3>1 DEF PlaceHolds
    <3> QED BY <1>4, <2>1, <3>1, <3>2
  <2>2. CASE i \in n + 1 .. id
    <3>1. protos'[i] = Dummy(i - 1) /\ next[i] = gid /\ next[i + 1] = gid
      BY <1>6, <1>10, <2>2
    <3>2. Dummy(i - 1).atts = <<>> /\ Len(<<>>) = 0
      BY DEF Dummy
    <3>3. gid = gid + 0
      BY <1>4
    <3>4. PlaceHolds(i, next[i])'
      BY <3>1 DEF PlaceHolds
    <3> QED BY <3>1, <3>2, <3>3, <3>4
  <2>3. CASE i = m
    <3>1. protos'[i] = row /\ next[i] = gid /\ next[i + 1] = gid' /\ i - 1 = id
      BY <1>3, <1>6, <1>8, <2>3
    <3>2. PlaceHolds(i, next[i])'
      BY <1>3, <3>1 DEF PlaceHolds, row
    <3> QED BY <1>1, <1>5, <3>1, <3>2 DEF id
  <2>4. i \in 1 .. n \/ i \in n + 1 .. id \/ i = m
    BY <1>3, <1>4
  <2> QED BY <2>1, <2>2, <2>3, <2>4
<1>12. (\E b : Numbered(b))'
  <2>1. Numbered(next)'
    BY <1>6, <1>8, <1>11 DEF Numbered
  <2> QED BY <2>1
<1>13. LastTold'
  <2>1. id + 1 - 1 = id
    BY <1>3
  <2> QED BY <1>3, <1>6, <2>1 DEF LastTold
<1>14. ToldFound'
  <2> SUFFICES ASSUME Sorted, NEW p \in Told \cup {id}
               PROVE  p < id + 1 /\ protos'[p + 1].name = Dpi[p].name
    BY <1>1, <1>3, <1>6 DEF ToldFound, Sorted
  <2>1. CASE p = id
    BY <1>3, <1>5, <1>6, <2>1
  <2>2. CASE p \in Told
    <3>1. p < n /\ protos[p + 1].name = Dpi[p].name /\ p \in Nat
      <4>1. Told \subseteq Nat
        BY <1>1, ToldAreNumbers
      <4> QED BY <1>1, <2>2, <4>1 DEF ToldFound, n
    <3>2. p + 1 \in 1 .. n /\ p < id + 1
      BY <1>3, <1>4, <1>7, <3>1
    <3> QED BY <1>6, <3>1, <3>2
  <2> QED BY <2>1, <2>2
<1> QED BY <1>1, <1>3, <1>6, <1>12, <1>13, <1>14 DEF TableIInv

(* What comes late changes nothing, and in the order of numbers it came before. *)
LEMMA DuplicatedStep == ASSUME TableIInv, Duplicated PROVE TableIInv'
<1> DEFINE n == Len(protos)
           id == Head(stream)
<1>1. /\ order \in Seq(DOMAIN Dpi) /\ StreamLeft /\ protos \in Seq(Rows) /\ LastTold /\ ToldFound
      /\ stream # <<>> /\ stream' = Tail(stream) /\ order' = order /\ id < n
      /\ protos' = protos /\ gid' = gid
  BY DEF TableIInv, Duplicated
<1>2. PICK base : Numbered(base)
  BY DEF TableIInv
<1>3. /\ id \in Nat /\ Told' = Told \cup {id} /\ StreamLeft'
      /\ Sorted => \A p \in Told : p <= id
  BY <1>1, NextTold
<1>4. n \in Nat /\ n # 0
  <2>1. n \in Nat
    BY <1>1, LenProperties
  <2> QED BY <1>1, <1>3, <2>1
<1>5. n - 1 \in Told
  <2>1. protos # <<>>
    BY <1>1, <1>4, EmptySeq
  <2> QED BY <1>1, <2>1 DEF LastTold
<1>6. Numbered(base)'
  <2>1. \A i, b : PlaceHolds(i, b) => PlaceHolds(i, b)'
    BY <1>1, <1>3 DEF PlaceHolds
  <2> QED BY <1>1, <1>2, <2>1 DEF Numbered
<1>7. LastTold'
  BY <1>1, <1>3 DEF LastTold
<1>8. ToldFound'
  <2>1. ASSUME Sorted PROVE id \in Told
    <3>1. n - 1 <= id
      BY <1>3, <1>5, <2>1
    <3>2. id = n - 1
      BY <1>1, <1>3, <1>4, <3>1
    <3> QED BY <1>5, <3>2
  <2>2. Sorted' <=> Sorted
    BY <1>1 DEF Sorted
  <2>3. Sorted => Told' = Told
    BY <1>3, <2>1
  <2> QED BY <1>1, <2>2, <2>3 DEF ToldFound
<1> QED BY <1>1, <1>3, <1>6, <1>7, <1>8 DEF TableIInv

LEMMA TableStep == TableIInv /\ [TableNext]_tableVars => TableIInv'
<1> SUFFICES ASSUME TableIInv, [TableNext]_tableVars PROVE TableIInv'
  OBVIOUS
<1>1. CASE Protocol
  BY <1>1, ProtocolStep
<1>2. CASE Duplicated
  BY <1>2, DuplicatedStep
<1>3. CASE UNCHANGED tableVars
  <2> USE <1>3 DEF tableVars
  <2>1. Told' = Told
    BY DEF Told
  <2>2. \A b : Numbered(b)' <=> Numbered(b)
    BY <2>1 DEF Numbered, PlaceHolds
  <2>3. StreamLeft' <=> StreamLeft
    BY DEF StreamLeft
  <2>4. (LastTold' <=> LastTold) /\ (ToldFound' <=> ToldFound)
    BY <2>1 DEF LastTold, ToldFound, Sorted
  <2> QED BY <2>2, <2>3, <2>4 DEF TableIInv
<1> QED BY <1>1, <1>2, <1>3 DEF TableNext


(* Every place of a table that is right, with the rows in terms of what DPI says. *)
LEMMA PlaceOf ==
  ASSUME TableIInv, NEW base, Numbered(base), NEW id \in 0 .. Len(protos) - 1
  PROVE  LET b == base[id + 1]
             r == protos[id + 1]
         IN  /\ Len(protos) \in Nat /\ id + 1 \in 1 .. Len(protos) /\ id \in Nat /\ b \in Nat
             /\ Len(r.atts) \in Nat /\ DOMAIN r.atts = 1 .. Len(r.atts) /\ base[id + 2] = b + Len(r.atts)
             /\ \/ r.name = NoName /\ r.atts = <<>>
                \/ id \in Told /\ id \in DOMAIN Dpi /\ r = RealRow(id, b)
<1> DEFINE n == Len(protos)
           b == base[id + 1]
           r == protos[id + 1]
<1>1. n \in Nat /\ id + 1 \in 1 .. n /\ id \in Nat /\ id + 1 \in 1 .. n + 1 /\ id + 1 - 1 = id /\ id + 1 + 1 = id + 2
  <2>1. n \in Nat
    BY LenProperties DEF TableIInv
  <2> QED BY <2>1
<1>2. b \in Nat /\ base[id + 2] = b + Len(r.atts)
      /\ (r = Dummy(id) \/ (id \in Told /\ r = RealRow(id, b)))
  <2>1. base \in [1 .. n + 1 -> Nat] /\ PlaceHolds(id + 1, b) /\ base[id + 1 + 1] = b + Len(r.atts)
    BY <1>1 DEF Numbered
  <2> QED BY <1>1, <2>1 DEF PlaceHolds
<1>3. Told \subseteq DOMAIN Dpi
  <2>1. order \in Seq(DOMAIN Dpi) /\ StreamLeft
    BY DEF TableIInv
  <2> QED BY <2>1, ToldAreNumbers
<1> HIDE DEF b, r, n
<1>4. CASE r = Dummy(id)
  <2>1. r.name = NoName /\ r.atts = <<>>
    BY <1>4 DEF Dummy
  <2>2. Len(<<>>) = 0 /\ DOMAIN <<>> = 1 .. 0
    OBVIOUS
  <2>3. Len(r.atts) \in Nat /\ DOMAIN r.atts = 1 .. Len(r.atts)
    BY <2>1, <2>2
  <2> QED BY <1>1, <1>2, <2>1, <2>3 DEF b, r, n
<1>5. CASE id \in Told /\ r = RealRow(id, b)
  <2>1. id \in DOMAIN Dpi
    BY <1>3, <1>5
  <2>2. Len(r.atts) \in Nat /\ DOMAIN r.atts = 1 .. Len(r.atts)
    BY <1>2, <1>5, <2>1, RowSays
  <2> QED BY <1>1, <1>2, <1>5, <2>1, <2>2 DEF b, r, n
<1> QED BY <1>2, <1>4, <1>5

(* The first of a set of places with one element. *)
LEMMA OnlyOne ==
  ASSUME NEW i \in Nat, NEW I, i \in I, \A j \in I : j = i
  PROVE  I # {} /\ Min(I) = i
<1>1. I = {i}
  OBVIOUS
<1> QED BY <1>1 DEF Min

(* Attributes are looked up as they are written. *)
LEMMA AttributeFound ==
  ASSUME TableIInv, NEW base, Numbered(base), NEW id \in 0 .. Len(protos) - 1,
         NEW i \in DOMAIN AttributesOf(id)
  PROVE  LET a == Dpi[id].atts[i]
             w == AttributesOf(id)[i]
         IN  /\ i \in DOMAIN Dpi[id].atts /\ w.id = a.id
             /\ AttributeId(id, a.name) = a.id /\ AttributeName(id, a.id) = a.name
             /\ AttributeType(id, a.id) = DataTypes[a.type + 1]
             /\ AttributeIndex(id, a.id) = base[id + 1] + i
<1> DEFINE d == Dpi[id].atts
           b == base[id + 1]
           w == AttributesOf(id)
<1>1. /\ w = protos[id + 1].atts
      /\ id \in DOMAIN Dpi /\ protos[id + 1] = RealRow(id, b) /\ b \in Nat
  <2>1. ~(id >= Len(protos))
    BY PlaceOf
  <2>2. w = protos[id + 1].atts
    BY <2>1 DEF AttributesOf
  <2>3. w # <<>>
    OBVIOUS
  <2> HIDE DEF w
  <2> QED BY <2>2, <2>3, PlaceOf
<1> HIDE DEF w
<1>2. /\ Len(w) \in Nat /\ DOMAIN w = 1 .. Len(w) /\ DOMAIN d = 1 .. Len(w)
      /\ \A j \in 1 .. Len(w) : /\ w[j].gid = b + j /\ w[j].id = d[j].id /\ w[j].name = d[j].name
                                /\ w[j].type = DataTypes[d[j].type + 1]
  BY <1>1, RowSays
<1>3. i \in 1 .. Len(w) /\ i \in DOMAIN d /\ i \in Nat /\ i # 0
  BY <1>2 DEF w
<1>4. \A j \in 1 .. Len(w) : (d[j].id = d[i].id => j = i) /\ (d[j].name = d[i].name => j = i)
  <2>1. \A j, k \in DOMAIN d : j # k => d[j].id # d[k].id /\ d[j].name # d[k].name
    BY <1>1, DpiAssumption
  <2> HIDE DEF d
  <2> QED BY <1>2, <1>3, <2>1
<1> HIDE DEF d, b
<1>5. LET I == {j \in 1 .. Len(w) : w[j].id = d[i].id} IN I # {} /\ Min(I) = i
  <2> DEFINE I == {j \in 1 .. Len(w) : w[j].id = d[i].id}
  <2>1. i \in I /\ \A j \in I : j = i
    BY <1>2, <1>3, <1>4
  <2> HIDE DEF I
  <2>2. I # {} /\ Min(I) = i
    BY <1>3, <2>1, OnlyOne
  <2> QED BY <2>2 DEF I
<1>6. LET I == {j \in 1 .. Len(w) : w[j].name = d[i].name} IN I # {} /\ Min(I) = i
  <2> DEFINE I == {j \in 1 .. Len(w) : w[j].name = d[i].name}
  <2>1. i \in I /\ \A j \in I : j = i
    BY <1>2, <1>3, <1>4
  <2> HIDE DEF I
  <2>2. I # {} /\ Min(I) = i
    BY <1>3, <2>1, OnlyOne
  <2> QED BY <2>2 DEF I
<1>7. AttributeId(id, d[i].name) = d[i].id
  BY <1>2, <1>3, <1>6 DEF AttributeId, SelectInSeq, w
<1>8. AttributeName(id, d[i].id) = d[i].name
  BY <1>2, <1>3, <1>5 DEF AttributeName, SelectInSeq, w
<1>9. AttributeType(id, d[i].id) = DataTypes[d[i].type + 1]
  BY <1>2, <1>3, <1>5 DEF AttributeType, SelectInSeq, w
<1>10. AttributeIndex(id, d[i].id) = b + i
  BY <1>2, <1>3, <1>5 DEF AttributeIndex, SelectInSeq, w
<1> QED BY <1>2, <1>3, <1>7, <1>8, <1>9, <1>10 DEF d, b, w

(* The numbers of attributes go up with the places, and none is left out. *)
LEMMA BaseGrows ==
  ASSUME TableIInv, NEW base, Numbered(base)
  PROVE  /\ \A i, j \in 1 .. Len(protos) + 1 : i <= j => base[i] <= base[j]
         /\ \A g \in 1 .. gid : \E i \in 1 .. Len(protos) : base[i] < g /\ g <= base[i + 1]
         /\ gid \in Nat
<1> DEFINE n == Len(protos)
<1>1. n \in Nat
  BY LenProperties DEF TableIInv
<1>2. /\ base \in [1 .. n + 1 -> Nat] /\ base[1] = 0 /\ base[n + 1] = gid
      /\ \A i \in 1 .. n : base[i] \in Nat /\ base[i + 1] \in Nat /\ base[i] <= base[i + 1]
  <2>1. base \in [1 .. n + 1 -> Nat] /\ base[1] = 0 /\ base[n + 1] = gid
    BY DEF Numbered
  <2>2. ASSUME NEW i \in 1 .. n PROVE base[i] \in Nat /\ base[i + 1] \in Nat /\ base[i] <= base[i + 1]
    <3>1. i - 1 \in 0 .. Len(protos) - 1 /\ i - 1 + 1 = i /\ i - 1 + 2 = i + 1
      BY <1>1
    <3>2. base[i] \in Nat /\ Len(protos[i].atts) \in Nat /\ base[i + 1] = base[i] + Len(protos[i].atts)
      BY <3>1, PlaceOf
    <3> QED BY <3>2
  <2> QED BY <2>1, <2>2
<1> HIDE DEF n
<1> DEFINE A == {k \in 0 .. n : \A i \in 1 .. k + 1 : base[i] <= base[k + 1]}
           B == {k \in 0 .. n : \A g \in 1 .. base[k + 1] : \E i \in 1 .. k : base[i] < g /\ g <= base[i + 1]}
<1>3. 0 \in A /\ 0 \in B
  <2>1. 0 + 1 = 1 /\ 0 \in 0 .. n /\ (\A i \in 1 .. 1 : i = 1) /\ 1 .. 0 = {}
    BY <1>1
  <2>2. base[1] <= base[1]
    BY <1>2
  <2> QED BY <1>2, <2>1, <2>2
<1>4. ASSUME NEW k \in 1 .. n, k - 1 \in A PROVE k \in A
  <2>1. k - 1 + 1 = k /\ k \in 0 .. n /\ k \in 1 .. n + 1
    BY <1>1
  <2>2. base[k] \in Nat /\ base[k + 1] \in Nat /\ base[k] <= base[k + 1]
    BY <1>2
  <2>3. ASSUME NEW i \in 1 .. k + 1 PROVE base[i] <= base[k + 1]
    <3>1. i \in 1 .. k \/ i = k + 1
      OBVIOUS
    <3>2. i \in 1 .. k => base[i] <= base[k] /\ base[i] \in Nat
      <4>1. i \in 1 .. k => i \in 1 .. n + 1
        BY <1>1
      <4> QED BY <1>2, <1>4, <2>1, <4>1
    <3> QED BY <2>2, <3>1, <3>2
  <2> QED BY <2>1, <2>3
<1>5. ASSUME NEW k \in 1 .. n, k - 1 \in B PROVE k \in B
  <2>1. k - 1 + 1 = k /\ k \in 0 .. n /\ base[k] \in Nat /\ base[k + 1] \in Nat
    BY <1>1, <1>2
  <2>2. ASSUME NEW g \in 1 .. base[k + 1] PROVE \E i \in 1 .. k : base[i] < g /\ g <= base[i + 1]
    <3>1. CASE g \in 1 .. base[k]
      <4>1. PICK i \in 1 .. k - 1 : base[i] < g /\ g <= base[i + 1]
        BY <1>5, <2>1, <3>1
      <4>2. i \in 1 .. k
        BY <4>1
      <4> QED BY <4>1, <4>2
    <3>2. CASE g \notin 1 .. base[k]
      <4>1. base[k] < g /\ g <= base[k + 1]
        BY <2>1, <3>2
      <4> QED BY <4>1
    <3> QED BY <3>1, <3>2
  <2> QED BY <2>1, <2>2
<1>6. (\A k \in 0 .. n : k \in A) /\ (\A k \in 0 .. n : k \in B)
  <2> HIDE DEF A, B
  <2>1. \A k \in 0 .. n : k \in A
    BY <1>1, <1>3, <1>4, UpTo
  <2>2. \A k \in 0 .. n : k \in B
    BY <1>1, <1>3, <1>5, UpTo
  <2> QED BY <2>1, <2>2
<1>7. ASSUME NEW i \in 1 .. n + 1, NEW j \in 1 .. n + 1, i <= j PROVE base[i] <= base[j]
  <2>1. j - 1 \in 0 .. n /\ i \in 1 .. j - 1 + 1 /\ j - 1 + 1 = j
    BY <1>1, <1>7
  <2>2. j - 1 \in A
    BY <1>6, <2>1
  <2> QED BY <2>1, <2>2
<1>8. \A g \in 1 .. gid : \E i \in 1 .. n : base[i] < g /\ g <= base[i + 1]
  <2>1. n \in B
    <3>1. n \in 0 .. n
      BY <1>1
    <3> QED BY <1>6, <3>1
  <2> QED BY <1>2, <2>1
<1>9. gid \in Nat
  <2>1. n + 1 \in 1 .. n + 1
    BY <1>1
  <2> QED BY <1>2, <2>1
<1> QED BY <1>7, <1>8, <1>9 DEF n

(* An index is found only for what is in the table. *)
LEMMA IndexFound ==
  ASSUME TableIInv, NEW base, Numbered(base), NEW id \in 0 .. Len(protos) - 1, NEW att,
         AttributeIndex(id, att) # None
  PROVE  \E i \in DOMAIN AttributesOf(id) : /\ AttributesOf(id)[i].id = att
                                            /\ AttributeIndex(id, att) = base[id + 1] + i
<1> DEFINE w == AttributesOf(id)
<1>1. {j \in 1 .. Len(w) : w[j].id = att} # {}
  <2>1. SelectInSeq(w, LAMBDA a : a.id = att) # 0
    BY DEF AttributeIndex
  <2> HIDE DEF w
  <2> QED BY <2>1 DEF SelectInSeq
<1>2. DOMAIN w = 1 .. Len(w)
  <2>1. ~(id >= Len(protos)) /\ DOMAIN protos[id + 1].atts = 1 .. Len(protos[id + 1].atts)
    BY PlaceOf
  <2> QED BY <2>1 DEF AttributesOf
<1>3. PICK i \in DOMAIN w : w[i].id = att
  <2> HIDE DEF w
  <2> QED BY <1>1, <1>2
<1>4. AttributeIndex(id, att) = base[id + 1] + i
  <2>1. AttributesOf(id)[i].id = Dpi[id].atts[i].id /\ AttributeIndex(id, Dpi[id].atts[i].id) = base[id + 1] + i
    BY <1>3, AttributeFound
  <2> QED BY <1>3, <2>1
<1> QED BY <1>3, <1>4

(* The number of elements of a set that is counted. *)
LEMMA CountedBy ==
  ASSUME NEW n \in Nat, NEW T, NEW f \in [1 .. n -> T],
         \A x, y \in 1 .. n : f[x] = f[y] => x = y, \A z \in T : \E x \in 1 .. n : f[x] = z
  PROVE  Cardinality(T) = n /\ IsFiniteSet(T)
<1>1. f \in Injection(1 .. n, T)
  BY DEF Injection, IsInjective
<1>2. f \in Surjection(1 .. n, T)
  BY DEF Surjection
<1>3. ExistsBijection(1 .. n, T)
  BY <1>1, <1>2 DEF ExistsBijection, Bijection
<1> QED BY <1>3, FS_CountingElements, FS_NatBijection

LEMMA IndexesAreDistinct == TableIInv => IndexesDistinct
<1> SUFFICES ASSUME TableIInv PROVE IndexesDistinct
  OBVIOUS
<1>1. PICK base : Numbered(base)
  BY DEF TableIInv
<1> DEFINE n == Len(protos)
           all == {<<id, a.id>> : id \in 0 .. Len(protos) - 1, a \in UNION {ToSet(protos[i].atts) : i \in DOMAIN protos}}
           real == {pa \in all : AttributeIndex(pa[1], pa[2]) # None}
           Index(pa) == AttributeIndex(pa[1], pa[2])
<1>2. n \in Nat /\ gid \in Nat /\ DOMAIN protos = 1 .. n
  <2>1. n \in Nat /\ DOMAIN protos = 1 .. n
    BY LenProperties DEF TableIInv
  <2> QED BY <1>1, <2>1, BaseGrows
<1>3. ASSUME NEW id \in 0 .. n - 1, NEW i \in DOMAIN AttributesOf(id)
      PROVE  /\ base[id + 1] \in Nat /\ i \in Nat /\ 0 < i /\ base[id + 1] + i <= base[id + 2]
             /\ base[id + 2] <= gid
             /\ AttributesOf(id)[i] \in ToSet(protos[id + 1].atts)
             /\ AttributeIndex(id, AttributesOf(id)[i].id) = base[id + 1] + i
  <2>0. /\ base[id + 1] \in Nat /\ base[id + 2] = base[id + 1] + Len(protos[id + 1].atts)
        /\ DOMAIN protos[id + 1].atts = 1 .. Len(protos[id + 1].atts) /\ Len(protos[id + 1].atts) \in Nat
    BY <1>1, PlaceOf
  <2>1. /\ base[id + 1] \in Nat /\ base[id + 2] = base[id + 1] + Len(protos[id + 1].atts)
        /\ DOMAIN protos[id + 1].atts = 1 .. Len(protos[id + 1].atts) /\ Len(protos[id + 1].atts) \in Nat
        /\ ~(id >= n)
    BY <1>2, <2>0
  <2>2. AttributesOf(id) = protos[id + 1].atts
    BY <2>1 DEF AttributesOf
  <2>3. AttributesOf(id)[i].id = Dpi[id].atts[i].id /\ AttributeIndex(id, Dpi[id].atts[i].id) = base[id + 1] + i
    BY <1>1, AttributeFound
  <2>4. base[id + 2] <= gid
    <3>1. id + 2 \in 1 .. n + 1 /\ n + 1 \in 1 .. n + 1 /\ id + 2 <= n + 1
      BY <1>2
    <3>2. base[n + 1] = gid
      BY <1>1 DEF Numbered
    <3> QED BY <1>1, <3>1, <3>2, BaseGrows
  <2>5. AttributesOf(id)[i] \in ToSet(protos[id + 1].atts)
    BY <2>2 DEF ToSet
  <2>6. i \in Nat /\ 0 < i /\ base[id + 1] + i <= base[id + 1] + Len(protos[id + 1].atts)
    BY <2>1, <2>2
  <2> QED BY <2>1, <2>3, <2>4, <2>5, <2>6
<1>4. ASSUME NEW id \in 0 .. n - 1, NEW i \in DOMAIN AttributesOf(id)
      PROVE  <<id, AttributesOf(id)[i].id>> \in real
  <2>1. AttributesOf(id)[i] \in UNION {ToSet(protos[j].atts) : j \in DOMAIN protos}
    <3>1. id + 1 \in DOMAIN protos
      BY <1>2
    <3> QED BY <1>3, <3>1
  <2>2. <<id, AttributesOf(id)[i].id>> \in all
    <3> DEFINE U == UNION {ToSet(protos[j].atts) : j \in DOMAIN protos}
    <3>1. PICK a \in U : a = AttributesOf(id)[i]
      BY <2>1
    <3> HIDE DEF U
    <3>2. <<id, a.id>> \in {<<x, y.id>> : x \in 0 .. n - 1, y \in U}
      OBVIOUS
    <3> QED BY <3>1, <3>2 DEF U
  <2>3. AttributeIndex(id, AttributesOf(id)[i].id) # None
    <3>1. \A b, j \in Nat : 0 < j => b + j # -1
      OBVIOUS
    <3> QED BY <1>3, <3>1 DEF None
  <2> QED BY <2>2, <2>3
<1>5. ASSUME NEW pa \in real
      PROVE  \E id \in 0 .. n - 1 : \E i \in DOMAIN AttributesOf(id) :
               pa = <<id, AttributesOf(id)[i].id>> /\ Index(pa) = base[id + 1] + i
  <2>0. PICK id \in 0 .. n - 1 : \E a : pa = <<id, a>>
    OBVIOUS
  <2>1. PICK att : pa = <<id, att>>
    BY <2>0
  <2>2. AttributeIndex(id, att) # None
    BY <2>1
  <2>3. PICK i \in DOMAIN AttributesOf(id) : AttributesOf(id)[i].id = att /\ AttributeIndex(id, att) = base[id + 1] + i
    BY <1>1, <2>2, IndexFound
  <2> QED BY <2>1, <2>3
<1> HIDE DEF real
<1>6. \A pa \in real : Index(pa) \in 1 .. gid
  <2> SUFFICES ASSUME NEW pa \in real PROVE Index(pa) \in 1 .. gid
    OBVIOUS
  <2>0. PICK id \in 0 .. n - 1 : \E i \in DOMAIN AttributesOf(id) : Index(pa) = base[id + 1] + i
    BY <1>5
  <2>1. PICK i \in DOMAIN AttributesOf(id) : Index(pa) = base[id + 1] + i
    BY <2>0
  <2>2. base[id + 1] \in Nat /\ i \in Nat /\ 0 < i /\ base[id + 1] + i <= base[id + 2] /\ base[id + 2] <= gid
    BY <1>3
  <2>3. base[id + 2] \in Nat
    <3>1. id + 2 \in 1 .. n + 1 /\ base \in [1 .. n + 1 -> Nat]
      BY <1>1, <1>2 DEF Numbered
    <3> QED BY <3>1
  <2> HIDE DEF Index
  <2> QED BY <1>2, <2>1, <2>2, <2>3
<1>7. \A g \in 1 .. gid : \E pa \in real : Index(pa) = g
  <2> SUFFICES ASSUME NEW g \in 1 .. gid PROVE \E pa \in real : Index(pa) = g
    OBVIOUS
  <2>1. PICK j \in 1 .. n : base[j] < g /\ g <= base[j + 1]
    BY <1>1, BaseGrows
  <2>2. PICK id \in 0 .. n - 1 : id + 1 = j /\ id + 2 = j + 1
    <3>1. j - 1 \in 0 .. n - 1 /\ j - 1 + 1 = j /\ j - 1 + 2 = j + 1
      BY <1>2
    <3> QED BY <3>1
  <2>0. /\ base[id + 1] \in Nat /\ base[id + 2] = base[id + 1] + Len(protos[id + 1].atts)
        /\ DOMAIN protos[id + 1].atts = 1 .. Len(protos[id + 1].atts) /\ Len(protos[id + 1].atts) \in Nat
    BY <1>1, PlaceOf
  <2>3. /\ ~(id >= n) /\ base[j] \in Nat /\ base[j + 1] = base[j] + Len(protos[j].atts)
        /\ DOMAIN protos[j].atts = 1 .. Len(protos[j].atts) /\ Len(protos[j].atts) \in Nat
    BY <1>2, <2>0, <2>2
  <2>4. AttributesOf(id) = protos[j].atts
    BY <2>2, <2>3 DEF AttributesOf
  <2>5. PICK i : i = g - base[j]
    OBVIOUS
  <2>6. i \in 1 .. Len(protos[j].atts) /\ base[j] + i = g
    BY <1>2, <2>1, <2>3, <2>5
  <2>7. i \in DOMAIN AttributesOf(id)
    BY <2>3, <2>4, <2>6
  <2>8. Index(<<id, AttributesOf(id)[i].id>>) = g
    BY <1>3, <2>2, <2>6, <2>7
  <2> QED BY <1>4, <2>7, <2>8
<1>8. ASSUME NEW pa \in real, NEW pb \in real, Index(pa) = Index(pb) PROVE pa = pb
  <2> DEFINE At(p, x, k) == p = <<x, AttributesOf(x)[k].id>> /\ Index(p) = base[x + 1] + k
  <2>a. PICK id \in 0 .. n - 1 : \E i \in DOMAIN AttributesOf(id) : At(pa, id, i)
    BY <1>5
  <2>b. PICK jd \in 0 .. n - 1 : \E j \in DOMAIN AttributesOf(jd) : At(pb, jd, j)
    BY <1>5
  <2>1. PICK i \in DOMAIN AttributesOf(id) : At(pa, id, i)
    BY <2>a
  <2>2. PICK j \in DOMAIN AttributesOf(jd) : At(pb, jd, j)
    BY <2>b
  <2>3. /\ base[id + 1] \in Nat /\ i \in Nat /\ 0 < i /\ base[id + 1] + i <= base[id + 2]
        /\ base[jd + 1] \in Nat /\ j \in Nat /\ 0 < j /\ base[jd + 1] + j <= base[jd + 2]
    BY <1>3
  <2>4. /\ id < jd => base[id + 2] <= base[jd + 1]
        /\ jd < id => base[jd + 2] <= base[id + 1]
    <3>1. /\ id + 2 \in 1 .. n + 1 /\ jd + 1 \in 1 .. n + 1 /\ (id < jd => id + 2 <= jd + 1)
          /\ jd + 2 \in 1 .. n + 1 /\ id + 1 \in 1 .. n + 1 /\ (jd < id => jd + 2 <= id + 1)
      BY <1>2
    <3> QED BY <1>1, <3>1, BaseGrows
  <2>5. base[id + 2] \in Nat /\ base[jd + 2] \in Nat
    <3>1. id + 2 \in 1 .. n + 1 /\ jd + 2 \in 1 .. n + 1 /\ base \in [1 .. n + 1 -> Nat]
      BY <1>1, <1>2 DEF Numbered
    <3> QED BY <3>1
  <2>6. base[id + 1] + i = base[jd + 1] + j
    BY <1>8, <2>1, <2>2
  <2>7. id = jd
    BY <2>3, <2>4, <2>5, <2>6
  <2>8. i = j
    BY <2>3, <2>6, <2>7
  <2> QED BY <2>1, <2>2, <2>7, <2>8
<1> HIDE DEF Index
<1>9. {Index(pa) : pa \in real} = 1 .. gid
  BY <1>6, <1>7
<1>10. Cardinality(real) = gid
  <2> DEFINE h == [g \in 1 .. gid |-> CHOOSE pa \in real : Index(pa) = g]
  <2>1. \A g \in 1 .. gid : h[g] \in real /\ Index(h[g]) = g
    BY <1>7
  <2>2. h \in [1 .. gid -> real]
    BY <2>1
  <2> HIDE DEF h
  <2>3. \A f, g \in 1 .. gid : h[f] = h[g] => f = g
    BY <2>1
  <2>4. \A pa \in real : \E g \in 1 .. gid : h[g] = pa
    BY <1>6, <1>8, <2>1
  <2> QED BY <1>2, <2>2, <2>3, <2>4, CountedBy
<1> QED BY <1>9, <1>10 DEF IndexesDistinct, real, Index

LEMMA TableNeverWrong == TableIInv => NeverWrong
<1> SUFFICES ASSUME TableIInv, NEW id \in 0 .. Len(protos), ProtocolName(id) # NoName
             PROVE  /\ id \in Told /\ ProtocolName(id) = Dpi[id].name /\ ProtocolId(ProtocolName(id)) = id
                    /\ \A i \in DOMAIN Dpi[id].atts :
                         LET a == Dpi[id].atts[i]
                         IN  /\ AttributeId(id, a.name) = a.id /\ AttributeName(id, a.id) = a.name
                             /\ AttributeType(id, a.id) = DataTypes[a.type + 1]
  BY DEF NeverWrong
<1>1. PICK base : Numbered(base)
  BY DEF TableIInv
<1> DEFINE n == Len(protos)
<1>2. n \in Nat /\ DOMAIN protos = 1 .. n
  BY LenProperties DEF TableIInv
<1>3. id \in 0 .. n - 1 /\ ~(id >= n) /\ ProtocolName(id) = protos[id + 1].name
  <2>1. ~(id >= n)
    BY DEF ProtocolName
  <2> QED BY <1>2, <2>1 DEF ProtocolName
<1>4. id \in Told /\ id \in DOMAIN Dpi /\ protos[id + 1] = RealRow(id, base[id + 1]) /\ base[id + 1] \in Nat
  BY <1>1, <1>3, PlaceOf
<1>5. ProtocolName(id) = Dpi[id].name /\ AttributesOf(id) = protos[id + 1].atts /\ protos[id + 1].id = id
      /\ DOMAIN AttributesOf(id) = DOMAIN Dpi[id].atts
  <2>1. /\ protos[id + 1].name = Dpi[id].name /\ protos[id + 1].id = id
        /\ DOMAIN protos[id + 1].atts = DOMAIN Dpi[id].atts
    BY <1>4, RowSays
  <2> QED BY <1>3, <2>1 DEF AttributesOf
<1>6. ProtocolId(Dpi[id].name) = id
  <2> DEFINE I == {j \in 1 .. n : protos[j].name # NoName /\ protos[j].name = Dpi[id].name}
  <2>0. id + 1 \in 1 .. n /\ id + 1 \in Nat
    BY <1>2, <1>3
  <2>1. id + 1 \in I /\ id + 1 \in Nat
    <3>1. protos[id + 1].name # NoName /\ protos[id + 1].name = Dpi[id].name
      BY <1>3, <1>5
    <3> QED BY <2>0, <3>1
  <2>2. ASSUME NEW j \in I PROVE j = id + 1
    <3>1. j - 1 \in 0 .. Len(protos) - 1 /\ j - 1 + 1 = j /\ j - 1 \in Nat
      BY <1>2
    <3>2. protos[j].name # NoName /\ protos[j].name = Dpi[id].name
      OBVIOUS
    <3>3. j - 1 \in DOMAIN Dpi /\ protos[j] = RealRow(j - 1, base[j]) /\ base[j] \in Nat
      BY <1>1, <3>1, <3>2, PlaceOf
    <3>4. Dpi[j - 1].name = Dpi[id].name
      BY <3>2, <3>3, RowSays
    <3>5. j - 1 = id
      BY <1>4, <3>3, <3>4, DpiAssumption
    <3> QED BY <3>1, <3>5
  <2> HIDE DEF I
  <2>3. I # {} /\ Min(I) = id + 1
    BY <2>1, <2>2, OnlyOne
  <2>4. SelectInSeq(protos, LAMBDA p : p.name # NoName /\ p.name = Dpi[id].name) = id + 1
    BY <2>3 DEF SelectInSeq, I
  <2>5. id + 1 # 0
    BY <1>3, <2>1
  <2> QED BY <1>5, <2>4, <2>5 DEF ProtocolId
<1> QED BY <1>1, <1>3, <1>4, <1>5, <1>6, AttributeFound

(* Whatever DPI tells of, in any order and repeatedly: every lookup by name, number
   or index is right (main_gen_dpi.c, mmt_dpi.h). *)
THEOREM LookupIsRight == TableSpec => []LookupRight
<1>1. TableIInv => AllFound
  <2> SUFFICES ASSUME TableIInv, Sorted, NEW id \in Told PROVE ProtocolName(id) = Dpi[id].name
    BY DEF AllFound, Sorted
  <2>1. id < Len(protos) /\ protos[id + 1].name = Dpi[id].name
    BY DEF TableIInv, ToldFound
  <2>2. id \in Nat /\ Len(protos) \in Nat
    <3>1. order \in Seq(DOMAIN Dpi) /\ StreamLeft /\ Len(protos) \in Nat
      BY LenProperties DEF TableIInv
    <3> QED BY <3>1, ToldAreNumbers
  <2>3. ~(id >= Len(protos))
    BY <2>1, <2>2
  <2> QED BY <2>1, <2>3 DEF ProtocolName
<1>2. TableIInv => LookupRight
  BY <1>1, TableNeverWrong, IndexesAreDistinct DEF LookupRight
<1> QED BY <1>2, TableInitial, TableStep, PTL DEF TableSpec

-----------------------------------------------------------------------------
(* Lists.  One element more in front. *)
LEMMA Prepended ==
  ASSUME NEW S, NEW t \in Seq(S), NEW x \in S
  PROVE  LET u == <<x>> \o t
         IN  /\ u \in Seq(S) /\ Len(t) \in Nat /\ Len(u) = Len(t) + 1 /\ u[1] = x
             /\ DOMAIN u = 1 .. Len(t) + 1 /\ u # <<>>
             /\ \A i \in 1 .. Len(t) : u[i + 1] = t[i]
             /\ \A i \in 2 .. Len(t) + 1 : u[i] = t[i - 1]
             /\ ToSet(u) = ToSet(t) \cup {x}
             /\ IsInjective(t) /\ x \notin ToSet(t) => IsInjective(u)
<1> DEFINE u == <<x>> \o t
           n == Len(t)
<1>1. n \in Nat /\ DOMAIN t = 1 .. n
  BY LenProperties
<1>2. <<x>> \in Seq(S) /\ Len(<<x>>) = 1 /\ <<x>>[1] = x
  OBVIOUS
<1>3. u \in Seq(S) /\ Len(u) = 1 + n /\ \A i \in 1 .. 1 + n : u[i] = IF i <= 1 THEN <<x>>[i] ELSE t[i - 1]
  BY <1>2, ConcatProperties
<1> HIDE DEF u
<1>4. DOMAIN u = 1 .. n + 1 /\ Len(u) = n + 1
  <2>1. 1 + n = n + 1
    BY <1>1
  <2> QED BY <1>3, <2>1, LenProperties
<1> HIDE DEF n
<1>5. u[1] = x
  <2>1. 1 \in 1 .. 1 + n
    BY <1>1
  <2> QED BY <1>2, <1>3, <2>1
<1>6. \A i \in 2 .. n + 1 : i \in 1 .. n + 1 /\ u[i] = t[i - 1] /\ i - 1 \in 1 .. n
  <2>1. \A i \in 2 .. n + 1 : i \in 1 .. 1 + n /\ i \in 1 .. n + 1 /\ ~(i <= 1) /\ i - 1 \in 1 .. n
    BY <1>1
  <2> QED BY <1>3, <2>1
<1>7. \A i \in 1 .. n : i + 1 \in 2 .. n + 1 /\ i + 1 \in 1 .. n + 1 /\ u[i + 1] = t[i]
  <2>1. \A i \in 1 .. n : i + 1 \in 2 .. n + 1 /\ i + 1 \in 1 .. n + 1 /\ i + 1 - 1 = i
    BY <1>1
  <2> QED BY <1>6, <2>1
<1>8. \A i \in 1 .. n + 1 : i = 1 \/ i \in 2 .. n + 1
  BY <1>1
<1>9. ToSet(u) = ToSet(t) \cup {x}
  <2>1. ToSet(u) = {u[i] : i \in 1 .. n + 1} /\ ToSet(t) = {t[i] : i \in 1 .. n}
    BY <1>1, <1>4 DEF ToSet
  <2>2. 1 \in 1 .. n + 1
    BY <1>1
  <2>3. \A y \in ToSet(u) : y \in ToSet(t) \cup {x}
    BY <1>5, <1>6, <1>8, <2>1
  <2>4. \A y \in ToSet(t) : y \in ToSet(u)
    BY <1>7, <2>1
  <2> QED BY <1>5, <2>1, <2>2, <2>3, <2>4
<1>10. ASSUME IsInjective(t), x \notin ToSet(t) PROVE IsInjective(u)
  <2> SUFFICES ASSUME NEW a \in 1 .. n + 1, NEW b \in 1 .. n + 1, u[a] = u[b] PROVE a = b
    BY <1>4 DEF IsInjective
  <2>1. \A i \in 1 .. n : t[i] # x
    BY <1>1, <1>10 DEF ToSet
  <2>2. \A i \in 2 .. n + 1 : u[i] # x
    BY <1>6, <2>1
  <2>3. CASE a = 1 \/ b = 1
    BY <1>5, <1>8, <2>2, <2>3
  <2>4. CASE a \in 2 .. n + 1 /\ b \in 2 .. n + 1
    <3>1. t[a - 1] = t[b - 1] /\ a - 1 \in 1 .. n /\ b - 1 \in 1 .. n
      BY <1>6, <2>4
    <3>2. a - 1 = b - 1
      BY <1>1, <1>10, <3>1 DEF IsInjective
    <3> QED BY <3>2
  <2> QED BY <1>8, <2>3, <2>4
<1>11. u # <<>>
  <2>1. n + 1 # 0
    BY <1>1
  <2> QED BY <1>4, <2>1
<1> QED BY <1>1, <1>3, <1>4, <1>5, <1>6, <1>7, <1>9, <1>10, <1>11 DEF u, n

(* One element less. *)
LEMMA Removed ==
  ASSUME NEW S, NEW t \in Seq(S), NEW k \in 1 .. Len(t)
  PROVE  LET u == RemoveAt(t, k)
         IN  /\ u \in Seq(S) /\ Len(t) \in Nat /\ Len(u) = Len(t) - 1 /\ DOMAIN u = 1 .. Len(t) - 1
             /\ \A i \in 1 .. k - 1 : u[i] = t[i]
             /\ \A i \in k .. Len(t) - 1 : u[i] = t[i + 1]
             /\ IsInjective(t) => IsInjective(u) /\ ToSet(u) = ToSet(t) \ {t[k]}
<1> DEFINE n == Len(t)
           a == SubSeq(t, 1, k - 1)
           b == SubSeq(t, k + 1, n)
           u == RemoveAt(t, k)
<1>1. n \in Nat /\ DOMAIN t = 1 .. n /\ \A i \in 1 .. n : t[i] \in S
  BY LenProperties, ElementOfSeq
<1> HIDE DEF n
<1>2. k \in 1 .. n
  BY DEF n
<1>3. a \in Seq(S) /\ Len(a) = k - 1 /\ \A i \in 1 .. k - 1 : a[i] = t[i]
  <2>1. k - 1 \in Int /\ 1 \in Int /\ (\A i \in 1 .. k - 1 : t[i] \in S) /\ (k - 1) - 1 + 1 = k - 1
        /\ (IF 1 <= k - 1 THEN (k - 1) - 1 + 1 ELSE 0) = k - 1 /\ \A i \in 1 .. k - 1 : 1 + i - 1 = i
    BY <1>1, <1>2
  <2>2. /\ SubSeq(t, 1, k - 1) \in Seq(S)
        /\ Len(SubSeq(t, 1, k - 1)) = (IF 1 <= k - 1 THEN (k - 1) - 1 + 1 ELSE 0)
        /\ \A i \in 1 .. (k - 1) - 1 + 1 : SubSeq(t, 1, k - 1)[i] = t[1 + i - 1]
    BY <2>1, SubSeqProperties
  <2> QED BY <2>1, <2>2
<1>4. b \in Seq(S) /\ Len(b) = n - k /\ \A i \in 1 .. n - k : b[i] = t[k + i]
  <2>1. k + 1 \in Int /\ n \in Int /\ (\A i \in k + 1 .. n : t[i] \in S) /\ n - (k + 1) + 1 = n - k
        /\ (IF k + 1 <= n THEN n - (k + 1) + 1 ELSE 0) = n - k /\ \A i \in 1 .. n - k : k + 1 + i - 1 = k + i
    BY <1>1, <1>2
  <2>2. /\ SubSeq(t, k + 1, n) \in Seq(S)
        /\ Len(SubSeq(t, k + 1, n)) = (IF k + 1 <= n THEN n - (k + 1) + 1 ELSE 0)
        /\ \A i \in 1 .. n - (k + 1) + 1 : SubSeq(t, k + 1, n)[i] = t[k + 1 + i - 1]
    BY <2>1, SubSeqProperties
  <2> QED BY <2>1, <2>2
<1>5. u = a \o b
  BY DEF RemoveAt, n
<1> HIDE DEF a, b, u
<1>6. /\ u \in Seq(S) /\ Len(u) = (k - 1) + (n - k)
      /\ \A i \in 1 .. (k - 1) + (n - k) : u[i] = IF i <= k - 1 THEN a[i] ELSE b[i - (k - 1)]
  BY <1>3, <1>4, <1>5, ConcatProperties
<1>7. (k - 1) + (n - k) = n - 1
  BY <1>1, <1>2
<1>8. \A i \in 1 .. k - 1 : u[i] = t[i]
  <2>1. \A i \in 1 .. k - 1 : i \in 1 .. n - 1 /\ i <= k - 1
    BY <1>1, <1>2
  <2> QED BY <1>3, <1>6, <1>7, <2>1
<1>9. \A i \in k .. n - 1 : u[i] = t[i + 1]
  <2>1. \A i \in k .. n - 1 : i \in 1 .. n - 1 /\ ~(i <= k - 1) /\ i - (k - 1) \in 1 .. n - k /\ k + (i - (k - 1)) = i + 1
    BY <1>1, <1>2
  <2> QED BY <1>4, <1>6, <1>7, <2>1
<1>10. DOMAIN u = 1 .. n - 1
  BY <1>6, <1>7, LenProperties
<1>11. ASSUME IsInjective(t) PROVE IsInjective(u) /\ ToSet(u) = ToSet(t) \ {t[k]}
  <2>1. \A x, y \in 1 .. n : t[x] = t[y] => x = y
    BY <1>1, <1>11 DEF IsInjective
  <2>2. \A i \in 1 .. n - 1 : i \in 1 .. k - 1 \/ i \in k .. n - 1
    BY <1>1, <1>2
  <2>3. PICK f : f = [i \in 1 .. n - 1 |-> IF i < k THEN i ELSE i + 1]
    OBVIOUS
  <2>4. \A i \in 1 .. n - 1 : f[i] \in 1 .. n /\ f[i] # k /\ u[i] = t[f[i]]
    <3>1. \A i \in 1 .. k - 1 : i \in 1 .. n - 1 /\ f[i] = i /\ i \in 1 .. n /\ i # k
      BY <1>1, <1>2, <2>3
    <3>2. \A i \in k .. n - 1 : i \in 1 .. n - 1 /\ f[i] = i + 1 /\ i + 1 \in 1 .. n /\ i + 1 # k
      BY <1>1, <1>2, <2>3
    <3> QED BY <1>8, <1>9, <2>2, <3>1, <3>2
  <2>5. \A x, y \in 1 .. n - 1 : f[x] = f[y] => x = y
    BY <1>1, <1>2, <2>3
  <2>6. \A j \in 1 .. n : j # k => \E i \in 1 .. n - 1 : f[i] = j
    <3> SUFFICES ASSUME NEW j \in 1 .. n, j # k PROVE \E i \in 1 .. n - 1 : f[i] = j
      OBVIOUS
    <3>1. CASE j < k
      <4>1. j \in 1 .. n - 1 /\ f[j] = j
        BY <1>1, <1>2, <2>3, <3>1
      <4> QED BY <4>1
    <3>2. CASE j > k
      <4>1. j - 1 \in 1 .. n - 1 /\ f[j - 1] = j
        BY <1>1, <1>2, <2>3, <3>2
      <4> QED BY <4>1
    <3> QED BY <1>2, <3>1, <3>2
  <2>7. IsInjective(u)
    <3> SUFFICES ASSUME NEW x \in 1 .. n - 1, NEW y \in 1 .. n - 1, u[x] = u[y] PROVE x = y
      BY <1>10 DEF IsInjective
    <3>1. t[f[x]] = t[f[y]]
      BY <2>4
    <3>2. f[x] = f[y]
      BY <2>1, <2>4, <3>1
    <3> QED BY <2>5, <3>2
  <2>8. ToSet(u) = {u[i] : i \in 1 .. n - 1} /\ ToSet(t) = {t[i] : i \in 1 .. n}
    BY <1>1, <1>10 DEF ToSet
  <2>9. ASSUME NEW y \in ToSet(u) PROVE y \in ToSet(t) /\ y # t[k]
    <3>1. PICK i \in 1 .. n - 1 : y = u[i]
      BY <2>8
    <3>2. y = t[f[i]] /\ f[i] \in 1 .. n /\ f[i] # k
      BY <2>4, <3>1
    <3> QED BY <1>2, <2>1, <2>8, <3>2
  <2>10. ASSUME NEW y \in ToSet(t), y # t[k] PROVE y \in ToSet(u)
    <3>1. PICK j \in 1 .. n : y = t[j]
      BY <2>8
    <3>2. j # k
      BY <2>10, <3>1
    <3>3. PICK i \in 1 .. n - 1 : f[i] = j
      BY <2>6, <3>2
    <3> QED BY <2>4, <2>8, <3>1, <3>3
  <2> QED BY <2>7, <2>9, <2>10
<1> QED BY <1>1, <1>6, <1>7, <1>8, <1>9, <1>10, <1>11 DEF u, n

(* The same, of u by its name. *)
Taken(u, t, k, S) ==
  /\ u \in Seq(S) /\ Len(u) = Len(t) - 1
  /\ \A i \in 1 .. k - 1 : u[i] = t[i]
  /\ \A i \in k .. Len(t) - 1 : u[i] = t[i + 1]
  /\ IsInjective(t) => IsInjective(u) /\ ToSet(u) = ToSet(t) \ {t[k]}

LEMMA RemovedIsTaken ==
  ASSUME NEW S, NEW t \in Seq(S), NEW k \in 1 .. Len(t), NEW u, u = RemoveAt(t, k)
  PROVE  Taken(u, t, k, S)
BY Removed DEF Taken

(* A node, and what changing one of its links leaves. *)
IsNode(r) == r = [data |-> r.data, prev |-> r.prev, next |-> r.next]

LEMMA NewNode ==
  ASSUME NEW d, NEW p, NEW q
  PROVE  LET r == [data |-> d, prev |-> p, next |-> q]
         IN  IsNode(r) /\ r.data = d /\ r.prev = p /\ r.next = q
BY DEF IsNode

LEMMA PrevChanged ==
  ASSUME NEW r, IsNode(r), NEW p, NEW q, q = [r EXCEPT !.prev = p]
  PROVE  IsNode(q) /\ q.data = r.data /\ q.prev = p /\ q.next = r.next
<1>1. PICK a, b, c : r = [data |-> a, prev |-> b, next |-> c]
  BY DEF IsNode
<1>2. q = [data |-> a, prev |-> p, next |-> c]
  BY <1>1
<1> QED BY <1>1, <1>2, NewNode

LEMMA NextChanged ==
  ASSUME NEW r, IsNode(r), NEW p, NEW q, q = [r EXCEPT !.next = p]
  PROVE  IsNode(q) /\ q.data = r.data /\ q.prev = r.prev /\ q.next = p
<1>1. PICK a, b, c : r = [data |-> a, prev |-> b, next |-> c]
  BY DEF IsNode
<1>2. q = [data |-> a, prev |-> b, next |-> p]
  BY <1>1
<1> QED BY <1>1, <1>2, NewNode

(* The nodes of a list in their order, with the links between them. *)
Chained(s) ==
  /\ s \in Seq(NodeIds) /\ IsInjective(s) /\ ToSet(s) = DOMAIN node
  /\ head = (IF s = <<>> THEN 0 ELSE s[1])
  /\ \A i \in 1 .. Len(s) :
       /\ IsNode(node[s[i]])
       /\ node[s[i]].prev = (IF i = 1 THEN 0 ELSE s[i - 1])
       /\ node[s[i]].next = (IF i = Len(s) THEN 0 ELSE s[i + 1])

(* The nodes a walk has still to go through are the last ones of the list. *)
Walking(s) ==
  walk # NoWalk =>
    \E j \in 0 .. Len(due), m \in 0 .. Len(s) :
      /\ seen = SubSeq(due, 1, j) /\ Len(s) - m = Len(due) - j
      /\ \A i \in 1 .. Len(due) - j : s[m + i] = due[j + i]
      /\ walk.next = (IF j = Len(due) THEN 0 ELSE due[j + 1])
      /\ walk.at > 0 => \E i \in 1 .. m : walk.at = s[i]

WalkTypes ==
  /\ due \in Seq(NodeIds)
  /\ walk = NoWalk \/ walk \in [at : {0} \cup NodeIds, next : {0} \cup NodeIds]

ListIInv == WalkTypes /\ \E s : Chained(s) /\ Walking(s)

(* What is linked to what. *)
LEMMA ChainSays ==
  ASSUME NEW s, Chained(s)
  PROVE  /\ s \in Seq(NodeIds) /\ Len(s) \in Nat /\ DOMAIN s = 1 .. Len(s)
         /\ DOMAIN node \subseteq NodeIds /\ 0 \notin DOMAIN node
         /\ Len(s) <= Cardinality(NodeIds) /\ Cardinality(NodeIds) \in Nat
         /\ s = <<>> <=> Len(s) = 0
         /\ \A i \in 1 .. Len(s) : /\ s[i] \in DOMAIN node /\ s[i] \in NodeIds /\ s[i] # 0
                                   /\ node[s[i]].prev = (IF i = 1 THEN 0 ELSE s[i - 1])
                                   /\ node[s[i]].next = (IF i = Len(s) THEN 0 ELSE s[i + 1])
                                   /\ s[i] = head <=> i = 1
         /\ \A x \in DOMAIN node : \E i \in 1 .. Len(s) : s[i] = x
         /\ \A i, j \in 1 .. Len(s) : s[i] = s[j] => i = j
<1> DEFINE n == Len(s)
<1>1. s \in Seq(NodeIds) /\ n \in Nat /\ DOMAIN s = 1 .. n /\ \A i \in 1 .. n : s[i] \in NodeIds
  BY LenProperties, ElementOfSeq DEF Chained
<1>2. s = <<>> <=> n = 0
  BY <1>1, EmptySeq
<1> HIDE DEF n
<1>3. DOMAIN node = {s[i] : i \in 1 .. n}
  BY <1>1 DEF Chained, ToSet
<1>4. NodeIds \subseteq Nat \ {0} /\ IsFiniteSet(NodeIds)
  BY ListAssumption
<1>5. \A i, j \in 1 .. n : s[i] = s[j] => i = j
  BY <1>1 DEF Chained, IsInjective
<1>6. n <= Cardinality(NodeIds) /\ Cardinality(NodeIds) \in Nat
  <2>1. s \in [1 .. n -> DOMAIN node]
    <3>1. s \in [1 .. n -> NodeIds]
      BY <1>1, LenProperties DEF n
    <3> QED BY <1>3, <3>1
  <2>2. Cardinality(DOMAIN node) = n
    BY <1>1, <1>3, <1>5, <2>1, CountedBy
  <2>3. DOMAIN node \subseteq NodeIds
    BY <1>1, <1>3
  <2> QED BY <1>4, <2>2, <2>3, FS_Subset, FS_CardinalityType
<1>7. ASSUME NEW i \in 1 .. n
      PROVE  /\ s[i] \in DOMAIN node /\ s[i] # 0
             /\ node[s[i]].prev = (IF i = 1 THEN 0 ELSE s[i - 1])
             /\ node[s[i]].next = (IF i = n THEN 0 ELSE s[i + 1])
             /\ s[i] = head <=> i = 1
  <2>1. /\ node[s[i]].prev = (IF i = 1 THEN 0 ELSE s[i - 1])
        /\ node[s[i]].next = (IF i = n THEN 0 ELSE s[i + 1])
    BY DEF Chained, n
  <2>2. 1 \in 1 .. n /\ head = s[1]
    BY <1>1, <1>2 DEF Chained
  <2>3. s[i] \in DOMAIN node
    BY <1>3
  <2>4. s[i] # 0
    BY <1>1, <1>4
  <2>5. s[i] = head <=> i = 1
    BY <1>5, <2>2
  <2>6. /\ node[s[i]].prev = (IF i = 1 THEN 0 ELSE s[i - 1])
        /\ node[s[i]].next = (IF i = n THEN 0 ELSE s[i + 1])
    BY <2>1
  <2> QED BY <2>3, <2>4, <2>5, <2>6
<1>8. DOMAIN node \subseteq NodeIds /\ 0 \notin DOMAIN node
  <2>1. DOMAIN node \subseteq NodeIds
    BY <1>1, <1>3
  <2> QED BY <1>4, <2>1
<1>9. \A x \in DOMAIN node : \E i \in 1 .. n : s[i] = x
  BY <1>3
<1> QED BY <1>1, <1>2, <1>5, <1>6, <1>7, <1>8, <1>9 DEF n

(* Going from node to node, up to the end. *)
ReachIt(f) ==
  f = [k \in 0 .. Cardinality(NodeIds) |->
         IF k = 0 THEN head ELSE IF f[k - 1] \in DOMAIN node THEN node[f[k - 1]].next ELSE 0]

LEMMA FromIs ==
  ASSUME NEW s, Chained(s)
  PROVE  From(head) = s
<1> DEFINE N == Cardinality(NodeIds)
           n == Len(s)
           w == [k \in 0 .. N |-> IF k < n THEN s[k + 1] ELSE 0]
           it == CHOOSE f : ReachIt(f)
<1>1. /\ N \in Nat /\ n \in Nat /\ n <= N /\ 0 \notin DOMAIN node
      /\ \A i \in 1 .. n : s[i] \in DOMAIN node /\ node[s[i]].next = (IF i = n THEN 0 ELSE s[i + 1])
      /\ head = (IF n = 0 THEN 0 ELSE s[1])
  BY ChainSays DEF Chained
<1> HIDE DEF N, n
<1>2. ASSUME NEW k \in 1 .. N
      PROVE  /\ k \in 0 .. N /\ k - 1 \in 0 .. N
             /\ w[k] = IF w[k - 1] \in DOMAIN node THEN node[w[k - 1]].next ELSE 0
  <2>1. k \in 0 .. N /\ k - 1 \in 0 .. N /\ k - 1 + 1 = k
    BY <1>1
  <2>2. CASE k - 1 < n
    <3>1. k \in 1 .. n /\ w[k - 1] = s[k]
      BY <1>1, <2>1, <2>2
    <3>2. w[k] = IF k = n THEN 0 ELSE s[k + 1]
      <4>1. k < n <=> k # n
        BY <1>1, <3>1
      <4> QED BY <2>1, <4>1
    <3> HIDE DEF w
    <3> QED BY <1>1, <2>1, <3>1, <3>2
  <2>3. CASE ~(k - 1 < n)
    <3>1. ~(k < n)
      BY <1>1, <2>3
    <3>2. w[k - 1] = 0 /\ w[k] = 0
      BY <2>1, <2>3, <3>1
    <3> HIDE DEF w
    <3> QED BY <1>1, <2>1, <3>2
  <2> QED BY <2>2, <2>3
<1>3. w[0] = head
  <2>1. 0 \in 0 .. N /\ 0 + 1 = 1 /\ (0 < n <=> n # 0)
    BY <1>1
  <2> QED BY <1>1, <2>1
<1>4. ReachIt(w)
  <2>1. \A k \in 0 .. N : w[k] = IF k = 0 THEN head ELSE IF w[k - 1] \in DOMAIN node THEN node[w[k - 1]].next ELSE 0
    <3>1. \A k \in 0 .. N : k = 0 \/ k \in 1 .. N
      BY <1>1
    <3> HIDE DEF w
    <3> QED BY <1>2, <1>3, <3>1
  <2>2. w = [k \in 0 .. N |-> w[k]]
    OBVIOUS
  <2> HIDE DEF w
  <2>3. w = [k \in 0 .. N |-> IF k = 0 THEN head ELSE IF w[k - 1] \in DOMAIN node THEN node[w[k - 1]].next ELSE 0]
    BY <2>1, <2>2
  <2> QED BY <2>3 DEF ReachIt, N
<1>5. ReachIt(it)
  <2> HIDE DEF w
  <2> QED BY <1>4
<1> HIDE DEF it
<1>6. \A k \in 0 .. N : it[k] = w[k]
  <2> DEFINE A == {k \in 0 .. N : it[k] = w[k]}
  <2>1. it[0] = head /\ \A k \in 1 .. N : it[k] = IF it[k - 1] \in DOMAIN node THEN node[it[k - 1]].next ELSE 0
    <3>1. it = [k \in 0 .. N |-> IF k = 0 THEN head ELSE IF it[k - 1] \in DOMAIN node THEN node[it[k - 1]].next ELSE 0]
      BY <1>5 DEF ReachIt, N
    <3>2. 0 \in 0 .. N /\ \A k \in 1 .. N : k \in 0 .. N /\ k # 0
      BY <1>1
    <3> QED BY <3>1, <3>2
  <2> HIDE DEF w
  <2>2. 0 \in A
    BY <1>1, <1>3, <2>1
  <2>3. \A k \in 1 .. N : k - 1 \in A => k \in A
    BY <1>2, <2>1
  <2> HIDE DEF A
  <2>4. \A k \in 0 .. N : k \in A
    BY <1>1, <2>2, <2>3, UpTo
  <2> QED BY <2>4 DEF A
<1>7. {k \in 0 .. N - 1 : it[k] \in DOMAIN node} = 0 .. n - 1
  <2>1. \A k \in 0 .. N - 1 : k \in 0 .. N
    BY <1>1
  <2>2. \A k \in 0 .. n - 1 : k \in 0 .. N - 1 /\ k \in 0 .. N /\ it[k] \in DOMAIN node
    <3>1. \A k \in 0 .. n - 1 : k \in 0 .. N - 1 /\ k \in 0 .. N /\ k < n /\ k + 1 \in 1 .. n
      BY <1>1
    <3> QED BY <1>1, <1>6, <3>1
  <2>3. \A k \in 0 .. N - 1 : it[k] \in DOMAIN node => k \in 0 .. n - 1
    <3>1. \A k \in 0 .. N - 1 : ~(k < n) => it[k] = 0
      BY <1>6, <2>1
    <3> QED BY <1>1, <3>1
  <2> QED BY <2>2, <2>3
<1>8. Cardinality(0 .. n - 1) = n
  <2>1. 0 \in Int /\ n - 1 \in Int /\ (IF 0 > n - 1 THEN 0 ELSE n - 1 - 0 + 1) = n
    BY <1>1
  <2> QED BY <2>1, FS_Interval
<1>9. From(head) = [k \in 1 .. n |-> it[k - 1]]
  <2>1. From(head) = [k \in 1 .. Cardinality({k \in 0 .. N - 1 : it[k] \in DOMAIN node}) |-> it[k - 1]]
    BY DEF From, ReachIt, it, N
  <2> QED BY <1>7, <1>8, <2>1
<1>10. \A k \in 1 .. n : it[k - 1] = s[k]
  <2>1. \A k \in 1 .. n : k - 1 \in 0 .. N /\ k - 1 < n /\ k - 1 + 1 = k
    BY <1>1
  <2> QED BY <1>6, <2>1
<1>11. s = [k \in 1 .. n |-> s[k]]
  <2>1. s \in [1 .. n -> NodeIds]
    BY ChainSays, LenProperties DEF n
  <2> QED BY <2>1
<1> QED BY <1>9, <1>10, <1>11

(* A list that is empty. *)
LEMMA ListInitial == ListInit => ListIInv
<1> SUFFICES ASSUME ListInit PROVE ListIInv
  OBVIOUS
<1>1. head = 0 /\ node = <<>> /\ walk = NoWalk /\ due = <<>>
  BY DEF ListInit
<1>2. Chained(<<>>)
  BY <1>1 DEF Chained, IsInjective, ToSet
<1>3. Walking(<<>>) /\ WalkTypes
  BY <1>1 DEF Walking, WalkTypes
<1> QED BY <1>2, <1>3 DEF ListIInv

(* A new node in front, and one behind. *)
LEMMA InsertStep ==
  ASSUME NEW s, Chained(s), NEW d, NEW x \in Memory,
         node' = [m \in DOMAIN node \cup {x} |->
                    CASE m = x    -> [data |-> d, prev |-> 0, next |-> head]
                      [] m = head -> [node[m] EXCEPT !.prev = x]
                      [] OTHER    -> node[m]],
         head' = x
  PROVE  Chained(<<x>> \o s)' /\ node'[x].data = d /\ \A m \in DOMAIN node : node'[m].data = node[m].data
<1> DEFINE n == Len(s)
<1>1. x \in NodeIds /\ x \notin DOMAIN node /\ DOMAIN node' = DOMAIN node \cup {x}
  BY DEF Memory
<1>2. s \in Seq(NodeIds) /\ ToSet(s) = DOMAIN node /\ IsInjective(s)
  BY DEF Chained
<1>3. PICK u : u = <<x>> \o s
  OBVIOUS
<1>4. /\ u \in Seq(NodeIds) /\ n \in Nat /\ Len(u) = n + 1 /\ u[1] = x /\ u # <<>>
      /\ \A i \in 1 .. n : u[i + 1] = s[i]
      /\ \A i \in 2 .. n + 1 : u[i] = s[i - 1]
      /\ ToSet(u) = DOMAIN node' /\ IsInjective(u)
  BY <1>1, <1>2, <1>3, Prepended
<1>5. /\ DOMAIN s = 1 .. n /\ (s = <<>> <=> n = 0)
      /\ \A i \in 1 .. n : /\ s[i] \in DOMAIN node /\ (s[i] = head <=> i = 1)
                           /\ IsNode(node[s[i]])
                           /\ node[s[i]].prev = (IF i = 1 THEN 0 ELSE s[i - 1])
                           /\ node[s[i]].next = (IF i = n THEN 0 ELSE s[i + 1])
  BY ChainSays DEF Chained
<1>6. head = (IF n = 0 THEN 0 ELSE s[1])
  BY <1>5 DEF Chained
<1> HIDE DEF n
<1>7. IsNode(node'[x]) /\ node'[x].data = d /\ node'[x].prev = 0 /\ node'[x].next = head
  <2>1. x # head
    <3>1. n # 0 => 1 \in 1 .. n /\ s[1] \in DOMAIN node
      BY <1>4, <1>5
    <3> QED BY <1>1, <1>6, <3>1, ListAssumption
  <2>2. x \in DOMAIN node \cup {x}
    OBVIOUS
  <2>3. node'[x] = [data |-> d, prev |-> 0, next |-> head]
    BY <2>1, <2>2
  <2> QED BY <2>3, NewNode
<1>8. ASSUME NEW m \in DOMAIN node PROVE node'[m] = IF m = head THEN [node[m] EXCEPT !.prev = x] ELSE node[m]
  <2>1. m # x /\ m \in DOMAIN node \cup {x}
    BY <1>1
  <2> QED BY <2>1
<1>9. ASSUME NEW i \in 1 .. n
      PROVE  /\ IsNode(node'[s[i]]) /\ node'[s[i]].data = node[s[i]].data
             /\ node'[s[i]].prev = (IF i = 1 THEN x ELSE s[i - 1])
             /\ node'[s[i]].next = (IF i = n THEN 0 ELSE s[i + 1])
  <2>0. /\ s[i] \in DOMAIN node /\ (s[i] = head <=> i = 1) /\ IsNode(node[s[i]])
        /\ node[s[i]].prev = (IF i = 1 THEN 0 ELSE s[i - 1])
        /\ node[s[i]].next = (IF i = n THEN 0 ELSE s[i + 1])
    BY <1>5
  <2>1. CASE i = 1
    <3>1. node'[s[i]] = [node[s[i]] EXCEPT !.prev = x]
      BY <1>8, <2>0, <2>1
    <3>2. /\ IsNode(node'[s[i]]) /\ node'[s[i]].data = node[s[i]].data
          /\ node'[s[i]].prev = x /\ node'[s[i]].next = node[s[i]].next
      BY <2>0, <3>1, PrevChanged
    <3> QED BY <2>0, <2>1, <3>2
  <2>2. CASE i # 1
    <3>1. node'[s[i]] = node[s[i]]
      BY <1>8, <2>0, <2>2
    <3> QED BY <2>0, <2>2, <3>1
  <2> QED BY <2>1, <2>2
<1>10. \A m \in DOMAIN node : node'[m].data = node[m].data
  <2>1. \A m \in DOMAIN node : \E i \in 1 .. n : s[i] = m
    BY <1>2, <1>5 DEF ToSet
  <2> SUFFICES ASSUME NEW m \in DOMAIN node PROVE node'[m].data = node[m].data
    OBVIOUS
  <2>2. PICK i \in 1 .. n : s[i] = m
    BY <2>1
  <2>3. node'[s[i]].data = node[s[i]].data
    BY <1>9
  <2> QED BY <2>2, <2>3
<1>11. ASSUME NEW i \in 1 .. n + 1
       PROVE  /\ IsNode(node'[u[i]])
              /\ node'[u[i]].prev = (IF i = 1 THEN 0 ELSE u[i - 1])
              /\ node'[u[i]].next = (IF i = n + 1 THEN 0 ELSE u[i + 1])
  <2>1. CASE i = 1
    <3>1. head = IF i = n + 1 THEN 0 ELSE u[i + 1]
      <4>1. n = 0 <=> 1 = n + 1
        BY <1>4
      <4>2. n # 0 => 1 \in 1 .. n
        BY <1>4
      <4> QED BY <1>4, <1>6, <2>1, <4>1, <4>2
    <3> QED BY <1>4, <1>7, <2>1, <3>1
  <2>2. CASE i # 1
    <3>1. PICK j \in 1 .. n : i = j + 1 /\ i - 1 = j /\ (j = n <=> i = n + 1)
      <4>1. i - 1 \in 1 .. n /\ i = i - 1 + 1 /\ (i - 1 = n <=> i = n + 1)
        BY <1>4, <2>2
      <4> QED BY <4>1
    <3>2. u[i] = s[j] /\ (j # n => u[i + 1] = s[j + 1])
      <4>1. j # n => j + 1 \in 1 .. n
        BY <1>4
      <4> QED BY <1>4, <3>1, <4>1
    <3>3. u[i - 1] = (IF j = 1 THEN x ELSE s[j - 1])
      <4>1. j # 1 => j - 1 \in 1 .. n /\ j - 1 + 1 = j
        BY <1>4
      <4> QED BY <1>4, <3>1, <4>1
    <3>4. /\ IsNode(node'[s[j]]) /\ node'[s[j]].prev = (IF j = 1 THEN x ELSE s[j - 1])
          /\ node'[s[j]].next = (IF j = n THEN 0 ELSE s[j + 1])
      BY <1>9
    <3> QED BY <2>2, <3>1, <3>2, <3>3, <3>4
  <2> QED BY <2>1, <2>2
<1>12. Chained(u)'
  <2>1. /\ u \in Seq(NodeIds) /\ Len(u) = n + 1
        /\ ToSet(u) = DOMAIN node' /\ IsInjective(u)
    BY <1>4
  <2>2. head' = (IF u = <<>> THEN 0 ELSE u[1])
    BY <1>4
  <2>3. \A i \in 1 .. Len(u) :
          /\ IsNode(node'[u[i]])
          /\ node'[u[i]].prev = (IF i = 1 THEN 0 ELSE u[i - 1])
          /\ node'[u[i]].next = (IF i = Len(u) THEN 0 ELSE u[i + 1])
    BY <1>11, <2>1
  <2> QED BY <2>1, <2>2, <2>3 DEF Chained
<1>13. node'[x].data = d
  BY <1>7
<1> QED BY <1>3, <1>10, <1>12, <1>13

LEMMA AddStep ==
  ASSUME NEW s, Chained(s), NEW d, NEW x \in Memory, NEW tail,
         tail = (IF head = 0 THEN 0 ELSE Last(From(head))),
         node' = [m \in DOMAIN node \cup {x} |->
                    CASE m = x    -> [data |-> d, prev |-> tail, next |-> 0]
                      [] m = tail -> [node[m] EXCEPT !.next = x]
                      [] OTHER    -> node[m]],
         head' = IF tail = 0 THEN x ELSE head
  PROVE  Chained(Append(s, x))' /\ node'[x].data = d /\ \A m \in DOMAIN node : node'[m].data = node[m].data
<1> DEFINE n == Len(s)
<1>1. x \in NodeIds /\ x \notin DOMAIN node /\ DOMAIN node' = DOMAIN node \cup {x}
  BY DEF Memory
<1>2. s \in Seq(NodeIds) /\ ToSet(s) = DOMAIN node /\ IsInjective(s)
  BY DEF Chained
<1>3. PICK u : u = Append(s, x)
  OBVIOUS
<1>4. /\ u \in Seq(NodeIds) /\ n \in Nat /\ Len(u) = n + 1 /\ u[n + 1] = x
      /\ \A i \in 1 .. n : u[i] = s[i]
      /\ ToSet(u) = DOMAIN node' /\ IsInjective(u)
  BY <1>1, <1>2, <1>3, Appended
<1>5. /\ DOMAIN s = 1 .. n /\ (s = <<>> <=> n = 0)
      /\ \A i \in 1 .. n : /\ s[i] \in DOMAIN node /\ s[i] # 0 /\ (s[i] = head <=> i = 1)
                           /\ IsNode(node[s[i]])
                           /\ node[s[i]].prev = (IF i = 1 THEN 0 ELSE s[i - 1])
                           /\ node[s[i]].next = (IF i = n THEN 0 ELSE s[i + 1])
      /\ \A i, j \in 1 .. n : s[i] = s[j] => i = j
  BY ChainSays DEF Chained
<1>6. head = (IF n = 0 THEN 0 ELSE s[1])
  BY <1>5 DEF Chained
<1>7. tail = (IF n = 0 THEN 0 ELSE s[n])
  <2>1. n # 0 => 1 \in 1 .. n
    BY <1>4
  <2>2. head = 0 <=> n = 0
    BY <1>5, <1>6, <2>1
  <2> QED BY <2>2, FromIs DEF Last
<1> HIDE DEF n
<1>8. IsNode(node'[x]) /\ node'[x].data = d /\ node'[x].prev = tail /\ node'[x].next = 0
  <2>1. x # tail
    <3>1. n # 0 => n \in 1 .. n /\ s[n] \in DOMAIN node
      BY <1>4, <1>5
    <3> QED BY <1>1, <1>7, <3>1, ListAssumption
  <2>2. x \in DOMAIN node \cup {x}
    OBVIOUS
  <2>3. node'[x] = [data |-> d, prev |-> tail, next |-> 0]
    BY <2>1, <2>2
  <2> QED BY <2>3, NewNode
<1>0. ASSUME NEW m \in DOMAIN node PROVE node'[m] = IF m = tail THEN [node[m] EXCEPT !.next = x] ELSE node[m]
  <2>1. m # x /\ m \in DOMAIN node \cup {x}
    BY <1>1
  <2> QED BY <2>1
<1>9. ASSUME NEW i \in 1 .. n
      PROVE  /\ IsNode(node'[s[i]]) /\ node'[s[i]].data = node[s[i]].data
             /\ node'[s[i]].prev = (IF i = 1 THEN 0 ELSE s[i - 1])
             /\ node'[s[i]].next = (IF i = n THEN x ELSE s[i + 1])
  <2>1. n # 0 /\ n \in 1 .. n
    BY <1>4
  <2>2. s[i] = tail <=> i = n
    BY <1>5, <1>7, <2>1
  <2>0. /\ s[i] \in DOMAIN node /\ IsNode(node[s[i]])
        /\ node[s[i]].prev = (IF i = 1 THEN 0 ELSE s[i - 1])
        /\ node[s[i]].next = (IF i = n THEN 0 ELSE s[i + 1])
    BY <1>5
  <2>3. CASE i = n
    <3>1. node'[s[i]] = [node[s[i]] EXCEPT !.next = x]
      BY <1>0, <2>0, <2>2, <2>3
    <3>2. /\ IsNode(node'[s[i]]) /\ node'[s[i]].data = node[s[i]].data
          /\ node'[s[i]].prev = node[s[i]].prev /\ node'[s[i]].next = x
      <4>1. PICK r, q : r = node[s[i]] /\ q = node'[s[i]]
        OBVIOUS
      <4>2. IsNode(r) /\ q = [r EXCEPT !.next = x]
        BY <2>0, <3>1, <4>1
      <4>3. IsNode(q) /\ q.data = r.data /\ q.prev = r.prev /\ q.next = x
        BY <4>2, NextChanged
      <4> QED BY <4>1, <4>3
    <3> QED BY <2>0, <2>3, <3>2
  <2>4. CASE i # n
    <3>1. node'[s[i]] = node[s[i]]
      BY <1>0, <2>0, <2>2, <2>4
    <3> QED BY <2>0, <2>4, <3>1
  <2> QED BY <2>3, <2>4
<1>10. \A m \in DOMAIN node : node'[m].data = node[m].data
  <2>1. \A m \in DOMAIN node : \E i \in 1 .. n : s[i] = m
    BY <1>2, <1>5 DEF ToSet
  <2> SUFFICES ASSUME NEW m \in DOMAIN node PROVE node'[m].data = node[m].data
    OBVIOUS
  <2>2. PICK i \in 1 .. n : s[i] = m
    BY <2>1
  <2>3. node'[s[i]].data = node[s[i]].data
    BY <1>9
  <2> QED BY <2>2, <2>3
<1>11. ASSUME NEW i \in 1 .. n + 1
       PROVE  /\ IsNode(node'[u[i]])
              /\ node'[u[i]].prev = (IF i = 1 THEN 0 ELSE u[i - 1])
              /\ node'[u[i]].next = (IF i = n + 1 THEN 0 ELSE u[i + 1])
  <2>1. CASE i = n + 1
    <3>1. tail = IF i = 1 THEN 0 ELSE u[i - 1]
      <4>1. (n = 0 <=> i = 1) /\ i - 1 = n /\ (n # 0 => n \in 1 .. n)
        BY <1>4, <2>1
      <4> QED BY <1>4, <1>7, <4>1
    <3> QED BY <1>4, <1>8, <2>1, <3>1
  <2>2. CASE i # n + 1
    <3>1. i \in 1 .. n /\ (i # 1 => i - 1 \in 1 .. n) /\ (i # n => i + 1 \in 1 .. n)
      BY <1>4, <2>2
    <3>2. u[i] = s[i] /\ (i # 1 => u[i - 1] = s[i - 1]) /\ u[i + 1] = (IF i = n THEN x ELSE s[i + 1])
      BY <1>4, <3>1
    <3>3. /\ IsNode(node'[s[i]]) /\ node'[s[i]].prev = (IF i = 1 THEN 0 ELSE s[i - 1])
          /\ node'[s[i]].next = (IF i = n THEN x ELSE s[i + 1])
      BY <1>9, <3>1
    <3> QED BY <2>2, <3>2, <3>3
  <2> QED BY <2>1, <2>2
<1>12. head' = u[1] /\ u # <<>>
  <2>1. 1 \in 1 .. n + 1 /\ n + 1 # 0 /\ (n # 0 => 1 \in 1 .. n /\ n \in 1 .. n)
    BY <1>4
  <2>2. tail = 0 <=> n = 0
    BY <1>5, <1>7, <2>1
  <2>3. n = 0 => u[1] = x
    BY <1>4
  <2>4. Len(u) # 0
    BY <1>4, <2>1
  <2> QED BY <1>4, <1>6, <2>1, <2>2, <2>3, <2>4
<1>13. Chained(u)'
  BY <1>4, <1>11, <1>12 DEF Chained
<1>14. node'[x].data = d
  BY <1>8
<1> QED BY <1>3, <1>10, <1>13, <1>14

(* What taking a node out leaves of the others, link by link. *)
LEMMA Unlinked ==
  ASSUME NEW s, Chained(s), NEW k \in 1 .. Len(s), NEW j \in 1 .. Len(s), j # k
  PROVE  LET r == Unlink(s[k]).node[s[j]]
         IN  /\ IsNode(r) /\ r.data = node[s[j]].data
             /\ r.prev = IF j = k + 1 THEN node[s[k]].prev ELSE node[s[j]].prev
             /\ r.next = IF j = k - 1 THEN node[s[k]].next ELSE node[s[j]].next
<1> DEFINE n == Len(s)
           f == node
           before == node[s[k]].prev
           after == node[s[k]].next
           g == [node EXCEPT ![before].next = after]
<1>1. /\ n \in Nat /\ s[j] \in DOMAIN node /\ s[k] \in DOMAIN node /\ s[k] # 0 /\ 0 \notin DOMAIN node
      /\ before = (IF k = 1 THEN 0 ELSE s[k - 1]) /\ after = (IF k = n THEN 0 ELSE s[k + 1])
      /\ s[k] = head <=> k = 1
      /\ \A a, b \in 1 .. n : s[a] = s[b] => a = b
  BY ChainSays
<1>2. IsNode(node[s[j]])
  BY DEF Chained
<1>3. (s[j] = after <=> j = k + 1) /\ (s[j] = before <=> j = k - 1) /\ (after = 0 => j # k + 1)
  <2>1. k # n => k + 1 \in 1 .. n
    BY <1>1
  <2>2. k # 1 => k - 1 \in 1 .. n
    BY <1>1
  <2>3. s[j] # 0
    BY <1>1
  <2>4. s[j] = after <=> j = k + 1
    <3>1. CASE k = n
      <4>1. j # k + 1
        BY <1>1, <3>1
      <4> QED BY <1>1, <2>3, <3>1, <4>1
    <3>2. CASE k # n
      BY <1>1, <2>1, <3>2
    <3> QED BY <3>1, <3>2
  <2>5. s[j] = before <=> j = k - 1
    <3>1. CASE k = 1
      <4>1. j # k - 1
        BY <1>1, <3>1
      <4> QED BY <1>1, <2>3, <3>1, <4>1
    <3>2. CASE k # 1
      BY <1>1, <2>2, <3>2
    <3> QED BY <3>1, <3>2
  <2> QED BY <2>3, <2>4, <2>5
<1>4. Unlink(s[k]).node = IF s[k] = head
                          THEN IF after = 0 THEN node ELSE [node EXCEPT ![after].prev = 0]
                          ELSE IF after = 0 THEN g ELSE [g EXCEPT ![after].prev = before]
  BY DEF Unlink
<1>5. /\ DOMAIN g = DOMAIN node
      /\ g[s[j]] = IF s[j] = before THEN [node[s[j]] EXCEPT !.next = after] ELSE node[s[j]]
  BY <1>1
<1> HIDE DEF before, after, g
<1>6. PICK q : q = g[s[j]]
  OBVIOUS
<1>7. /\ IsNode(q) /\ q.data = node[s[j]].data /\ q.prev = node[s[j]].prev
      /\ q.next = IF s[j] = before THEN after ELSE node[s[j]].next
  <2>1. CASE s[j] = before
    <3>1. q = [node[s[j]] EXCEPT !.next = after]
      BY <1>5, <1>6, <2>1
    <3> QED BY <1>2, <2>1, <3>1, NextChanged
  <2>2. CASE s[j] # before
    BY <1>2, <1>5, <1>6, <2>2
  <2> QED BY <2>1, <2>2
<1>8. PICK r : r = Unlink(s[k]).node[s[j]]
  OBVIOUS
<1>9. CASE s[k] = head
  <2>1. before = 0 /\ s[j] # before
    BY <1>1, <1>9
  <2>2. r = IF s[j] = after THEN [node[s[j]] EXCEPT !.prev = 0] ELSE node[s[j]]
    <3>1. CASE after = 0
      BY <1>3, <1>4, <1>8, <1>9, <3>1
    <3>2. CASE after # 0
      <4>1. r = [node EXCEPT ![after].prev = 0][s[j]]
        BY <1>4, <1>8, <1>9, <3>2
      <4> QED BY <1>1, <4>1
    <3> QED BY <3>1, <3>2
  <2>3. CASE s[j] = after
    <3>1. r = [node[s[j]] EXCEPT !.prev = 0]
      BY <2>2, <2>3
    <3>2. IsNode(r) /\ r.data = node[s[j]].data /\ r.prev = 0 /\ r.next = node[s[j]].next
      BY <1>2, <3>1, PrevChanged
    <3> QED BY <1>3, <1>8, <2>1, <2>3, <3>2 DEF before, after
  <2>4. CASE s[j] # after
    <3>1. r = node[s[j]]
      BY <2>2, <2>4
    <3> QED BY <1>2, <1>3, <1>8, <2>1, <2>4, <3>1 DEF before, after
  <2> QED BY <2>3, <2>4
<1>10. CASE s[k] # head
  <2>2. r = IF s[j] = after THEN [q EXCEPT !.prev = before] ELSE q
    <3>1. CASE after = 0
      BY <1>3, <1>4, <1>6, <1>8, <1>10, <3>1
    <3>2. CASE after # 0
      <4>1. r = [g EXCEPT ![after].prev = before][s[j]]
        BY <1>4, <1>8, <1>10, <3>2
      <4> QED BY <1>1, <1>5, <1>6, <4>1
    <3> QED BY <3>1, <3>2
  <2>3. CASE s[j] = after
    <3>1. r = [q EXCEPT !.prev = before]
      BY <2>2, <2>3
    <3>2. IsNode(r) /\ r.data = q.data /\ r.prev = before /\ r.next = q.next
      BY <1>7, <3>1, PrevChanged
    <3> QED BY <1>3, <1>7, <1>8, <2>3, <3>2 DEF before, after
  <2>4. CASE s[j] # after
    <3>1. r = q
      BY <2>2, <2>4
    <3> QED BY <1>3, <1>7, <1>8, <2>4, <3>1 DEF before, after
  <2> QED BY <2>3, <2>4
<1> QED BY <1>9, <1>10

(* A node is taken out: those around it are linked. *)
LEMMA DetachStep ==
  ASSUME NEW s, Chained(s), NEW k \in 1 .. Len(s), Detach(s[k])
  PROVE  /\ Chained(RemoveAt(s, k))' /\ DOMAIN node' = DOMAIN node \ {s[k]}
         /\ \A m \in DOMAIN node' : node'[m].data = node[m].data
<1> DEFINE n == Len(s)
<1>1. /\ n \in Nat /\ s \in Seq(NodeIds) /\ IsInjective(s) /\ ToSet(s) = DOMAIN node
      /\ head = (IF s = <<>> THEN 0 ELSE s[1]) /\ (s = <<>> <=> n = 0) /\ DOMAIN s = 1 .. n
      /\ \A i \in 1 .. n : /\ s[i] \in DOMAIN node /\ (s[i] = head <=> i = 1)
                           /\ node[s[i]].prev = (IF i = 1 THEN 0 ELSE s[i - 1])
                           /\ node[s[i]].next = (IF i = n THEN 0 ELSE s[i + 1])
      /\ \A a, b \in 1 .. n : s[a] = s[b] => a = b
  BY ChainSays DEF Chained
<1>2. PICK u : u = RemoveAt(s, k)
  OBVIOUS
<1>3. /\ u \in Seq(NodeIds) /\ Len(u) = n - 1 /\ IsInjective(u) /\ ToSet(u) = ToSet(s) \ {s[k]}
      /\ \A i \in 1 .. k - 1 : u[i] = s[i]
      /\ \A i \in k .. n - 1 : u[i] = s[i + 1]
  <2>1. s \in Seq(NodeIds) /\ IsInjective(s) /\ k \in 1 .. Len(s)
    BY <1>1
  <2>2. Taken(u, s, k, NodeIds)
    BY ONLY <2>1, <1>2, RemovedIsTaken
  <2> HIDE DEF n
  <2>3. n = Len(s)
    BY DEF n
  <2> QED BY ONLY <1>1, <2>2, <2>3 DEF Taken
<1>4. head' = (IF s[k] = head THEN node[s[k]].next ELSE head)
  BY DEF Detach, Unlink
<1>5. DOMAIN node' = DOMAIN node \ {s[k]} /\ \A m \in DOMAIN node' : node'[m] = Unlink(s[k]).node[m]
  BY DEF Detach
<1>6. ASSUME NEW j \in 1 .. n, j # k
      PROVE  /\ IsNode(node'[s[j]]) /\ node'[s[j]].data = node[s[j]].data
             /\ node'[s[j]].prev = IF j = k + 1 THEN node[s[k]].prev ELSE node[s[j]].prev
             /\ node'[s[j]].next = IF j = k - 1 THEN node[s[k]].next ELSE node[s[j]].next
  <2>1. s[j] # s[k] /\ s[j] \in DOMAIN node'
    BY <1>1, <1>5, <1>6
  <2>2. node'[s[j]] = Unlink(s[k]).node[s[j]]
    BY <1>5, <2>1
  <2> QED BY <1>6, <2>2, Unlinked
<1> HIDE DEF n
<1>7. k \in 1 .. n
  BY DEF n
<1>8. ASSUME NEW m \in DOMAIN node' PROVE node'[m].data = node[m].data
  <2>1. m \in ToSet(s) /\ m # s[k]
    BY <1>1, <1>5
  <2>2. PICK j \in 1 .. n : s[j] = m
    BY <1>1, <2>1 DEF ToSet
  <2>3. j # k
    BY <2>1, <2>2
  <2>4. node'[s[j]].data = node[s[j]].data
    BY <1>6, <2>3
  <2> QED BY <2>2, <2>4
<1>9. ASSUME NEW i \in 1 .. n - 1
      PROVE  /\ IsNode(node'[u[i]])
             /\ node'[u[i]].prev = (IF i = 1 THEN 0 ELSE u[i - 1])
             /\ node'[u[i]].next = (IF i = n - 1 THEN 0 ELSE u[i + 1])
  <2>1. CASE i < k
    <3>1. i \in 1 .. k - 1 /\ i \in 1 .. n /\ i # k /\ i # k + 1 /\ i # n
      BY <1>1, <1>7, <2>1
    <3>2. u[i] = s[i] /\ (i # 1 => u[i - 1] = s[i - 1])
      <4>1. i # 1 => i - 1 \in 1 .. k - 1
        BY <3>1
      <4> QED BY <1>3, <3>1, <4>1
    <3>3. IsNode(node'[s[i]]) /\ node'[s[i]].prev = (IF i = 1 THEN 0 ELSE s[i - 1])
      BY <1>1, <1>6, <3>1
    <3>4. node'[s[i]].next = (IF i = n - 1 THEN 0 ELSE u[i + 1])
      <4>1. CASE i = k - 1
        <5>1. node'[s[i]].next = (IF k = n THEN 0 ELSE s[k + 1])
          BY <1>1, <1>6, <1>7, <3>1, <4>1
        <5>2. (k = n <=> i = n - 1) /\ i + 1 = k /\ (k # n => k \in k .. n - 1)
          BY <1>1, <1>7, <4>1
        <5> QED BY <1>3, <5>1, <5>2
      <4>2. CASE i # k - 1
        <5>1. node'[s[i]].next = s[i + 1]
          BY <1>1, <1>6, <3>1, <4>2
        <5>2. i # n - 1 /\ i + 1 \in 1 .. k - 1
          BY <1>1, <1>7, <3>1, <4>2
        <5> QED BY <1>3, <5>1, <5>2
      <4> QED BY <4>1, <4>2
    <3> QED BY <3>2, <3>3, <3>4
  <2>2. CASE i >= k
    <3>1. PICK j \in 1 .. n : j = i + 1 /\ j # k /\ i = j - 1 /\ j # k - 1 /\ j # 1 /\ i \in k .. n - 1 /\ (i = n - 1 <=> j = n)
      <4>1. i + 1 \in 1 .. n /\ i + 1 # k /\ i = i + 1 - 1 /\ i + 1 # k - 1 /\ i + 1 # 1 /\ i \in k .. n - 1 /\ (i = n - 1 <=> i + 1 = n)
        BY <1>1, <1>7, <2>2
      <4> QED BY <4>1
    <3>2. u[i] = s[j] /\ (j # n => u[i + 1] = s[j + 1])
      <4>1. j # n => i + 1 \in k .. n - 1
        BY <1>1, <1>7, <3>1
      <4> QED BY <1>3, <3>1, <4>1
    <3>3. IsNode(node'[s[j]]) /\ node'[s[j]].next = (IF j = n THEN 0 ELSE s[j + 1])
      BY <1>1, <1>6, <3>1
    <3>4. node'[s[j]].prev = (IF i = 1 THEN 0 ELSE u[i - 1])
      <4>1. CASE i = k
        <5>1. node'[s[j]].prev = (IF k = 1 THEN 0 ELSE s[k - 1])
          BY <1>1, <1>6, <1>7, <3>1, <4>1
        <5>2. k # 1 => k - 1 \in 1 .. k - 1
          BY <1>7
        <5> QED BY <1>3, <4>1, <5>1, <5>2
      <4>2. CASE i # k
        <5>1. node'[s[j]].prev = s[j - 1]
          BY <1>1, <1>6, <3>1, <4>2
        <5>2. i # 1 /\ i - 1 \in k .. n - 1 /\ i - 1 + 1 = j - 1
          BY <1>1, <1>7, <3>1, <4>2
        <5> QED BY <1>3, <5>1, <5>2
      <4> QED BY <4>1, <4>2
    <3> QED BY <3>1, <3>2, <3>3, <3>4
  <2> QED BY <1>7, <2>1, <2>2
<1>10. head' = (IF u = <<>> THEN 0 ELSE u[1])
  <2>1. u = <<>> <=> n - 1 = 0
    <3>1. u = <<>> => Len(u) = 0
      BY EmptySeq
    <3>2. Len(u) = 0 => u = <<>>
      BY <1>3, EmptySeq
    <3> QED BY <1>3, <3>1, <3>2
  <2>2. s # <<>> /\ head = s[1] /\ 1 \in 1 .. n
    BY <1>1, <1>7
  <2>3. CASE k = 1
    <3>1. head' = (IF n = 1 THEN 0 ELSE s[1 + 1])
      BY <1>1, <1>4, <1>7, <2>2, <2>3
    <3>2. n # 1 => 1 \in k .. n - 1
      BY <1>1, <1>7, <2>3
    <3>3. n - 1 = 0 <=> n = 1
      BY <1>1
    <3> QED BY <1>3, <2>1, <3>1, <3>2, <3>3
  <2>4. CASE k # 1
    <3>1. n - 1 # 0 /\ 1 \in 1 .. k - 1
      BY <1>1, <1>7, <2>4
    <3> QED BY <1>1, <1>3, <1>4, <1>7, <2>1, <2>2, <2>4, <3>1
  <2> QED BY <2>3, <2>4
<1>11. Chained(u)'
  <2>1. ToSet(u) = DOMAIN node'
    BY <1>1, <1>3, <1>5
  <2>2. \A i \in 1 .. Len(u) :
          /\ IsNode(node'[u[i]])
          /\ node'[u[i]].prev = (IF i = 1 THEN 0 ELSE u[i - 1])
          /\ node'[u[i]].next = (IF i = Len(u) THEN 0 ELSE u[i + 1])
    BY <1>3, <1>9
  <2>3. u \in Seq(NodeIds) /\ IsInjective(u)
    BY <1>3
  <2> QED BY <1>10, <2>1, <2>2, <2>3 DEF Chained
<1> QED BY <1>2, <1>5, <1>8, <1>11

(* What the list looks like from outside. *)
LEMMA ListingIs ==
  ASSUME NEW s, Chained(s)
  PROVE  Listing = [i \in 1 .. Len(s) |-> node[s[i]].data]
<1>1. From(head) = s /\ DOMAIN s = 1 .. Len(s)
  BY FromIs, ChainSays
<1> QED BY <1>1 DEF Listing

(* What is seen of a sequence, and one element more. *)
LEMMA PrefixGrows ==
  ASSUME NEW S, NEW t \in Seq(S), NEW j \in 0 .. Len(t), j + 1 \in 1 .. Len(t)
  PROVE  Append(SubSeq(t, 1, j), t[j + 1]) = SubSeq(t, 1, j + 1)
<1>1. Len(t) \in Nat /\ j \in Nat /\ t[j + 1] \in S /\ \A i \in 1 .. j + 1 : t[i] \in S
  <2>1. Len(t) \in Nat
    BY LenProperties
  <2>2. j \in Nat /\ \A i \in 1 .. j + 1 : i \in 1 .. Len(t)
    BY <2>1
  <2> QED BY <2>1, <2>2, ElementOfSeq
<1> DEFINE a == SubSeq(t, 1, j)
           b == SubSeq(t, 1, j + 1)
<1>2. a \in Seq(S) /\ Len(a) = j /\ \A i \in 1 .. j : a[i] = t[i]
  <2>1. j \in Int /\ 1 \in Int /\ (\A i \in 1 .. j : t[i] \in S) /\ (IF 1 <= j THEN j - 1 + 1 ELSE 0) = j
        /\ j - 1 + 1 = j /\ \A i \in 1 .. j : 1 + i - 1 = i
    BY <1>1
  <2>2. /\ SubSeq(t, 1, j) \in Seq(S) /\ Len(SubSeq(t, 1, j)) = (IF 1 <= j THEN j - 1 + 1 ELSE 0)
        /\ \A i \in 1 .. j - 1 + 1 : SubSeq(t, 1, j)[i] = t[1 + i - 1]
    BY <2>1, SubSeqProperties
  <2> QED BY <2>1, <2>2
<1>3. b \in Seq(S) /\ Len(b) = j + 1 /\ \A i \in 1 .. j + 1 : b[i] = t[i]
  <2>1. j + 1 \in Int /\ 1 \in Int /\ (\A i \in 1 .. j + 1 : t[i] \in S) /\ (IF 1 <= j + 1 THEN j + 1 - 1 + 1 ELSE 0) = j + 1
        /\ j + 1 - 1 + 1 = j + 1 /\ \A i \in 1 .. j + 1 : 1 + i - 1 = i
    BY <1>1
  <2>2. /\ SubSeq(t, 1, j + 1) \in Seq(S) /\ Len(SubSeq(t, 1, j + 1)) = (IF 1 <= j + 1 THEN j + 1 - 1 + 1 ELSE 0)
        /\ \A i \in 1 .. j + 1 - 1 + 1 : SubSeq(t, 1, j + 1)[i] = t[1 + i - 1]
    BY <2>1, SubSeqProperties
  <2> QED BY <2>1, <2>2
<1> HIDE DEF a, b
<1>4. /\ Append(a, t[j + 1]) \in Seq(S) /\ Len(Append(a, t[j + 1])) = j + 1
      /\ \A i \in 1 .. j : Append(a, t[j + 1])[i] = a[i]
      /\ Append(a, t[j + 1])[j + 1] = t[j + 1]
  BY <1>1, <1>2, Appended
<1>5. \A i \in 1 .. j + 1 : Append(a, t[j + 1])[i] = b[i]
  <2>1. \A i \in 1 .. j + 1 : i \in 1 .. j \/ i = j + 1
    BY <1>1
  <2> QED BY <1>2, <1>3, <1>4, <2>1
<1> QED BY <1>3, <1>4, <1>5, SeqEqual DEF a, b

(* Steps of the walk, and of what changes the list meanwhile. *)
LEMMA WalkInsert ==
  ASSUME WalkTypes, NEW s, Chained(s), Walking(s), NEW x \in NodeIds, UNCHANGED <<walk, seen, due>>
  PROVE  Walking(<<x>> \o s)' /\ WalkTypes'
<1>1. WalkTypes'
  BY DEF WalkTypes
<1> SUFFICES ASSUME walk # NoWalk PROVE Walking(<<x>> \o s)'
  BY <1>1 DEF Walking
<1> DEFINE n == Len(s)
<1>2. PICK j \in 0 .. Len(due), m \in 0 .. n :
        /\ seen = SubSeq(due, 1, j) /\ n - m = Len(due) - j
        /\ \A i \in 1 .. Len(due) - j : s[m + i] = due[j + i]
        /\ walk.next = (IF j = Len(due) THEN 0 ELSE due[j + 1])
        /\ walk.at > 0 => \E i \in 1 .. m : walk.at = s[i]
  BY DEF Walking
<1>3. PICK u : u = <<x>> \o s
  OBVIOUS
<1>4. n \in Nat /\ Len(u) = n + 1 /\ \A i \in 1 .. n : u[i + 1] = s[i]
  <2>1. s \in Seq(NodeIds)
    BY DEF Chained
  <2> QED BY <1>3, <2>1, Prepended
<1> HIDE DEF n
<1>5. Len(due) \in Nat
  BY LenProperties DEF WalkTypes
<1>6. m + 1 \in 0 .. n + 1 /\ (n + 1) - (m + 1) = Len(due) - j
  BY <1>2, <1>4
<1>7. \A i \in 1 .. Len(due) - j : u[m + 1 + i] = due[j + i]
  <2>1. ASSUME NEW i \in 1 .. n - m PROVE m + i \in 1 .. n /\ m + 1 + i = m + i + 1
    BY <1>4
  <2> QED BY <1>2, <1>4, <2>1
<1>8. walk.at > 0 => \E i \in 1 .. m + 1 : walk.at = u[i]
  <2> SUFFICES ASSUME walk.at > 0 PROVE \E i \in 1 .. m + 1 : walk.at = u[i]
    OBVIOUS
  <2>1. PICK i \in 1 .. m : walk.at = s[i]
    BY <1>2
  <2>2. i + 1 \in 1 .. m + 1 /\ i \in 1 .. n
    BY <1>4
  <2> QED BY <1>4, <2>1, <2>2
<1>9. Walking(u)'
  BY <1>2, <1>4, <1>6, <1>7, <1>8 DEF Walking
<1> QED BY <1>3, <1>9

LEMMA WalkLeave ==
  ASSUME WalkTypes, NEW s, Chained(s), Walking(s), Leave
  PROVE  \E k \in 1 .. Len(s) : /\ walk.at = s[k] /\ Detach(s[k])
                                /\ Walking(RemoveAt(s, k))' /\ WalkTypes'
<1> USE DEF Leave
<1> DEFINE n == Len(s)
<1>1. walk.at > 0 /\ Detach(walk.at) /\ walk' = [walk EXCEPT !.at = 0] /\ seen' = seen /\ due' = due
  OBVIOUS
<1>2. walk # NoWalk /\ walk \in [at : {0} \cup NodeIds, next : {0} \cup NodeIds]
  <2>1. NoWalk.at = -1
    BY DEF NoWalk
  <2>2. ~(-1 > 0)
    OBVIOUS
  <2>3. walk # NoWalk
    BY <1>1, <2>1, <2>2
  <2> QED BY <2>3 DEF WalkTypes
<1>3. walk'.at = 0 /\ walk'.next = walk.next /\ walk' \in [at : {0} \cup NodeIds, next : {0} \cup NodeIds]
  BY <1>1, <1>2
<1>4. PICK j \in 0 .. Len(due), m \in 0 .. n :
        /\ seen = SubSeq(due, 1, j) /\ n - m = Len(due) - j
        /\ \A i \in 1 .. Len(due) - j : s[m + i] = due[j + i]
        /\ walk.next = (IF j = Len(due) THEN 0 ELSE due[j + 1])
        /\ walk.at > 0 => \E i \in 1 .. m : walk.at = s[i]
  BY <1>2 DEF Walking
<1>5. PICK k \in 1 .. m : walk.at = s[k]
  BY <1>1, <1>4
<1>6. n \in Nat /\ k \in 1 .. n /\ s \in Seq(NodeIds) /\ Len(due) \in Nat
  <2>1. n \in Nat /\ s \in Seq(NodeIds) /\ Len(due) \in Nat
    BY ChainSays, LenProperties DEF WalkTypes
  <2> QED BY <2>1
<1>7. PICK u : u = RemoveAt(s, k)
  OBVIOUS
<1>8. Len(u) = n - 1 /\ \A i \in k .. n - 1 : u[i] = s[i + 1]
  BY <1>6, <1>7, Removed
<1> HIDE DEF n, Leave
<1>9. m - 1 \in 0 .. n - 1 /\ (n - 1) - (m - 1) = Len(due) - j
  BY <1>4, <1>5, <1>6
<1>10. \A i \in 1 .. Len(due) - j : u[m - 1 + i] = due[j + i]
  <2>1. ASSUME NEW i \in 1 .. n - m PROVE m - 1 + i \in k .. n - 1 /\ m - 1 + i + 1 = m + i
    BY <1>5, <1>6
  <2> QED BY <1>4, <1>8, <2>1
<1>11. Walking(u)'
  <2>1. ~(walk'.at > 0)
    BY <1>3
  <2> QED BY <1>1, <1>3, <1>4, <1>8, <1>9, <1>10, <2>1 DEF Walking
<1>12. WalkTypes'
  BY <1>1, <1>3 DEF WalkTypes
<1> QED BY <1>1, <1>5, <1>6, <1>7, <1>11, <1>12 DEF n

LEMMA WalkSteps ==
  ASSUME WalkTypes, NEW s, Chained(s), Walking(s), StartWalk \/ Step \/ EndWalk
  PROVE  Chained(s)' /\ Walking(s)' /\ WalkTypes'
<1>1. head' = head /\ node' = node
  BY DEF StartWalk, Step, EndWalk
<1>2. Chained(s)'
  BY <1>1 DEF Chained
<1>3. s \in Seq(NodeIds) /\ Len(s) \in Nat /\ Len(due) \in Nat /\ (s = <<>> <=> Len(s) = 0)
  BY ChainSays, LenProperties DEF WalkTypes
<1>4. CASE StartWalk
  <2>1. head # 0 /\ walk' = [at |-> 0, next |-> head] /\ seen' = <<>> /\ due' = s
    BY <1>4, FromIs DEF StartWalk
  <2>2. 1 \in 1 .. Len(s) /\ head = s[1] /\ head \in NodeIds /\ Len(s) # 0
    <3>1. s # <<>> /\ head = s[1]
      BY <2>1 DEF Chained
    <3>2. Len(s) # 0 /\ 1 \in 1 .. Len(s)
      BY <1>3, <3>1
    <3> QED BY <3>1, <3>2, ChainSays
  <2>3. WalkTypes'
    BY <1>3, <2>1, <2>2 DEF WalkTypes
  <2>4. Walking(s)'
    <3>1. SubSeq(s, 1, 0) = <<>>
      BY SubSeqEmpty
    <3>2. 0 \in 0 .. Len(s) /\ Len(s) - 0 = Len(s) /\ \A i \in 1 .. Len(s) - 0 : s[0 + i] = s[0 + i]
      BY <1>3
    <3>3. walk'.next = (IF 0 = Len(s) THEN 0 ELSE s[0 + 1]) /\ ~(walk'.at > 0)
      BY <2>1, <2>2
    <3> QED BY <2>1, <3>1, <3>2, <3>3 DEF Walking
  <2> QED BY <1>2, <2>3, <2>4
<1>5. CASE Step
  <2>1. /\ walk # NoWalk /\ walk.next # 0 /\ walk' = [at |-> walk.next, next |-> node[walk.next].next]
        /\ seen' = Append(seen, walk.next) /\ due' = due
    BY <1>5 DEF Step
  <2>2. PICK j \in 0 .. Len(due), m \in 0 .. Len(s) :
          /\ seen = SubSeq(due, 1, j) /\ Len(s) - m = Len(due) - j
          /\ \A i \in 1 .. Len(due) - j : s[m + i] = due[j + i]
          /\ walk.next = (IF j = Len(due) THEN 0 ELSE due[j + 1])
          /\ walk.at > 0 => \E i \in 1 .. m : walk.at = s[i]
    BY <2>1 DEF Walking
  <2>3. /\ j + 1 \in 0 .. Len(due) /\ m + 1 \in 0 .. Len(s) /\ j + 1 \in 1 .. Len(due) /\ m + 1 \in 1 .. Len(s)
        /\ Len(s) - (m + 1) = Len(due) - (j + 1) /\ 1 \in 1 .. Len(due) - j
        /\ (j + 1 = Len(due) <=> m + 1 = Len(s))
    <3>1. j # Len(due)
      BY <2>1, <2>2
    <3> QED BY <1>3, <2>2, <3>1
  <2>4. walk.next = due[j + 1] /\ walk.next = s[m + 1]
    <3>1. j # Len(due)
      BY <2>1, <2>2
    <3> QED BY <2>2, <2>3, <3>1
  <2>5. walk.next \in NodeIds /\ node[walk.next].next = (IF m + 1 = Len(s) THEN 0 ELSE s[m + 1 + 1])
    BY <2>3, <2>4, ChainSays
  <2>6. \A i \in 1 .. Len(due) - (j + 1) : s[m + 1 + i] = due[j + 1 + i]
    <3> SUFFICES ASSUME NEW i \in 1 .. Len(due) - (j + 1) PROVE s[m + 1 + i] = due[j + 1 + i]
      OBVIOUS
    <3>1. PICK k \in 1 .. Len(due) - j : m + 1 + i = m + k /\ j + 1 + i = j + k
      <4>1. i + 1 \in 1 .. Len(due) - j /\ m + 1 + i = m + (i + 1) /\ j + 1 + i = j + (i + 1)
        <5>1. i \in Nat /\ i <= Len(due) - (j + 1) /\ j \in Nat /\ m \in Nat /\ i >= 1
          BY <1>3
        <5> QED BY <1>3, <5>1
      <4> QED BY <4>1
    <3>2. s[m + k] = due[j + k]
      BY <2>2
    <3> QED BY <3>1, <3>2
  <2>7. node[walk.next].next = (IF j + 1 = Len(due) THEN 0 ELSE due[j + 1 + 1])
    <3>1. j + 1 # Len(due) => 1 \in 1 .. Len(due) - (j + 1)
      BY <1>3, <2>3
    <3>2. j + 1 # Len(due) => s[m + 1 + 1] = due[j + 1 + 1]
      BY <2>6, <3>1
    <3> QED BY <2>3, <2>5, <3>2
  <2>8. node[walk.next].next \in {0} \cup NodeIds
    <3>1. m + 1 # Len(s) => m + 1 + 1 \in 1 .. Len(s)
      BY <1>3, <2>3
    <3> QED BY <2>5, <3>1, ChainSays
  <2>9. seen' = SubSeq(due, 1, j + 1)
    <3>1. due \in Seq(NodeIds)
      BY DEF WalkTypes
    <3> QED BY <2>1, <2>2, <2>3, <2>4, <3>1, PrefixGrows
  <2>10. WalkTypes'
    BY <2>1, <2>5, <2>8 DEF WalkTypes
  <2>11. walk'.at = s[m + 1] /\ m + 1 \in 1 .. m + 1
    BY <2>1, <2>2, <2>4
  <2>12. walk'.next = (IF j + 1 = Len(due) THEN 0 ELSE due[j + 1 + 1])
    BY <2>1, <2>7
  <2>13. Walking(s)'
    BY <2>1, <2>3, <2>6, <2>9, <2>11, <2>12 DEF Walking
  <2> QED BY <1>2, <2>10, <2>13
<1>6. CASE EndWalk
  <2>1. walk' = NoWalk /\ due' = <<>>
    BY <1>6 DEF EndWalk
  <2> QED BY <1>2, <2>1 DEF Walking, WalkTypes
<1> QED BY <1>4, <1>5, <1>6

(* What the nodes of s carry, and how it changes with s. *)
DataOf(f, s) == [i \in 1 .. Len(s) |-> f[s[i]].data]

LEMMA DataIsSeq ==
  ASSUME NEW N, NEW s \in Seq(N), NEW f, NEW S, \A i \in 1 .. Len(s) : f[s[i]].data \in S
  PROVE  /\ DataOf(f, s) \in Seq(S) /\ Len(DataOf(f, s)) = Len(s) /\ DOMAIN DataOf(f, s) = 1 .. Len(s)
         /\ \A i \in 1 .. Len(s) : DataOf(f, s)[i] = f[s[i]].data
<1>1. Len(s) \in Nat
  BY LenProperties
<1>2. PICK n \in Nat : n = Len(s)
  BY <1>1
<1>3. DataOf(f, s) \in [1 .. n -> S] /\ DOMAIN DataOf(f, s) = 1 .. n /\ \A i \in 1 .. n : DataOf(f, s)[i] = f[s[i]].data
  BY <1>2 DEF DataOf
<1>4. DataOf(f, s) \in Seq(S)
  BY <1>3, SeqDef
<1>5. Len(DataOf(f, s)) = n
  <2>1. Len(DataOf(f, s)) \in Nat /\ DOMAIN DataOf(f, s) = 1 .. Len(DataOf(f, s))
    BY <1>4, LenProperties
  <2> QED BY <1>3, <2>1
<1> QED BY <1>2, <1>3, <1>4, <1>5

LEMMA DataPrepended ==
  ASSUME NEW N, NEW s \in Seq(N), NEW x \in N, NEW f, NEW g, \A i \in 1 .. Len(s) : g[s[i]].data = f[s[i]].data
  PROVE  DataOf(g, <<x>> \o s) = <<g[x].data>> \o DataOf(f, s)
<1> DEFINE S == {f[s[i]].data : i \in 1 .. Len(s)} \cup {g[x].data}
<1>1. PICK u : u = <<x>> \o s
  OBVIOUS
<1>2. /\ u \in Seq(N) /\ Len(s) \in Nat /\ Len(u) = Len(s) + 1 /\ u[1] = x
      /\ \A i \in 2 .. Len(s) + 1 : u[i] = s[i - 1]
  BY <1>1, Prepended
<1>3. PICK n \in Nat : n = Len(s)
  BY <1>2
<1>4. \A i \in 1 .. n + 1 : i = 1 \/ (i \in 2 .. n + 1 /\ i - 1 \in 1 .. n)
  OBVIOUS
<1>5. /\ \A i \in 1 .. n : f[s[i]].data \in S
      /\ \A i \in 1 .. n + 1 : g[u[i]].data = (IF i = 1 THEN g[x].data ELSE f[s[i - 1]].data)
      /\ \A i \in 1 .. n + 1 : g[u[i]].data \in S
  BY <1>2, <1>3, <1>4
<1> HIDE DEF S
<1>6. PICK a : a = DataOf(f, s)
  OBVIOUS
<1>7. a \in Seq(S) /\ Len(a) = n /\ \A i \in 1 .. n : a[i] = f[s[i]].data
  BY <1>3, <1>5, <1>6, DataIsSeq
<1>8. PICK b : b = DataOf(g, u)
  OBVIOUS
<1>9. b \in Seq(S) /\ Len(b) = n + 1 /\ \A i \in 1 .. n + 1 : b[i] = g[u[i]].data
  <2>1. Len(u) = n + 1
    BY <1>2, <1>3
  <2>2. \A i \in 1 .. Len(u) : g[u[i]].data \in S
    BY <1>5, <2>1
  <2>3. /\ b \in Seq(S) /\ Len(b) = Len(u)
        /\ \A i \in 1 .. Len(u) : b[i] = g[u[i]].data
    BY <1>2, <1>8, <2>2, DataIsSeq
  <2> QED BY <2>1, <2>3
<1>10. PICK c : c = <<g[x].data>> \o a
  OBVIOUS
<1>11. /\ c \in Seq(S) /\ Len(c) = n + 1 /\ c[1] = g[x].data
       /\ \A i \in 2 .. n + 1 : c[i] = a[i - 1]
  <2>1. g[x].data \in S
    BY DEF S
  <2> QED BY <1>7, <1>10, <2>1, Prepended
<1>12. \A i \in 1 .. n + 1 : b[i] = c[i]
  <2> SUFFICES ASSUME NEW i \in 1 .. n + 1 PROVE b[i] = c[i]
    OBVIOUS
  <2>1. b[i] = (IF i = 1 THEN g[x].data ELSE f[s[i - 1]].data)
    BY <1>5, <1>9
  <2>2. CASE i = 1
    BY <1>11, <2>1, <2>2
  <2>3. CASE i \in 2 .. n + 1 /\ i - 1 \in 1 .. n
    <3>1. i # 1
      BY <2>3
    <3>2. c[i] = f[s[i - 1]].data
      BY <1>7, <1>11, <2>3
    <3> QED BY <2>1, <3>1, <3>2
  <2> QED BY <1>4, <2>2, <2>3
<1>13. b = c
  BY <1>9, <1>11, <1>12, SeqEqual
<1> QED BY <1>1, <1>6, <1>8, <1>10, <1>13

(* The nodes of s carry in g what they carry in f; u is t with x behind it. *)
SameData(f, g, s) == \A i \in 1 .. Len(s) : g[s[i]].data = f[s[i]].data
Extends(t, x, u) == u = Append(t, x)

LEMMA DataAppended ==
  ASSUME NEW N, NEW s \in Seq(N), NEW x \in N, NEW f, NEW g,
         SameData(f, g, s)
  PROVE  Extends(DataOf(f, s), g[x].data, DataOf(g, Append(s, x)))
<1> DEFINE S == {f[s[i]].data : i \in 1 .. Len(s)} \cup {g[x].data}
<1>1. PICK u : u = Append(s, x)
  OBVIOUS
<1>2. /\ u \in Seq(N) /\ Len(s) \in Nat /\ Len(u) = Len(s) + 1 /\ u[Len(s) + 1] = x
      /\ \A i \in 1 .. Len(s) : u[i] = s[i]
  BY <1>1, Appended
<1>3. PICK n \in Nat : n = Len(s)
  BY <1>2
<1>4. \A i \in 1 .. n + 1 : i = n + 1 \/ i \in 1 .. n
  OBVIOUS
<1>5. /\ \A i \in 1 .. n : f[s[i]].data \in S /\ g[u[i]].data = f[s[i]].data
      /\ g[u[n + 1]].data = g[x].data
      /\ \A i \in 1 .. n + 1 : g[u[i]].data \in S
  BY <1>2, <1>3, <1>4 DEF SameData
<1> HIDE DEF S
<1>6. PICK a : a = DataOf(f, s)
  OBVIOUS
<1>7. a \in Seq(S) /\ Len(a) = n /\ \A i \in 1 .. n : a[i] = f[s[i]].data
  BY <1>3, <1>5, <1>6, DataIsSeq
<1>8. PICK b : b = DataOf(g, u)
  OBVIOUS
<1>9. b \in Seq(S) /\ Len(b) = n + 1 /\ \A i \in 1 .. n + 1 : b[i] = g[u[i]].data
  <2>1. Len(u) = n + 1
    BY <1>2, <1>3
  <2>2. \A i \in 1 .. Len(u) : g[u[i]].data \in S
    BY <1>5, <2>1
  <2>3. /\ b \in Seq(S) /\ Len(b) = Len(u)
        /\ \A i \in 1 .. Len(u) : b[i] = g[u[i]].data
    BY ONLY <1>2, <1>8, <2>2, DataIsSeq
  <2> QED BY <2>1, <2>3
<1>10. PICK c : c = Append(a, g[x].data)
  OBVIOUS
<1>11. c \in Seq(S) /\ Len(c) = n + 1 /\ c[n + 1] = g[x].data /\ \A i \in 1 .. n : c[i] = a[i]
  <2>1. g[x].data \in S
    BY DEF S
  <2> QED BY <1>7, <1>10, <2>1, Appended
<1>12. \A i \in 1 .. n + 1 : b[i] = c[i]
  BY <1>4, <1>5, <1>7, <1>9, <1>11
<1>13. b = c
  BY <1>9, <1>11, <1>12, SeqEqual
<1> QED BY <1>1, <1>6, <1>8, <1>10, <1>13 DEF Extends

LEMMA DataRemoved ==
  ASSUME NEW N, NEW s \in Seq(N), NEW k \in 1 .. Len(s), NEW f, NEW g,
         \A i \in 1 .. Len(s) : i # k => g[s[i]].data = f[s[i]].data
  PROVE  DataOf(g, RemoveAt(s, k)) = RemoveAt(DataOf(f, s), k)
<1> DEFINE S == {f[s[i]].data : i \in 1 .. Len(s)}
<1>1. PICK u : u = RemoveAt(s, k)
  OBVIOUS
<1>2. /\ u \in Seq(N) /\ Len(s) \in Nat /\ Len(u) = Len(s) - 1
      /\ \A i \in 1 .. k - 1 : u[i] = s[i]
      /\ \A i \in k .. Len(s) - 1 : u[i] = s[i + 1]
  BY <1>1, Removed
<1>3. PICK n \in Nat : n = Len(s)
  BY <1>2
<1>4. k \in 1 .. n
  BY <1>3
<1>5. \A i \in 1 .. n - 1 : \/ i \in 1 .. k - 1 /\ i \in 1 .. n /\ i # k
                            \/ i \in k .. n - 1 /\ i + 1 \in 1 .. n /\ i + 1 # k
  BY <1>4
<1>6. \A i \in 1 .. n : f[s[i]].data \in S
  BY <1>3
<1> HIDE DEF S
<1>7. PICK a : a = DataOf(f, s)
  OBVIOUS
<1>8. a \in Seq(S) /\ Len(a) = n /\ \A i \in 1 .. n : a[i] = f[s[i]].data
  BY <1>3, <1>6, <1>7, DataIsSeq
<1>9. PICK c : c = RemoveAt(a, k)
  OBVIOUS
<1>10. /\ c \in Seq(S) /\ Len(c) = n - 1
       /\ \A i \in 1 .. k - 1 : c[i] = a[i]
       /\ \A i \in k .. n - 1 : c[i] = a[i + 1]
  <2>1. a \in Seq(S) /\ k \in 1 .. Len(a)
    BY <1>4, <1>8
  <2>2. Taken(c, a, k, S)
    BY ONLY <2>1, <1>9, RemovedIsTaken
  <2>3. Len(a) = n
    BY <1>8
  <2> QED BY ONLY <2>2, <2>3 DEF Taken
<1>11. \A i \in 1 .. n - 1 : g[u[i]].data \in S /\ g[u[i]].data = c[i]
  <2> SUFFICES ASSUME NEW i \in 1 .. n - 1 PROVE g[u[i]].data \in S /\ g[u[i]].data = c[i]
    OBVIOUS
  <2>1. CASE i \in 1 .. k - 1 /\ i \in 1 .. n /\ i # k
    BY <1>2, <1>3, <1>6, <1>8, <1>10, <2>1
  <2>2. CASE i \in k .. n - 1 /\ i + 1 \in 1 .. n /\ i + 1 # k
    <3>1. u[i] = s[i + 1] /\ g[s[i + 1]].data = f[s[i + 1]].data
      BY <1>2, <1>3, <2>2
    <3>2. c[i] = f[s[i + 1]].data /\ f[s[i + 1]].data \in S
      BY <1>6, <1>8, <1>10, <2>2
    <3> QED BY <3>1, <3>2
  <2> QED BY <1>5, <2>1, <2>2
<1>12. PICK b : b = DataOf(g, u)
  OBVIOUS
<1>13. b \in Seq(S) /\ Len(b) = n - 1 /\ \A i \in 1 .. n - 1 : b[i] = g[u[i]].data
  <2>1. Len(u) = n - 1
    BY <1>2, <1>3
  <2>2. \A i \in 1 .. Len(u) : g[u[i]].data \in S
    BY <1>11, <2>1
  <2>3. /\ b \in Seq(S) /\ Len(b) = Len(u)
        /\ \A i \in 1 .. Len(u) : b[i] = g[u[i]].data
    BY <1>2, <1>12, <2>2, DataIsSeq
  <2> QED BY <2>1, <2>3
<1>14. b = c
  BY <1>10, <1>11, <1>13, SeqEqual
<1> QED BY <1>1, <1>7, <1>9, <1>12, <1>14

LEMMA ListingsAre == \A s : Chained(s) => Listing = DataOf(node, s)
  BY ListingIs DEF DataOf

LEMMA ListingsNext == (\A s : Chained(s) => Listing = DataOf(node, s))'
  BY ListingsAre, PTL

(* A set of numbers holds its minimum. *)
LEMMA LeastOf == ASSUME NEW T \in SUBSET Nat, T # {} PROVE Min(T) \in T /\ \A y \in T : Min(T) <= y
<1> DEFINE R == OpToRel(<, Nat)
<1>1. IsWellFoundedOn(R, Nat)
  BY NatLessThanWellFounded
<1>2. \A x \in Nat, y \in Nat : <<y, x>> \in R <=> y < x
  BY DEF OpToRel
<1>3. PICK r : IsWellFoundedOn(r, Nat) /\ \A x \in Nat, y \in Nat : <<y, x>> \in r <=> y < x
  <2> HIDE DEF R
  <2> QED BY <1>1, <1>2
<1>4. PICK x \in T : \A y \in T : ~(<<y, x>> \in r)
  BY <1>3, WFMin
<1>5. \A y \in T : ~(y < x)
  BY <1>3, <1>4
<1>6. \E z \in T : \A y \in T : z <= y
  <2>1. \A y \in T : x <= y
    BY <1>5
  <2> QED BY <2>1
<1> QED BY <1>6 DEF Min

(* Each operation keeps the chain, and does to the sequence what it promises. *)
LEMMA InsertKeeps ==
  ASSUME ListIInv, NEW d \in Items, Insert(d)
  PROVE  ListIInv' /\ AbstractList!Insert(d)
<1>1. PICK s : Chained(s) /\ Walking(s)
  BY DEF ListIInv
<1>2. PICK x \in Memory :
        /\ node' = [m \in DOMAIN node \cup {x} |->
                     CASE m = x    -> [data |-> d, prev |-> 0, next |-> head]
                       [] m = head -> [node[m] EXCEPT !.prev = x]
                       [] OTHER    -> node[m]]
        /\ head' = x
        /\ UNCHANGED <<walk, seen, due>>
  BY DEF Insert
<1>3. /\ Chained(<<x>> \o s)' /\ node'[x].data = d
      /\ \A m \in DOMAIN node : node'[m].data = node[m].data
  <2>1. /\ node' = [m \in DOMAIN node \cup {x} |->
                     CASE m = x    -> [data |-> d, prev |-> 0, next |-> head]
                       [] m = head -> [node[m] EXCEPT !.prev = x]
                       [] OTHER    -> node[m]]
        /\ head' = x
    BY <1>2
  <2> QED BY <1>1, <2>1, InsertStep, ZenonT(30)
<1>4. x \in NodeIds /\ s \in Seq(NodeIds)
  BY <1>1 DEF Chained, Memory
<1>5. Walking(<<x>> \o s)' /\ WalkTypes'
  BY <1>1, <1>2, <1>4, WalkInsert DEF ListIInv
<1>6. Listing' = DataOf(node, <<x>> \o s)'
  BY <1>3, ListingsNext
<1>7. Listing = DataOf(node, s)
  BY <1>1, ListingsAre
<1>8. PICK f, g : f = node /\ g = node'
  OBVIOUS
<1>9. DataOf(g, <<x>> \o s) = <<g[x].data>> \o DataOf(f, s)
  <2>1. \A i \in 1 .. Len(s) : g[s[i]].data = f[s[i]].data
    BY <1>1, <1>3, <1>8, ChainSays
  <2> QED BY <1>4, <2>1, DataPrepended
<1>10. Listing' = <<d>> \o Listing
  BY <1>3, <1>6, <1>7, <1>8, <1>9
<1> QED BY <1>3, <1>5, <1>10 DEF ListIInv, AbstractList!Insert

LEMMA AddKeeps ==
  ASSUME ListIInv, NEW d \in Items, Add(d)
  PROVE  ListIInv' /\ AbstractList!Add(d)
<1>1. PICK s : Chained(s) /\ Walking(s)
  BY DEF ListIInv
<1>2. PICK tail : tail = (IF head = 0 THEN 0 ELSE Last(From(head)))
  OBVIOUS
<1>3. PICK x \in Memory :
        /\ node' = [m \in DOMAIN node \cup {x} |->
                     CASE m = x    -> [data |-> d, prev |-> tail, next |-> 0]
                       [] m = tail -> [node[m] EXCEPT !.next = x]
                       [] OTHER    -> node[m]]
        /\ head' = IF tail = 0 THEN x ELSE head
  BY <1>2 DEF Add
<1>4. walk = NoWalk /\ UNCHANGED <<walk, seen, due>>
  BY DEF Add
<1>5. /\ Chained(Append(s, x))' /\ node'[x].data = d
      /\ \A m \in DOMAIN node : node'[m].data = node[m].data
  <2>1. /\ node' = [m \in DOMAIN node \cup {x} |->
                     CASE m = x    -> [data |-> d, prev |-> tail, next |-> 0]
                       [] m = tail -> [node[m] EXCEPT !.next = x]
                       [] OTHER    -> node[m]]
        /\ head' = IF tail = 0 THEN x ELSE head
    BY <1>3
  <2>2. Chained(s) /\ x \in Memory
    BY <1>1
  <2> QED BY ONLY <1>2, <2>1, <2>2, AddStep, SMTT(30)
<1>6. x \in NodeIds /\ s \in Seq(NodeIds)
  BY <1>1 DEF Chained, Memory
<1>7. Walking(Append(s, x))' /\ WalkTypes'
  BY <1>4 DEF ListIInv, Walking, WalkTypes
<1>8. Listing' = DataOf(node, Append(s, x))'
  BY <1>5, ListingsNext
<1>9. Listing = DataOf(node, s)
  BY <1>1, ListingsAre
<1>10. PICK f, g : f = node /\ g = node'
  OBVIOUS
<1>11. Extends(DataOf(f, s), g[x].data, DataOf(g, Append(s, x)))
  <2>1. SameData(f, g, s)
    BY <1>1, <1>5, <1>10, ChainSays DEF SameData
  <2> QED BY <1>6, <2>1, DataAppended
<1>12. Listing' = Append(Listing, d)
  BY <1>5, <1>8, <1>9, <1>10, <1>11 DEF Extends
<1> QED BY <1>5, <1>7, <1>12 DEF ListIInv, AbstractList!Add

LEMMA DetachListing ==
  ASSUME NEW s, Chained(s), NEW k \in 1 .. Len(s), Detach(s[k])
  PROVE  Chained(RemoveAt(s, k))' /\ k \in DOMAIN Listing /\ AbstractList!TakeOut(k)
<1>1. /\ Chained(RemoveAt(s, k))' /\ DOMAIN node' = DOMAIN node \ {s[k]}
      /\ \A m \in DOMAIN node' : node'[m].data = node[m].data
  BY DetachStep
<1>2. /\ s \in Seq(NodeIds) /\ \A i \in 1 .. Len(s) : s[i] \in DOMAIN node
      /\ \A i, j \in 1 .. Len(s) : s[i] = s[j] => i = j
  BY ChainSays
<1>3. Listing' = DataOf(node, RemoveAt(s, k))'
  BY <1>1, ListingsNext
<1>4. Listing = DataOf(node, s)
  BY ListingsAre
<1>5. PICK f, g : f = node /\ g = node'
  OBVIOUS
<1>6. DataOf(g, RemoveAt(s, k)) = RemoveAt(DataOf(f, s), k)
  <2>1. ASSUME NEW i \in 1 .. Len(s), i # k PROVE g[s[i]].data = f[s[i]].data
    <3>1. s[i] \in DOMAIN node'
      BY <1>1, <1>2, <2>1
    <3> QED BY <1>1, <1>5, <3>1
  <2> QED BY <1>2, <2>1, DataRemoved
<1>7. Listing' = RemoveAt(Listing, k)
  BY <1>3, <1>4, <1>5, <1>6
<1>8. k \in DOMAIN Listing
  BY <1>4 DEF DataOf
<1>9. AbstractList!TakeOut(k)
  BY <1>7 DEF AbstractList!TakeOut, AbstractList!RemoveAt, RemoveAt
<1> QED BY <1>1, <1>8, <1>9

LEMMA RemoveDataKeeps ==
  ASSUME ListIInv, NEW d \in Items, RemoveData(d)
  PROVE  ListIInv' /\ \E k \in DOMAIN Listing : AbstractList!TakeOut(k)
<1>1. PICK s : Chained(s)
  BY DEF ListIInv
<1>2. walk = NoWalk /\ UNCHANGED <<walk, seen, due>>
  BY DEF RemoveData
<1>3. From(head) = s /\ DOMAIN s = 1 .. Len(s)
  BY <1>1, FromIs, ChainSays
<1>4. PICK has : has = {i \in DOMAIN s : node[s[i]].data = d}
  OBVIOUS
<1>5. has # {} /\ Detach(s[Min(has)])
  BY <1>3, <1>4 DEF RemoveData
<1>6. PICK k \in 1 .. Len(s) : k = Min(has)
  <2>1. has \in SUBSET Nat /\ has \subseteq 1 .. Len(s)
    BY <1>3, <1>4
  <2> QED BY <1>5, <2>1, LeastOf
<1>7. Chained(RemoveAt(s, k))' /\ k \in DOMAIN Listing /\ AbstractList!TakeOut(k)
  BY <1>1, <1>5, <1>6, DetachListing
<1>8. Walking(RemoveAt(s, k))' /\ WalkTypes'
  BY <1>2 DEF ListIInv, Walking, WalkTypes
<1> QED BY <1>7, <1>8 DEF ListIInv

LEMMA LeaveKeeps ==
  ASSUME ListIInv, Leave
  PROVE  ListIInv' /\ \E k \in DOMAIN Listing : AbstractList!TakeOut(k)
<1>1. PICK s : Chained(s) /\ Walking(s)
  BY DEF ListIInv
<1>2. PICK k \in 1 .. Len(s) : walk.at = s[k] /\ Detach(s[k]) /\ Walking(RemoveAt(s, k))' /\ WalkTypes'
  BY <1>1, WalkLeave DEF ListIInv
<1>3. Chained(RemoveAt(s, k))' /\ k \in DOMAIN Listing /\ AbstractList!TakeOut(k)
  BY <1>1, <1>2, DetachListing
<1> QED BY <1>2, <1>3 DEF ListIInv

LEMMA FreeKeeps ==
  ASSUME ListIInv, FreeList
  PROVE  ListIInv' /\ AbstractList!Clear
<1>1. walk = NoWalk /\ head' = 0 /\ node' = <<>> /\ UNCHANGED <<walk, seen, due>>
  BY DEF FreeList
<1>2. Chained(<<>>)'
  BY <1>1 DEF Chained, IsInjective, ToSet
<1>3. Walking(<<>>)' /\ WalkTypes'
  BY <1>1 DEF ListIInv, Walking, WalkTypes
<1>4. Listing' = DataOf(node, <<>>)'
  BY <1>2, ListingsNext
<1>5. Listing' = <<>>
  BY <1>4 DEF DataOf
<1> QED BY <1>2, <1>3, <1>5 DEF ListIInv, AbstractList!Clear

LEMMA WalkKeeps ==
  ASSUME ListIInv, StartWalk \/ Step \/ EndWalk \/ UNCHANGED listVars
  PROVE  ListIInv' /\ UNCHANGED Listing
<1>1. PICK s : Chained(s) /\ Walking(s)
  BY DEF ListIInv
<1>2. head' = head /\ node' = node
  BY DEF StartWalk, Step, EndWalk, listVars
<1>3. ListIInv'
  <2>1. CASE StartWalk \/ Step \/ EndWalk
    BY <1>1, <2>1, WalkSteps DEF ListIInv
  <2>2. CASE UNCHANGED listVars
    <3>1. head' = head /\ node' = node /\ walk' = walk /\ seen' = seen /\ due' = due
      BY <2>2 DEF listVars
    <3>2. Chained(s)' /\ Walking(s)'
      BY <1>1, <3>1 DEF Chained, Walking
    <3>3. WalkTypes'
      BY <3>1 DEF ListIInv, WalkTypes
    <3> QED BY <3>2, <3>3 DEF ListIInv
  <2> QED BY <2>1, <2>2
<1>4. Chained(s)'
  BY <1>1, <1>2 DEF Chained
<1>5. Listing' = DataOf(node, s)' /\ Listing = DataOf(node, s)
  BY <1>1, <1>4, ListingsAre, ListingsNext
<1> QED BY <1>2, <1>3, <1>5

LEMMA ListStep ==
  ListIInv /\ [ListNext]_listVars => ListIInv' /\ [AbstractList!Next]_Listing
<1> SUFFICES ASSUME ListIInv, [ListNext]_listVars PROVE ListIInv' /\ [AbstractList!Next]_Listing
  OBVIOUS
<1>1. ASSUME NEW d \in Items, Insert(d) PROVE ListIInv' /\ AbstractList!Next
  BY <1>1, InsertKeeps DEF AbstractList!Next
<1>2. ASSUME NEW d \in Items, Add(d) PROVE ListIInv' /\ AbstractList!Next
  BY <1>2, AddKeeps DEF AbstractList!Next
<1>3. ASSUME NEW d \in Items, RemoveData(d) PROVE ListIInv' /\ AbstractList!Next
  BY <1>3, RemoveDataKeeps DEF AbstractList!Next
<1>4. CASE FreeList
  BY <1>4, FreeKeeps DEF AbstractList!Next
<1>5. CASE StartWalk \/ Step \/ EndWalk \/ UNCHANGED listVars
  BY <1>5, WalkKeeps
<1>6. CASE Leave
  BY <1>6, LeaveKeeps DEF AbstractList!Next
<1> QED BY <1>1, <1>2, <1>3, <1>4, <1>5, <1>6 DEF ListNext

(* What the chain says of the links, and of a walk. *)
LEMMA LinksAreMirrored == ListIInv => LinksMirror
<1> SUFFICES ASSUME ListIInv PROVE LinksMirror
  OBVIOUS
<1>1. PICK s : Chained(s)
  BY DEF ListIInv
<1>2. From(head) = s /\ ToSet(s) = DOMAIN node
  BY <1>1, FromIs DEF Chained
<1>3. /\ Len(s) \in Nat /\ 0 \notin DOMAIN node
      /\ \A i \in 1 .. Len(s) : /\ s[i] \in DOMAIN node /\ s[i] # 0
                                /\ node[s[i]].prev = (IF i = 1 THEN 0 ELSE s[i - 1])
                                /\ node[s[i]].next = (IF i = Len(s) THEN 0 ELSE s[i + 1])
                                /\ s[i] = head <=> i = 1
      /\ \A x \in DOMAIN node : \E i \in 1 .. Len(s) : s[i] = x
  BY <1>1, ChainSays
<1>4. ASSUME NEW n \in DOMAIN node
      PROVE  /\ node[n].prev = 0 <=> n = head
             /\ node[n].next # 0 => node[n].next \in DOMAIN node /\ node[node[n].next].prev = n
  <2>1. PICK i \in 1 .. Len(s) : s[i] = n
    BY <1>3
  <2>2. i # 1 => i - 1 \in 1 .. Len(s)
    BY <1>3
  <2>3. node[n].prev = 0 <=> n = head
    BY <1>3, <2>1, <2>2
  <2>4. ASSUME node[n].next # 0 PROVE node[n].next \in DOMAIN node /\ node[node[n].next].prev = n
    <3>1. i # Len(s) /\ node[n].next = s[i + 1]
      BY <1>3, <2>1, <2>4
    <3>2. i + 1 \in 1 .. Len(s) /\ i + 1 # 1 /\ i + 1 - 1 = i
      BY <1>3, <3>1
    <3>3. s[i + 1] \in DOMAIN node /\ node[s[i + 1]].prev = s[i + 1 - 1]
      BY <1>3, <3>2
    <3> QED BY <2>1, <3>1, <3>2, <3>3
  <2> QED BY <2>3, <2>4
<1> QED BY <1>2, <1>4 DEF LinksMirror

LEMMA WalkIsComplete == ListIInv => WalkComplete
<1> SUFFICES ASSUME ListIInv, walk # NoWalk PROVE IsPrefix(seen, due) /\ (walk.next = 0 <=> seen = due)
  BY DEF WalkComplete
<1>1. PICK s : Chained(s) /\ Walking(s)
  BY DEF ListIInv
<1>2. PICK j \in 0 .. Len(due) :
        /\ seen = SubSeq(due, 1, j)
        /\ walk.next = (IF j = Len(due) THEN 0 ELSE due[j + 1])
  BY <1>1 DEF Walking
<1>3. due \in Seq(NodeIds) /\ Len(due) \in Nat /\ \A i \in 1 .. Len(due) : due[i] \in NodeIds
  BY LenProperties, ElementOfSeq DEF ListIInv, WalkTypes
<1>4. /\ seen \in Seq(NodeIds) /\ Len(seen) = j /\ \A i \in 1 .. j : seen[i] = due[i]
  <2>1. \A i \in 1 .. j : i \in 1 .. Len(due)
    BY <1>3
  <2>2. j \in Int /\ 1 \in Int /\ (\A i \in 1 .. j : due[i] \in NodeIds) /\ (IF 1 <= j THEN j - 1 + 1 ELSE 0) = j
        /\ j - 1 + 1 = j /\ \A i \in 1 .. j : 1 + i - 1 = i
    BY <1>3, <2>1
  <2>3. /\ SubSeq(due, 1, j) \in Seq(NodeIds) /\ Len(SubSeq(due, 1, j)) = (IF 1 <= j THEN j - 1 + 1 ELSE 0)
        /\ \A i \in 1 .. j - 1 + 1 : SubSeq(due, 1, j)[i] = due[1 + i - 1]
    BY <2>2, SubSeqProperties
  <2> QED BY <1>2, <2>2, <2>3
<1>5. seen = due <=> j = Len(due)
  <2>1. ASSUME j = Len(due) PROVE seen = due
    BY <1>3, <1>4, <2>1, SeqEqual
  <2> QED BY <1>4, <2>1
<1>6. walk.next = 0 <=> j = Len(due)
  <2>1. ASSUME j # Len(due) PROVE due[j + 1] # 0
    <3>1. j + 1 \in 1 .. Len(due)
      BY <1>3, <2>1
    <3> QED BY <1>3, <3>1, ListAssumption
  <2> QED BY <1>2, <2>1
<1>7. IsPrefix(seen, due)
  BY <1>2, <1>3, <1>4 DEF IsPrefix
<1> QED BY <1>5, <1>6, <1>7

(* However nodes are added, removed by what they carry, or freed while a walk
   goes through them: the list stays the sequence it should be, and the walk is at
   each node of its beginning once (mmt_dbl_linked_list.h,
   rule_verif_engine.c:464-486). *)
THEOREM ListIsRight == ListSpec => ListRight
<1>1. ListInit => AbstractList!Init
  <2> SUFFICES ASSUME ListInit PROVE Listing = <<>>
    BY DEF AbstractList!Init
  <2>1. Chained(<<>>)
    BY DEF ListInit, Chained, IsInjective, ToSet
  <2>2. Listing = DataOf(node, <<>>)
    BY <2>1, ListingsAre
  <2> QED BY <2>2 DEF DataOf
<1>2. ListIInv => LinksMirror /\ WalkComplete
  BY LinksAreMirrored, WalkIsComplete
<1> QED BY <1>1, <1>2, ListInitial, ListStep, PTL DEF ListSpec, ListRight, IsList, AbstractList!Spec

-----------------------------------------------------------------------------
(* Maps.  The first elements of a sequence. *)
LEMMA FirstOnes ==
  ASSUME NEW S, NEW t \in Seq(S), NEW j \in 0 .. Len(t)
  PROVE  /\ SubSeq(t, 1, j) \in Seq(S) /\ Len(SubSeq(t, 1, j)) = j
         /\ \A i \in 1 .. j : SubSeq(t, 1, j)[i] = t[i]
<1>1. Len(t) \in Nat /\ j \in Nat /\ \A i \in 1 .. j : t[i] \in S
  <2>1. Len(t) \in Nat
    BY LenProperties
  <2>2. j \in Nat /\ \A i \in 1 .. j : i \in 1 .. Len(t)
    BY <2>1
  <2> QED BY <2>1, <2>2, ElementOfSeq
<1>2. j \in Int /\ 1 \in Int /\ (\A i \in 1 .. j : t[i] \in S) /\ (IF 1 <= j THEN j - 1 + 1 ELSE 0) = j
      /\ j - 1 + 1 = j /\ \A i \in 1 .. j : 1 + i - 1 = i
  BY <1>1
<1>3. /\ SubSeq(t, 1, j) \in Seq(S) /\ Len(SubSeq(t, 1, j)) = (IF 1 <= j THEN j - 1 + 1 ELSE 0)
      /\ \A i \in 1 .. j - 1 + 1 : SubSeq(t, 1, j)[i] = t[1 + i - 1]
  BY <1>2, SubSeqProperties
<1> QED BY <1>2, <1>3

Agree(p, q, i) == \A j \in 1 .. i : p[j] = q[j]

LEMMA SameFirstOnes ==
  ASSUME NEW S, NEW p \in Seq(S), NEW q \in Seq(S), NEW i \in 0 .. Len(p), i <= Len(q)
  PROVE  SubSeq(p, 1, i) = SubSeq(q, 1, i) <=> Agree(p, q, i)
<1>1. i \in 0 .. Len(q)
  BY LenProperties
<1>2. PICK a, b : a = SubSeq(p, 1, i) /\ b = SubSeq(q, 1, i)
  OBVIOUS
<1>3. a \in Seq(S) /\ Len(a) = i /\ \A j \in 1 .. i : a[j] = p[j]
  BY <1>2, FirstOnes
<1>4. b \in Seq(S) /\ Len(b) = i /\ \A j \in 1 .. i : b[j] = q[j]
  BY <1>1, <1>2, FirstOnes
<1>5. ASSUME Agree(p, q, i) PROVE a = b
  <2>1. \A j \in 1 .. Len(a) : a[j] = b[j]
    BY <1>3, <1>4, <1>5 DEF Agree
  <2> QED BY <1>3, <1>4, <2>1, SeqEqual
<1>6. ASSUME a = b PROVE Agree(p, q, i)
  BY <1>3, <1>4, <1>6 DEF Agree
<1> QED BY <1>2, <1>5, <1>6

LEMMA AllOfThem ==
  ASSUME NEW S, NEW t \in Seq(S)
  PROVE  SubSeq(t, 1, Len(t)) = t
<1>1. Len(t) \in Nat /\ Len(t) \in 0 .. Len(t)
  BY LenProperties
<1>2. PICK a : a = SubSeq(t, 1, Len(t))
  OBVIOUS
<1>3. a \in Seq(S) /\ Len(a) = Len(t) /\ \A i \in 1 .. Len(t) : a[i] = t[i]
  BY <1>1, <1>2, FirstOnes
<1> QED BY <1>2, <1>3, SeqEqual

(* The turns that lead to a node; trees, each of whose nodes is where the search for its
   key ends. *)
Paths   == Seq({0, 1})
Nodes   == [key : Keys, data : Data]
Trees   == UNION {[P -> Nodes] : P \in SUBSET Paths}
IsTree(t) ==
  /\ t \in Trees /\ IsFiniteSet(DOMAIN t)
  /\ \A p \in DOMAIN t : OnTheWay(t, t[p].key, p)
Ends(t, k, p) == OnTheWay(t, k, p) /\ (p \in DOMAIN t => t[p].key = k)

LEMMA NodeIs == ASSUME NEW t \in Trees, NEW p \in DOMAIN t
                PROVE  p \in Paths /\ t[p] \in Nodes /\ t[p].key \in Keys /\ t[p].key \in Int /\ t[p].data \in Data
<1>1. PICK P \in SUBSET Paths : t \in [P -> Nodes]
  BY DEF Trees
<1>2. p \in Paths /\ t[p] \in Nodes
  BY <1>1
<1> HIDE DEF Paths
<1> QED BY <1>2, MapAssumption DEF Nodes

(* A search that goes on as another one does as long as it lasts ends with it. *)
LEMMA NotLonger ==
  ASSUME NEW t, NEW k, NEW p \in Paths, NEW q \in Paths, Ends(t, k, p), Ends(t, k, q), Len(p) <= Len(q)
  PROVE  p = q
<1>1. Len(p) \in Nat /\ Len(q) \in Nat /\ DOMAIN p = 1 .. Len(p) /\ DOMAIN q = 1 .. Len(q)
  BY LenProperties DEF Paths
<1> DEFINE A == {i \in 0 .. Len(p) : Agree(p, q, i)}
<1>2. 0 \in A
  BY <1>1 DEF Agree
<1>3. ASSUME NEW i \in 1 .. Len(p), i - 1 \in A PROVE i \in A
  <2>1. i - 1 \in 0 .. Len(p) /\ i - 1 <= Len(q) /\ i \in 1 .. Len(q) /\ i \in 0 .. Len(p)
    BY <1>1
  <2>2. SubSeq(p, 1, i - 1) = SubSeq(q, 1, i - 1)
    BY <1>3, <2>1, SameFirstOnes DEF Paths
  <2>3. p[i] = Turn(k, t[SubSeq(p, 1, i - 1)])
    BY <1>1 DEF Ends, OnTheWay
  <2>4. q[i] = Turn(k, t[SubSeq(q, 1, i - 1)])
    BY <1>1, <2>1 DEF Ends, OnTheWay
  <2>5. p[i] = q[i]
    BY <2>2, <2>3, <2>4
  <2>6. \A j \in 1 .. i : j \in 1 .. i - 1 \/ j = i
    BY <1>1
  <2>7. Agree(p, q, i)
    BY <1>3, <2>5, <2>6 DEF Agree
  <2> QED BY <2>1, <2>7
<1>4. Len(p) \in A
  <2> HIDE DEF A
  <2>1. Len(p) \in 0 .. Len(p)
    BY <1>1
  <2> QED BY <1>1, <1>2, <1>3, <2>1, UpTo
<1>5. SubSeq(q, 1, Len(p)) = p
  <2>1. SubSeq(p, 1, Len(p)) = SubSeq(q, 1, Len(p))
    <3>1. Len(p) \in 0 .. Len(p)
      BY <1>1
    <3> QED BY <1>4, <3>1, SameFirstOnes DEF Paths
  <2> QED BY <2>1, AllOfThem DEF Paths
<1>6. ASSUME Len(p) < Len(q) PROVE FALSE
  <2>1. PICK i \in DOMAIN q : i = Len(p) + 1 /\ i - 1 = Len(p)
    <3>1. Len(p) + 1 \in 1 .. Len(q) /\ Len(p) + 1 - 1 = Len(p)
      BY <1>1, <1>6
    <3> QED BY <1>1, <3>1
  <2>2. SubSeq(q, 1, i - 1) \in DOMAIN t /\ t[SubSeq(q, 1, i - 1)].key # k
    BY DEF Ends, OnTheWay
  <2> QED BY <1>5, <2>1, <2>2 DEF Ends
<1>7. Len(p) = Len(q)
  <2>1. ~(Len(p) < Len(q)) /\ Len(p) <= Len(q)
    BY <1>6
  <2>2. \A a, b \in Nat : ~(a < b) /\ a <= b => a = b
    OBVIOUS
  <2> QED BY <1>1, <2>1, <2>2
<1> QED BY <1>5, <1>7, AllOfThem DEF Paths

LEMMA OneEnd ==
  ASSUME NEW t, NEW k, NEW p \in Paths, NEW q \in Paths, Ends(t, k, p), Ends(t, k, q)
  PROVE  p = q
<1>1. Len(p) <= Len(q) \/ Len(q) <= Len(p)
  BY LenProperties DEF Paths
<1> QED BY <1>1, NotLonger

(* The paths of a finite set are no longer than some number. *)
LEMMA LengthsEnd ==
  ASSUME NEW P \in SUBSET Paths, IsFiniteSet(P)
  PROVE  \E m \in Nat : \A p \in P : Len(p) <= m
<1>0. PICK n \in Nat : ExistsBijection(1 .. n, P)
  BY FS_NatBijection
<1>1. PICK f \in [1 .. n -> P] : \A p \in P : \E i \in 1 .. n : f[i] = p
  BY <1>0 DEF ExistsBijection, Bijection, Surjection
<1>2. \A i \in 1 .. n : Len(f[i]) \in Nat
  BY LenProperties DEF Paths
<1> DEFINE A == {k \in 0 .. n : \E m \in Nat : \A i \in 1 .. k : Len(f[i]) <= m}
<1>3. 0 \in A
  OBVIOUS
<1>4. ASSUME NEW k \in 1 .. n, k - 1 \in A PROVE k \in A
  <2>1. PICK m \in Nat : \A i \in 1 .. k - 1 : Len(f[i]) <= m
    BY <1>4
  <2>2. PICK l \in Nat : m <= l /\ Len(f[k]) <= l
    BY <1>2
  <2>3. ASSUME NEW i \in 1 .. k PROVE Len(f[i]) <= l
    <3>1. CASE i = k
      BY <2>2, <3>1
    <3>2. CASE i \in 1 .. k - 1
      <4>1. Len(f[i]) \in Nat /\ Len(f[i]) <= m
        BY <1>2, <2>1, <3>2
      <4> QED BY <2>2, <4>1
    <3> QED BY <3>1, <3>2
  <2> QED BY <2>3
<1>5. n \in A
  <2> HIDE DEF A
  <2>1. n \in 0 .. n
    OBVIOUS
  <2> QED BY <1>3, <1>4, <2>1, UpTo
<1>6. PICK m \in Nat : \A i \in 1 .. n : Len(f[i]) <= m
  BY <1>5
<1> QED BY <1>1, <1>6

(* Every search ends. *)
LEMMA EndExists ==
  ASSUME NEW t, IsTree(t), NEW k
  PROVE  \E p \in Places(t) : Ends(t, k, p)
<1> SUFFICES ASSUME \A p \in Places(t) : ~Ends(t, k, p) PROVE FALSE
  OBVIOUS
<1> DEFINE W == {p \in DOMAIN t : OnTheWay(t, k, p)}
<1>1. ASSUME NEW p \in Places(t), OnTheWay(t, k, p) PROVE p \in W /\ t[p].key # k
  BY <1>1 DEF Ends
<1>2. DOMAIN t \subseteq Paths /\ IsFiniteSet(DOMAIN t)
  BY NodeIs DEF IsTree
<1>3. PICK m \in Nat : \A p \in DOMAIN t : Len(p) <= m
  BY <1>2, LengthsEnd
<1>4. <<>> \in W /\ Len(<<>>) = 0
  <2>1. <<>> \in Places(t)
    BY DEF Places
  <2>2. OnTheWay(t, k, <<>>)
    BY DEF OnTheWay
  <2> QED BY <1>1, <2>1, <2>2
<1>5. ASSUME NEW p \in W PROVE \E q \in W : Len(q) = Len(p) + 1
  <2>0. p \in DOMAIN t /\ OnTheWay(t, k, p) /\ p \in Paths
    BY <1>2
  <2>1. t[p].key # k
    <3>1. p \in Places(t)
      BY <2>0 DEF Places
    <3> QED BY <1>1, <2>0, <3>1
  <2>2. PICK x \in {0, 1} : x = Turn(k, t[p])
    BY DEF Turn
  <2>3. PICK q : q = Append(p, x)
    OBVIOUS
  <2>4. /\ q \in Paths /\ Len(p) \in Nat /\ Len(q) = Len(p) + 1 /\ DOMAIN q = 1 .. Len(p) + 1
        /\ q[Len(p) + 1] = x /\ DOMAIN p = 1 .. Len(p)
        /\ \A i \in 1 .. Len(p) : q[i] = p[i]
    BY <2>0, <2>3, Appended DEF Paths
  <2>5. \A i \in 0 .. Len(p) : SubSeq(q, 1, i) = SubSeq(p, 1, i)
    <3> SUFFICES ASSUME NEW i \in 0 .. Len(p) PROVE SubSeq(q, 1, i) = SubSeq(p, 1, i)
      OBVIOUS
    <3>1. i \in 0 .. Len(q) /\ i <= Len(p)
      BY <2>4
    <3>2. Agree(q, p, i)
      <4>1. \A j \in 1 .. i : j \in 1 .. Len(p)
        BY <2>4
      <4> QED BY <2>4, <4>1 DEF Agree
    <3> QED BY <2>0, <2>4, <3>1, <3>2, SameFirstOnes DEF Paths
  <2>6. ASSUME NEW i \in DOMAIN q
        PROVE  LET above == SubSeq(q, 1, i - 1)
               IN  above \in DOMAIN t /\ t[above].key # k /\ q[i] = Turn(k, t[above])
    <3>1. CASE i = Len(p) + 1
      <4>1. i - 1 = Len(p) /\ Len(p) \in 0 .. Len(p)
        BY <2>4, <3>1
      <4>2. SubSeq(q, 1, i - 1) = p
        BY <2>0, <2>5, <4>1, AllOfThem DEF Paths
      <4> QED BY <2>0, <2>1, <2>2, <2>4, <3>1, <4>2
    <3>2. CASE i \in 1 .. Len(p)
      <4>1. i - 1 \in 0 .. Len(p) /\ i \in DOMAIN p
        BY <2>4, <3>2
      <4>2. SubSeq(q, 1, i - 1) = SubSeq(p, 1, i - 1) /\ q[i] = p[i]
        BY <2>4, <2>5, <3>2, <4>1
      <4> QED BY <2>0, <4>1, <4>2 DEF OnTheWay
    <3> QED BY <2>4, <3>1, <3>2
  <2>7. OnTheWay(t, k, q)
    BY <2>6 DEF OnTheWay
  <2>8. q \in Places(t)
    BY <2>0, <2>3 DEF Places
  <2>9. q \in W
    BY <1>1, <2>7, <2>8
  <2> QED BY <2>4, <2>9
<1> DEFINE A == {n \in 0 .. m + 1 : \E p \in W : Len(p) = n}
<1>6. 0 \in A
  BY <1>4
<1>7. ASSUME NEW n \in 1 .. m + 1, n - 1 \in A PROVE n \in A
  <2>1. PICK p \in W : Len(p) = n - 1
    BY <1>7
  <2>2. PICK q \in W : Len(q) = Len(p) + 1
    BY <1>5
  <2>3. Len(q) = n
    BY <2>1, <2>2
  <2> QED BY <2>3
<1>8. m + 1 \in A
  <2> HIDE DEF A
  <2>1. m + 1 \in Nat /\ m + 1 \in 0 .. m + 1
    OBVIOUS
  <2> QED BY <1>6, <1>7, <2>1, UpTo
<1>9. PICK p \in W : Len(p) = m + 1
  BY <1>8
<1>10. Len(p) <= m
  BY <1>3
<1> QED BY <1>9, <1>10

(* What Found finds. *)
LEMMA FoundIs ==
  ASSUME NEW t, IsTree(t), NEW k, NEW p, p = Found(t, k)
  PROVE  /\ p \in Paths /\ Ends(t, k, p)
         /\ \A q \in DOMAIN t : t[q].key = k => q = p
<1>1. Found(t, k) = CHOOSE q \in Places(t) : Ends(t, k, q)
  BY DEF Found, Ends
<1>2. p \in Places(t) /\ Ends(t, k, p)
  BY <1>1, EndExists
<1>3. p \in Paths
  <2>1. ASSUME NEW q \in DOMAIN t, NEW x \in {0, 1} PROVE Append(q, x) \in Paths
    <3>1. q \in Paths
      BY NodeIs DEF IsTree
    <3> QED BY <3>1, Appended DEF Paths
  <2>2. <<>> \in Paths
    BY DEF Paths
  <2>3. DOMAIN t \subseteq Paths
    BY NodeIs DEF IsTree
  <2>4. p = <<>> \/ p \in DOMAIN t \/ \E q \in DOMAIN t, x \in {0, 1} : p = Append(q, x)
    BY <1>2 DEF Places
  <2> HIDE DEF Paths
  <2> QED BY <2>1, <2>2, <2>3, <2>4
<1>4. ASSUME NEW q \in DOMAIN t, t[q].key = k PROVE q = p
  <2>1. q \in Paths /\ OnTheWay(t, k, q)
    BY <1>4, NodeIs DEF IsTree
  <2>2. Ends(t, k, q)
    BY <1>4, <2>1 DEF Ends
  <2> QED BY <1>2, <1>3, <2>1, <2>2, OneEnd
<1> QED BY <1>2, <1>3, <1>4

(* Keys are at one node each. *)
LEMMA OneNodeEach ==
  ASSUME NEW t, IsTree(t), NEW p \in DOMAIN t, NEW q \in DOMAIN t, t[p].key = t[q].key
  PROVE  p = q
<1>1. Ends(t, t[p].key, p) /\ Ends(t, t[p].key, q) /\ p \in Paths /\ q \in Paths
  BY NodeIs DEF IsTree, Ends
<1> QED BY <1>1, OneEnd

(* A search goes on the same way in a tree that has the same keys at least. *)
LEMMA WayKept ==
  ASSUME NEW t, NEW u, NEW k, NEW p, OnTheWay(t, k, p),
         \A q \in DOMAIN t : q \in DOMAIN u /\ u[q].key = t[q].key
  PROVE  OnTheWay(u, k, p)
BY DEF OnTheWay, Turn

LEMMA NodeAdded ==
  ASSUME NEW t, IsTree(t), NEW k \in Keys, NEW d \in Data, NEW p, p = Found(t, k), p \notin DOMAIN t,
         NEW u, u = NodeAt(t, p, [key |-> k, data |-> d])
  PROVE  /\ IsTree(u) /\ DOMAIN u = DOMAIN t \cup {p} /\ u[p].key = k /\ u[p].data = d
         /\ \A q \in DOMAIN t : u[q] = t[q]
         /\ Cardinality(DOMAIN u) = Cardinality(DOMAIN t) + 1
<1>1. p \in Paths /\ OnTheWay(t, k, p) /\ t \in Trees /\ IsFiniteSet(DOMAIN t)
  BY FoundIs DEF Ends, IsTree
<1>2. PICK n \in Nodes : n = [key |-> k, data |-> d]
  BY DEF Nodes
<1>3. n.key = k /\ n.data = d
  BY <1>2
<1>4. u = [q \in DOMAIN t \cup {p} |-> IF q = p THEN n ELSE t[q]]
  BY <1>2 DEF NodeAt
<1>5. DOMAIN u = DOMAIN t \cup {p} /\ u[p] = n /\ \A q \in DOMAIN t : u[q] = t[q] /\ q \in DOMAIN u
  BY <1>4
<1>6. u \in Trees
  <2>1. DOMAIN t \cup {p} \in SUBSET Paths
    BY <1>1, NodeIs
  <2>2. \A q \in DOMAIN t \cup {p} : (IF q = p THEN n ELSE t[q]) \in Nodes
    BY <1>1, NodeIs
  <2>3. u \in [DOMAIN t \cup {p} -> Nodes]
    BY <1>4, <2>2
  <2> HIDE DEF Paths, Nodes
  <2> QED BY <2>1, <2>3 DEF Trees
<1>7. IsFiniteSet(DOMAIN u) /\ Cardinality(DOMAIN u) = Cardinality(DOMAIN t) + 1
  BY <1>1, <1>5, FS_AddElement
<1>8. ASSUME NEW q \in DOMAIN u PROVE OnTheWay(u, u[q].key, q)
  <2>1. OnTheWay(t, u[q].key, q)
    <3>1. CASE q = p
      BY <1>1, <1>3, <1>5, <3>1
    <3>2. CASE q \in DOMAIN t
      BY <1>5, <3>2 DEF IsTree
    <3> QED BY <1>5, <3>1, <3>2
  <2> QED BY <1>5, <2>1, WayKept
<1> QED BY <1>3, <1>5, <1>6, <1>7, <1>8 DEF IsTree

DataAt(t, p, d) == [t EXCEPT ![p].data = d]

LEMMA DataChanged ==
  ASSUME NEW t, IsTree(t), NEW d \in Data, NEW p \in DOMAIN t, NEW u, u = DataAt(t, p, d)
  PROVE  /\ IsTree(u) /\ DOMAIN u = DOMAIN t /\ u[p].key = t[p].key /\ u[p].data = d
         /\ \A q \in DOMAIN t : q # p => u[q] = t[q]
<1>1. t \in Trees /\ IsFiniteSet(DOMAIN t) /\ t[p] \in Nodes
  BY NodeIs DEF IsTree
<1>2. PICK P \in SUBSET Paths : t \in [P -> Nodes]
  BY <1>1 DEF Trees
<1>3. PICK n : n = [t[p] EXCEPT !.data = d]
  OBVIOUS
<1>4. n \in Nodes /\ n.key = t[p].key /\ n.data = d
  BY <1>1, <1>3 DEF Nodes
<1>5. u = [t EXCEPT ![p] = n]
  BY <1>3 DEF DataAt
<1>6. /\ u \in [P -> Nodes] /\ DOMAIN u = DOMAIN t /\ u[p] = n
      /\ \A q \in DOMAIN t : q # p => u[q] = t[q]
  BY <1>2, <1>4, <1>5
<1>7. ASSUME NEW q \in DOMAIN u PROVE OnTheWay(u, u[q].key, q)
  <2>1. \A r \in DOMAIN t : r \in DOMAIN u /\ u[r].key = t[r].key
    BY <1>4, <1>6
  <2>2. OnTheWay(t, u[q].key, q)
    BY <1>6, <2>1 DEF IsTree
  <2> QED BY <2>1, <2>2, WayKept
<1>8. u \in Trees
  BY <1>6 DEF Trees
<1> QED BY <1>1, <1>4, <1>6, <1>7, <1>8 DEF IsTree

(* What a tree holds, as a dictionary. *)
LEMMA DictIs ==
  ASSUME NEW t, IsTree(t)
  PROVE  /\ DOMAIN DictOf(t) = {t[p].key : p \in DOMAIN t}
         /\ \A p \in DOMAIN t : DictOf(t)[t[p].key] = t[p].data
         /\ Cardinality(DOMAIN DictOf(t)) = Cardinality(DOMAIN t) /\ Cardinality(DOMAIN t) \in Nat
         /\ DictOf(t) = [x \in DOMAIN DictOf(t) |-> DictOf(t)[x]]
<1> DEFINE K == {t[p].key : p \in DOMAIN t}
<1>1. DOMAIN DictOf(t) = K /\ DictOf(t) = [x \in DOMAIN DictOf(t) |-> DictOf(t)[x]]
  BY DEF DictOf
<1>2. ASSUME NEW p \in DOMAIN t PROVE DictOf(t)[t[p].key] = t[p].data
  <2>1. PICK q : q = CHOOSE r \in DOMAIN t : t[r].key = t[p].key
    OBVIOUS
  <2>2. q \in DOMAIN t /\ t[q].key = t[p].key
    BY <2>1
  <2>3. q = p
    BY <2>2, OneNodeEach
  <2>4. DictOf(t)[t[p].key] = t[q].data
    BY <2>1 DEF DictOf
  <2> QED BY <2>3, <2>4
<1>3. PICK f : f = [p \in DOMAIN t |-> t[p].key]
  OBVIOUS
<1>4. f \in Bijection(DOMAIN t, K)
  <2>1. \A p, q \in DOMAIN t : f[p] = f[q] => p = q
    BY <1>3, OneNodeEach
  <2>2. f \in [DOMAIN t -> K] /\ \A x \in K : \E p \in DOMAIN t : f[p] = x
    BY <1>3
  <2> QED BY <2>1, <2>2 DEF Bijection, Injection, Surjection, IsInjective
<1>5. Cardinality(K) = Cardinality(DOMAIN t) /\ Cardinality(DOMAIN t) \in Nat
  <2>1. ExistsBijection(DOMAIN t, K) /\ IsFiniteSet(DOMAIN t)
    BY <1>4 DEF ExistsBijection, IsTree
  <2> QED BY <2>1, FS_Bijection, FS_CardinalityType
<1> QED BY <1>1, <1>2, <1>5

(* What is put into a dictionary. *)
PutInto(f, k, d, override) ==
  IF k \in DOMAIN f /\ ~override THEN f ELSE [x \in DOMAIN f \cup {k} |-> IF x = k THEN d ELSE f[x]]

LEMMA SameDict ==
  ASSUME NEW f, NEW g, f = [x \in DOMAIN f |-> f[x]], g = [x \in DOMAIN g |-> g[x]],
         DOMAIN f = DOMAIN g, \A x \in DOMAIN f : f[x] = g[x]
  PROVE  f = g
OBVIOUS

LEMMA SetIs ==
  ASSUME NEW t, IsTree(t), NEW k \in Keys, NEW d \in Data, NEW o \in BOOLEAN, NEW s, s = SetData(t, k, d, o)
  PROVE  /\ IsTree(s.tree) /\ DictOf(s.tree) = PutInto(DictOf(t), k, d, o)
         /\ s.ret = (IF k \notin DOMAIN DictOf(t) THEN NULL ELSE IF o THEN DictOf(t)[k] ELSE d)
         /\ Cardinality(DOMAIN s.tree) = IF s.ret = NULL THEN Cardinality(DOMAIN t) + 1 ELSE Cardinality(DOMAIN t)
<1>1. PICK p : p = Found(t, k)
  OBVIOUS
<1>2. Ends(t, k, p) /\ \A q \in DOMAIN t : t[q].key = k => q = p
  BY <1>1, FoundIs
<1>3. k \in DOMAIN DictOf(t) <=> p \in DOMAIN t
  <2>1. DOMAIN DictOf(t) = {t[q].key : q \in DOMAIN t}
    BY DictIs
  <2>2. p \in DOMAIN t => t[p].key = k
    BY <1>2 DEF Ends
  <2> QED BY <1>2, <2>1, <2>2
<1>4. d # NULL /\ \A q \in DOMAIN t : t[q].data # NULL
  <2>1. \A q \in DOMAIN t : t[q].data \in Data
    BY NodeIs DEF IsTree
  <2> QED BY <2>1, MapAssumption
<1>5. PICK f : f = DictOf(t)
  OBVIOUS
<1>6. /\ DOMAIN f = {t[q].key : q \in DOMAIN t} /\ f = [x \in DOMAIN f |-> f[x]]
      /\ \A q \in DOMAIN t : f[t[q].key] = t[q].data
  BY <1>5, DictIs
<1>7. CASE p \notin DOMAIN t
  <2>1. PICK u : u = NodeAt(t, p, [key |-> k, data |-> d])
    OBVIOUS
  <2>2. s.tree = u /\ s.ret = NULL
    <3>1. s = [tree |-> u, ret |-> NULL]
      BY <1>1, <1>7, <2>1 DEF SetData
    <3> QED BY <3>1
  <2>3. /\ IsTree(u) /\ DOMAIN u = DOMAIN t \cup {p} /\ u[p].key = k /\ u[p].data = d
        /\ \A q \in DOMAIN t : u[q] = t[q]
        /\ Cardinality(DOMAIN u) = Cardinality(DOMAIN t) + 1
    BY <1>1, <1>7, <2>1, NodeAdded
  <2>4. PICK g : g = DictOf(u)
    OBVIOUS
  <2>5. /\ DOMAIN g = {u[q].key : q \in DOMAIN u} /\ g = [x \in DOMAIN g |-> g[x]]
        /\ \A q \in DOMAIN u : g[u[q].key] = u[q].data
    BY <2>3, <2>4, DictIs
  <2>6. PICK h : h = [x \in DOMAIN f \cup {k} |-> IF x = k THEN d ELSE f[x]]
    OBVIOUS
  <2>7. g = h
    <3>1. DOMAIN g = DOMAIN f \cup {k} /\ g[k] = d
      BY <1>6, <2>3, <2>5
    <3>2. ASSUME NEW x \in DOMAIN f PROVE g[x] = f[x] /\ x # k
      <4>1. PICK q \in DOMAIN t : x = t[q].key
        BY <1>6
      <4>2. q \in DOMAIN u /\ u[q] = t[q] /\ x # k
        BY <1>2, <1>7, <2>3, <4>1
      <4> QED BY <1>6, <2>5, <4>1, <4>2
    <3>3. h = [x \in DOMAIN h |-> h[x]] /\ DOMAIN h = DOMAIN f \cup {k} /\ h[k] = d /\ \A x \in DOMAIN f : x # k => h[x] = f[x]
      BY <2>6
    <3>4. \A x \in DOMAIN g : g[x] = h[x]
      BY <3>1, <3>2, <3>3
    <3> QED BY <2>5, <3>1, <3>3, <3>4, SameDict
  <2>8. DictOf(s.tree) = PutInto(DictOf(t), k, d, o)
    BY <1>3, <1>5, <1>7, <2>2, <2>4, <2>6, <2>7 DEF PutInto
  <2> QED BY <1>3, <1>7, <2>2, <2>3, <2>8
<1>8. CASE p \in DOMAIN t /\ o
  <2>0. t[p].key = k
    BY <1>2, <1>8 DEF Ends
  <2>1. PICK u : u = DataAt(t, p, d)
    OBVIOUS
  <2>2. s.tree = u /\ s.ret = t[p].data
    <3>1. s = [tree |-> u, ret |-> t[p].data]
      BY <1>1, <1>8, <2>1 DEF SetData, DataAt
    <3> QED BY <3>1
  <2>3. /\ IsTree(u) /\ DOMAIN u = DOMAIN t /\ u[p].key = k /\ u[p].data = d
        /\ \A q \in DOMAIN t : q # p => u[q] = t[q]
    <3>1. p \in DOMAIN t /\ d \in Data /\ IsTree(t)
      BY <1>8
    <3>2. /\ IsTree(u) /\ DOMAIN u = DOMAIN t /\ u[p].key = t[p].key /\ u[p].data = d
          /\ \A q \in DOMAIN t : q # p => u[q] = t[q]
      BY <2>1, <3>1, DataChanged
    <3> QED BY <2>0, <3>2
  <2>4. PICK g : g = DictOf(u)
    OBVIOUS
  <2>5. /\ DOMAIN g = {u[q].key : q \in DOMAIN u} /\ g = [x \in DOMAIN g |-> g[x]]
        /\ \A q \in DOMAIN u : g[u[q].key] = u[q].data
    BY <2>3, <2>4, DictIs
  <2>6. PICK h : h = [x \in DOMAIN f \cup {k} |-> IF x = k THEN d ELSE f[x]]
    OBVIOUS
  <2>9. \A q \in DOMAIN t : u[q].key = t[q].key
    BY <2>0, <2>3
  <2>7. g = h
    <3>1. DOMAIN g = DOMAIN f /\ k \in DOMAIN f /\ g[k] = d
      BY <1>6, <1>8, <2>0, <2>3, <2>5, <2>9
    <3>2. ASSUME NEW x \in DOMAIN f, x # k PROVE g[x] = f[x]
      <4>1. PICK q \in DOMAIN t : x = t[q].key
        BY <1>6
      <4>2. q \in DOMAIN u /\ u[q] = t[q]
        BY <2>0, <2>3, <3>2, <4>1
      <4> QED BY <1>6, <2>5, <4>1, <4>2
    <3>3. h = [x \in DOMAIN h |-> h[x]] /\ DOMAIN h = DOMAIN f \cup {k} /\ h[k] = d /\ \A x \in DOMAIN f : x # k => h[x] = f[x]
      BY <2>6
    <3>4. \A x \in DOMAIN g : g[x] = h[x]
      BY <3>1, <3>2, <3>3
    <3>5. DOMAIN g = DOMAIN h
      BY <3>1, <3>3
    <3> QED BY <2>5, <3>3, <3>4, <3>5, SameDict
  <2>8. DictOf(s.tree) = PutInto(DictOf(t), k, d, o)
    BY <1>3, <1>5, <1>8, <2>2, <2>4, <2>6, <2>7 DEF PutInto
  <2>10. DictOf(t)[k] = t[p].data /\ s.ret # NULL
    BY <1>4, <1>5, <1>6, <1>8, <2>0, <2>2
  <2> QED BY <1>3, <1>8, <2>2, <2>3, <2>8, <2>10
<1>9. CASE p \in DOMAIN t /\ ~o
  <2>1. s.tree = t /\ s.ret = d
    <3>1. s = [tree |-> t, ret |-> d]
      BY <1>1, <1>9 DEF SetData
    <3> QED BY <3>1
  <2> QED BY <1>3, <1>4, <1>9, <2>1 DEF PutInto
<1> QED BY <1>7, <1>8, <1>9

(* The order of visits is that of the keys. *)
LEMMA TurnsTell ==
  ASSUME NEW t, IsTree(t), NEW p \in DOMAIN t, NEW i \in 0 .. Len(p), i < Len(p)
  PROVE  LET a == SubSeq(p, 1, i)
         IN  /\ a \in DOMAIN t /\ t[a].key # t[p].key /\ p[i + 1] \in {0, 1}
             /\ p[i + 1] = 0 <=> t[p].key < t[a].key
<1>1. OnTheWay(t, t[p].key, p) /\ Len(p) \in Nat /\ DOMAIN p = 1 .. Len(p)
  BY NodeIs, LenProperties DEF IsTree, Paths
<1>2. PICK j \in DOMAIN p : j = i + 1 /\ j - 1 = i
  <2>1. i + 1 \in 1 .. Len(p) /\ i + 1 - 1 = i
    BY <1>1
  <2> QED BY <1>1, <2>1
<1>3. LET a == SubSeq(p, 1, j - 1) IN a \in DOMAIN t /\ t[a].key # t[p].key /\ p[j] = Turn(t[p].key, t[a])
  BY <1>1 DEF OnTheWay
<1> QED BY <1>2, <1>3 DEF Turn

LEMMA BeforeSmaller ==
  ASSUME NEW t, IsTree(t), NEW p \in DOMAIN t, NEW q \in DOMAIN t, Before(p, q)
  PROVE  t[p].key < t[q].key
<1>1. /\ p \in Paths /\ q \in Paths /\ Len(p) \in Nat /\ Len(q) \in Nat
      /\ \A r \in DOMAIN t : t[r].key \in Int
  BY NodeIs, LenProperties DEF IsTree, Paths
<1>2. PICK i \in 0 .. Len(p) :
        /\ i <= Len(q) /\ SubSeq(p, 1, i) = SubSeq(q, 1, i)
        /\ i < Len(p) => p[i + 1] = 0
        /\ i < Len(q) => q[i + 1] = 1
        /\ i < Len(p) \/ i < Len(q)
  BY DEF Before
<1>3. PICK a : a = SubSeq(p, 1, i) /\ a = SubSeq(q, 1, i)
  BY <1>2
<1>4. i \in 0 .. Len(q)
  BY <1>1, <1>2
<1>5. i < Len(p) => a \in DOMAIN t /\ t[p].key < t[a].key
  BY <1>2, <1>3, TurnsTell
<1>6. i < Len(q) => a \in DOMAIN t /\ t[a].key # t[q].key /\ ~(t[q].key < t[a].key)
  <2> SUFFICES ASSUME i < Len(q) PROVE a \in DOMAIN t /\ t[a].key # t[q].key /\ ~(t[q].key < t[a].key)
    OBVIOUS
  <2>1. a = SubSeq(q, 1, i) /\ i < Len(q)
    BY <1>3
  <2>2. a \in DOMAIN t /\ t[a].key # t[q].key /\ (q[i + 1] = 0 <=> t[q].key < t[a].key)
    BY <1>4, <2>1, TurnsTell
  <2>3. q[i + 1] = 1
    BY <1>2
  <2> QED BY <2>2, <2>3
<1>7. (~(i < Len(p)) => a = p) /\ (~(i < Len(q)) => a = q)
  <2>1. (~(i < Len(p)) => i = Len(p)) /\ (~(i < Len(q)) => i = Len(q))
    BY <1>1, <1>2
  <2> QED BY <1>1, <1>3, <2>1, AllOfThem DEF Paths
<1>8. CASE i < Len(p) /\ i < Len(q)
  <2>1. t[p].key < t[a].key /\ ~(t[q].key < t[a].key) /\ a \in DOMAIN t
    BY <1>5, <1>6, <1>8
  <2> QED BY <1>1, <2>1
<1>9. CASE ~(i < Len(q))
  BY <1>2, <1>5, <1>7, <1>9
<1>10. CASE ~(i < Len(p))
  <2>1. a = p /\ t[p].key # t[q].key /\ ~(t[q].key < t[p].key)
    BY <1>2, <1>6, <1>7, <1>10
  <2> QED BY <1>1, <2>1
<1> QED BY <1>8, <1>9, <1>10

(* Two paths part somewhere. *)
LEMMA PartSomewhere ==
  ASSUME NEW p \in Paths, NEW q \in Paths, p # q
  PROVE  \E i \in 0 .. Len(p) : /\ i <= Len(q) /\ SubSeq(p, 1, i) = SubSeq(q, 1, i)
                                /\ i < Len(p) \/ i < Len(q)
                                /\ i < Len(p) /\ i < Len(q) => p[i + 1] # q[i + 1]
<1>1. Len(p) \in Nat /\ Len(q) \in Nat
  BY LenProperties DEF Paths
<1> DEFINE B == {i \in 0 .. Len(p) : i <= Len(q) /\ Agree(p, q, i)}
<1> SUFFICES ASSUME \A i \in B : (i < Len(p) /\ i < Len(q) /\ p[i + 1] = q[i + 1]) \/ ~(i < Len(p) \/ i < Len(q))
             PROVE  FALSE
  <2>1. \A i \in B : SubSeq(p, 1, i) = SubSeq(q, 1, i)
    BY SameFirstOnes DEF Paths
  <2> QED BY <2>1
<1>2. 0 \in B
  BY <1>1 DEF Agree
<1>3. ASSUME NEW i \in B, i < Len(p), i < Len(q), p[i + 1] = q[i + 1] PROVE i + 1 \in B
  <2>1. i + 1 \in 0 .. Len(p) /\ i + 1 <= Len(q) /\ \A j \in 1 .. i + 1 : j \in 1 .. i \/ j = i + 1
    BY <1>1, <1>3
  <2> QED BY <1>3, <2>1 DEF Agree
<1>4. \A i \in B : ~(i < Len(p) \/ i < Len(q)) => FALSE
  <2> SUFFICES ASSUME NEW i \in B, ~(i < Len(p) \/ i < Len(q)) PROVE FALSE
    OBVIOUS
  <2>1. i = Len(p) /\ i = Len(q) /\ Agree(p, q, i)
    BY <1>1
  <2>2. \A j \in 1 .. Len(p) : p[j] = q[j]
    BY <2>1 DEF Agree
  <2>3. p = q
    BY <2>1, <2>2, SeqEqual DEF Paths
  <2> QED BY <2>3
<1> DEFINE A == {i \in 0 .. Len(p) + 1 : i \in B}
<1>5. 0 \in A
  BY <1>1, <1>2
<1>6. ASSUME NEW i \in 1 .. Len(p) + 1, i - 1 \in A PROVE i \in A
  <2>1. i - 1 \in B /\ i - 1 + 1 = i /\ i \in 0 .. Len(p) + 1
    BY <1>1, <1>6
  <2> QED BY <1>3, <1>4, <2>1
<1>7. Len(p) + 1 \in A
  <2> HIDE DEF A
  <2>1. Len(p) + 1 \in Nat /\ Len(p) + 1 \in 0 .. Len(p) + 1
    BY <1>1
  <2> QED BY <1>5, <1>6, <2>1, UpTo
<1> QED BY <1>1, <1>7

LEMMA OneIsBefore ==
  ASSUME NEW t, IsTree(t), NEW p \in DOMAIN t, NEW q \in DOMAIN t, p # q
  PROVE  Before(p, q) \/ Before(q, p)
<1>1. p \in Paths /\ q \in Paths /\ Len(p) \in Nat /\ Len(q) \in Nat
  BY NodeIs, LenProperties DEF IsTree, Paths
<1>2. PICK i \in 0 .. Len(p) : /\ i <= Len(q) /\ SubSeq(p, 1, i) = SubSeq(q, 1, i)
                               /\ i < Len(p) \/ i < Len(q)
                               /\ i < Len(p) /\ i < Len(q) => p[i + 1] # q[i + 1]
  BY <1>1, PartSomewhere
<1>3. i \in 0 .. Len(q) /\ i <= Len(p)
  BY <1>1, <1>2
<1>4. (i < Len(p) => p[i + 1] \in {0, 1}) /\ (i < Len(q) => q[i + 1] \in {0, 1})
  BY <1>3, TurnsTell
<1>5. CASE (i < Len(p) => p[i + 1] = 0) /\ (i < Len(q) => q[i + 1] = 1)
  BY <1>2, <1>5 DEF Before
<1>6. CASE (i < Len(q) => q[i + 1] = 0) /\ (i < Len(p) => p[i + 1] = 1)
  BY <1>2, <1>3, <1>6 DEF Before
<1> QED BY <1>2, <1>4, <1>5, <1>6

LEMMA BeforeIs ==
  ASSUME NEW t, IsTree(t), NEW p \in DOMAIN t, NEW q \in DOMAIN t
  PROVE  Before(p, q) <=> t[p].key < t[q].key
<1>1. t[p].key \in Int /\ t[q].key \in Int
  BY NodeIs DEF IsTree
<1>2. ASSUME t[p].key < t[q].key PROVE Before(p, q)
  <2>1. p # q
    BY <1>1, <1>2
  <2>2. ~Before(q, p)
    <3>1. ASSUME Before(q, p) PROVE t[q].key < t[p].key
      BY <3>1, BeforeSmaller
    <3> QED BY <1>1, <1>2, <3>1
  <2> QED BY <2>1, <2>2, OneIsBefore
<1> QED BY <1>2, BeforeSmaller

(* The ranks of a finite set of numbers, one for each element, are 0, 1, 2... *)
RankIn(D, key, p) == Cardinality({q \in D : key[q] < key[p]})

LEMMA RanksFill ==
  ASSUME NEW D, IsFiniteSet(D), NEW key \in [D -> Int], \A p, q \in D : key[p] = key[q] => p = q,
         NEW n, n = Cardinality(D)
  PROVE  /\ n \in Nat /\ \A p \in D : RankIn(D, key, p) \in 0 .. n - 1
         /\ \A p, q \in D : RankIn(D, key, p) = RankIn(D, key, q) => p = q
         /\ \A i \in 1 .. n : \E p \in D : RankIn(D, key, p) = i - 1
<1>1. n \in Nat
  BY FS_CardinalityType
<1>2. ASSUME NEW p \in D
      PROVE  LET L == {q \in D : key[q] < key[p]}
             IN  IsFiniteSet(L) /\ IsFiniteSet(L \cup {p}) /\ Cardinality(L) \in Nat
                 /\ Cardinality(L \cup {p}) = Cardinality(L) + 1
  <2> DEFINE L == {q \in D : key[q] < key[p]}
  <2>1. L \in SUBSET D /\ p \notin L
    OBVIOUS
  <2> HIDE DEF L
  <2>2. IsFiniteSet(L)
    BY <2>1, FS_Subset
  <2>3. IsFiniteSet(L \cup {p}) /\ Cardinality(L \cup {p}) = Cardinality(L) + 1 /\ Cardinality(L) \in Nat
    BY <2>1, <2>2, FS_AddElement, FS_CardinalityType
  <2> QED BY <2>2, <2>3 DEF L
<1>3. ASSUME NEW p \in D, NEW q \in D, key[p] < key[q]
      PROVE  RankIn(D, key, p) < RankIn(D, key, q)
  <2> DEFINE L == {r \in D : key[r] < key[p]}
             M == {r \in D : key[r] < key[q]}
  <2>1. \A r \in L \cup {p} : r \in M
    <3>1. key[p] \in Int /\ key[q] \in Int /\ \A r \in D : key[r] \in Int
      OBVIOUS
    <3> QED BY <1>3, <3>1
  <2>2. IsFiniteSet(M) /\ Cardinality(M) \in Nat /\ Cardinality(L) \in Nat /\ Cardinality(L \cup {p}) = Cardinality(L) + 1
    BY <1>2
  <2> HIDE DEF L, M
  <2>3. Cardinality(L \cup {p}) <= Cardinality(M)
    <3>1. L \cup {p} \in SUBSET M
      BY <2>1
    <3> QED BY <2>2, <3>1, FS_Subset
  <2>4. Cardinality(L) < Cardinality(M)
    BY <2>2, <2>3
  <2> QED BY <2>4 DEF RankIn, L, M
<1>4. ASSUME NEW p \in D PROVE RankIn(D, key, p) \in 0 .. n - 1
  <2> DEFINE L == {q \in D : key[q] < key[p]}
  <2>1. L \cup {p} \in SUBSET D /\ Cardinality(L) \in Nat /\ Cardinality(L \cup {p}) = Cardinality(L) + 1
    BY <1>2
  <2> HIDE DEF L
  <2>2. Cardinality(L \cup {p}) <= n
    BY <2>1, FS_Subset
  <2>3. Cardinality(L) \in 0 .. n - 1
    BY <1>1, <2>1, <2>2
  <2> QED BY <2>3 DEF RankIn, L
<1>5. ASSUME NEW p \in D, NEW q \in D, RankIn(D, key, p) = RankIn(D, key, q) PROVE p = q
  <2>1. RankIn(D, key, p) \in 0 .. n - 1 /\ RankIn(D, key, q) \in 0 .. n - 1
    BY <1>4
  <2>2. ~(key[p] < key[q]) /\ ~(key[q] < key[p])
    <3>1. \A i, j \in 0 .. n - 1 : i = j => ~(i < j) /\ ~(j < i)
      OBVIOUS
    <3> QED BY <1>3, <1>5, <2>1, <3>1
  <2>3. key[p] \in Int /\ key[q] \in Int
    OBVIOUS
  <2>4. key[p] = key[q]
    BY <2>2, <2>3
  <2> QED BY <2>4
<1>6. PICK f : f = [p \in D |-> RankIn(D, key, p)]
  OBVIOUS
<1>7. f \in Injection(D, 0 .. n - 1) /\ \A p \in D : f[p] = RankIn(D, key, p)
  <2>1. f \in [D -> 0 .. n - 1] /\ \A p \in D : f[p] = RankIn(D, key, p)
    BY <1>4, <1>6
  <2>2. \A p, q \in D : f[p] = f[q] => p = q
    BY <1>5, <2>1
  <2> QED BY <2>1, <2>2 DEF Injection, IsInjective
<1>8. IsFiniteSet(0 .. n - 1) /\ Cardinality(0 .. n - 1) = n
  <2>1. 0 \in Int /\ n - 1 \in Int /\ (IF 0 > n - 1 THEN 0 ELSE n - 1 - 0 + 1) = n
    BY <1>1
  <2> QED BY <2>1, FS_Interval
<1>9. f \in Surjection(D, 0 .. n - 1)
  BY <1>7, <1>8, FS_Injection
<1>10. ASSUME NEW i \in 1 .. n PROVE \E p \in D : RankIn(D, key, p) = i - 1
  <2>1. i - 1 \in 0 .. n - 1
    BY <1>1
  <2>2. \E p \in D : f[p] = i - 1
    BY <1>9, <2>1 DEF Surjection
  <2> QED BY <1>7, <2>2
<1> QED BY <1>1, <1>4, <1>5, <1>10

(* Who is visited when. *)
Rank(t, p) == Cardinality({q \in DOMAIN t : t[q].key < t[p].key})

LEMMA VisitsAre ==
  ASSUME NEW t, IsTree(t), NEW n, n = Cardinality(DOMAIN t), NEW v, v = Visits(t)
  PROVE  /\ n \in Nat /\ DOMAIN v = 1 .. n
         /\ \A i \in 1 .. n : v[i] \in DOMAIN t /\ Rank(t, v[i]) = i - 1
         /\ \A p \in DOMAIN t : Rank(t, p) + 1 \in 1 .. n /\ Rank(t, p) \in Int /\ v[Rank(t, p) + 1] = p
         /\ \A i, j \in 1 .. n : t[v[i]].key = t[v[j]].key => i = j
<1>0. IsFiniteSet(DOMAIN t) /\ \A p \in DOMAIN t : t[p].key \in Int
  BY NodeIs DEF IsTree
<1>1. PICK key : key = [p \in DOMAIN t |-> t[p].key]
  OBVIOUS
<1>2. /\ key \in [DOMAIN t -> Int] /\ \A p \in DOMAIN t : key[p] = t[p].key
      /\ \A p, q \in DOMAIN t : key[p] = key[q] => p = q
  BY <1>0, <1>1, OneNodeEach
<1>3. ASSUME NEW p \in DOMAIN t
      PROVE  Rank(t, p) = RankIn(DOMAIN t, key, p) /\ Rank(t, p) = Cardinality({q \in DOMAIN t : Before(q, p)})
  <2>1. {q \in DOMAIN t : t[q].key < t[p].key} = {q \in DOMAIN t : key[q] < key[p]}
    BY <1>2
  <2>2. {q \in DOMAIN t : t[q].key < t[p].key} = {q \in DOMAIN t : Before(q, p)}
    BY BeforeIs
  <2> QED BY <2>1, <2>2 DEF Rank, RankIn
<1>4. /\ n \in Nat /\ \A p \in DOMAIN t : Rank(t, p) \in 0 .. n - 1
      /\ \A p, q \in DOMAIN t : Rank(t, p) = Rank(t, q) => p = q
      /\ \A i \in 1 .. n : \E p \in DOMAIN t : Rank(t, p) = i - 1
  <2>1. /\ n \in Nat /\ \A p \in DOMAIN t : RankIn(DOMAIN t, key, p) \in 0 .. n - 1
        /\ \A p, q \in DOMAIN t : RankIn(DOMAIN t, key, p) = RankIn(DOMAIN t, key, q) => p = q
        /\ \A i \in 1 .. n : \E p \in DOMAIN t : RankIn(DOMAIN t, key, p) = i - 1
    BY <1>0, <1>2, RanksFill
  <2>2. \A p \in DOMAIN t : Rank(t, p) = RankIn(DOMAIN t, key, p)
    BY <1>3
  <2>3. ASSUME NEW i \in 1 .. n PROVE \E p \in DOMAIN t : Rank(t, p) = i - 1
    BY <2>1, <2>2
  <2>4. ASSUME NEW p \in DOMAIN t, NEW q \in DOMAIN t, Rank(t, p) = Rank(t, q) PROVE p = q
    BY ONLY <2>1, <2>2, <2>4
  <2>5. \A p \in DOMAIN t : Rank(t, p) \in 0 .. n - 1
    BY ONLY <2>1, <2>2
  <2> QED BY <2>1, <2>3, <2>4, <2>5
<1>5. DOMAIN v = 1 .. n
  BY DEF Visits
<1>6. ASSUME NEW i \in 1 .. n PROVE v[i] \in DOMAIN t /\ Rank(t, v[i]) = i - 1
  <2>1. v[i] = CHOOSE p \in DOMAIN t : Cardinality({q \in DOMAIN t : Before(q, p)}) = i - 1
    BY DEF Visits
  <2>2. \E p \in DOMAIN t : Cardinality({q \in DOMAIN t : Before(q, p)}) = i - 1
    BY <1>3, <1>4
  <2>3. v[i] \in DOMAIN t /\ Cardinality({q \in DOMAIN t : Before(q, v[i])}) = i - 1
    BY <2>1, <2>2
  <2> QED BY <1>3, <2>3
<1>7. ASSUME NEW p \in DOMAIN t PROVE Rank(t, p) + 1 \in 1 .. n /\ Rank(t, p) \in Int /\ v[Rank(t, p) + 1] = p
  <2>1. PICK r \in 0 .. n - 1 : r = Rank(t, p)
    BY <1>4
  <2>2. r + 1 \in 1 .. n /\ r \in Int /\ r + 1 - 1 = r
    BY <1>4
  <2>3. v[r + 1] \in DOMAIN t /\ Rank(t, v[r + 1]) = r
    BY <1>6, <2>2
  <2>4. v[r + 1] = p
    BY <1>4, <2>1, <2>3
  <2> QED BY <2>1, <2>2, <2>4
<1>8. ASSUME NEW i \in 1 .. n, NEW j \in 1 .. n, t[v[i]].key = t[v[j]].key PROVE i = j
  <2>1. v[i] = v[j]
    BY <1>6, <1>8, OneNodeEach
  <2>2. i - 1 = j - 1
    BY <1>6, <2>1
  <2> QED BY <1>4, <2>2
<1> QED BY <1>4, <1>5, <1>6, <1>7, <1>8

LEMMA RanksHold ==
  ASSUME NEW t, IsTree(t)
  PROVE  RanksOf(t, Cardinality(DOMAIN t))
<1>1. PICK n, v : n = Cardinality(DOMAIN t) /\ v = Visits(t)
  OBVIOUS
<1>2. /\ n \in Nat /\ DOMAIN v = 1 .. n
      /\ \A i \in 1 .. n : v[i] \in DOMAIN t /\ Rank(t, v[i]) = i - 1
      /\ \A p \in DOMAIN t : Rank(t, p) + 1 \in 1 .. n /\ Rank(t, p) \in Int /\ v[Rank(t, p) + 1] = p
      /\ \A i, j \in 1 .. n : t[v[i]].key = t[v[j]].key => i = j
  BY <1>1, VisitsAre
<1>3. ASSUME NEW p \in DOMAIN t
      PROVE  /\ GetIndex(t, t[p].key) = Rank(t, p)
             /\ GetData(t, t[p].key) = t[p].data
             /\ ToArray(t)[Rank(t, p) + 1] = t[p].data
  <2>1. PICK r : r = Rank(t, p)
    OBVIOUS
  <2>2. r + 1 \in 1 .. n /\ r \in Int /\ v[r + 1] = p
    BY <1>2, <2>1
  <2>3. ToArray(t)[r + 1] = t[p].data
    BY <1>1, <1>2, <2>2 DEF ToArray
  <2>4. GetIndex(t, t[p].key) = r
    <3> DEFINE at == {i \in DOMAIN Visits(t) : t[Visits(t)[i]].key = t[p].key}
    <3>1. at = {r + 1}
      <4>1. at = {i \in 1 .. n : t[v[i]].key = t[p].key}
        BY <1>1, <1>2
      <4>2. \A i \in 1 .. n : t[v[i]].key = t[p].key <=> i = r + 1
        BY <1>2, <2>2
      <4> QED BY <2>2, <4>1, <4>2
    <3>2. GetIndex(t, t[p].key) = IF at = {} THEN -1 ELSE (CHOOSE i \in at : TRUE) - 1
      BY DEF GetIndex
    <3> HIDE DEF at
    <3>3. PICK c : c = CHOOSE i \in at : TRUE
      OBVIOUS
    <3>4. c = r + 1 /\ at # {}
      BY <3>1, <3>3
    <3>5. GetIndex(t, t[p].key) = c - 1
      BY <3>2, <3>3, <3>4
    <3> QED BY <2>2, <3>4, <3>5
  <2>5. GetData(t, t[p].key) = t[p].data
    <3>1. PICK q : q = Found(t, t[p].key)
      OBVIOUS
    <3>2. p = q
      BY <3>1, FoundIs
    <3> QED BY <3>1, <3>2 DEF GetData
  <2> QED BY <2>1, <2>3, <2>4, <2>5
<1> QED BY <1>3 DEF RanksOf, Rank

(* Trees with their sizes; a clone is made of them. *)
Copies == {c \in [tree : Trees, size : Nat] : IsTree(c.tree) /\ c.size = Cardinality(DOMAIN c.tree)}

LEMMA NothingIsTree ==
  /\ IsTree(<<>>) /\ Cardinality(DOMAIN <<>>) = 0 /\ DictOf(<<>>) = <<>>
  /\ Empty \in Copies /\ Empty.tree = <<>> /\ Empty.size = 0
<1>1. DOMAIN <<>> = {}
  OBVIOUS
<1>2. <<>> \in [{} -> Nodes] /\ {} \in SUBSET Paths
  OBVIOUS
<1>3. <<>> \in Trees
  BY <1>2 DEF Trees
<1>4. IsTree(<<>>) /\ Cardinality(DOMAIN <<>>) = 0
  <2>1. IsFiniteSet({}) /\ Cardinality({}) = 0
    BY FS_EmptySet
  <2> QED BY <1>1, <1>3, <2>1 DEF IsTree
<1>5. DictOf(<<>>) = <<>>
  <2>1. {<<>>[p].key : p \in DOMAIN <<>>} = {}
    BY <1>1
  <2>2. PICK f : f = DictOf(<<>>)
    OBVIOUS
  <2>3. DOMAIN f = {} /\ f = [x \in DOMAIN f |-> f[x]]
    BY <2>1, <2>2 DEF DictOf
  <2>4. PICK g : g = <<>>
    OBVIOUS
  <2>5. DOMAIN g = {} /\ g = [x \in DOMAIN g |-> g[x]]
    BY <2>4
  <2> QED BY <2>2, <2>3, <2>4, <2>5, SameDict
<1>6. Empty.tree = <<>> /\ Empty.size = 0 /\ Empty \in [tree : Trees, size : Nat]
  BY <1>3 DEF Empty
<1>7. Empty \in Copies
  BY <1>4, <1>6 DEF Copies
<1> QED BY <1>4, <1>5, <1>6, <1>7

LEMMA SetAgainIs ==
  ASSUME NEW c \in Copies, NEW n \in Nodes, NEW e, e = SetAgain(c, n)
  PROVE  e \in Copies /\ DictOf(e.tree) = PutInto(DictOf(c.tree), n.key, n.data, FALSE)
<1>1. IsTree(c.tree) /\ c.size \in Nat /\ c.size = Cardinality(DOMAIN c.tree)
  BY DEF Copies
<1>2. n.key \in Keys /\ n.data \in Data
  BY DEF Nodes
<1>3. PICK s : s = SetData(c.tree, n.key, n.data, FALSE)
  OBVIOUS
<1>4. /\ IsTree(s.tree) /\ DictOf(s.tree) = PutInto(DictOf(c.tree), n.key, n.data, FALSE)
      /\ Cardinality(DOMAIN s.tree) = IF s.ret = NULL THEN Cardinality(DOMAIN c.tree) + 1 ELSE Cardinality(DOMAIN c.tree)
  <2>1. PICK t, k, d, o : t = c.tree /\ k = n.key /\ d = n.data /\ o = FALSE
    OBVIOUS
  <2>2. IsTree(t) /\ k \in Keys /\ d \in Data /\ o \in BOOLEAN /\ s = SetData(t, k, d, o)
    BY <1>1, <1>2, <1>3, <2>1
  <2>3. /\ IsTree(s.tree) /\ DictOf(s.tree) = PutInto(DictOf(t), k, d, o)
        /\ Cardinality(DOMAIN s.tree) = IF s.ret = NULL THEN Cardinality(DOMAIN t) + 1 ELSE Cardinality(DOMAIN t)
    BY ONLY <2>2, SetIs
  <2> QED BY <2>1, <2>3
<1>5. e = [tree |-> s.tree, size |-> IF s.ret = NULL THEN c.size + 1 ELSE c.size]
  BY <1>3 DEF SetAgain
<1>6. e.tree = s.tree /\ e.size = Cardinality(DOMAIN s.tree) /\ e.size \in Nat
  BY <1>1, <1>4, <1>5
<1>7. e \in [tree : Trees, size : Nat]
  <2>1. s.tree \in Trees
    BY <1>4 DEF IsTree
  <2>2. e = [tree |-> e.tree, size |-> e.size]
    BY <1>5
  <2> HIDE DEF Trees
  <2> QED BY <1>6, <2>1, <2>2
<1> QED BY <1>4, <1>6, <1>7 DEF Copies

SetIt(s, xs, f) ==
  f = [u \in SUBSET (DOMAIN xs) |-> IF u = {} THEN s ELSE SetAgain(f[u \ {Max(u)}], xs[Max(u)])]

LEMMA SetFold ==
  ASSUME NEW s, NEW xs, NEW n \in Nat, DOMAIN xs = 1 .. n,
         NEW D, s \in D, NEW G \in [1 .. n -> [D -> D]],
         \A k \in 1 .. n : \A r \in D : G[k][r] = SetAgain(r, xs[k])
  PROVE  Reached(n, D, s, G, FoldLeft(SetAgain, s, xs))
<1> DEFINE it == CHOOSE f : SetIt(s, xs, f)
<1>1. \E f : SetIt(s, xs, f)
  <2>1. PICK f \in [SUBSET (1 .. n) -> D] : FoldOf(n, D, s, G, f)
    BY FoldDefined DEF FoldExists
  <2>2. ASSUME NEW u \in SUBSET (1 .. n)
        PROVE  f[u] = IF u = {} THEN s ELSE SetAgain(f[u \ {Max(u)}], xs[Max(u)])
    <3>1. u # {} => Max(u) \in 1 .. n
      BY MaxIn
    <3>2. f[u \ {Max(u)}] \in D
      OBVIOUS
    <3>3. u # {} => G[Max(u)][f[u \ {Max(u)}]] = SetAgain(f[u \ {Max(u)}], xs[Max(u)])
      BY <3>1, <3>2
    <3> QED BY <2>1, <3>3 DEF FoldOf
  <2>3. f = [u \in SUBSET (DOMAIN xs) |-> IF u = {} THEN s ELSE SetAgain(f[u \ {Max(u)}], xs[Max(u)])]
    BY <2>2
  <2> QED BY <2>3 DEF SetIt
<1>2. SetIt(s, xs, it)
  BY <1>1
<1>3. FoldLeft(SetAgain, s, xs) = it[1 .. n]
  BY DEF FoldLeft, MapThenFoldSet, SetIt
<1> HIDE DEF it
<1>4. it[1 .. 0] = s
  BY <1>2 DEF SetIt
<1>5. ASSUME NEW k \in 1 .. n, it[1 .. k - 1] \in D PROVE it[1 .. k] = G[k][it[1 .. k - 1]]
  <2>1. Max(1 .. k) = k /\ 1 .. k # {} /\ (1 .. k) \ {Max(1 .. k)} = 1 .. k - 1
    <3>1. k \in Nat /\ k # 0
      OBVIOUS
    <3> QED BY <3>1, Interval
  <2>2. (1 .. k) \in SUBSET (DOMAIN xs)
    OBVIOUS
  <2>3. it[1 .. k] = SetAgain(it[1 .. k - 1], xs[k])
    BY <2>1, <2>2, <1>2 DEF SetIt
  <2> QED BY <2>3, <1>5
<1>6. Reached(n, D, s, G, it[1 .. n])
  BY <1>4, <1>5, Chain
<1> QED BY <1>3, <1>6

(* What the nodes of a sequence make, set one after the other. *)
MadeOf(c, n, xs) ==
  /\ c \in Copies /\ DOMAIN DictOf(c.tree) = {xs[i].key : i \in 1 .. n}
  /\ \A i \in 1 .. n : DictOf(c.tree)[xs[i].key] = xs[i].data

LEMMA SetAllOf ==
  ASSUME NEW n \in Nat, NEW xs \in [1 .. n -> Nodes],
         \A i, j \in 1 .. n : xs[i].key = xs[j].key => i = j
  PROVE  MadeOf(FoldLeft(SetAgain, Empty, xs), n, xs)
<1>0. PICK c : c = FoldLeft(SetAgain, Empty, xs)
  OBVIOUS
<1>1. PICK G : G = [k \in 1 .. n |-> [r \in Copies |-> SetAgain(r, xs[k])]]
  OBVIOUS
<1>2. ASSUME NEW k \in 1 .. n, NEW r \in Copies PROVE SetAgain(r, xs[k]) \in Copies
  <2>1. xs[k] \in Nodes
    OBVIOUS
  <2>2. PICK e : e = SetAgain(r, xs[k])
    OBVIOUS
  <2>3. e \in Copies
    BY <2>1, <2>2, SetAgainIs
  <2> QED BY <2>2, <2>3
<1>3. G \in [1 .. n -> [Copies -> Copies]] /\ \A k \in 1 .. n : \A r \in Copies : G[k][r] = SetAgain(r, xs[k])
  BY <1>1, <1>2
<1>4. Reached(n, Copies, Empty, G, c)
  <2>1. DOMAIN xs = 1 .. n /\ Empty \in Copies
    BY NothingIsTree
  <2> QED BY <1>0, <1>3, <2>1, SetFold
<1>5. PICK F : Steps(n, Copies, Empty, G, F) /\ c = F[n]
  BY <1>4 DEF Reached
<1>6. F \in [0 .. n -> Copies] /\ F[0] = Empty /\ \A k \in 1 .. n : F[k] = G[k][F[k - 1]]
  BY <1>5 DEF Steps
<1> DEFINE Holds(j) == /\ DOMAIN DictOf(F[j].tree) = {xs[i].key : i \in 1 .. j}
                       /\ \A i \in 1 .. j : DictOf(F[j].tree)[xs[i].key] = xs[i].data
           A == {j \in 0 .. n : Holds(j)}
<1>7. 0 \in A
  <2>1. DictOf(F[0].tree) = <<>>
    BY <1>6, NothingIsTree
  <2>2. DOMAIN <<>> = {} /\ 1 .. 0 = {}
    OBVIOUS
  <2>3. Holds(0)
    BY <2>1, <2>2
  <2> QED BY <2>3
<1>8. ASSUME NEW k \in 1 .. n, k - 1 \in A PROVE k \in A
  <2>1. k \in 0 .. n /\ k - 1 \in 0 .. n /\ F[k - 1] \in Copies /\ xs[k] \in Nodes
    BY <1>6, StepsIn
  <2>2. F[k] = SetAgain(F[k - 1], xs[k])
    BY <1>3, <1>6, <2>1
  <2>3. DictOf(F[k].tree) = PutInto(DictOf(F[k - 1].tree), xs[k].key, xs[k].data, FALSE)
    BY <2>1, <2>2, SetAgainIs
  <2>4. PICK f, g : f = DictOf(F[k - 1].tree) /\ g = DictOf(F[k].tree)
    OBVIOUS
  <2>5. DOMAIN f = {xs[i].key : i \in 1 .. k - 1} /\ \A i \in 1 .. k - 1 : f[xs[i].key] = xs[i].data
    BY <1>8, <2>4
  <2>6. \A i \in 1 .. k - 1 : i \in 1 .. n /\ i # k
    OBVIOUS
  <2>7. xs[k].key \notin DOMAIN f
    BY <2>5, <2>6
  <2>8. g = [x \in DOMAIN f \cup {xs[k].key} |-> IF x = xs[k].key THEN xs[k].data ELSE f[x]]
    BY <2>3, <2>4, <2>7 DEF PutInto
  <2>9. 1 .. k = (1 .. k - 1) \cup {k}
    OBVIOUS
  <2>10. DOMAIN g = {xs[i].key : i \in 1 .. k}
    <3>1. {xs[i].key : i \in 1 .. k} = {xs[i].key : i \in 1 .. k - 1} \cup {xs[k].key}
      BY <2>9
    <3> QED BY <2>5, <2>8, <3>1
  <2>11. ASSUME NEW i \in 1 .. k PROVE g[xs[i].key] = xs[i].data
    <3>1. CASE i = k
      BY <2>8, <3>1
    <3>2. CASE i \in 1 .. k - 1
      <4>1. xs[i].key \in DOMAIN f /\ xs[i].key # xs[k].key /\ f[xs[i].key] = xs[i].data
        BY <2>5, <2>7, <3>2
      <4> QED BY <2>8, <4>1
    <3> QED BY <2>9, <3>1, <3>2
  <2>12. Holds(k)
    BY <2>4, <2>10, <2>11
  <2> HIDE DEF Holds
  <2> QED BY <2>1, <2>12
<1>9. n \in A
  <2> HIDE DEF A
  <2>1. n \in 0 .. n
    OBVIOUS
  <2> QED BY <1>7, <1>8, <2>1, UpTo
<1>10. F[n] \in Copies
  BY <1>6
<1>11. MadeOf(c, n, xs)
  BY <1>5, <1>9, <1>10 DEF MadeOf
<1> QED BY ONLY <1>0, <1>11

LEMMA CloneIs ==
  ASSUME NEW t, IsTree(t),
         NEW c, c = FoldLeft(SetAgain, Empty, [i \in DOMAIN Visits(t) |-> t[Visits(t)[i]]])
  PROVE  c \in Copies /\ DictOf(c.tree) = DictOf(t) /\ c.size = Cardinality(DOMAIN t)
<1>1. PICK n, v : n = Cardinality(DOMAIN t) /\ v = Visits(t)
  OBVIOUS
<1>2. /\ n \in Nat /\ DOMAIN v = 1 .. n
      /\ \A i \in 1 .. n : v[i] \in DOMAIN t
      /\ \A p \in DOMAIN t : Rank(t, p) + 1 \in 1 .. n /\ v[Rank(t, p) + 1] = p
      /\ \A i, j \in 1 .. n : t[v[i]].key = t[v[j]].key => i = j
  BY <1>1, VisitsAre
<1>3. PICK xs : xs = [i \in 1 .. n |-> t[v[i]]]
  OBVIOUS
<1>4. c = FoldLeft(SetAgain, Empty, xs)
  BY <1>1, <1>2, <1>3
<1>5. xs \in [1 .. n -> Nodes] /\ \A i \in 1 .. n : xs[i] = t[v[i]]
  <2>1. \A i \in 1 .. n : t[v[i]] \in Nodes
    BY <1>2, NodeIs DEF IsTree
  <2> HIDE DEF Nodes
  <2> QED BY <1>3, <2>1
<1>6. \A i, j \in 1 .. n : xs[i].key = xs[j].key => i = j
  BY <1>2, <1>5
<1>7. /\ c \in Copies /\ DOMAIN DictOf(c.tree) = {xs[i].key : i \in 1 .. n}
      /\ \A i \in 1 .. n : DictOf(c.tree)[xs[i].key] = xs[i].data
  <2>1. n \in Nat
    BY <1>2
  <2>2. xs \in [1 .. n -> Nodes]
    BY <1>5
  <2>3. MadeOf(FoldLeft(SetAgain, Empty, xs), n, xs)
    BY ONLY <2>1, <2>2, <1>6, SetAllOf
  <2>4. MadeOf(c, n, xs)
    BY ONLY <1>4, <2>3
  <2> QED BY ONLY <2>4 DEF MadeOf
<1>8. IsTree(c.tree) /\ c.size = Cardinality(DOMAIN c.tree)
  BY <1>7 DEF Copies
<1>9. PICK f, g : f = DictOf(c.tree) /\ g = DictOf(t)
  OBVIOUS
<1>10. f = [x \in DOMAIN f |-> f[x]] /\ Cardinality(DOMAIN f) = Cardinality(DOMAIN c.tree)
  BY <1>8, <1>9, DictIs
<1>11. /\ g = [x \in DOMAIN g |-> g[x]] /\ Cardinality(DOMAIN g) = Cardinality(DOMAIN t)
       /\ DOMAIN g = {t[p].key : p \in DOMAIN t}
       /\ \A p \in DOMAIN t : g[t[p].key] = t[p].data
  BY <1>9, DictIs
<1>12. \A p \in DOMAIN t : \E i \in 1 .. n : xs[i] = t[p]
  BY <1>2, <1>5
<1>13. DOMAIN f = DOMAIN g
  <2>1. ASSUME NEW x \in DOMAIN f PROVE x \in DOMAIN g
    <3>1. PICK i \in 1 .. n : x = xs[i].key
      BY <1>7, <1>9
    <3> QED BY <1>2, <1>5, <1>11, <3>1
  <2>2. ASSUME NEW x \in DOMAIN g PROVE x \in DOMAIN f
    <3>1. PICK p \in DOMAIN t : x = t[p].key
      BY <1>11
    <3>2. PICK i \in 1 .. n : xs[i] = t[p]
      BY <1>12
    <3> QED BY <1>7, <1>9, <3>1, <3>2
  <2> QED BY <2>1, <2>2
<1>14. ASSUME NEW x \in DOMAIN f PROVE f[x] = g[x]
  <2>1. PICK i \in 1 .. n : x = xs[i].key
    BY <1>7, <1>9
  <2>2. xs[i] = t[v[i]] /\ v[i] \in DOMAIN t
    BY <1>2, <1>5
  <2>3. f[x] = xs[i].data
    BY <1>7, <1>9, <2>1
  <2> QED BY <1>11, <2>1, <2>2, <2>3
<1>15. f = g
  BY <1>10, <1>11, <1>13, <1>14, SameDict
<1> QED BY <1>7, <1>8, <1>9, <1>10, <1>11, <1>15

(* The inductive invariant of the map and its clone: each node is where the search for
   its key ends, and the sizes are counts. *)
MapIInv ==
  /\ IsTree(tree) /\ size = Cardinality(DOMAIN tree)
  /\ IsTree(copy.tree) /\ copy.size = Cardinality(DOMAIN copy.tree)

LEMMA MapInitial == MapInit => MapIInv /\ AbstractMap!Init
<1> SUFFICES ASSUME MapInit PROVE MapIInv /\ AbstractMap!Init
  OBVIOUS
<1>1. tree = <<>> /\ size = 0 /\ ret = NULL /\ copy.tree = <<>> /\ copy.size = 0
  BY NothingIsTree DEF MapInit
<1>2. MapIInv
  BY <1>1, NothingIsTree DEF MapIInv
<1>3. DictOf(tree) = <<>>
  BY <1>1, NothingIsTree
<1> QED BY <1>1, <1>2, <1>3 DEF AbstractMap!Init

LEMMA MapRanks == MapIInv => IndexIsRank
BY RanksHold DEF MapIInv, IndexIsRank

LEMMA SetStep ==
  ASSUME MapIInv, NEW k \in Keys, NEW d \in Data, NEW o \in BOOLEAN, Set(k, d, o)
  PROVE  MapIInv' /\ AbstractMap!Put(k, d, o) /\ copy' = copy
<1>1. PICK t, s, u : t = tree /\ s = SetData(t, k, d, o) /\ u = s.tree
  OBVIOUS
<1>2. /\ IsTree(u) /\ DictOf(u) = PutInto(DictOf(t), k, d, o)
      /\ s.ret = (IF k \notin DOMAIN DictOf(t) THEN NULL ELSE IF o THEN DictOf(t)[k] ELSE d)
      /\ Cardinality(DOMAIN u) = IF s.ret = NULL THEN Cardinality(DOMAIN t) + 1 ELSE Cardinality(DOMAIN t)
  <2>1. IsTree(t) /\ s = SetData(t, k, d, o)
    BY <1>1 DEF MapIInv
  <2>2. /\ IsTree(s.tree) /\ DictOf(s.tree) = PutInto(DictOf(t), k, d, o)
        /\ s.ret = (IF k \notin DOMAIN DictOf(t) THEN NULL ELSE IF o THEN DictOf(t)[k] ELSE d)
        /\ Cardinality(DOMAIN s.tree) = IF s.ret = NULL THEN Cardinality(DOMAIN t) + 1 ELSE Cardinality(DOMAIN t)
    BY ONLY <2>1, SetIs
  <2> QED BY ONLY <1>1, <2>2
<1>3. tree' = u /\ ret' = s.ret /\ size' = (IF s.ret = NULL THEN size + 1 ELSE size) /\ copy' = copy
  BY <1>1 DEF Set
<1>4. size' = Cardinality(DOMAIN u)
  BY <1>1, <1>2, <1>3 DEF MapIInv
<1>5. MapIInv'
  BY <1>2, <1>3, <1>4 DEF MapIInv
<1>6. Cardinality(DOMAIN DictOf(u)) = Cardinality(DOMAIN u)
  BY <1>2, DictIs
<1>7. PICK f, g : f = DictOf(t) /\ g = DictOf(u)
  OBVIOUS
<1>8. DictOf(tree) = f /\ DictOf(tree)' = g
  BY <1>1, <1>3, <1>7
<1>9. g = (IF k \in DOMAIN f /\ ~o THEN f ELSE [x \in DOMAIN f \cup {k} |-> IF x = k THEN d ELSE f[x]])
  BY <1>2, <1>7 DEF PutInto
<1>10. size' = Cardinality(DOMAIN g) /\ ret' = IF k \notin DOMAIN f THEN NULL ELSE IF o THEN f[k] ELSE d
  BY <1>2, <1>3, <1>4, <1>6, <1>7
<1>11. AbstractMap!Put(k, d, o)
  <2>1. DictOf(tree)' = IF k \in DOMAIN DictOf(tree) /\ ~o THEN DictOf(tree)
                        ELSE [x \in DOMAIN DictOf(tree) \cup {k} |-> IF x = k THEN d ELSE DictOf(tree)[x]]
    BY ONLY <1>8, <1>9
  <2>2. size' = Cardinality(DOMAIN DictOf(tree)')
    BY ONLY <1>8, <1>10
  <2>3. ret' = IF k \notin DOMAIN DictOf(tree) THEN NULL ELSE IF o THEN DictOf(tree)[k] ELSE d
    BY ONLY <1>8, <1>10
  <2>4. PICK D : D = DOMAIN DictOf(tree)'
    OBVIOUS
  <2>5. AbstractMap!Cardinality(D) = Cardinality(D)
    BY DEF AbstractMap!Cardinality, Cardinality
  <2> QED BY ONLY <2>1, <2>2, <2>3, <2>4, <2>5 DEF AbstractMap!Put
<1> QED BY <1>3, <1>5, <1>11

LEMMA CloneStep ==
  ASSUME MapIInv, Clone \/ CloneNodes
  PROVE  /\ MapIInv' /\ UNCHANGED <<DictOf(tree), size, ret>>
         /\ DictOf(copy'.tree) = DictOf(tree) /\ copy'.size = size
<1>1. PICK t : t = tree
  OBVIOUS
<1>2. IsTree(t) /\ size = Cardinality(DOMAIN t)
  BY <1>1 DEF MapIInv
<1>3. tree' = t /\ size' = size /\ ret' = ret
  BY <1>1 DEF Clone, CloneNodes
<1>4. PICK c : c = copy'
  OBVIOUS
<1>5. IsTree(c.tree) /\ c.size = Cardinality(DOMAIN c.tree) /\ DictOf(c.tree) = DictOf(t) /\ c.size = size
  <2>1. CASE Clone
    <3>1. c = FoldLeft(SetAgain, Empty, [i \in DOMAIN Visits(t) |-> t[Visits(t)[i]]])
      BY <1>1, <1>4, <2>1 DEF Clone
    <3>2. c \in Copies /\ DictOf(c.tree) = DictOf(t) /\ c.size = Cardinality(DOMAIN t)
      BY ONLY <1>2, <3>1, CloneIs
    <3> QED BY <1>2, <3>2 DEF Copies
  <2>2. CASE CloneNodes
    <3>1. c = [tree |-> t, size |-> size]
      BY <1>1, <1>4, <2>2 DEF CloneNodes
    <3>2. c.tree = t /\ c.size = size
      BY <3>1
    <3> QED BY <1>2, <3>2
  <2> QED BY <2>1, <2>2
<1>6. MapIInv'
  BY <1>2, <1>3, <1>4, <1>5 DEF MapIInv
<1>7. UNCHANGED <<DictOf(tree), size, ret>>
  BY <1>1, <1>3
<1> QED BY <1>1, <1>4, <1>5, <1>6, <1>7

LEMMA FreeStep ==
  ASSUME MapIInv, Free
  PROVE  /\ MapIInv' /\ copy' \in {copy, Empty}
         /\ AbstractMap!Clear \/ UNCHANGED <<DictOf(tree), size, ret>>
<1>1. CASE tree' = <<>> /\ size' = 0 /\ UNCHANGED <<ret, copy>>
  <2>1. MapIInv'
    BY <1>1, NothingIsTree DEF MapIInv
  <2>2. DictOf(tree)' = <<>>
    BY <1>1, NothingIsTree
  <2> QED BY <1>1, <2>1, <2>2 DEF AbstractMap!Clear
<1>2. CASE copy' = Empty /\ UNCHANGED <<tree, size, ret>>
  <2>1. MapIInv'
    BY <1>2, NothingIsTree DEF MapIInv
  <2> QED BY <1>2, <2>1
<1> QED BY <1>1, <1>2 DEF Free

LEMMA MapStep ==
  MapIInv /\ [MapNext]_mapVars => /\ MapIInv' /\ [CloneIsSame]_mapVars
                                  /\ [AbstractMap!Next]_<<DictOf(tree), size, ret>>
<1> SUFFICES ASSUME MapIInv, [MapNext]_mapVars
             PROVE  MapIInv' /\ CloneIsSame /\ (AbstractMap!Next \/ UNCHANGED <<DictOf(tree), size, ret>>)
  OBVIOUS
<1>1. ASSUME NEW k \in Keys, NEW d \in Data, NEW o \in BOOLEAN, Set(k, d, o)
      PROVE  MapIInv' /\ CloneIsSame /\ AbstractMap!Next
  <2>1. MapIInv' /\ AbstractMap!Put(k, d, o) /\ copy' = copy
    BY <1>1, SetStep
  <2>2. AbstractMap!Next
    BY <2>1 DEF AbstractMap!Next
  <2> QED BY <2>1, <2>2 DEF CloneIsSame
<1>2. CASE Clone \/ CloneNodes
  BY <1>2, CloneStep DEF CloneIsSame
<1>3. CASE Free
  <2>1. /\ MapIInv' /\ copy' \in {copy, Empty}
        /\ AbstractMap!Clear \/ UNCHANGED <<DictOf(tree), size, ret>>
    BY <1>3, FreeStep
  <2>2. AbstractMap!Clear => AbstractMap!Next
    BY DEF AbstractMap!Next
  <2> QED BY <2>1, <2>2 DEF CloneIsSame
<1>4. CASE UNCHANGED mapVars
  <2>1. tree' = tree /\ size' = size /\ ret' = ret /\ copy' = copy
    BY <1>4 DEF mapVars
  <2> QED BY <2>1 DEF MapIInv, CloneIsSame
<1> QED BY <1>1, <1>2, <1>3, <1>4 DEF MapNext

(* Whatever keys come, in whatever order: the map is the dictionary it promises to be,
   its clones hold the same, and the index of a key is its rank (mmt_map_t.c). *)
THEOREM MapIsRight == MapSpec => MapRight
<1> QED BY MapInitial, MapStep, MapRanks, PTL DEF MapSpec, MapRight, IsDictionary, AbstractMap!Spec
=============================================================================
