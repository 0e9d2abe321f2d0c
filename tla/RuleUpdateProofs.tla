--------------------------- MODULE RuleUpdateProofs ---------------------------
(***************************************************************************)
(* Proofs about RuleUpdate, for all plugins, rules, attributes, masks and  *)
(* threads, and all sequences of commands.                                 *)
(*                                                                         *)
(* The invariant IInv ties four places where rules are known: plugins,     *)
(* global array, attributes and handlers.  A rule to be verified or added  *)
(* is of an open plugin (PlugInv); attributes are only appended, so that   *)
(* what an engine and its functions once were told stays right (AttsInv);  *)
(* what the program knows of attributes is behind only while an updater is *)
(* on its way to tell it (KnownInv); a handler verifies a rule that is     *)
(* gone only while the updater that removed it has not come to it          *)
(* (LockInv, BackedInv).  OnceInv says that nothing is there twice.        *)
(***************************************************************************)
EXTENDS RuleUpdate, FiniteSetTheorems, SequenceTheorems, WellFoundedInduction, TLAPS

(* Induction up to n, about the set of numbers that something is true of. *)
LEMMA UpTo ==
  ASSUME NEW n \in Nat, NEW A, 0 \in A, \A k \in 1 .. n : k - 1 \in A => k \in A
  PROVE  \A k \in 0 .. n : k \in A
<1> DEFINE T == (0 .. n) \ A
           R == OpToRel(<, Nat)
<1>1. SUFFICES ASSUME T # {} PROVE FALSE
  OBVIOUS
<1>2. IsWellFoundedOn(R, Nat)
  BY NatLessThanWellFounded
<1>3. \A x \in Nat, y \in Nat : <<y, x>> \in R <=> y < x
  BY DEF OpToRel
<1>4. PICK r : IsWellFoundedOn(r, Nat) /\ \A x \in Nat, y \in Nat : <<y, x>> \in r <=> y < x
  <2> HIDE DEF R
  <2> QED BY <1>2, <1>3
<1>5. T \subseteq Nat
  OBVIOUS
<1>6. PICK x \in T : \A y \in T : ~(<<y, x>> \in r)
  <2> HIDE DEF T
  <2> QED BY <1>1, <1>4, <1>5, WFMin
<1>7. x \in 1 .. n /\ x - 1 \in Nat /\ x - 1 < x /\ x - 1 \in 0 .. n
  <2>1. x \in 0 .. n /\ x # 0
    BY <1>6
  <2> QED BY <2>1
<1>8. x - 1 \notin T
  <2> HIDE DEF T
  <2>1. x \in Nat /\ <<x - 1, x>> \in r
    BY <1>4, <1>7
  <2> QED BY <1>6, <2>1
<1>9. x - 1 \in A /\ x \notin A
  BY <1>6, <1>7, <1>8
<1> QED BY <1>7, <1>9

-----------------------------------------------------------------------------
(* Ascending lists the numbers of a set, each once. *)
LEMMA AscendingLists ==
  ASSUME NEW S \in SUBSET Nat, IsFiniteSet(S)
  PROVE  /\ Ascending(S) \in Seq(S) /\ IsInjective(Ascending(S))
         /\ Len(Ascending(S)) = Cardinality(S) /\ ToSet(Ascending(S)) = S
<1> DEFINE Below(x) == {y \in S : y < x}
           n == Cardinality(S)
           rank == [x \in S |-> Cardinality(Below(x)) + 1]
<1>1. n \in Nat
  BY FS_CardinalityType
<1>2. ASSUME NEW x \in S PROVE IsFiniteSet(Below(x)) /\ Cardinality(Below(x)) \in Nat /\ rank[x] \in 1 .. n
  <2>1. IsFiniteSet(Below(x)) /\ Cardinality(Below(x)) <= n /\ (n = Cardinality(Below(x)) => S = Below(x))
    BY FS_Subset
  <2>2. S # Below(x)
    OBVIOUS
  <2>3. Cardinality(Below(x)) \in Nat
    BY <2>1, FS_CardinalityType
  <2> HIDE DEF Below, n
  <2> QED BY <2>1, <2>2, <2>3, <1>1
<1>3. ASSUME NEW x \in S, NEW y \in S, x < y PROVE rank[x] # rank[y]
  <2>0. x \in Nat /\ y \in Nat /\ \A z \in S : z \in Nat
    OBVIOUS
  <2>1. Below(x) \in SUBSET Below(y) /\ Below(x) # Below(y)
    <3>1. x \in Below(y) /\ x \notin Below(x)
      BY <1>3, <2>0
    <3>2. \A z \in Below(x) : z \in Below(y)
      BY <1>3, <2>0
    <3> HIDE DEF Below
    <3> QED BY <3>1, <3>2
  <2>2. Cardinality(Below(y)) # Cardinality(Below(x))
    <3> HIDE DEF Below
    <3> QED BY <2>1, <1>2, FS_Subset
  <2> HIDE DEF Below
  <2> QED BY <2>2, <1>2
<1>4. rank \in Injection(S, 1 .. n)
  <2>1. rank \in [S -> 1 .. n]
    <3> HIDE DEF n
    <3> QED BY <1>2
  <2>2. \A x, y \in S : rank[x] = rank[y] => x = y
    <3> HIDE DEF rank
    <3>1. \A x, y \in S : x = y \/ x < y \/ y < x
      OBVIOUS
    <3> QED BY <3>1, <1>3
  <2>3. DOMAIN rank = S
    OBVIOUS
  <2> HIDE DEF rank, n
  <2> QED BY <2>1, <2>2, <2>3 DEF Injection, IsInjective
<1>5. rank \in Surjection(S, 1 .. n)
  <2>1. IsFiniteSet(1 .. n) /\ Cardinality(1 .. n) = n
    <3> HIDE DEF n
    <3> QED BY <1>1, FS_Interval
  <2> HIDE DEF rank
  <2> QED BY <1>4, <2>1, FS_Injection
<1>6. ASSUME NEW i \in 1 .. n PROVE Ascending(S)[i] \in S /\ rank[Ascending(S)[i]] = i
  <2>1. \E x \in S : rank[x] = i
    <3> HIDE DEF rank, n
    <3> QED BY <1>5 DEF Surjection
  <2>2. PICK x \in S : rank[x] = i
    BY <2>1
  <2>3. Cardinality(Below(x)) = i - 1
    <3> HIDE DEF Below, n
    <3> QED BY <2>2, <1>2
  <2>4. Ascending(S)[i] = CHOOSE y \in S : Cardinality(Below(y)) = i - 1
    BY DEF Ascending
  <2>5. Ascending(S)[i] \in S /\ Cardinality(Below(Ascending(S)[i])) = i - 1
    <3> HIDE DEF Below
    <3> QED BY <2>3, <2>4
  <2> HIDE DEF Below, n
  <2> QED BY <2>5
<1>7. DOMAIN Ascending(S) = 1 .. n /\ Ascending(S) \in [1 .. n -> S]
  <2>1. Ascending(S) = [i \in 1 .. n |-> CHOOSE x \in S : Cardinality(Below(x)) = i - 1]
    BY DEF Ascending
  <2>2. DOMAIN Ascending(S) = 1 .. n /\ Ascending(S) = [i \in 1 .. n |-> Ascending(S)[i]]
    <3> HIDE DEF n, Below
    <3> QED BY <2>1
  <2> HIDE DEF n
  <2> QED BY <1>6, <2>2
<1>8. Ascending(S) \in Seq(S) /\ Len(Ascending(S)) = n
  <2> HIDE DEF n
  <2> QED BY <1>1, <1>7
<1>9. IsInjective(Ascending(S))
  <2> HIDE DEF n, rank
  <2> QED BY <1>6, <1>7 DEF IsInjective
<1>10. S \subseteq ToSet(Ascending(S))
  <2> SUFFICES ASSUME NEW x \in S PROVE \E i \in DOMAIN Ascending(S) : Ascending(S)[i] = x
    BY DEF ToSet
  <2>1. rank[x] \in 1 .. n
    BY <1>2
  <2>2. rank[Ascending(S)[rank[x]]] = rank[x] /\ Ascending(S)[rank[x]] \in S
    <3> HIDE DEF rank, n
    <3> QED BY <2>1, <1>6
  <2>3. Ascending(S)[rank[x]] = x
    <3>1. IsInjective(rank) /\ DOMAIN rank = S
      <4>1. DOMAIN rank = S
        OBVIOUS
      <4> HIDE DEF rank, n
      <4> QED BY <1>4, <4>1 DEF Injection
    <3> HIDE DEF rank
    <3> QED BY <3>1, <2>2 DEF IsInjective
  <2> HIDE DEF rank, n
  <2> QED BY <2>1, <2>3, <1>7
<1>11. ToSet(Ascending(S)) \subseteq S
  BY <1>8 DEF ToSet
<1> QED BY <1>8, <1>9, <1>10, <1>11

(* Only keeps what is in a set, once if it was there once. *)
LEMMA OnlyKeeps ==
  ASSUME NEW T, NEW s \in Seq(T), NEW S
  PROVE  /\ Only(s, S) \in Seq(T) /\ ToSet(Only(s, S)) = ToSet(s) \cap S
         /\ IsInjective(s) => IsInjective(Only(s, S))
<1> DEFINE K == {k \in DOMAIN s : s[k] \in S}
           at == Ascending(K)
<1>1. K \in SUBSET Nat /\ IsFiniteSet(K)
  <2>1. Len(s) \in Nat /\ DOMAIN s = 1 .. Len(s)
    OBVIOUS
  <2>2. IsFiniteSet(1 .. Len(s))
    BY <2>1, FS_Interval
  <2>3. K \in SUBSET (1 .. Len(s))
    BY <2>1
  <2> HIDE DEF K
  <2>4. IsFiniteSet(K)
    BY <2>2, <2>3, FS_Subset
  <2>5. PICK l \in Nat : l = Len(s)
    BY <2>1
  <2> QED BY <2>3, <2>4, <2>5
<1>2. at \in Seq(K) /\ IsInjective(at) /\ ToSet(at) = K
  <2> HIDE DEF K
  <2> QED BY <1>1, AscendingLists
<1>3. Only(s, S) = [i \in DOMAIN at |-> s[at[i]]]
  BY DEF Only
<1>4. \A i \in DOMAIN at : at[i] \in K
  <2> HIDE DEF at, K
  <2> QED BY <1>2
<1>5. \A i \in DOMAIN at : at[i] \in DOMAIN s /\ s[at[i]] \in T /\ s[at[i]] \in S
  <2> HIDE DEF at
  <2>1. \A k \in DOMAIN s : s[k] \in T
    OBVIOUS
  <2> QED BY <1>4, <2>1
<1> HIDE DEF at
<1>6. Only(s, S) \in Seq(T)
  <2>1. DOMAIN at = 1 .. Len(at) /\ Len(at) \in Nat
    <3> HIDE DEF K
    <3> QED BY <1>2
  <2>2. Only(s, S) \in [1 .. Len(at) -> T]
    <3> HIDE DEF K
    <3> QED BY <1>3, <1>5, <2>1
  <2> QED BY <2>1, <2>2, SeqDef
<1>7. ToSet(Only(s, S)) \subseteq ToSet(s) \cap S
  BY <1>3, <1>5 DEF ToSet
<1>8. ToSet(s) \cap S \subseteq ToSet(Only(s, S))
  <2> SUFFICES ASSUME NEW k \in DOMAIN s, s[k] \in S PROVE \E i \in DOMAIN at : s[at[i]] = s[k]
    BY <1>3 DEF ToSet
  <2>1. k \in ToSet(at)
    BY <1>2
  <2> QED BY <2>1 DEF ToSet
<1>9. ASSUME IsInjective(s) PROVE IsInjective(Only(s, S))
  <2> SUFFICES ASSUME NEW i \in DOMAIN at, NEW j \in DOMAIN at, s[at[i]] = s[at[j]] PROVE i = j
    BY <1>3 DEF IsInjective
  <2>1. at[i] = at[j]
    BY <1>5, <1>9 DEF IsInjective
  <2> QED BY <2>1, <1>2 DEF IsInjective
<1> QED BY <1>6, <1>7, <1>8, <1>9

(* Max is the greatest. *)
LEMMA MaxIs ==
  ASSUME NEW k \in Nat, NEW u \in SUBSET (1 .. k), k \in u
  PROVE  Max(u) = k
<1>1. \A y \in u : k >= y
  OBVIOUS
<1>2. \A x \in u : (\A y \in u : x >= y) => x = k
  BY <1>1
<1> QED BY <1>1, <1>2 DEF Max

(* What is greatest in 1 .. k, and what is left without it. *)
LEMMA Interval ==
  ASSUME NEW k \in Nat, k # 0
  PROVE  /\ Max(1 .. k) = k /\ 1 .. k # {} /\ (1 .. k) \ {Max(1 .. k)} = 1 .. k - 1
         /\ k - 1 \in Nat
<1>1. k \in 1 .. k
  OBVIOUS
<1>2. Max(1 .. k) = k
  BY <1>1, MaxIs
<1>3. (1 .. k) \ {k} = 1 .. k - 1
  OBVIOUS
<1> QED BY <1>1, <1>2, <1>3

(* A set of numbers that is not empty has a greatest. *)
LEMMA MaxIn ==
  ASSUME NEW n \in Nat, NEW v \in SUBSET (1 .. n), v # {}
  PROVE  Max(v) \in v
<1> DEFINE Good(m) == \A u \in SUBSET (1 .. m) : u # {} => Max(u) \in u
           A == {m \in 0 .. n : Good(m)}
<1>1. 0 \in A
  <2>1. \A u \in SUBSET (1 .. 0) : u = {}
    OBVIOUS
  <2>2. 0 \in 0 .. n
    OBVIOUS
  <2> QED BY <2>1, <2>2
<1>2. ASSUME NEW m \in 1 .. n, m - 1 \in A PROVE m \in A
  <2>1. m \in Nat /\ m \in 0 .. n
    OBVIOUS
  <2>2. ASSUME NEW u \in SUBSET (1 .. m), u # {} PROVE Max(u) \in u
    <3>1. CASE m \in u
      BY <3>1, <2>1, MaxIs
    <3>2. CASE m \notin u
      <4>1. u \in SUBSET (1 .. m - 1)
        BY <3>2
      <4> QED BY <4>1, <2>2, <1>2
    <3> QED BY <3>1, <3>2
  <2> QED BY <2>1, <2>2
<1>3. n \in A
  <2> HIDE DEF A
  <2>1. n \in 0 .. n
    OBVIOUS
  <2> QED BY <1>1, <1>2, <2>1, UpTo
<1> QED BY <1>3

(* Folds.  The library's FoldLeft recurs over the places that are left, by the
   greatest of them.  What a fold does is first put as steps from its base, once
   for each operator that is folded, for no lemma can take an operator as its
   parameter. *)
FoldOf(n, D, base, G, it) ==
  \A u \in SUBSET (1 .. n) : it[u] = IF u = {} THEN base ELSE G[Max(u)][it[u \ {Max(u)}]]
FoldExists(n, D, base, G) == \E it \in [SUBSET (1 .. n) -> D] : FoldOf(n, D, base, G, it)

(* The recursion of a fold over a sequence ends. *)
LEMMA FoldDefined ==
  ASSUME NEW n \in Nat, NEW D, NEW base \in D, NEW G \in [1 .. n -> [D -> D]]
  PROVE  FoldExists(n, D, base, G)
<1> DEFINE Eq(m, it) == \A u \in SUBSET (1 .. m) :
                          it[u] = IF u = {} THEN base ELSE G[Max(u)][it[u \ {Max(u)}]]
           A == {m \in 0 .. n : \E it \in [SUBSET (1 .. m) -> D] : Eq(m, it)}
<1>1. 0 \in A
  <2> DEFINE it == [u \in SUBSET (1 .. 0) |-> base]
  <2>1. \A u \in SUBSET (1 .. 0) : u = {}
    OBVIOUS
  <2>2. it \in [SUBSET (1 .. 0) -> D]
    OBVIOUS
  <2>3. Eq(0, it)
    BY <2>1
  <2>4. \E f \in [SUBSET (1 .. 0) -> D] : Eq(0, f)
    <3> HIDE DEF it, Eq
    <3> QED BY <2>2, <2>3
  <2>5. 0 \in 0 .. n
    OBVIOUS
  <2> HIDE DEF it, Eq
  <2> QED BY <2>4, <2>5
<1>2. ASSUME NEW m \in 1 .. n, m - 1 \in A PROVE m \in A
  <2>1. m \in Nat /\ m - 1 \in Nat /\ m \in 0 .. n /\ 1 .. m - 1 \subseteq 1 .. m /\ m \notin 1 .. m - 1
    OBVIOUS
  <2>2. PICK old \in [SUBSET (1 .. m - 1) -> D] : Eq(m - 1, old)
    <3> HIDE DEF Eq
    <3> QED BY <1>2
  <2> DEFINE it == [u \in SUBSET (1 .. m) |-> IF m \in u THEN G[m][old[u \ {m}]] ELSE old[u]]
  <2>3. \A u \in SUBSET (1 .. m) : (m \in u => u \ {m} \in SUBSET (1 .. m - 1)) /\ (m \notin u => u \in SUBSET (1 .. m - 1))
    BY <2>1
  <2>4. \A d \in D : G[m][d] \in D
    OBVIOUS
  <2>5. it \in [SUBSET (1 .. m) -> D]
    <3>1. \A u \in SUBSET (1 .. m) : (IF m \in u THEN G[m][old[u \ {m}]] ELSE old[u]) \in D
      BY <2>3, <2>4
    <3> QED BY <3>1
  <2>6. ASSUME NEW u \in SUBSET (1 .. m) PROVE it[u] = IF u = {} THEN base ELSE G[Max(u)][it[u \ {Max(u)}]]
    <3>1. CASE m \in u
      <4>1. Max(u) = m
        BY <3>1, <2>1, MaxIs
      <4>2. it[u] = G[m][old[u \ {m}]]
        BY <3>1
      <4>3. u \ {m} \in SUBSET (1 .. m) /\ m \notin u \ {m}
        OBVIOUS
      <4>4. it[u \ {m}] = old[u \ {m}]
        BY <4>3
      <4> HIDE DEF it
      <4> QED BY <3>1, <4>1, <4>2, <4>4
    <3>2. CASE m \notin u
      <4>1. u \in SUBSET (1 .. m - 1)
        BY <3>2, <2>3
      <4>2. it[u] = old[u]
        BY <3>2
      <4>3. u \ {Max(u)} \in SUBSET (1 .. m) /\ m \notin u \ {Max(u)}
        BY <3>2
      <4>4. it[u \ {Max(u)}] = old[u \ {Max(u)}]
        BY <4>3
      <4>5. old[u] = IF u = {} THEN base ELSE G[Max(u)][old[u \ {Max(u)}]]
        BY <4>1, <2>2
      <4> HIDE DEF it
      <4> QED BY <4>2, <4>4, <4>5
    <3> QED BY <3>1, <3>2
  <2>7. Eq(m, it)
    <3> HIDE DEF it
    <3> QED BY <2>6
  <2> HIDE DEF it, Eq
  <2> QED BY <2>5, <2>7, <2>1
<1>3. n \in A
  <2> HIDE DEF A
  <2>1. n \in 0 .. n
    OBVIOUS
  <2> QED BY <1>1, <1>2, <2>1, UpTo
<1> QED BY <1>3 DEF FoldExists, FoldOf

(* r is reached from base in n steps, inside D. *)
Steps(n, D, base, G, F) ==
  F \in [0 .. n -> D] /\ F[0] = base /\ \A k \in 1 .. n : F[k] = G[k][F[k - 1]]
Reached(n, D, base, G, r) == \E F : Steps(n, D, base, G, F) /\ r = F[n]

(* A fold over n elements takes n steps. *)
LEMMA Chain ==
  ASSUME NEW n \in Nat, NEW D, NEW base \in D, NEW G \in [1 .. n -> [D -> D]],
         NEW it, it[1 .. 0] = base,
         \A k \in 1 .. n : it[1 .. k - 1] \in D => it[1 .. k] = G[k][it[1 .. k - 1]]
  PROVE  Reached(n, D, base, G, it[1 .. n])
<1> DEFINE A == {k \in 0 .. n : it[1 .. k] \in D}
           F == [k \in 0 .. n |-> it[1 .. k]]
<1>1. 0 \in A
  OBVIOUS
<1>2. \A k \in 1 .. n : k - 1 \in A => k \in A
  OBVIOUS
<1>3. \A k \in 0 .. n : k \in A
  <2> HIDE DEF A
  <2> QED BY <1>1, <1>2, UpTo
<1>4. F \in [0 .. n -> D]
  BY <1>3
<1>5. F[0] = base /\ F[n] = it[1 .. n]
  OBVIOUS
<1>6. ASSUME NEW k \in 1 .. n PROVE F[k] = G[k][F[k - 1]]
  <2>1. k \in 0 .. n /\ k - 1 \in 0 .. n
    OBVIOUS
  <2> QED BY <2>1, <1>3
<1>7. Steps(n, D, base, G, F)
  <2> HIDE DEF F
  <2> QED BY <1>4, <1>5, <1>6 DEF Steps
<1> HIDE DEF F
<1> QED BY <1>5, <1>7 DEF Reached

(* Taking rules out of a list, one after the other. *)
RemoveIt(s, ids, f) ==
  f = [u \in SUBSET (DOMAIN ids) |-> IF u = {} THEN s ELSE RemoveRule(f[u \ {Max(u)}], ids[Max(u)])]

(* Its result is reached in as many steps. *)
LEMMA RemoveFold ==
  ASSUME NEW s, NEW ids, NEW n \in Nat, DOMAIN ids = 1 .. n,
         NEW D, s \in D, NEW G \in [1 .. n -> [D -> D]],
         \A k \in 1 .. n : \A r \in D : G[k][r] = RemoveRule(r, ids[k])
  PROVE  Reached(n, D, s, G, FoldLeft(RemoveRule, s, ids))
<1> DEFINE it == CHOOSE f : RemoveIt(s, ids, f)
<1>1. \E f : RemoveIt(s, ids, f)
  <2>1. PICK f \in [SUBSET (1 .. n) -> D] : FoldOf(n, D, s, G, f)
    BY FoldDefined DEF FoldExists
  <2>2. ASSUME NEW u \in SUBSET (1 .. n)
        PROVE  f[u] = IF u = {} THEN s ELSE RemoveRule(f[u \ {Max(u)}], ids[Max(u)])
    <3>1. u # {} => Max(u) \in 1 .. n
      BY MaxIn
    <3>2. f[u \ {Max(u)}] \in D
      OBVIOUS
    <3>3. u # {} => G[Max(u)][f[u \ {Max(u)}]] = RemoveRule(f[u \ {Max(u)}], ids[Max(u)])
      BY <3>1, <3>2
    <3> QED BY <2>1, <3>3 DEF FoldOf
  <2>3. f = [u \in SUBSET (DOMAIN ids) |-> IF u = {} THEN s ELSE RemoveRule(f[u \ {Max(u)}], ids[Max(u)])]
    BY <2>2
  <2> QED BY <2>3 DEF RemoveIt
<1>2. RemoveIt(s, ids, it)
  BY <1>1
<1>3. FoldLeft(RemoveRule, s, ids) = it[1 .. n]
  BY DEF FoldLeft, MapThenFoldSet, RemoveIt
<1> HIDE DEF it
<1>4. it[1 .. 0] = s
  BY <1>2 DEF RemoveIt
<1>5. ASSUME NEW k \in 1 .. n, it[1 .. k - 1] \in D PROVE it[1 .. k] = G[k][it[1 .. k - 1]]
  <2>1. Max(1 .. k) = k /\ 1 .. k # {} /\ (1 .. k) \ {Max(1 .. k)} = 1 .. k - 1
    <3>1. k \in Nat /\ k # 0
      OBVIOUS
    <3> QED BY <3>1, Interval
  <2>2. (1 .. k) \in SUBSET (DOMAIN ids)
    OBVIOUS
  <2>3. it[1 .. k] = RemoveRule(it[1 .. k - 1], ids[k])
    BY <2>1, <2>2, <1>2 DEF RemoveIt
  <2> QED BY <2>3, <1>5
<1>6. Reached(n, D, s, G, it[1 .. n])
  BY <1>4, <1>5, Chain
<1> QED BY <1>3, <1>6

(* Loading files one after the other. *)
LoadIt(s, fs, f) ==
  f = [u \in SUBSET (DOMAIN fs) |-> IF u = {} THEN s ELSE LoadFile(f[u \ {Max(u)}], fs[Max(u)])]

(* Its result is reached in as many steps. *)
LEMMA LoadFold ==
  ASSUME NEW s, NEW fs, NEW n \in Nat, DOMAIN fs = 1 .. n,
         NEW D, s \in D, NEW G \in [1 .. n -> [D -> D]],
         \A k \in 1 .. n : \A r \in D : G[k][r] = LoadFile(r, fs[k])
  PROVE  Reached(n, D, s, G, FoldLeft(LoadFile, s, fs))
<1> DEFINE it == CHOOSE f : LoadIt(s, fs, f)
<1>1. \E f : LoadIt(s, fs, f)
  <2>1. PICK f \in [SUBSET (1 .. n) -> D] : FoldOf(n, D, s, G, f)
    BY FoldDefined DEF FoldExists
  <2>2. ASSUME NEW u \in SUBSET (1 .. n)
        PROVE  f[u] = IF u = {} THEN s ELSE LoadFile(f[u \ {Max(u)}], fs[Max(u)])
    <3>1. u # {} => Max(u) \in 1 .. n
      BY MaxIn
    <3>2. f[u \ {Max(u)}] \in D
      OBVIOUS
    <3>3. u # {} => G[Max(u)][f[u \ {Max(u)}]] = LoadFile(f[u \ {Max(u)}], fs[Max(u)])
      BY <3>1, <3>2
    <3> QED BY <2>1, <3>3 DEF FoldOf
  <2>3. f = [u \in SUBSET (DOMAIN fs) |-> IF u = {} THEN s ELSE LoadFile(f[u \ {Max(u)}], fs[Max(u)])]
    BY <2>2
  <2> QED BY <2>3 DEF LoadIt
<1>2. LoadIt(s, fs, it)
  BY <1>1
<1>3. FoldLeft(LoadFile, s, fs) = it[1 .. n]
  BY DEF FoldLeft, MapThenFoldSet, LoadIt
<1> HIDE DEF it
<1>4. it[1 .. 0] = s
  BY <1>2 DEF LoadIt
<1>5. ASSUME NEW k \in 1 .. n, it[1 .. k - 1] \in D PROVE it[1 .. k] = G[k][it[1 .. k - 1]]
  <2>1. Max(1 .. k) = k /\ 1 .. k # {} /\ (1 .. k) \ {Max(1 .. k)} = 1 .. k - 1
    <3>1. k \in Nat /\ k # 0
      OBVIOUS
    <3> QED BY <3>1, Interval
  <2>2. (1 .. k) \in SUBSET (DOMAIN fs)
    OBVIOUS
  <2>3. it[1 .. k] = LoadFile(it[1 .. k - 1], fs[k])
    BY <2>1, <2>2, <1>2 DEF LoadIt
  <2> QED BY <2>3, <1>5
<1>6. Reached(n, D, s, G, it[1 .. n])
  BY <1>4, <1>5, Chain
<1> QED BY <1>3, <1>6

(* Adding the attributes of rules one after the other. *)
AttsIt(xs, ids, f) ==
  f = [u \in SUBSET (DOMAIN ids) |-> IF u = {} THEN xs ELSE f[u \ {Max(u)}] \o Ascending(RuleAtts[ids[Max(u)]] \ ToSet(f[u \ {Max(u)}]))]

(* Its result is reached in as many steps. *)
LEMMA AttsFold ==
  ASSUME NEW xs, NEW ids, NEW n \in Nat, DOMAIN ids = 1 .. n,
         NEW D, xs \in D, NEW G \in [1 .. n -> [D -> D]],
         \A k \in 1 .. n : \A r \in D : G[k][r] = r \o Ascending(RuleAtts[ids[k]] \ ToSet(r))
  PROVE  Reached(n, D, xs, G, FoldLeft(LAMBDA x, id : x \o Ascending(RuleAtts[id] \ ToSet(x)), xs, ids))
<1> DEFINE it == CHOOSE f : AttsIt(xs, ids, f)
<1>1. \E f : AttsIt(xs, ids, f)
  <2>1. PICK f \in [SUBSET (1 .. n) -> D] : FoldOf(n, D, xs, G, f)
    BY FoldDefined DEF FoldExists
  <2>2. ASSUME NEW u \in SUBSET (1 .. n)
        PROVE  f[u] = IF u = {} THEN xs ELSE f[u \ {Max(u)}] \o Ascending(RuleAtts[ids[Max(u)]] \ ToSet(f[u \ {Max(u)}]))
    <3>1. u # {} => Max(u) \in 1 .. n
      BY MaxIn
    <3>2. f[u \ {Max(u)}] \in D
      OBVIOUS
    <3>3. u # {} => G[Max(u)][f[u \ {Max(u)}]] = f[u \ {Max(u)}] \o Ascending(RuleAtts[ids[Max(u)]] \ ToSet(f[u \ {Max(u)}]))
      BY <3>1, <3>2
    <3> QED BY <2>1, <3>3 DEF FoldOf
  <2>3. f = [u \in SUBSET (DOMAIN ids) |-> IF u = {} THEN xs ELSE f[u \ {Max(u)}] \o Ascending(RuleAtts[ids[Max(u)]] \ ToSet(f[u \ {Max(u)}]))]
    BY <2>2
  <2> QED BY <2>3 DEF AttsIt
<1>2. AttsIt(xs, ids, it)
  BY <1>1
<1>3. FoldLeft(LAMBDA x, id : x \o Ascending(RuleAtts[id] \ ToSet(x)), xs, ids) = it[1 .. n]
  BY DEF FoldLeft, MapThenFoldSet, AttsIt
<1> HIDE DEF it
<1>4. it[1 .. 0] = xs
  BY <1>2 DEF AttsIt
<1>5. ASSUME NEW k \in 1 .. n, it[1 .. k - 1] \in D PROVE it[1 .. k] = G[k][it[1 .. k - 1]]
  <2>1. Max(1 .. k) = k /\ 1 .. k # {} /\ (1 .. k) \ {Max(1 .. k)} = 1 .. k - 1
    <3>1. k \in Nat /\ k # 0
      OBVIOUS
    <3> QED BY <3>1, Interval
  <2>2. (1 .. k) \in SUBSET (DOMAIN ids)
    OBVIOUS
  <2>3. it[1 .. k] = it[1 .. k - 1] \o Ascending(RuleAtts[ids[k]] \ ToSet(it[1 .. k - 1]))
    BY <2>1, <2>2, <1>2 DEF AttsIt
  <2> QED BY <2>3, <1>5
<1>6. Reached(n, D, xs, G, it[1 .. n])
  BY <1>4, <1>5, Chain
<1> QED BY <1>3, <1>6

KeepNext(s) == IF s.i > Len(s.es) \/ s.es[s.i].rule \in ToSet(rules) THEN [s EXCEPT !.i = @ + 1]
               ELSE [s EXCEPT !.es = Front(Swapped(@, s.i, Len(@)))]
(* Looking at the engines of a handler one after the other. *)
KeepIt(es, f) ==
  f = [u \in SUBSET (DOMAIN es) |-> IF u = {} THEN [i |-> 1, es |-> es] ELSE KeepNext(f[u \ {Max(u)}])]

(* Its result is reached in as many steps. *)
LEMMA KeepFold ==
  ASSUME NEW es, NEW n \in Nat, DOMAIN es = 1 .. n,
         NEW D, [i |-> 1, es |-> es] \in D, NEW G \in [1 .. n -> [D -> D]],
         \A k \in 1 .. n : \A r \in D : G[k][r] = KeepNext(r)
  PROVE  \E r : Reached(n, D, [i |-> 1, es |-> es], G, r) /\ Keep(es) = r.es
<1> DEFINE it == CHOOSE f : KeepIt(es, f)
<1>1. \E f : KeepIt(es, f)
  <2>1. PICK f \in [SUBSET (1 .. n) -> D] : FoldOf(n, D, [i |-> 1, es |-> es], G, f)
    BY FoldDefined DEF FoldExists
  <2>2. ASSUME NEW u \in SUBSET (1 .. n)
        PROVE  f[u] = IF u = {} THEN [i |-> 1, es |-> es] ELSE KeepNext(f[u \ {Max(u)}])
    <3>1. u # {} => Max(u) \in 1 .. n
      BY MaxIn
    <3>2. f[u \ {Max(u)}] \in D
      OBVIOUS
    <3>3. u # {} => G[Max(u)][f[u \ {Max(u)}]] = KeepNext(f[u \ {Max(u)}])
      BY <3>1, <3>2
    <3> QED BY <2>1, <3>3 DEF FoldOf
  <2>3. f = [u \in SUBSET (DOMAIN es) |-> IF u = {} THEN [i |-> 1, es |-> es] ELSE KeepNext(f[u \ {Max(u)}])]
    BY <2>2
  <2> QED BY <2>3 DEF KeepIt
<1>2. KeepIt(es, it)
  BY <1>1
<1>3. Keep(es) = it[1 .. n].es
  BY DEF FoldLeft, MapThenFoldSet, KeepIt, Keep, KeepNext
<1> HIDE DEF it
<1>4. it[1 .. 0] = [i |-> 1, es |-> es]
  BY <1>2 DEF KeepIt
<1>5. ASSUME NEW k \in 1 .. n, it[1 .. k - 1] \in D PROVE it[1 .. k] = G[k][it[1 .. k - 1]]
  <2>1. Max(1 .. k) = k /\ 1 .. k # {} /\ (1 .. k) \ {Max(1 .. k)} = 1 .. k - 1
    <3>1. k \in Nat /\ k # 0
      OBVIOUS
    <3> QED BY <3>1, Interval
  <2>2. (1 .. k) \in SUBSET (DOMAIN es)
    OBVIOUS
  <2>3. it[1 .. k] = KeepNext(it[1 .. k - 1])
    BY <2>1, <2>2, <1>2 DEF KeepIt
  <2> QED BY <2>3, <1>5
<1>6. Reached(n, D, [i |-> 1, es |-> es], G, it[1 .. n])
  BY <1>4, <1>5, Chain
<1> QED BY <1>3, <1>6

(* What was true of the start, and stays true, is true of the end. *)
LEMMA ReachedIn ==
  ASSUME NEW n \in Nat, NEW D, NEW base, NEW G, NEW r, Reached(n, D, base, G, r)
  PROVE  r \in D
BY DEF Reached, Steps

(* A rule is taken out of a list: no other comes in, and none a second time. *)
LEMMA RemoveRuleKeeps ==
  ASSUME NEW T, NEW s \in Seq(T), NEW id
  PROVE  /\ RemoveRule(s, id) \in Seq(T) /\ ToSet(RemoveRule(s, id)) \subseteq ToSet(s)
         /\ IsInjective(s) => IsInjective(RemoveRule(s, id))
<1>1. CASE id \notin ToSet(s)
  BY <1>1 DEF RemoveRule
<1>2. CASE id \in ToSet(s)
  <2> DEFINE k == CHOOSE k \in DOMAIN s : s[k] = id /\ \A j \in 1 .. k - 1 : s[j] # id
             n == Len(s)
             r == [s EXCEPT ![k] = Last(s)]
  <2>1. n \in Nat /\ DOMAIN s = 1 .. n
    OBVIOUS
  <2>2. n # 0
    BY <1>2, <2>1 DEF ToSet
  <2>3. RemoveRule(s, id) = Front(r)
    BY <1>2 DEF RemoveRule
  <2>4. s[n] \in T /\ Last(s) = s[n] /\ n \in 1 .. n
    <3> HIDE DEF n
    <3>1. n \in 1 .. n
      BY <2>1, <2>2
    <3>2. Last(s) = s[n]
      BY DEF Last, n
    <3> QED BY <3>1, <3>2, <2>1
  <2> HIDE DEF k
  <2>5. r \in Seq(T) /\ Len(r) = n /\ \A i \in 1 .. n : r[i] = IF i = k THEN s[n] ELSE s[i]
    <3>1. PICK m \in Nat : m = n
      BY <2>1
    <3>2. s = [i \in 1 .. m |-> s[i]] /\ \A i \in 1 .. m : s[i] \in T
      BY <2>1, <3>1
    <3>3. r = [i \in 1 .. m |-> IF i = k THEN s[m] ELSE s[i]]
      <4> HIDE DEF n
      <4> QED BY <2>1, <2>4, <3>1
    <3> HIDE DEF n, r
    <3>4. \A i \in 1 .. m : r[i] = IF i = k THEN s[m] ELSE s[i]
      BY <3>3
    <3>5. s[m] \in T
      BY <2>4, <3>1
    <3>6. r \in [1 .. m -> T]
      BY <3>2, <3>3, <3>5
    <3>7. r \in Seq(T) /\ Len(r) = m
      BY <3>6
    <3> QED BY <3>1, <3>4, <3>7
  <2>6. /\ Front(r) \in Seq(T) /\ Len(Front(r)) = n - 1 /\ DOMAIN Front(r) = 1 .. n - 1
        /\ \A i \in 1 .. n - 1 : Front(r)[i] = r[i]
    <3> HIDE DEF n, r
    <3>1. PICK m \in Nat : m = Len(r) /\ m = n /\ m # 0
      BY <2>1, <2>2, <2>5
    <3>2. Front(r) = SubSeq(r, 1, m - 1)
      BY <3>1 DEF Front
    <3>3. /\ SubSeq(r, 1, m - 1) \in Seq(T) /\ Len(SubSeq(r, 1, m - 1)) = m - 1
          /\ \A i \in 1 .. m - 1 : SubSeq(r, 1, m - 1)[i] = r[i]
      BY <2>5, <3>1
    <3> QED BY <3>1, <3>2, <3>3
  <2> HIDE DEF n, r
  <2>7. \A i \in 1 .. n - 1 : i \in 1 .. n /\ i # n
    BY <2>1
  <2>8. \A i \in 1 .. n - 1 : \E j \in 1 .. n : Front(r)[i] = s[j]
    BY <2>4, <2>5, <2>6, <2>7
  <2>9. ToSet(Front(r)) \subseteq ToSet(s)
    BY <2>1, <2>6, <2>8 DEF ToSet
  <2>10. IsInjective(s) => IsInjective(Front(r))
    BY <2>1, <2>4, <2>5, <2>6, <2>7 DEF IsInjective
  <2> QED BY <2>3, <2>6, <2>9, <2>10
<1> QED BY <1>1, <1>2

(* r has rules of s, and none twice that is there once. *)
Within(T, s, r) ==
  r \in Seq(T) /\ ToSet(r) \subseteq ToSet(s) /\ (IsInjective(s) => IsInjective(r))

(* The same of any number of rules. *)
LEMMA RemoveAllKeeps ==
  ASSUME NEW T, NEW s \in Seq(T), NEW ids, NEW n \in Nat, DOMAIN ids = 1 .. n
  PROVE  Within(T, s, FoldLeft(RemoveRule, s, ids))
<1> DEFINE D == {r \in Seq(T) : ToSet(r) \subseteq ToSet(s) /\ (IsInjective(s) => IsInjective(r))}
           G == [k \in 1 .. n |-> [r \in D |-> RemoveRule(r, ids[k])]]
<1>1. ASSUME NEW r \in D, NEW id PROVE RemoveRule(r, id) \in D
  BY RemoveRuleKeeps
<1>2. s \in D
  OBVIOUS
<1> HIDE DEF D
<1>3. G \in [1 .. n -> [D -> D]] /\ \A k \in 1 .. n : \A r \in D : G[k][r] = RemoveRule(r, ids[k])
  BY <1>1
<1> HIDE DEF G
<1>4. Reached(n, D, s, G, FoldLeft(RemoveRule, s, ids))
  BY <1>2, <1>3, RemoveFold
<1>5. FoldLeft(RemoveRule, s, ids) \in D
  <2> DEFINE e == FoldLeft(RemoveRule, s, ids)
  <2> HIDE DEF e
  <2>1. Reached(n, D, s, G, e)
    BY <1>4 DEF e
  <2>2. e \in D
    BY <2>1, ReachedIn
  <2> QED BY <2>2 DEF e
<1> QED BY <1>5 DEF D, Within

(* _filter_rules *)
LEMMA FilterKeeps ==
  ASSUME NEW T, NEW s \in Seq(T), NEW out \in Seq(Nat)
  PROVE  Within(T, s, FilterRules(out, s))
<1>1. PICK n \in Nat : n = Len(out)
  OBVIOUS
<1>2. DOMAIN Reverse(out) = 1 .. n
  BY <1>1 DEF Reverse
<1> QED BY <1>1, <1>2, RemoveAllKeeps DEF FilterRules

Plugin == [path : Files, rules : Seq(RuleIds)]
Tables == [plugins : Seq(Plugin), loaded : Seq(RuleIds)]
CodeOf(ps) == UNION {ToSet(ps[i].rules) : i \in DOMAIN ps}

(* Every rule that is loaded is of one plugin, once. *)
Apart(s) ==
  /\ s \in Tables /\ IsInjective(s.loaded)
  /\ \A i, j \in DOMAIN s.plugins :
       i # j => ToSet(s.plugins[i].rules) \cap ToSet(s.plugins[j].rules) = {}
  /\ ToSet(s.loaded) = CodeOf(s.plugins)

(* The elements of two lists, one after the other. *)
LEMMA Joined ==
  ASSUME NEW T, NEW s \in Seq(T), NEW r \in Seq(T)
  PROVE  /\ s \o r \in Seq(T) /\ ToSet(s \o r) = ToSet(s) \cup ToSet(r)
         /\ Len(s \o r) = Len(s) + Len(r)
         /\ \A i \in DOMAIN s : i \in DOMAIN (s \o r) /\ (s \o r)[i] = s[i]
         /\ IsInjective(s) /\ IsInjective(r) /\ ToSet(s) \cap ToSet(r) = {} => IsInjective(s \o r)
<1> DEFINE b == s \o r
<1>1. PICK n \in Nat, m \in Nat : n = Len(s) /\ m = Len(r)
  OBVIOUS
<1>2. b \in Seq(T) /\ Len(b) = n + m
  BY <1>1
<1>3. DOMAIN s = 1 .. n /\ DOMAIN r = 1 .. m /\ DOMAIN b = 1 .. n + m
  BY <1>1, <1>2
<1>4. \A i \in 1 .. n + m : b[i] = IF i <= n THEN s[i] ELSE r[i - n]
  BY <1>1
<1> HIDE DEF b
<1>5. (\A i \in 1 .. n : i \in 1 .. n + m /\ b[i] = s[i]) /\ \A j \in 1 .. m : n + j \in 1 .. n + m /\ b[n + j] = r[j]
  <2>1. \A j \in 1 .. m : n + j \in 1 .. n + m /\ ~(n + j <= n) /\ (n + j) - n = j
    OBVIOUS
  <2>2. \A i \in 1 .. n : i \in 1 .. n + m /\ i <= n
    OBVIOUS
  <2> QED BY <1>4, <2>1, <2>2
<1>6. \A i \in 1 .. n + m : i \in 1 .. n \/ i - n \in 1 .. m
  OBVIOUS
<1>7. ToSet(b) = ToSet(s) \cup ToSet(r)
  <2>1. ToSet(b) \subseteq ToSet(s) \cup ToSet(r)
    <3> SUFFICES ASSUME NEW i \in 1 .. n + m PROVE b[i] \in ToSet(s) \cup ToSet(r)
      BY <1>3 DEF ToSet
    <3>1. CASE i \in 1 .. n
      BY <3>1, <1>3, <1>5 DEF ToSet
    <3>2. CASE i \notin 1 .. n
      <4>1. i - n \in 1 .. m /\ b[i] = r[i - n]
        BY <3>2, <1>4
      <4> QED BY <4>1, <1>3 DEF ToSet
    <3> QED BY <3>1, <3>2
  <2>2. ToSet(s) \subseteq ToSet(b)
    BY <1>3, <1>5 DEF ToSet
  <2>3. ToSet(r) \subseteq ToSet(b)
    <3> SUFFICES ASSUME NEW j \in 1 .. m PROVE \E i \in 1 .. n + m : b[i] = r[j]
      BY <1>3 DEF ToSet
    <3> QED BY <1>5
  <2> QED BY <2>1, <2>2, <2>3
<1>8. ASSUME IsInjective(s), IsInjective(r), ToSet(s) \cap ToSet(r) = {} PROVE IsInjective(b)
  <2> SUFFICES ASSUME NEW i \in 1 .. n + m, NEW j \in 1 .. n + m, b[i] = b[j] PROVE i = j
    BY <1>3 DEF IsInjective
  <2>1. \A k \in 1 .. n : s[k] \in ToSet(s)
    BY <1>3 DEF ToSet
  <2>2. \A k \in 1 .. m : r[k] \in ToSet(r)
    BY <1>3 DEF ToSet
  <2>3. CASE i \in 1 .. n /\ j \in 1 .. n
    BY <2>3, <1>3, <1>5, <1>8 DEF IsInjective
  <2>4. CASE i \notin 1 .. n /\ j \notin 1 .. n
    <3>1. i - n \in 1 .. m /\ j - n \in 1 .. m /\ r[i - n] = r[j - n]
      BY <2>4, <1>4
    <3>2. i - n = j - n
      BY <3>1, <1>3, <1>8 DEF IsInjective
    <3> QED BY <3>2
  <2>5. CASE i \in 1 .. n /\ j \notin 1 .. n
    <3>1. j - n \in 1 .. m /\ b[i] = s[i] /\ b[j] = r[j - n]
      BY <2>5, <1>4
    <3> QED BY <3>1, <2>1, <2>2, <2>5, <1>8
  <2>6. CASE i \notin 1 .. n /\ j \in 1 .. n
    <3>1. i - n \in 1 .. m /\ b[j] = s[j] /\ b[i] = r[i - n]
      BY <2>6, <1>4
    <3> QED BY <3>1, <2>1, <2>2, <2>6, <1>8
  <2> QED BY <2>3, <2>4, <2>5, <2>6
<1>9. \A i \in DOMAIN s : i \in DOMAIN b /\ b[i] = s[i]
  BY <1>3, <1>5
<1> QED BY <1>1, <1>2, <1>7, <1>8, <1>9 DEF b

(* Loading a file brings only new rules. *)
LEMMA LoadFileKeeps ==
  ASSUME NEW s, Apart(s), NEW f \in Files
  PROVE  Apart(LoadFile(s, f)) /\ ToSet(s.loaded) \subseteq ToSet(LoadFile(s, f).loaded)
<1> DEFINE new == Fresh(s.plugins, f)
           ps == s.plugins
           p == [path |-> f, rules |-> new]
           r == [plugins |-> Append(ps, p), loaded |-> s.loaded \o new]
<1>1. ps \in Seq(Plugin) /\ s.loaded \in Seq(RuleIds)
  BY DEF Apart, Tables
<1>2. FileRules[f] \in Seq(RuleIds)
  <2>1. FileRules[f] \in Seq(Nat) /\ ToSet(FileRules[f]) \subseteq RuleIds
    BY PluginsAssumption, UpdateAssumption DEF RuleIds
  <2>2. \A i \in 1 .. Len(FileRules[f]) : FileRules[f][i] \in RuleIds
    BY <2>1 DEF ToSet
  <2> QED BY <2>1, <2>2
<1> DEFINE F == {id \in ToSet(FileRules[f]) : id \notin Outdated /\ ~HasRule(ps, id)}
<1>3. new \in Seq(RuleIds) /\ ToSet(new) = ToSet(FileRules[f]) \cap F /\ IsInjective(new)
  <2>1. new = Only(FileRules[f], F)
    BY DEF Fresh
  <2>2. IsInjective(FileRules[f])
    BY PluginsAssumption
  <2> HIDE DEF new, F
  <2> QED BY <1>2, <2>1, <2>2, OnlyKeeps
<1>4. ToSet(new) \cap CodeOf(ps) = {}
  BY <1>3 DEF HasRule, CodeOf
<1> HIDE DEF new
<1>5. p \in Plugin /\ p.rules = new
  BY <1>3 DEF Plugin
<1> DEFINE qs == Append(ps, p)
<1>6. PICK n \in Nat : n = Len(ps)
  BY <1>1
<1>7. /\ qs \in Seq(Plugin) /\ DOMAIN qs = 1 .. n + 1 /\ DOMAIN ps = 1 .. n
      /\ \A i \in 1 .. n + 1 : qs[i] = IF i = n + 1 THEN p ELSE ps[i]
  <2> HIDE DEF p, ps
  <2> QED BY <1>1, <1>5, <1>6
<1> HIDE DEF qs
<1>8. \A i \in 1 .. n : i \in 1 .. n + 1 /\ i # n + 1 /\ qs[i] = ps[i]
  BY <1>7
<1>9. n + 1 \in 1 .. n + 1 /\ qs[n + 1].rules = new /\ \A i \in 1 .. n + 1 : i = n + 1 \/ i \in 1 .. n
  BY <1>5, <1>7
<1>10. CodeOf(qs) = CodeOf(ps) \cup ToSet(new)
  <2> HIDE DEF p, ps
  <2> QED BY <1>7, <1>8, <1>9 DEF CodeOf
<1>11. ASSUME NEW i \in DOMAIN qs, NEW j \in DOMAIN qs, i # j
       PROVE  ToSet(qs[i].rules) \cap ToSet(qs[j].rules) = {}
  <2>1. \A k \in 1 .. n : ToSet(ps[k].rules) \subseteq CodeOf(ps)
    BY <1>7 DEF CodeOf
  <2>2. CASE i \in 1 .. n /\ j \in 1 .. n
    BY <2>2, <1>7, <1>8, <1>11 DEF Apart
  <2>3. CASE i \in 1 .. n /\ j = n + 1
    BY <2>1, <2>3, <1>4, <1>8, <1>9
  <2>4. CASE i = n + 1 /\ j \in 1 .. n
    BY <2>1, <2>4, <1>4, <1>8, <1>9
  <2> QED BY <2>2, <2>3, <2>4, <1>7, <1>9, <1>11
<1>12. /\ s.loaded \o new \in Seq(RuleIds) /\ ToSet(s.loaded \o new) = ToSet(s.loaded) \cup ToSet(new)
       /\ IsInjective(s.loaded \o new)
  <2>1. IsInjective(s.loaded) /\ ToSet(s.loaded) \cap ToSet(new) = {}
    BY <1>4 DEF Apart
  <2> QED BY <1>1, <1>3, <2>1, Joined
<1>13. r.plugins = qs /\ r.loaded = s.loaded \o new /\ r \in Tables
  <2>1. r = [plugins |-> qs, loaded |-> s.loaded \o new]
    BY DEF qs
  <2> HIDE DEF r, p, ps
  <2> QED BY <1>7, <1>12, <2>1 DEF Tables
<1>14. LoadFile(s, f) \in {s, r}
  BY DEF LoadFile, new
<1> HIDE DEF r
<1>15. Apart(r)
  <2>1. ToSet(r.loaded) = CodeOf(r.plugins)
    BY <1>10, <1>12, <1>13 DEF Apart
  <2> QED BY <1>11, <1>12, <1>13, <2>1 DEF Apart
<1>16. ToSet(s.loaded) \subseteq ToSet(r.loaded)
  BY <1>12, <1>13
<1> QED BY <1>14, <1>15, <1>16

(* load_mmt_sec_rules *)
LEMMA LoadRulesKeeps ==
  ASSUME NEW s, Apart(s), NEW dir \in SUBSET Files
  PROVE  Apart(LoadRules(s, dir)) /\ ToSet(s.loaded) \subseteq ToSet(LoadRules(s, dir).loaded)
<1> DEFINE D == {r \in Tables : Apart(r) /\ ToSet(s.loaded) \subseteq ToSet(r.loaded)}
           fs == Ascending(dir)
           G == [k \in 1 .. Len(fs) |-> [r \in D |-> LoadFile(r, fs[k])]]
<1>1. fs \in Seq(Files)
  <2>1. dir \in SUBSET Nat /\ IsFiniteSet(dir)
    BY PluginsAssumption, FS_Subset
  <2>2. Ascending(dir) \in Seq(dir)
    BY <2>1, AscendingLists
  <2> QED BY <2>2
<1> HIDE DEF fs
<1>2. PICK n \in Nat : n = Len(fs)
  BY <1>1
<1>3. \A k \in 1 .. n : fs[k] \in Files
  BY <1>1, <1>2
<1>4. DOMAIN fs = 1 .. n
  BY <1>1, <1>2
<1>5. ASSUME NEW r \in D, NEW f \in Files PROVE LoadFile(r, f) \in D
  <2>1. Apart(LoadFile(r, f)) /\ ToSet(r.loaded) \subseteq ToSet(LoadFile(r, f).loaded)
    BY LoadFileKeeps
  <2>2. LoadFile(r, f) \in Tables
    BY <2>1 DEF Apart
  <2> QED BY <2>1, <2>2
<1>6. s \in D
  BY DEF Apart
<1> HIDE DEF D
<1>7. G \in [1 .. n -> [D -> D]] /\ \A k \in 1 .. n : \A r \in D : G[k][r] = LoadFile(r, fs[k])
  BY <1>2, <1>3, <1>5
<1> HIDE DEF G
<1>8. Reached(n, D, s, G, FoldLeft(LoadFile, s, fs))
  BY <1>4, <1>6, <1>7, LoadFold
<1>9. LoadRules(s, dir) = FoldLeft(LoadFile, s, fs)
  BY DEF LoadRules, fs
<1>10. Reached(n, D, s, G, LoadRules(s, dir))
  BY <1>8, <1>9
<1>11. LoadRules(s, dir) \in D
  BY <1>10, ReachedIn
<1> QED BY <1>11 DEF D

AllAtts == UNION {RuleAtts[id] : id \in RuleIds}
Indexed(xs) == xs \in Seq(AllAtts) /\ IsInjective(xs)
Extends(xs, ys) == Len(xs) <= Len(ys) /\ \A i \in DOMAIN xs : i \in DOMAIN ys /\ ys[i] = xs[i]
Covers(xs, id) == RuleAtts[id] \subseteq ToSet(xs)
AddAtts(xs, ids) == FoldLeft(LAMBDA x, id : x \o Ascending(RuleAtts[id] \ ToSet(x)), xs, ids)

(* A list that grew has what it had. *)
LEMMA ExtendsFacts ==
  ASSUME NEW xs \in Seq(AllAtts), NEW ys \in Seq(AllAtts), Extends(xs, ys)
  PROVE  ToSet(xs) \subseteq ToSet(ys) /\ (Len(xs) = Len(ys) => xs = ys)
<1>1. ToSet(xs) \subseteq ToSet(ys)
  BY DEF Extends, ToSet
<1>2. ASSUME Len(xs) = Len(ys) PROVE xs = ys
  <2>1. DOMAIN xs = DOMAIN ys
    BY <1>2, LenProperties
  <2>2. xs = [i \in DOMAIN xs |-> xs[i]] /\ ys = [i \in DOMAIN ys |-> ys[i]]
    BY LenProperties
  <2> QED BY <2>1, <2>2 DEF Extends
<1> QED BY <1>1, <1>2

(* The attributes of a rule that have no index yet get one. *)
LEMMA AddRuleAtts ==
  ASSUME NEW xs, Indexed(xs), NEW id \in RuleIds
  PROVE  LET ys == xs \o Ascending(RuleAtts[id] \ ToSet(xs)) IN
         Indexed(ys) /\ Extends(xs, ys) /\ Covers(ys, id)
<1> DEFINE S == RuleAtts[id] \ ToSet(xs)
           new == Ascending(S)
<1>1. S \in SUBSET Nat /\ IsFiniteSet(S)
  <2>1. RuleAtts[id] \subseteq Nat /\ IsFiniteSet(RuleAtts[id])
    BY UpdateAssumption DEF RuleIds
  <2>2. S \in SUBSET RuleAtts[id]
    OBVIOUS
  <2> HIDE DEF S
  <2> QED BY <2>1, <2>2, FS_Subset
<1>2. new \in Seq(S) /\ IsInjective(new) /\ ToSet(new) = S
  <2> HIDE DEF S
  <2> QED BY <1>1, AscendingLists
<1>3. new \in Seq(AllAtts)
  <2>1. S \subseteq AllAtts
    BY DEF AllAtts
  <2> HIDE DEF S, new
  <2> QED BY <2>1, <1>2
<1> HIDE DEF new
<1> DEFINE ys == xs \o new
<1>4. ToSet(xs) \cap ToSet(new) = {}
  BY <1>2
<1>5. /\ ys \in Seq(AllAtts) /\ ToSet(ys) = ToSet(xs) \cup ToSet(new) /\ Len(ys) = Len(xs) + Len(new)
      /\ \A i \in DOMAIN xs : i \in DOMAIN ys /\ ys[i] = xs[i]
      /\ IsInjective(ys)
  <2>1. xs \in Seq(AllAtts) /\ IsInjective(xs)
    BY DEF Indexed
  <2> QED BY <2>1, <1>2, <1>3, <1>4, Joined
<1>6. Len(xs) \in Nat /\ Len(new) \in Nat
  BY <1>3 DEF Indexed
<1>7. Len(xs) <= Len(ys)
  <2> HIDE DEF ys
  <2> QED BY <1>5, <1>6
<1>8. RuleAtts[id] \subseteq ToSet(ys)
  <2> HIDE DEF ys
  <2> QED BY <1>2, <1>5
<1> HIDE DEF ys
<1>9. Indexed(ys) /\ Extends(xs, ys) /\ Covers(ys, id)
  BY <1>5, <1>7, <1>8 DEF Indexed, Extends, Covers
<1> QED BY <1>9 DEF ys, new

(* The attributes of all rules that are added. *)
LEMMA AddAttsKeeps ==
  ASSUME NEW xs, Indexed(xs), NEW ids \in Seq(RuleIds)
  PROVE  /\ Indexed(AddAtts(xs, ids)) /\ Extends(xs, AddAtts(xs, ids))
         /\ \A id \in ToSet(ids) : Covers(AddAtts(xs, ids), id)
<1> DEFINE D == {r \in Seq(AllAtts) : Indexed(r) /\ Extends(xs, r)}
           Next1(r, id) == r \o Ascending(RuleAtts[id] \ ToSet(r))
           G == [k \in 1 .. Len(ids) |-> [r \in D |-> Next1(r, ids[k])]]
           e == AddAtts(xs, ids)
<1>1. PICK n \in Nat : n = Len(ids)
  OBVIOUS
<1>2. DOMAIN ids = 1 .. n /\ \A k \in 1 .. n : ids[k] \in RuleIds
  BY <1>1
<1>3. ASSUME NEW r \in D, NEW id \in RuleIds
      PROVE  Next1(r, id) \in D /\ Covers(Next1(r, id), id) /\ Extends(r, Next1(r, id))
  <2>1. Indexed(Next1(r, id)) /\ Extends(r, Next1(r, id)) /\ Covers(Next1(r, id), id)
    BY AddRuleAtts
  <2> HIDE DEF Next1
  <2>2. Len(xs) \in Nat /\ Len(r) \in Nat /\ Len(Next1(r, id)) \in Nat
    BY <2>1 DEF Indexed
  <2>3. Extends(xs, Next1(r, id))
    BY <2>1, <2>2 DEF Extends
  <2> QED BY <2>1, <2>3 DEF Indexed
<1>4. xs \in D
  <2>1. xs \in Seq(AllAtts) /\ Len(xs) \in Nat
    BY DEF Indexed
  <2> QED BY <2>1 DEF Extends
<1> HIDE DEF D
<1>5. G \in [1 .. n -> [D -> D]] /\ \A k \in 1 .. n : \A r \in D : G[k][r] = Next1(r, ids[k])
  <2> HIDE DEF Next1
  <2> QED BY <1>1, <1>2, <1>3
<1> HIDE DEF G
<1>6. Reached(n, D, xs, G, e)
  BY <1>2, <1>4, <1>5, AttsFold DEF AddAtts
<1> HIDE DEF Next1, e
<1>7. PICK F : Steps(n, D, xs, G, F) /\ e = F[n]
  BY <1>6 DEF Reached
<1>8. ASSUME NEW k \in 1 .. n
      PROVE  F[k - 1] \in D /\ F[k] \in D /\ Covers(F[k], ids[k]) /\ Extends(F[k - 1], F[k])
  <2>1. k - 1 \in 0 .. n /\ k \in 0 .. n
    OBVIOUS
  <2>2. F[k - 1] \in D /\ F[k] \in D /\ F[k] = Next1(F[k - 1], ids[k])
    BY <2>1, <1>5, <1>7 DEF Steps
  <2> QED BY <2>2, <1>2, <1>3
<1> DEFINE A == {k \in 0 .. n : \A j \in 1 .. k : Covers(F[k], ids[j])}
<1>9. 0 \in A
  OBVIOUS
<1>10. ASSUME NEW k \in 1 .. n, k - 1 \in A PROVE k \in A
  <2>1. ToSet(F[k - 1]) \subseteq ToSet(F[k])
    <3>1. F[k - 1] \in Seq(AllAtts) /\ F[k] \in Seq(AllAtts)
      BY <1>8 DEF D
    <3> QED BY <3>1, <1>8, ExtendsFacts
  <2>2. ASSUME NEW j \in 1 .. k PROVE Covers(F[k], ids[j])
    <3>1. CASE j = k
      BY <3>1, <1>8
    <3>2. CASE j # k
      <4>1. j \in 1 .. k - 1
        BY <3>2
      <4> QED BY <4>1, <2>1, <1>10 DEF Covers
    <3> QED BY <3>1, <3>2
  <2>3. k \in 0 .. n
    OBVIOUS
  <2> QED BY <2>2, <2>3
<1>11. n \in A
  <2> HIDE DEF A
  <2>1. n \in 0 .. n
    OBVIOUS
  <2> QED BY <1>9, <1>10, <2>1, UpTo
<1>12. e \in D
  <2>1. n \in 0 .. n
    OBVIOUS
  <2> QED BY <1>7, <2>1 DEF Steps
<1>13. \A id \in ToSet(ids) : Covers(e, id)
  BY <1>2, <1>7, <1>11 DEF ToSet
<1> QED BY <1>12, <1>13 DEF D, e

(* An index is the place of its attribute. *)
LEMMA IndexIs ==
  ASSUME NEW xs, Indexed(xs), NEW a \in ToSet(xs)
  PROVE  Index(xs, a) \in DOMAIN xs /\ xs[Index(xs, a)] = a
BY DEF Index, ToSet

(* As attributes are only appended, indices do not change. *)
LEMMA IndicesStay ==
  ASSUME NEW xs, Indexed(xs), NEW ys, Indexed(ys), Extends(xs, ys), NEW id, Covers(xs, id)
  PROVE  /\ \A a \in RuleAtts[id] : Index(ys, a) = Index(xs, a)
         /\ HashOf(ys, id) = HashOf(xs, id) /\ Covers(ys, id)
<1>1. ASSUME NEW a \in RuleAtts[id] PROVE Index(ys, a) = Index(xs, a) /\ a \in ToSet(ys)
  <2>1. a \in ToSet(xs)
    BY DEF Covers
  <2>2. Index(xs, a) \in DOMAIN xs /\ xs[Index(xs, a)] = a
    BY <2>1, IndexIs
  <2>3. Index(xs, a) \in DOMAIN ys /\ ys[Index(xs, a)] = a
    BY <2>2 DEF Extends
  <2>4. a \in ToSet(ys)
    BY <2>3 DEF ToSet
  <2>5. Index(ys, a) \in DOMAIN ys /\ ys[Index(ys, a)] = a
    BY <2>4, IndexIs
  <2> QED BY <2>3, <2>4, <2>5 DEF Indexed, IsInjective
<1> QED BY <1>1 DEF HashOf, Covers

(* The hash of a rule are the indices of its attributes. *)
LEMMA HashIs ==
  ASSUME NEW xs, Indexed(xs), NEW id, Covers(xs, id)
  PROVE  HashOf(xs, id) = {k \in DOMAIN xs : xs[k] \in RuleAtts[id]}
<1>1. ASSUME NEW a \in RuleAtts[id] PROVE Index(xs, a) \in DOMAIN xs /\ xs[Index(xs, a)] = a
  <2>1. a \in ToSet(xs)
    BY DEF Covers
  <2> QED BY <2>1, IndexIs
<1>2. ASSUME NEW k \in DOMAIN xs, xs[k] \in RuleAtts[id] PROVE k = Index(xs, xs[k])
  BY <1>1, <1>2 DEF Indexed, IsInjective
<1> QED BY <1>1, <1>2 DEF HashOf

-----------------------------------------------------------------------------
(* The invariant. *)
Places == Nat
Counts == 0 .. MaxAlerts
Engine == [rule : RuleIds, hash : SUBSET Places, alerts : Counts]
Msgs   == [has : SUBSET Places, count : Places]
Pcs    == {"idle", "add", "rm", "toThreads", "fromThreads", "register", "exit"}
Jobs   == [pc : Pcs, ids : Removals \cup {<<>>}, mask : Masks \cup {<<>>}, new : Seq(RuleIds),
           turn : Threads]

TypeInv ==
  /\ folder \subseteq Files /\ rules \in Seq(RuleIds) /\ DOMAIN told = RuleIds
  /\ engines \in [Threads -> Seq(Engine)] /\ msg \in [Threads -> Msgs]
  /\ job \in [Updaters -> Jobs] /\ lock \in Updaters \cup {0}
  /\ updates \in 0 .. MaxUpdates
  /\ end \in {"no", "stopping", "released", "closed", "forced", "failed"}

(* Rules, to be added or verified, are of plugins. *)
PlugInv ==
  /\ IF end \in {"closed", "forced", "failed"} THEN plugins = <<>>
     ELSE Apart([plugins |-> plugins, loaded |-> loaded])
  /\ loaded \in Seq(RuleIds) /\ IsInjective(loaded)
  /\ ToSet(rules) \subseteq ToSet(loaded)
  /\ \A u \in Updaters : ToSet(job[u].new) \subseteq ToSet(loaded)
  /\ \A t \in Threads : RulesOf(t) \subseteq ToSet(loaded)

(* The functions of a rule were told the indices of its attributes. *)
Told(xs, td, id) == Covers(xs, id) /\ td[id] = [a \in RuleAtts[id] |-> Index(xs, a)]

EngineRight(xs, td, e) == e.hash = HashOf(xs, e.rule) /\ Told(xs, td, e.rule)

AttsInv ==
  /\ Indexed(atts)
  /\ \A id \in ToSet(rules) : Told(atts, told, id)
  /\ \A t \in Threads : \A i \in DOMAIN engines[t] : EngineRight(atts, told, engines[t][i])
  /\ hash = [t \in Threads |-> HandlerHash(engines[t])]

(* What is released has nothing left. *)
EndInv ==
  /\ \A t \in Threads : msg[t].count <= Len(atts)
  /\ end \in {"released", "closed"} => \A t \in Threads : engines[t] = <<>> /\ msg[t] = NoMsg

Adding == {"toThreads", "register", "exit"}
KnownInv ==
  end # "closed" =>
    /\ known <= Len(atts) /\ known \in Places
    /\ known = Len(atts) => Registered(atts) \subseteq extracted
    /\ known # Len(atts) => \E u \in Updaters : job[u].pc \in Adding

(* An updater holds the lock from the first handler to the last; handlers it
   has not come to may verify a rule that is gone.  One whose assertion failed
   keeps the lock it had. *)
Holding == {"toThreads", "fromThreads"}
LockInv ==
  /\ \A u \in Updaters : job[u].pc \in Holding => lock = u
  /\ \A u \in Updaters : lock = u => job[u].pc \in Holding \cup {"exit"}
  /\ \A u \in Updaters : job[u].pc \notin Holding => job[u].turn = 1
Behind(t) == \E u \in Updaters : job[u].pc = "fromThreads" /\ job[u].turn <= t
BackedInv == \A t \in Threads : Behind(t) \/ RulesOf(t) \subseteq ToSet(rules)

GivenInv == AllGiven /\ (updates = 0 => \A u \in Updaters : job[u].pc = "idle")

IInv == TypeInv /\ PlugInv /\ AttsInv /\ EndInv /\ KnownInv /\ LockInv /\ BackedInv /\ GivenInv

(* With one updater, the rules it adds are not there. *)
OnceInv ==
  /\ IsInjective(rules) /\ EnginesDistinct
  /\ \A u \in Updaters : /\ IsInjective(job[u].new)
                         /\ job[u].pc = "add" => ToSet(job[u].new) \cap ToSet(rules) = {}

(* Rules are brought to the front one after the other. *)
BringIt(c, s, ids, f) ==
  f = [u \in SUBSET (DOMAIN ids) |->
         IF u = {} THEN s ELSE BringOne(c, f[u \ {Max(u)}], ids[Max(u)])]

(* The recursion of this fold ends. *)
LEMMA BringDefined ==
  ASSUME NEW c, NEW s, NEW ids, NEW n \in Nat, DOMAIN ids = 1 .. n
  PROVE  \E f : BringIt(c, s, ids, f)
<1> DEFINE Eq(m, f) == f = [u \in SUBSET (1 .. m) |->
                              IF u = {} THEN s ELSE BringOne(c, f[u \ {Max(u)}], ids[Max(u)])]
           A == {m \in 0 .. n : \E f : Eq(m, f)}
<1>1. 0 \in A
  <2> DEFINE f == [u \in SUBSET (1 .. 0) |-> s]
  <2>1. \A u \in SUBSET (1 .. 0) : u = {}
    OBVIOUS
  <2>2. Eq(0, f)
    BY <2>1
  <2>3. 0 \in 0 .. n
    OBVIOUS
  <2> HIDE DEF f, Eq
  <2> QED BY <2>2, <2>3
<1>2. ASSUME NEW m \in 1 .. n, m - 1 \in A PROVE m \in A
  <2>1. m \in Nat /\ m - 1 \in Nat /\ m \in 0 .. n /\ 1 .. m - 1 \subseteq 1 .. m /\ m \notin 1 .. m - 1
    OBVIOUS
  <2>2. PICK old : Eq(m - 1, old)
    <3> HIDE DEF Eq
    <3> QED BY <1>2
  <2> DEFINE f == [u \in SUBSET (1 .. m) |->
                     IF m \in u THEN BringOne(c, old[u \ {m}], ids[m]) ELSE old[u]]
  <2>3. \A u \in SUBSET (1 .. m) : (m \in u => u \ {m} \in SUBSET (1 .. m - 1)) /\ (m \notin u => u \in SUBSET (1 .. m - 1))
    BY <2>1
  <2>4. \A u \in SUBSET (1 .. m - 1) : old[u] = IF u = {} THEN s ELSE BringOne(c, old[u \ {Max(u)}], ids[Max(u)])
    BY <2>2
  <2>5. ASSUME NEW u \in SUBSET (1 .. m)
        PROVE  f[u] = IF u = {} THEN s ELSE BringOne(c, f[u \ {Max(u)}], ids[Max(u)])
    <3>1. CASE m \in u
      <4>1. Max(u) = m
        BY <3>1, <2>1, MaxIs
      <4>2. f[u] = BringOne(c, old[u \ {m}], ids[m])
        BY <3>1
      <4>3. u \ {m} \in SUBSET (1 .. m) /\ m \notin u \ {m}
        OBVIOUS
      <4>4. f[u \ {m}] = old[u \ {m}]
        BY <4>3
      <4> HIDE DEF f
      <4> QED BY <3>1, <4>1, <4>2, <4>4
    <3>2. CASE m \notin u
      <4>1. u \in SUBSET (1 .. m - 1)
        BY <3>2, <2>3
      <4>2. f[u] = old[u]
        BY <3>2
      <4>3. u \ {Max(u)} \in SUBSET (1 .. m) /\ m \notin u \ {Max(u)}
        BY <3>2
      <4>4. f[u \ {Max(u)}] = old[u \ {Max(u)}]
        BY <4>3
      <4> HIDE DEF f
      <4> QED BY <4>1, <4>2, <4>4, <2>4
    <3> QED BY <3>1, <3>2
  <2>6. Eq(m, f)
    <3>1. f = [u \in SUBSET (1 .. m) |-> f[u]]
      OBVIOUS
    <3> HIDE DEF f
    <3> QED BY <2>5, <3>1
  <2> HIDE DEF f, Eq
  <2> QED BY <2>1, <2>6
<1>3. n \in A
  <2> HIDE DEF A
  <2>1. n \in 0 .. n
    OBVIOUS
  <2> QED BY <1>1, <1>2, <2>1, UpTo
<1> QED BY <1>3 DEF BringIt

BringSteps(c, s, ids, n, F) ==
  F[0] = s /\ \A k \in 1 .. n : F[k] = BringOne(c, F[k - 1], ids[k])
BringEnds(c, s, ids, n, r) == \E F : BringSteps(c, s, ids, n, F) /\ r = F[n]

BringAll(c, s, ids) == FoldLeft(LAMBDA r, x : BringOne(c, r, x), s, ids)

(* Its result is reached in as many steps. *)
LEMMA BringFold ==
  ASSUME NEW c, NEW s, NEW ids, NEW n \in Nat, DOMAIN ids = 1 .. n
  PROVE  BringEnds(c, s, ids, n, BringAll(c, s, ids))
<1> DEFINE it == CHOOSE f : BringIt(c, s, ids, f)
<1>1. BringIt(c, s, ids, it)
  BY BringDefined
<1>2. BringAll(c, s, ids) = it[1 .. n]
  BY DEF BringAll, FoldLeft, MapThenFoldSet, BringIt
<1> HIDE DEF it
<1> DEFINE F == [k \in 0 .. n |-> it[1 .. k]]
<1>3. F[0] = s
  BY <1>1 DEF BringIt
<1>4. ASSUME NEW k \in 1 .. n PROVE F[k] = BringOne(c, F[k - 1], ids[k])
  <2>1. Max(1 .. k) = k /\ 1 .. k # {} /\ (1 .. k) \ {Max(1 .. k)} = 1 .. k - 1
    <3>1. k \in Nat /\ k # 0
      OBVIOUS
    <3> QED BY <3>1, Interval
  <2>2. (1 .. k) \in SUBSET (DOMAIN ids)
    OBVIOUS
  <2>3. it[1 .. k] = BringOne(c, it[1 .. k - 1], ids[k])
    BY <2>1, <2>2, <1>1 DEF BringIt
  <2>4. k \in 0 .. n /\ k - 1 \in 0 .. n
    OBVIOUS
  <2> QED BY <2>3, <2>4
<1>5. F[n] = it[1 .. n]
  OBVIOUS
<1> HIDE DEF F
<1>6. BringSteps(c, s, ids, n, F)
  BY <1>3, <1>4 DEF BringSteps
<1>7. BringEnds(c, s, ids, n, it[1 .. n])
  BY <1>5, <1>6 DEF BringEnds
<1> QED BY <1>2, <1>7

(* Threads that the mask names are served one after the other. *)
NamedIt(c, s, ids, f) ==
  f = [u \in SUBSET (DOMAIN ids) |->
         IF u = {} THEN s ELSE GiveNamed(c, f[u \ {Max(u)}], ids[Max(u)])]

(* The recursion of this fold ends. *)
LEMMA NamedDefined ==
  ASSUME NEW c, NEW s, NEW ids, NEW n \in Nat, DOMAIN ids = 1 .. n
  PROVE  \E f : NamedIt(c, s, ids, f)
<1> DEFINE Eq(m, f) == f = [u \in SUBSET (1 .. m) |->
                              IF u = {} THEN s ELSE GiveNamed(c, f[u \ {Max(u)}], ids[Max(u)])]
           A == {m \in 0 .. n : \E f : Eq(m, f)}
<1>1. 0 \in A
  <2> DEFINE f == [u \in SUBSET (1 .. 0) |-> s]
  <2>1. \A u \in SUBSET (1 .. 0) : u = {}
    OBVIOUS
  <2>2. Eq(0, f)
    BY <2>1
  <2>3. 0 \in 0 .. n
    OBVIOUS
  <2> HIDE DEF f, Eq
  <2> QED BY <2>2, <2>3
<1>2. ASSUME NEW m \in 1 .. n, m - 1 \in A PROVE m \in A
  <2>1. m \in Nat /\ m - 1 \in Nat /\ m \in 0 .. n /\ 1 .. m - 1 \subseteq 1 .. m /\ m \notin 1 .. m - 1
    OBVIOUS
  <2>2. PICK old : Eq(m - 1, old)
    <3> HIDE DEF Eq
    <3> QED BY <1>2
  <2> DEFINE f == [u \in SUBSET (1 .. m) |->
                     IF m \in u THEN GiveNamed(c, old[u \ {m}], ids[m]) ELSE old[u]]
  <2>3. \A u \in SUBSET (1 .. m) : (m \in u => u \ {m} \in SUBSET (1 .. m - 1)) /\ (m \notin u => u \in SUBSET (1 .. m - 1))
    BY <2>1
  <2>4. \A u \in SUBSET (1 .. m - 1) : old[u] = IF u = {} THEN s ELSE GiveNamed(c, old[u \ {Max(u)}], ids[Max(u)])
    BY <2>2
  <2>5. ASSUME NEW u \in SUBSET (1 .. m)
        PROVE  f[u] = IF u = {} THEN s ELSE GiveNamed(c, f[u \ {Max(u)}], ids[Max(u)])
    <3>1. CASE m \in u
      <4>1. Max(u) = m
        BY <3>1, <2>1, MaxIs
      <4>2. f[u] = GiveNamed(c, old[u \ {m}], ids[m])
        BY <3>1
      <4>3. u \ {m} \in SUBSET (1 .. m) /\ m \notin u \ {m}
        OBVIOUS
      <4>4. f[u \ {m}] = old[u \ {m}]
        BY <4>3
      <4> HIDE DEF f
      <4> QED BY <3>1, <4>1, <4>2, <4>4
    <3>2. CASE m \notin u
      <4>1. u \in SUBSET (1 .. m - 1)
        BY <3>2, <2>3
      <4>2. f[u] = old[u]
        BY <3>2
      <4>3. u \ {Max(u)} \in SUBSET (1 .. m) /\ m \notin u \ {Max(u)}
        BY <3>2
      <4>4. f[u \ {Max(u)}] = old[u \ {Max(u)}]
        BY <4>3
      <4> HIDE DEF f
      <4> QED BY <4>1, <4>2, <4>4, <2>4
    <3> QED BY <3>1, <3>2
  <2>6. Eq(m, f)
    <3>1. f = [u \in SUBSET (1 .. m) |-> f[u]]
      OBVIOUS
    <3> HIDE DEF f
    <3> QED BY <2>5, <3>1
  <2> HIDE DEF f, Eq
  <2> QED BY <2>1, <2>6
<1>3. n \in A
  <2> HIDE DEF A
  <2>1. n \in 0 .. n
    OBVIOUS
  <2> QED BY <1>1, <1>2, <2>1, UpTo
<1> QED BY <1>3 DEF NamedIt

NamedSteps(c, s, ids, n, F) ==
  F[0] = s /\ \A k \in 1 .. n : F[k] = GiveNamed(c, F[k - 1], ids[k])
NamedEnds(c, s, ids, n, r) == \E F : NamedSteps(c, s, ids, n, F) /\ r = F[n]

NamedAll(c, s, ids) == FoldLeft(LAMBDA r, x : GiveNamed(c, r, x), s, ids)

(* Its result is reached in as many steps. *)
LEMMA NamedFold ==
  ASSUME NEW c, NEW s, NEW ids, NEW n \in Nat, DOMAIN ids = 1 .. n
  PROVE  NamedEnds(c, s, ids, n, NamedAll(c, s, ids))
<1> DEFINE it == CHOOSE f : NamedIt(c, s, ids, f)
<1>1. NamedIt(c, s, ids, it)
  BY NamedDefined
<1>2. NamedAll(c, s, ids) = it[1 .. n]
  BY DEF NamedAll, FoldLeft, MapThenFoldSet, NamedIt
<1> HIDE DEF it
<1> DEFINE F == [k \in 0 .. n |-> it[1 .. k]]
<1>3. F[0] = s
  BY <1>1 DEF NamedIt
<1>4. ASSUME NEW k \in 1 .. n PROVE F[k] = GiveNamed(c, F[k - 1], ids[k])
  <2>1. Max(1 .. k) = k /\ 1 .. k # {} /\ (1 .. k) \ {Max(1 .. k)} = 1 .. k - 1
    <3>1. k \in Nat /\ k # 0
      OBVIOUS
    <3> QED BY <3>1, Interval
  <2>2. (1 .. k) \in SUBSET (DOMAIN ids)
    OBVIOUS
  <2>3. it[1 .. k] = GiveNamed(c, it[1 .. k - 1], ids[k])
    BY <2>1, <2>2, <1>1 DEF NamedIt
  <2>4. k \in 0 .. n /\ k - 1 \in 0 .. n
    OBVIOUS
  <2> QED BY <2>3, <2>4
<1>5. F[n] = it[1 .. n]
  OBVIOUS
<1> HIDE DEF F
<1>6. NamedSteps(c, s, ids, n, F)
  BY <1>3, <1>4 DEF NamedSteps
<1>7. NamedEnds(c, s, ids, n, it[1 .. n])
  BY <1>5, <1>6 DEF NamedEnds
<1> QED BY <1>2, <1>7

(* So are the other threads. *)
EqualIt(c, s, ids, f) ==
  f = [u \in SUBSET (DOMAIN ids) |->
         IF u = {} THEN s ELSE GiveEqual(c, f[u \ {Max(u)}], ids[Max(u)])]

(* The recursion of this fold ends. *)
LEMMA EqualDefined ==
  ASSUME NEW c, NEW s, NEW ids, NEW n \in Nat, DOMAIN ids = 1 .. n
  PROVE  \E f : EqualIt(c, s, ids, f)
<1> DEFINE Eq(m, f) == f = [u \in SUBSET (1 .. m) |->
                              IF u = {} THEN s ELSE GiveEqual(c, f[u \ {Max(u)}], ids[Max(u)])]
           A == {m \in 0 .. n : \E f : Eq(m, f)}
<1>1. 0 \in A
  <2> DEFINE f == [u \in SUBSET (1 .. 0) |-> s]
  <2>1. \A u \in SUBSET (1 .. 0) : u = {}
    OBVIOUS
  <2>2. Eq(0, f)
    BY <2>1
  <2>3. 0 \in 0 .. n
    OBVIOUS
  <2> HIDE DEF f, Eq
  <2> QED BY <2>2, <2>3
<1>2. ASSUME NEW m \in 1 .. n, m - 1 \in A PROVE m \in A
  <2>1. m \in Nat /\ m - 1 \in Nat /\ m \in 0 .. n /\ 1 .. m - 1 \subseteq 1 .. m /\ m \notin 1 .. m - 1
    OBVIOUS
  <2>2. PICK old : Eq(m - 1, old)
    <3> HIDE DEF Eq
    <3> QED BY <1>2
  <2> DEFINE f == [u \in SUBSET (1 .. m) |->
                     IF m \in u THEN GiveEqual(c, old[u \ {m}], ids[m]) ELSE old[u]]
  <2>3. \A u \in SUBSET (1 .. m) : (m \in u => u \ {m} \in SUBSET (1 .. m - 1)) /\ (m \notin u => u \in SUBSET (1 .. m - 1))
    BY <2>1
  <2>4. \A u \in SUBSET (1 .. m - 1) : old[u] = IF u = {} THEN s ELSE GiveEqual(c, old[u \ {Max(u)}], ids[Max(u)])
    BY <2>2
  <2>5. ASSUME NEW u \in SUBSET (1 .. m)
        PROVE  f[u] = IF u = {} THEN s ELSE GiveEqual(c, f[u \ {Max(u)}], ids[Max(u)])
    <3>1. CASE m \in u
      <4>1. Max(u) = m
        BY <3>1, <2>1, MaxIs
      <4>2. f[u] = GiveEqual(c, old[u \ {m}], ids[m])
        BY <3>1
      <4>3. u \ {m} \in SUBSET (1 .. m) /\ m \notin u \ {m}
        OBVIOUS
      <4>4. f[u \ {m}] = old[u \ {m}]
        BY <4>3
      <4> HIDE DEF f
      <4> QED BY <3>1, <4>1, <4>2, <4>4
    <3>2. CASE m \notin u
      <4>1. u \in SUBSET (1 .. m - 1)
        BY <3>2, <2>3
      <4>2. f[u] = old[u]
        BY <3>2
      <4>3. u \ {Max(u)} \in SUBSET (1 .. m) /\ m \notin u \ {Max(u)}
        BY <3>2
      <4>4. f[u \ {Max(u)}] = old[u \ {Max(u)}]
        BY <4>3
      <4> HIDE DEF f
      <4> QED BY <4>1, <4>2, <4>4, <2>4
    <3> QED BY <3>1, <3>2
  <2>6. Eq(m, f)
    <3>1. f = [u \in SUBSET (1 .. m) |-> f[u]]
      OBVIOUS
    <3> HIDE DEF f
    <3> QED BY <2>5, <3>1
  <2> HIDE DEF f, Eq
  <2> QED BY <2>1, <2>6
<1>3. n \in A
  <2> HIDE DEF A
  <2>1. n \in 0 .. n
    OBVIOUS
  <2> QED BY <1>1, <1>2, <2>1, UpTo
<1> QED BY <1>3 DEF EqualIt

EqualSteps(c, s, ids, n, F) ==
  F[0] = s /\ \A k \in 1 .. n : F[k] = GiveEqual(c, F[k - 1], ids[k])
EqualEnds(c, s, ids, n, r) == \E F : EqualSteps(c, s, ids, n, F) /\ r = F[n]

EqualAll(c, s, ids) == FoldLeft(LAMBDA r, x : GiveEqual(c, r, x), s, ids)

(* Its result is reached in as many steps. *)
LEMMA EqualFold ==
  ASSUME NEW c, NEW s, NEW ids, NEW n \in Nat, DOMAIN ids = 1 .. n
  PROVE  EqualEnds(c, s, ids, n, EqualAll(c, s, ids))
<1> DEFINE it == CHOOSE f : EqualIt(c, s, ids, f)
<1>1. EqualIt(c, s, ids, it)
  BY EqualDefined
<1>2. EqualAll(c, s, ids) = it[1 .. n]
  BY DEF EqualAll, FoldLeft, MapThenFoldSet, EqualIt
<1> HIDE DEF it
<1> DEFINE F == [k \in 0 .. n |-> it[1 .. k]]
<1>3. F[0] = s
  BY <1>1 DEF EqualIt
<1>4. ASSUME NEW k \in 1 .. n PROVE F[k] = GiveEqual(c, F[k - 1], ids[k])
  <2>1. Max(1 .. k) = k /\ 1 .. k # {} /\ (1 .. k) \ {Max(1 .. k)} = 1 .. k - 1
    <3>1. k \in Nat /\ k # 0
      OBVIOUS
    <3> QED BY <3>1, Interval
  <2>2. (1 .. k) \in SUBSET (DOMAIN ids)
    OBVIOUS
  <2>3. it[1 .. k] = GiveEqual(c, it[1 .. k - 1], ids[k])
    BY <2>1, <2>2, <1>1 DEF EqualIt
  <2>4. k \in 0 .. n /\ k - 1 \in 0 .. n
    OBVIOUS
  <2> QED BY <2>3, <2>4
<1>5. F[n] = it[1 .. n]
  OBVIOUS
<1> HIDE DEF F
<1>6. EqualSteps(c, s, ids, n, F)
  BY <1>3, <1>4 DEF EqualSteps
<1>7. EqualEnds(c, s, ids, n, it[1 .. n])
  BY <1>5, <1>6 DEF EqualEnds
<1> QED BY <1>2, <1>7

(* The same rules in another order. *)
Reordered(s, r) ==
  r \in Seq(RuleIds) /\ Len(r) = Len(s) /\ ToSet(r) = ToSet(s) /\ IsInjective(r)

(* Two rules change places. *)
LEMMA SwapReorders ==
  ASSUME NEW s \in Seq(RuleIds), IsInjective(s), NEW i \in DOMAIN s, NEW j \in DOMAIN s
  PROVE  /\ Reordered(s, Swapped(s, i, j)) /\ Swapped(s, i, j)[i] = s[j]
         /\ \A k \in DOMAIN s : k # i /\ k # j => Swapped(s, i, j)[k] = s[k]
<1> DEFINE r == Swapped(s, i, j)
<1>1. PICK m \in Nat : m = Len(s) /\ DOMAIN s = 1 .. m
  OBVIOUS
<1>2. i \in 1 .. m /\ j \in 1 .. m /\ \A k \in 1 .. m : s[k] \in RuleIds
  BY <1>1
<1>3. r = [k \in 1 .. m |-> IF k = j THEN s[i] ELSE IF k = i THEN s[j] ELSE s[k]]
  <2>1. s = [k \in 1 .. m |-> s[k]]
    BY <1>1
  <2> QED BY <1>2, <2>1 DEF Swapped
<1> HIDE DEF r
<1>4. \A k \in 1 .. m : r[k] = IF k = j THEN s[i] ELSE IF k = i THEN s[j] ELSE s[k]
  BY <1>3
<1>5. r \in [1 .. m -> RuleIds]
  BY <1>2, <1>3
<1>6. r \in Seq(RuleIds) /\ Len(r) = m /\ DOMAIN r = 1 .. m
  BY <1>5
<1>7. ToSet(r) = ToSet(s)
  <2>1. \A k \in 1 .. m : \E l \in 1 .. m : r[k] = s[l]
    BY <1>2, <1>4
  <2>2. \A k \in 1 .. m : \E l \in 1 .. m : s[k] = r[l]
    BY <1>2, <1>4
  <2>3. ToSet(r) \subseteq ToSet(s)
    BY <1>1, <1>6, <2>1 DEF ToSet
  <2>4. ToSet(s) \subseteq ToSet(r)
    BY <1>1, <1>6, <2>2 DEF ToSet
  <2> QED BY <2>3, <2>4
<1>8. IsInjective(r)
  <2>1. \A k, l \in 1 .. m : s[k] = s[l] => k = l
    BY <1>1 DEF IsInjective
  <2>2. \A k, l \in 1 .. m : r[k] = r[l] => k = l
    BY <1>2, <1>4, <2>1
  <2> QED BY <1>6, <2>2 DEF IsInjective
<1>9. r[i] = s[j] /\ \A k \in 1 .. m : k # i /\ k # j => r[k] = s[k]
  BY <1>2, <1>4
<1> QED BY <1>1, <1>6, <1>7, <1>8, <1>9 DEF Reordered, r

(* The next id is among the rules that are not in their place yet. *)
LEMMA BringOneDoes ==
  ASSUME NEW s \in Seq(RuleIds), IsInjective(s), NEW ids \in Seq(Nat), IsInjective(ids),
         NEW k \in DOMAIN ids, ids[k] \in ToSet(s), \A j \in 1 .. k - 1 : j \in DOMAIN s /\ s[j] = ids[j]
  PROVE  /\ Reordered(s, BringOne(ids, s, k))
         /\ k <= Len(s) /\ \A j \in 1 .. k : BringOne(ids, s, k)[j] = ids[j]
<1>1. PICK m \in Nat, n \in Nat : m = Len(s) /\ DOMAIN s = 1 .. m /\ DOMAIN ids = 1 .. n
  <2>1. DOMAIN ids = 1 .. Len(ids) /\ Len(ids) \in Nat
    BY LenProperties
  <2>2. DOMAIN s = 1 .. Len(s) /\ Len(s) \in Nat
    BY LenProperties
  <2> QED BY <2>1, <2>2
<1> DEFINE at == {x \in k .. m : s[x] = ids[k]}
           x0 == CHOOSE x \in at : \A l \in at : x <= l
<1>2. k \in 1 .. n /\ \A j \in 1 .. k - 1 : j \in 1 .. n /\ j # k
  BY <1>1
<1>3. PICK x \in 1 .. m : s[x] = ids[k]
  BY <1>1 DEF ToSet
<1>4. x >= k
  <2> SUFFICES ASSUME x < k PROVE FALSE
    BY <1>2
  <2>1. x \in 1 .. k - 1
    BY <1>2
  <2>2. ids[x] = ids[k]
    BY <1>3, <2>1
  <2> QED BY <1>1, <1>2, <2>1, <2>2 DEF IsInjective
<1>5. at = {x}
  <2>1. \A y \in k .. m : y \in 1 .. m
    BY <1>2
  <2>2. \A y \in 1 .. m : s[y] = s[x] => y = x
    BY <1>1 DEF IsInjective
  <2> QED BY <1>2, <1>3, <1>4, <2>1, <2>2
<1>6. x0 = x
  <2> HIDE DEF at
  <2> QED BY <1>5
<1>7. BringOne(ids, s, k) = Swapped(s, k, x)
  <2>1. at # {}
    BY <1>5
  <2> QED BY <1>1, <1>6, <2>1 DEF BringOne
<1>8. k \in 1 .. m /\ k <= m
  BY <1>2, <1>4
<1>9. /\ Reordered(s, Swapped(s, k, x)) /\ Swapped(s, k, x)[k] = s[x]
      /\ \A j \in DOMAIN s : j # k /\ j # x => Swapped(s, k, x)[j] = s[j]
  <2>1. k \in DOMAIN s /\ x \in DOMAIN s
    BY <1>1, <1>8
  <2> QED BY <2>1, SwapReorders
<1>10. ASSUME NEW j \in 1 .. k PROVE Swapped(s, k, x)[j] = ids[j]
  <2>1. CASE j = k
    BY <2>1, <1>3, <1>9
  <2>2. CASE j # k
    <3>1. j \in 1 .. k - 1 /\ j # x /\ j \in DOMAIN s
      BY <2>2, <1>2, <1>4
    <3> QED BY <3>1, <2>2, <1>9
  <2> QED BY <2>1, <2>2
<1> QED BY <1>1, <1>7, <1>8, <1>9, <1>10

(* All ids are brought to the front. *)
LEMMA BringDoes ==
  ASSUME NEW s \in Seq(RuleIds), IsInjective(s), NEW ids \in Seq(Nat), IsInjective(ids),
         ToSet(ids) \subseteq ToSet(s)
  PROVE  /\ Reordered(s, Bring(s, ids))
         /\ Len(ids) <= Len(s) /\ \A j \in DOMAIN ids : Bring(s, ids)[j] = ids[j]
<1>1. PICK n \in Nat : n = Len(ids) /\ DOMAIN ids = 1 .. n
  <2>1. DOMAIN ids = 1 .. Len(ids) /\ Len(ids) \in Nat
    BY LenProperties
  <2> QED BY <2>1
<1>2. PICK m \in Nat : m = Len(s) /\ DOMAIN s = 1 .. m
  OBVIOUS
<1> DEFINE order == [j \in DOMAIN ids |-> j]
<1>3. DOMAIN order = 1 .. n /\ \A j \in 1 .. n : order[j] = j
  BY <1>1
<1>4. Bring(s, ids) = BringAll(ids, s, order)
  BY DEF Bring, BringAll
<1> HIDE DEF order
<1>5. BringEnds(ids, s, order, n, Bring(s, ids))
  BY <1>3, <1>4, BringFold
<1>6. PICK F : BringSteps(ids, s, order, n, F) /\ Bring(s, ids) = F[n]
  BY <1>5 DEF BringEnds
<1> DEFINE Good(k, r) == Reordered(s, r) /\ k <= m /\ \A j \in 1 .. k : r[j] = ids[j]
           A == {k \in 0 .. n : Good(k, F[k])}
<1>7. 0 \in A
  <2>1. Reordered(s, s)
    BY DEF Reordered
  <2> QED BY <2>1, <1>6 DEF BringSteps
<1>8. ASSUME NEW k \in 1 .. n, k - 1 \in A PROVE k \in A
  <2>1. PICK r : r = F[k - 1]
    OBVIOUS
  <2>2. Good(k - 1, r)
    BY <1>8, <2>1
  <2>3. r \in Seq(RuleIds) /\ IsInjective(r) /\ Len(r) = m /\ ToSet(r) = ToSet(s) /\ DOMAIN r = 1 .. m
    BY <1>2, <2>2 DEF Reordered
  <2>4. ids[k] \in ToSet(r) /\ k \in DOMAIN ids
    BY <1>1, <2>3 DEF ToSet
  <2>5. \A j \in 1 .. k - 1 : j \in DOMAIN r /\ r[j] = ids[j]
    BY <2>2, <2>3
  <2>6. /\ Reordered(r, BringOne(ids, r, k))
        /\ k <= Len(r) /\ \A j \in 1 .. k : BringOne(ids, r, k)[j] = ids[j]
    BY <2>3, <2>4, <2>5, BringOneDoes
  <2>7. F[k] = BringOne(ids, r, k)
    BY <1>3, <1>6, <2>1 DEF BringSteps
  <2>8. Reordered(s, BringOne(ids, r, k))
    BY <1>2, <2>3, <2>6 DEF Reordered
  <2>9. Good(k, F[k])
    BY <2>3, <2>6, <2>7, <2>8
  <2> HIDE DEF Good
  <2> QED BY <2>9
<1>9. n \in A
  <2> HIDE DEF A
  <2>1. n \in 0 .. n
    OBVIOUS
  <2> QED BY <1>7, <1>8, <2>1, UpTo
<1> QED BY <1>1, <1>2, <1>6, <1>9

(* Threads are numbered from 1. *)
LEMMA ThreadsAre ==
  /\ Cardinality(Threads) \in Nat \ {0} /\ Threads = 1 .. Cardinality(Threads) /\ 1 \in Threads
  /\ Cardinality(Threads) \in Threads
<1>1. IsFiniteSet(Threads) /\ Threads # {} /\ Threads = 1 .. Cardinality(Threads)
  BY UpdateAssumption
<1>2. Cardinality(Threads) \in Nat /\ Cardinality(Threads) # 0
  BY <1>1, FS_CardinalityType, FS_EmptySet
<1> QED BY <1>1, <1>2


(* A list is what is taken from its front and what is left. *)
LEMMA Halves ==
  ASSUME NEW s \in Seq(RuleIds), IsInjective(s), NEW n \in 0 .. Len(s)
  PROVE  /\ Take(s, n) \in Seq(RuleIds) /\ IsInjective(Take(s, n)) /\ DOMAIN Take(s, n) = 1 .. n
         /\ \A j \in 1 .. n : Take(s, n)[j] = s[j]
         /\ Drop(s, n) \in Seq(RuleIds) /\ IsInjective(Drop(s, n)) /\ Len(Drop(s, n)) = Len(s) - n
         /\ ToSet(Take(s, n)) \cap ToSet(Drop(s, n)) = {}
         /\ ToSet(Take(s, n)) \cup ToSet(Drop(s, n)) = ToSet(s)
<1>1. PICK m \in Nat : m = Len(s) /\ DOMAIN s = 1 .. m
  OBVIOUS
<1> DEFINE a == SubSeq(s, 1, n)
           b == SubSeq(s, n + 1, m)
<1>2. n \in Nat /\ n <= m
  BY <1>1
<1>3. a \in Seq(RuleIds) /\ Len(a) = n /\ \A j \in 1 .. n : a[j] = s[j]
  BY <1>1, <1>2
<1>4. b \in Seq(RuleIds) /\ Len(b) = m - n /\ \A j \in 1 .. m - n : b[j] = s[n + j]
  BY <1>1, <1>2
<1>5. Take(s, n) = a /\ Drop(s, n) = b
  BY <1>1 DEF Take, Drop
<1> HIDE DEF a, b
<1>6. DOMAIN a = 1 .. n /\ DOMAIN b = 1 .. m - n
  <2>1. DOMAIN a = 1 .. Len(a) /\ DOMAIN b = 1 .. Len(b)
    BY <1>3, <1>4, LenProperties
  <2> QED BY <2>1, <1>3, <1>4
<1>7. \A i, j \in 1 .. m : s[i] = s[j] => i = j
  BY <1>1 DEF IsInjective
<1>8. (\A j \in 1 .. n : j \in 1 .. m) /\ \A j \in 1 .. m - n : n + j \in 1 .. m /\ n + j > n
  BY <1>2
<1>9. IsInjective(a)
  BY <1>3, <1>6, <1>7, <1>8 DEF IsInjective
<1>10. IsInjective(b)
  <2>1. \A i, j \in 1 .. m - n : b[i] = b[j] => n + i = n + j
    BY <1>4, <1>7, <1>8
  <2>2. \A i, j \in 1 .. m - n : n + i = n + j => i = j
    BY <1>2
  <2> QED BY <1>6, <2>1, <2>2 DEF IsInjective
<1>11. ToSet(a) \cap ToSet(b) = {}
  <2> SUFFICES ASSUME NEW i \in 1 .. n, NEW j \in 1 .. m - n, a[i] = b[j] PROVE FALSE
    BY <1>6 DEF ToSet
  <2>1. i = n + j
    BY <1>3, <1>4, <1>7, <1>8
  <2> QED BY <2>1, <1>8
<1>12. ToSet(a) \cup ToSet(b) = ToSet(s)
  <2>1. \A i \in 1 .. m : i \in 1 .. n \/ (i - n \in 1 .. m - n /\ n + (i - n) = i)
    BY <1>2
  <2>2. \A i \in 1 .. m : (\E j \in 1 .. n : s[i] = a[j]) \/ \E j \in 1 .. m - n : s[i] = b[j]
    BY <1>3, <1>4, <2>1
  <2>3. ToSet(s) \subseteq ToSet(a) \cup ToSet(b)
    BY <1>1, <1>6, <2>2 DEF ToSet
  <2>4. (\A j \in 1 .. n : \E i \in 1 .. m : a[j] = s[i]) /\ \A j \in 1 .. m - n : \E i \in 1 .. m : b[j] = s[i]
    BY <1>3, <1>4, <1>8
  <2>5. ToSet(a) \subseteq ToSet(s)
    BY <1>1, <1>6, <2>4 DEF ToSet
  <2>6. ToSet(b) \subseteq ToSet(s)
    <3>1. \A j \in 1 .. m - n : b[j] \in ToSet(s)
      BY <1>1, <2>4 DEF ToSet
    <3> QED BY <1>6, <3>1 DEF ToSet
  <2> QED BY <2>3, <2>5, <2>6
<1> QED BY <1>1, <1>3, <1>4, <1>5, <1>6, <1>9, <1>10, <1>11, <1>12

(* What the threads were given and what is left is all there is, once. *)
Parts(all, of, left) ==
  /\ of \in [Threads -> Seq(RuleIds)] /\ left \in Seq(RuleIds) /\ IsInjective(left)
  /\ \A t \in Threads : IsInjective(of[t]) /\ ToSet(of[t]) \cap ToSet(left) = {}
  /\ \A t, v \in Threads : t # v => ToSet(of[t]) \cap ToSet(of[v]) = {}
  /\ (UNION {ToSet(of[t]) : t \in Threads}) \cup ToSet(left) = ToSet(all)
Shares(all, s) == Parts(all, s.of, s.left) /\ s = [of |-> s.of, left |-> s.left, threads |-> s.threads]

(* An empty list has nothing in it. *)
LEMMA NoRules == ToSet(<<>>) = {} /\ IsInjective(<<>>)
BY DEF ToSet, IsInjective

LeftOver(r, s, n) == ToSet(r.left) = ToSet(s.left) \ ToSet(Take(s.left, n))

(* A thread gets the first rules of what is left. *)
LEMMA GiveKeeps ==
  ASSUME NEW all, NEW s, Shares(all, s), NEW t \in Threads, s.of[t] = <<>>,
         NEW n \in 0 .. Len(s.left)
  PROVE  LET r == Give(s, t, n) IN
         /\ Shares(all, r) /\ r.threads = s.threads - 1
         /\ Len(r.left) = Len(s.left) - n
         /\ \A v \in Threads : v # t => r.of[v] = s.of[v]
         /\ LeftOver(r, s, n)
<1>1. PICK of, left, w, a, b : /\ of = s.of /\ left = s.left /\ w = s.threads
                               /\ a = Take(left, n) /\ b = Drop(left, n)
  OBVIOUS
<1>2. Parts(all, of, left) /\ s = [of |-> of, left |-> left, threads |-> w]
  BY <1>1 DEF Shares
<1> DEFINE new == [of EXCEPT ![t] = a]
<1>3. Give(s, t, n) = [of |-> new, left |-> b, threads |-> w - 1]
  <2>1. s.threads = w /\ s.left = left /\ s.of = of
    BY <1>1
  <2>2. Give(s, t, n) = [[of |-> of, left |-> left, threads |-> w] EXCEPT !.of = new, !.left = b, !.threads = w - 1]
    BY <1>1, <1>2, <2>1 DEF Give
  <2> HIDE DEF new
  <2> QED BY <2>2
<1>4. /\ a \in Seq(RuleIds) /\ IsInjective(a) /\ b \in Seq(RuleIds) /\ IsInjective(b)
      /\ Len(b) = Len(left) - n /\ ToSet(a) \cap ToSet(b) = {} /\ ToSet(a) \cup ToSet(b) = ToSet(left)
  <2>1. left \in Seq(RuleIds) /\ IsInjective(left)
    BY <1>2 DEF Parts
  <2>2. n \in 0 .. Len(left)
    BY <1>1
  <2> QED BY <1>1, <2>1, <2>2, Halves
<1>5. new \in [Threads -> Seq(RuleIds)] /\ new[t] = a /\ \A v \in Threads : v # t => new[v] = of[v]
  BY <1>2, <1>4 DEF Parts
<1> HIDE DEF new
<1>6. ToSet(of[t]) = {}
  BY <1>1, NoRules
<1>7. \A v \in Threads : v # t => ToSet(of[v]) \cap ToSet(a) = {} /\ ToSet(of[v]) \cap ToSet(b) = {}
  BY <1>2, <1>4 DEF Parts
<1>8. \A v \in Threads : IsInjective(new[v]) /\ ToSet(new[v]) \cap ToSet(b) = {}
  BY <1>2, <1>4, <1>5, <1>7 DEF Parts
<1>9. \A u, v \in Threads : u # v => ToSet(new[u]) \cap ToSet(new[v]) = {}
  BY <1>2, <1>4, <1>5, <1>7 DEF Parts
<1>10. (UNION {ToSet(new[v]) : v \in Threads}) \cup ToSet(b) = ToSet(all)
  <2>1. UNION {ToSet(new[v]) : v \in Threads} = (UNION {ToSet(of[v]) : v \in Threads}) \cup ToSet(a)
    BY <1>5, <1>6
  <2>2. (UNION {ToSet(of[v]) : v \in Threads}) \cup ToSet(left) = ToSet(all)
    BY <1>2 DEF Parts
  <2> QED BY <1>4, <2>1, <2>2
<1>11. Parts(all, new, b)
  BY <1>4, <1>5, <1>8, <1>9, <1>10 DEF Parts
<1>12. ToSet(b) = ToSet(left) \ ToSet(a)
  BY <1>4
<1>13. PICK r : r = Give(s, t, n)
  OBVIOUS
<1>14. r = [of |-> new, left |-> b, threads |-> w - 1] /\ r.of = new /\ r.left = b /\ r.threads = w - 1
  BY <1>3, <1>13
<1>15. Shares(all, r)
  BY <1>11, <1>14 DEF Shares
<1>16. LeftOver(r, s, n)
  BY <1>1, <1>12, <1>14 DEF LeftOver
<1> QED BY <1>1, <1>4, <1>5, <1>13, <1>14, <1>15, <1>16

Distributed(all, of) ==
  /\ of \in [Threads -> Seq(RuleIds)]
  /\ \A t \in Threads : IsInjective(of[t])
  /\ \A t, v \in Threads : t # v => ToSet(of[t]) \cap ToSet(of[v]) = {}
  /\ UNION {ToSet(of[t]) : t \in Threads} = ToSet(all)

MaskFits(all, mask) ==
  /\ \E t \in Threads : mask[t] = <<>>
  /\ \A t \in Threads : IsInjective(mask[t]) /\ ToSet(mask[t]) \subseteq ToSet(all)
  /\ \A t, v \in Threads : t # v => ToSet(mask[t]) \cap ToSet(mask[v]) = {}

(* A part is not more than the whole, and one part is the whole. *)
LEMMA Division ==
  ASSUME NEW m \in Nat, NEW n \in Nat \ {0}
  PROVE  m \div n \in 0 .. m /\ (n = 1 => m \div n = m)
OBVIOUS

(* One thread less. *)
LEMMA OneLess ==
  ASSUME NEW U \in SUBSET Threads, NEW t \in U
  PROVE  /\ Cardinality(U) \in Nat \ {0} /\ Cardinality(U \ {t}) = Cardinality(U) - 1
         /\ U \ {t} = {} => Cardinality(U) = 1
<1>1. IsFiniteSet(Threads) /\ U \subseteq Threads
  BY UpdateAssumption
<1>2. IsFiniteSet(U)
  BY <1>1, FS_Subset
<1>3. Cardinality(U) \in Nat /\ Cardinality(U) # 0
  BY <1>2, FS_CardinalityType, FS_EmptySet
<1>4. Cardinality(U \ {t}) = Cardinality(U) - 1
  BY <1>2, FS_RemoveElement
<1>5. U \ {t} = {} => Cardinality(U \ {t}) = 0
  BY FS_EmptySet
<1> QED BY <1>3, <1>4, <1>5

(* Threads that have nothing yet, while those the mask names are served. *)
Waiting(mask, k) == {t \in Threads : t > k \/ mask[t] = <<>>}
NamedGood(all, mask, k, s) ==
  /\ Shares(all, s) /\ s.threads = Cardinality(Waiting(mask, k))
  /\ \A t \in Waiting(mask, k) : s.of[t] = <<>>
  /\ \A t \in Threads : t > k => ToSet(mask[t]) \subseteq ToSet(s.left)

(* A thread the mask names gets the rules it names for it. *)
LEMMA GiveNamedKeeps ==
  ASSUME NEW all, NEW mask, \A t \in Threads : mask[t] \in Seq(Nat), MaskFits(all, mask),
         NEW k \in Threads, NEW s, NamedGood(all, mask, k - 1, s)
  PROVE  NamedGood(all, mask, k, GiveNamed(mask, s, k))
<1>1. k \in Nat /\ \A t \in Threads : t \in Nat /\ (t > k <=> t > k - 1 /\ t # k) /\ k > k - 1
  BY ThreadsAre
<1> DEFINE U == Waiting(mask, k - 1)
           W == Waiting(mask, k)
<1>2. CASE mask[k] = <<>>
  <2>1. W = U
    BY <1>1, <1>2 DEF Waiting
  <2>2. GiveNamed(mask, s, k) = s
    BY <1>2 DEF GiveNamed
  <2> QED BY <1>1, <2>1, <2>2 DEF NamedGood
<1>3. CASE mask[k] # <<>>
  <2>1. W = U \ {k} /\ k \in U /\ U \in SUBSET Threads
    BY <1>1, <1>3 DEF Waiting
  <2> HIDE DEF U, W
  <2>2. PICK ids, left, b : ids = mask[k] /\ left = s.left /\ b = Bring(left, ids)
    OBVIOUS
  <2>3. /\ Shares(all, s) /\ s.threads = Cardinality(U) /\ s.of[k] = <<>>
        /\ \A t \in W : s.of[t] = <<>> /\ t # k
        /\ \A t \in Threads : t > k - 1 => ToSet(mask[t]) \subseteq ToSet(left)
    BY <2>1, <2>2 DEF NamedGood, U
  <2>4. ids \in Seq(Nat) /\ IsInjective(ids) /\ ToSet(ids) \subseteq ToSet(left)
    BY <1>1, <2>2, <2>3 DEF MaskFits
  <2>5. left \in Seq(RuleIds) /\ IsInjective(left) /\ Parts(all, s.of, left)
    BY <2>2, <2>3 DEF Shares, Parts
  <2>6. Reordered(left, b) /\ Len(ids) <= Len(left) /\ \A j \in DOMAIN ids : b[j] = ids[j]
    BY <2>2, <2>4, <2>5, BringDoes
  <2>7. PICK n \in Nat : n = Len(ids) /\ DOMAIN ids = 1 .. n
    <3>1. DOMAIN ids = 1 .. Len(ids) /\ Len(ids) \in Nat
      BY <2>4, LenProperties
    <3> QED BY <3>1
  <2>8. b \in Seq(RuleIds) /\ IsInjective(b) /\ ToSet(b) = ToSet(left) /\ n \in 0 .. Len(b)
    <3>1. Len(left) \in Nat
      BY <2>5, LenProperties
    <3> QED BY <2>6, <2>7, <3>1 DEF Reordered
  <2>9. PICK q : q = [of |-> s.of, left |-> b, threads |-> s.threads]
    OBVIOUS
  <2>10. q.of = s.of /\ q.left = b /\ q.threads = s.threads
    BY <2>9
  <2>11. Shares(all, q) /\ q.of[k] = <<>>
    <3>1. Parts(all, s.of, b)
      BY <2>5, <2>8 DEF Parts
    <3> QED BY <2>3, <2>9, <2>10, <3>1 DEF Shares
  <2>12. GiveNamed(mask, s, k) = Give(q, k, n)
    <3>1. [s EXCEPT !.left = b] = q
      BY <2>3, <2>9 DEF Shares
    <3> QED BY <1>3, <2>2, <2>7, <3>1 DEF GiveNamed
  <2>13. PICK r : r = Give(q, k, n)
    OBVIOUS
  <2>14. /\ Shares(all, r) /\ r.threads = q.threads - 1
         /\ \A v \in Threads : v # k => r.of[v] = q.of[v]
         /\ LeftOver(r, q, n)
    <3>1. n \in 0 .. Len(q.left)
      BY <2>8, <2>10
    <3> QED BY <2>11, <2>13, <3>1, GiveKeeps
  <2>15. ToSet(Take(b, n)) = ToSet(ids)
    <3>1. DOMAIN Take(b, n) = 1 .. n /\ \A j \in 1 .. n : Take(b, n)[j] = b[j]
      BY <2>8, Halves
    <3>2. \A j \in 1 .. n : Take(b, n)[j] = ids[j]
      BY <2>6, <2>7, <3>1
    <3> QED BY <2>7, <3>1, <3>2 DEF ToSet
  <2>16. r.threads = Cardinality(W)
    BY <2>1, <2>3, <2>10, <2>14, OneLess
  <2>17. \A t \in W : r.of[t] = <<>>
    BY <2>1, <2>3, <2>10, <2>14
  <2>18. ASSUME NEW t \in Threads, t > k PROVE ToSet(mask[t]) \subseteq ToSet(r.left)
    <3>1. t # k /\ ToSet(mask[t]) \subseteq ToSet(left)
      BY <1>1, <2>3, <2>18
    <3>2. ToSet(mask[t]) \cap ToSet(ids) = {}
      BY <2>2, <3>1 DEF MaskFits
    <3> QED BY <2>8, <2>10, <2>14, <2>15, <3>1, <3>2 DEF LeftOver
  <2>19. NamedGood(all, mask, k, r)
    BY <2>14, <2>16, <2>17, <2>18 DEF NamedGood, W
  <2> QED BY <2>12, <2>13, <2>19
<1> QED BY <1>2, <1>3

(* Threads that have nothing yet, while the others are served. *)
Unserved(mask, k) == {t \in Threads : t > k /\ mask[t] = <<>>}
EqualGood(all, mask, k, s) ==
  /\ Shares(all, s) /\ s.threads = Cardinality(Unserved(mask, k))
  /\ \A t \in Unserved(mask, k) : s.of[t] = <<>>
  /\ Unserved(mask, k) = {} => s.left = <<>>

(* Another gets an equal part, and the last one all that is left. *)
LEMMA GiveEqualKeeps ==
  ASSUME NEW all, NEW mask, NEW k \in Threads, NEW s, EqualGood(all, mask, k - 1, s)
  PROVE  EqualGood(all, mask, k, GiveEqual(mask, s, k))
<1>1. k \in Nat /\ \A t \in Threads : t \in Nat /\ (t > k <=> t > k - 1 /\ t # k) /\ k > k - 1
  BY ThreadsAre
<1> DEFINE U == Unserved(mask, k - 1)
           W == Unserved(mask, k)
<1>2. CASE mask[k] # <<>>
  <2>1. W = U
    <3>1. \A t \in Threads : mask[t] = <<>> => (t > k <=> t > k - 1)
      BY <1>1, <1>2
    <3> QED BY <3>1 DEF Unserved
  <2>2. GiveEqual(mask, s, k) = s
    BY <1>2 DEF GiveEqual
  <2> QED BY <2>1, <2>2 DEF EqualGood
<1>3. CASE mask[k] = <<>>
  <2>1. W = U \ {k} /\ k \in U /\ U \in SUBSET Threads
    BY <1>1, <1>3 DEF Unserved
  <2>2. Shares(all, s) /\ s.threads = Cardinality(U) /\ s.of[k] = <<>> /\ \A t \in W : s.of[t] = <<>> /\ t # k
    BY <2>1 DEF EqualGood
  <2> HIDE DEF U, W
  <2>3. Cardinality(U) \in Nat \ {0} /\ Cardinality(W) = Cardinality(U) - 1 /\ (W = {} => Cardinality(U) = 1)
    BY <2>1, OneLess
  <2>4. PICK m, n : m = Len(s.left) /\ n = m \div s.threads
    OBVIOUS
  <2>5. s.left \in Seq(RuleIds) /\ m \in Nat
    <3>1. s.left \in Seq(RuleIds)
      BY <2>2 DEF Shares, Parts
    <3> QED BY <2>4, <3>1, LenProperties
  <2>6. n \in 0 .. m /\ (W = {} => n = m)
    <3>1. s.threads \in Nat \ {0}
      BY <2>2, <2>3
    <3>2. n \in 0 .. m /\ (s.threads = 1 => n = m)
      BY <2>4, <2>5, <3>1, Division
    <3> QED BY <2>2, <2>3, <3>2
  <2>7. PICK r : r = Give(s, k, n)
    OBVIOUS
  <2>8. /\ Shares(all, r) /\ r.threads = s.threads - 1 /\ Len(r.left) = m - n
        /\ \A v \in Threads : v # k => r.of[v] = s.of[v]
    <3>1. n \in 0 .. Len(s.left)
      BY <2>4, <2>6
    <3> QED BY <2>2, <2>4, <2>7, <3>1, GiveKeeps
  <2>9. GiveEqual(mask, s, k) = r
    BY <1>3, <2>4, <2>7 DEF GiveEqual
  <2>10. ASSUME W = {} PROVE r.left = <<>>
    <3>1. Len(r.left) = 0 /\ r.left \in Seq(RuleIds)
      BY <2>5, <2>6, <2>8, <2>10 DEF Shares, Parts
    <3> QED BY <3>1, EmptySeq
  <2>11. r.threads = Cardinality(W) /\ \A t \in W : r.of[t] = <<>>
    BY <2>1, <2>2, <2>3, <2>8
  <2>12. EqualGood(all, mask, k, r)
    BY <2>8, <2>10, <2>11 DEF EqualGood, W
  <2> QED BY <2>9, <2>12
<1> QED BY <1>2, <1>3

(* mmt_smp_sec_register gives every rule to one thread. *)
LEMMA DistributeGives ==
  ASSUME NEW all \in Seq(RuleIds), IsInjective(all), NEW mask \in Masks, MaskFits(all, mask)
  PROVE  Distributed(all, Distribute(all, mask))
<1>1. PICK n \in Nat : n = Cardinality(Threads) /\ Threads = 1 .. n
  BY ThreadsAre
<1>2. \A t \in Threads : mask[t] \in Seq(Nat)
  <2>1. mask \in [Threads -> Seq(Nat)]
    BY UpdateAssumption
  <2> QED BY <2>1
<1>16. \A t : t \in Threads <=> t \in Nat /\ t > 0 /\ t <= n
  <2>1. \A t : t \in 1 .. n <=> t \in Nat /\ t > 0 /\ t <= n
    OBVIOUS
  <2> QED BY <1>1, <2>1
<1> DEFINE order == [t \in Threads |-> t]
<1>3. DOMAIN order = 1 .. n /\ \A t \in 1 .. n : order[t] = t
  BY <1>1
<1>4. PICK first : first = Undistributed(all)
  OBVIOUS
<1>5. PICK named : named = NamedAll(mask, first, order)
  OBVIOUS
<1>6. PICK last : last = EqualAll(mask, named, order)
  OBVIOUS
<1>7. Distribute(all, mask) = last.of
  BY <1>4, <1>5, <1>6 DEF Distribute, NamedAll, EqualAll
<1> HIDE DEF order
<1>8. PICK F : NamedSteps(mask, first, order, n, F) /\ named = F[n]
  <2>1. NamedEnds(mask, first, order, n, named)
    BY <1>3, <1>5, NamedFold
  <2> QED BY <2>1 DEF NamedEnds
<1>9. PICK H : EqualSteps(mask, named, order, n, H) /\ last = H[n]
  <2>1. EqualEnds(mask, named, order, n, last)
    BY <1>3, <1>6, EqualFold
  <2> QED BY <2>1 DEF EqualEnds
<1>10. NamedGood(all, mask, 0, first)
  <2>1. /\ first.of = [t \in Threads |-> <<>>] /\ first.left = all /\ first.threads = n
        /\ first = [of |-> first.of, left |-> first.left, threads |-> first.threads]
    BY <1>1, <1>4 DEF Undistributed
  <2>2. \A t \in Threads : first.of[t] = <<>> /\ ToSet(first.of[t]) = {} /\ IsInjective(first.of[t])
    BY <2>1, NoRules
  <2>3. first.of \in [Threads -> Seq(RuleIds)]
    <3>1. <<>> \in Seq(RuleIds)
      OBVIOUS
    <3> QED BY <2>1, <3>1
  <2>4. (UNION {ToSet(first.of[t]) : t \in Threads}) \cup ToSet(all) = ToSet(all)
    BY <2>2
  <2>5. Shares(all, first)
    BY <2>1, <2>2, <2>3, <2>4 DEF Shares, Parts
  <2>6. Waiting(mask, 0) = Threads
    BY <1>16 DEF Waiting
  <2>7. \A t \in Threads : ToSet(mask[t]) \subseteq ToSet(first.left)
    BY <2>1 DEF MaskFits
  <2> QED BY <1>1, <2>1, <2>2, <2>5, <2>6, <2>7 DEF NamedGood
<1>11. NamedGood(all, mask, n, named)
  <2> DEFINE A == {k \in 0 .. n : NamedGood(all, mask, k, F[k])}
  <2>1. 0 \in A
    BY <1>8, <1>10 DEF NamedSteps
  <2>2. ASSUME NEW k \in 1 .. n, k - 1 \in A PROVE k \in A
    <3>1. k \in Threads /\ k \in 0 .. n
      BY <1>16
    <3>2. NamedGood(all, mask, k - 1, F[k - 1])
      BY <2>2
    <3>3. NamedGood(all, mask, k, GiveNamed(mask, F[k - 1], k))
      BY <1>2, <3>1, <3>2, GiveNamedKeeps
    <3>4. F[k] = GiveNamed(mask, F[k - 1], k)
      BY <1>3, <1>8 DEF NamedSteps
    <3> QED BY <3>1, <3>3, <3>4
  <2>3. n \in A
    <3> HIDE DEF A
    <3>1. n \in 0 .. n
      OBVIOUS
    <3> QED BY <2>1, <2>2, <3>1, UpTo
  <2> QED BY <2>3, <1>8
<1>12. EqualGood(all, mask, 0, named)
  <2>1. Waiting(mask, n) = Unserved(mask, 0)
    <3>1. \A t \in Threads : ~(t > n) /\ t > 0
      BY <1>16
    <3> QED BY <3>1 DEF Waiting, Unserved
  <2>2. Unserved(mask, 0) # {}
    <3>1. \A t \in Threads : t > 0
      BY <1>16
    <3> QED BY <3>1 DEF MaskFits, Unserved
  <2> QED BY <1>11, <2>1, <2>2 DEF NamedGood, EqualGood
<1>13. EqualGood(all, mask, n, last)
  <2> DEFINE A == {k \in 0 .. n : EqualGood(all, mask, k, H[k])}
  <2>1. 0 \in A
    BY <1>9, <1>12 DEF EqualSteps
  <2>2. ASSUME NEW k \in 1 .. n, k - 1 \in A PROVE k \in A
    <3>1. k \in Threads /\ k \in 0 .. n
      BY <1>16
    <3>2. EqualGood(all, mask, k - 1, H[k - 1])
      BY <2>2
    <3>3. EqualGood(all, mask, k, GiveEqual(mask, H[k - 1], k))
      BY <3>1, <3>2, GiveEqualKeeps
    <3>4. H[k] = GiveEqual(mask, H[k - 1], k)
      BY <1>3, <1>9 DEF EqualSteps
    <3> QED BY <3>1, <3>3, <3>4
  <2>3. n \in A
    <3> HIDE DEF A
    <3>1. n \in 0 .. n
      OBVIOUS
    <3> QED BY <2>1, <2>2, <3>1, UpTo
  <2> QED BY <2>3, <1>9
<1>14. last.left = <<>> /\ Parts(all, last.of, last.left)
  <2>1. \A t \in Threads : ~(t > n)
    BY <1>16
  <2>2. Unserved(mask, n) = {}
    BY <2>1 DEF Unserved
  <2> QED BY <1>13, <2>2 DEF EqualGood, Shares
<1>15. Distributed(all, last.of)
  BY <1>14, NoRules DEF Parts, Distributed
<1> QED BY <1>7, <1>15

Engines(xs, rs) == [i \in DOMAIN rs |-> NewEngine(xs, rs[i])]

(* Engines made for rules have their hashes. *)
LEMMA EnginesMade ==
  ASSUME NEW xs, Indexed(xs), NEW td, NEW rs \in Seq(RuleIds), \A id \in ToSet(rs) : Told(xs, td, id)
  PROVE  /\ Engines(xs, rs) \in Seq(Engine) /\ DOMAIN Engines(xs, rs) = DOMAIN rs
         /\ \A i \in DOMAIN rs : /\ Engines(xs, rs)[i].rule = rs[i]
                                 /\ EngineRight(xs, td, Engines(xs, rs)[i])
<1>1. PICK n \in Nat : n = Len(rs)
  OBVIOUS
<1>2. DOMAIN rs = 1 .. n /\ \A i \in 1 .. n : rs[i] \in RuleIds /\ rs[i] \in ToSet(rs)
  BY <1>1 DEF ToSet
<1>3. ASSUME NEW id \in ToSet(rs), id \in RuleIds
      PROVE  NewEngine(xs, id) \in Engine /\ NewEngine(xs, id).rule = id /\ EngineRight(xs, td, NewEngine(xs, id))
  <2>1. HashOf(xs, id) \subseteq DOMAIN xs
    <3>1. HashOf(xs, id) = {k \in DOMAIN xs : xs[k] \in RuleAtts[id]}
      BY <1>3, HashIs DEF Told
    <3> QED BY <3>1
  <2>2. DOMAIN xs = 1 .. Len(xs) /\ Len(xs) \in Nat
    BY DEF Indexed
  <2>3. HashOf(xs, id) \subseteq Places
    BY <2>1, <2>2 DEF Places
  <2>4. 0 \in Counts
    BY UpdateAssumption DEF Counts
  <2>5. NewEngine(xs, id) \in Engine
    BY <2>3, <2>4, <1>3 DEF NewEngine, Engine
  <2>6. NewEngine(xs, id).rule = id /\ NewEngine(xs, id).hash = HashOf(xs, id)
    BY DEF NewEngine
  <2> QED BY <2>5, <2>6, <1>3 DEF EngineRight
<1>4. \A i \in 1 .. n : Engines(xs, rs)[i] = NewEngine(xs, rs[i])
  BY <1>2 DEF Engines
<1>5. Engines(xs, rs) \in [1 .. n -> Engine]
  <2>1. \A i \in 1 .. n : NewEngine(xs, rs[i]) \in Engine
    BY <1>2, <1>3
  <2> QED BY <2>1, <1>2 DEF Engines
<1>6. Engines(xs, rs) \in Seq(Engine)
  BY <1>5
<1>7. \A i \in 1 .. n : Engines(xs, rs)[i].rule = rs[i] /\ EngineRight(xs, td, Engines(xs, rs)[i])
  BY <1>2, <1>3, <1>4
<1> QED BY <1>2, <1>5, <1>6, <1>7

(* A list has finitely many elements. *)
LEMMA ListFinite ==
  ASSUME NEW T, NEW s \in Seq(T)
  PROVE  IsFiniteSet(ToSet(s))
<1>1. PICK n \in Nat : n = Len(s)
  OBVIOUS
<1>2. DOMAIN s = 1 .. n /\ IsFiniteSet(1 .. n)
  BY <1>1, FS_Interval
<1>3. s \in Surjection(1 .. n, ToSet(s))
  <2>1. s = [i \in 1 .. n |-> s[i]]
    BY <1>2
  <2>2. \A i \in 1 .. n : s[i] \in ToSet(s)
    BY <1>2 DEF ToSet
  <2>3. s \in [1 .. n -> ToSet(s)]
    BY <2>1, <2>2
  <2> QED BY <2>3, <1>2 DEF Surjection, ToSet
<1> QED BY <1>2, <1>3, FS_Surjection

(* _get_unique_proto_attts *)
LEMMA UniqueIs ==
  ASSUME NEW rs \in Seq(RuleIds)
  PROVE  Indexed(UniqueAtts(rs)) /\ \A id \in ToSet(rs) : Covers(UniqueAtts(rs), id)
<1> DEFINE R == ToSet(rs)
           sets == {RuleAtts[id] : id \in R}
           f == [id \in R |-> RuleAtts[id]]
<1>1. R \subseteq RuleIds /\ IsFiniteSet(R)
  <2>1. \A i \in 1 .. Len(rs) : rs[i] \in RuleIds
    OBVIOUS
  <2> QED BY <2>1, ListFinite DEF ToSet
<1>2. f \in Surjection(R, sets)
  <2> HIDE DEF R
  <2> QED BY DEF Surjection
<1>3. IsFiniteSet(sets)
  <2> HIDE DEF f, sets, R
  <2> QED BY <1>1, <1>2, FS_Surjection
<1>4. IsFiniteSet(UNION sets) /\ UNION sets \in SUBSET Nat /\ UNION sets \in SUBSET AllAtts
  <2>1. \A S \in sets : IsFiniteSet(S) /\ S \subseteq Nat
    <3> HIDE DEF R
    <3> QED BY <1>1, UpdateAssumption DEF RuleIds
  <2>2. UNION sets \subseteq AllAtts
    <3> HIDE DEF R
    <3> QED BY <1>1 DEF AllAtts
  <2> HIDE DEF sets
  <2>3. IsFiniteSet(UNION sets)
    BY <1>3, <2>1, FS_UNION
  <2> QED BY <2>1, <2>2, <2>3
<1>5. UniqueAtts(rs) = Ascending(UNION sets)
  BY DEF UniqueAtts
<1> DEFINE U == UNION sets
<1>6. U \subseteq AllAtts
  BY <1>4
<1>7. \A id \in R : RuleAtts[id] \subseteq U
  OBVIOUS
<1> HIDE DEF U
<1>8. U \in SUBSET Nat /\ IsFiniteSet(U) /\ U \in SUBSET AllAtts /\ UniqueAtts(rs) = Ascending(U)
  BY <1>4, <1>5 DEF U
<1>9. Ascending(U) \in Seq(U) /\ IsInjective(Ascending(U)) /\ ToSet(Ascending(U)) = U
  BY <1>8, AscendingLists
<1>10. Ascending(U) \in Seq(AllAtts)
  <2> DEFINE s == Ascending(U)
  <2>1. s \in Seq(U)
    BY <1>9
  <2> HIDE DEF s
  <2>2. s \in Seq(AllAtts)
    BY <1>6, <2>1
  <2> QED BY <2>2 DEF s
<1> QED BY <1>7, <1>8, <1>9, <1>10 DEF Indexed, Covers

(* Before the folder is read there are no plugins. *)
LEMMA NothingLoaded == Apart([plugins |-> <<>>, loaded |-> <<>>])
<1> DEFINE s == [plugins |-> <<>>, loaded |-> <<>>]
<1>1. s.plugins = <<>> /\ s.loaded = <<>> /\ DOMAIN <<>> = {}
  OBVIOUS
<1>2. s \in Tables
  <2>1. <<>> \in Seq(Plugin) /\ <<>> \in Seq(RuleIds)
    OBVIOUS
  <2> QED BY <2>1 DEF Tables
<1>3. ToSet(<<>>) = {} /\ CodeOf(<<>>) = {} /\ IsInjective(<<>>)
  BY <1>1 DEF ToSet, CodeOf, IsInjective
<1> HIDE DEF s
<1> QED BY <1>1, <1>2, <1>3 DEF Apart, s

-----------------------------------------------------------------------------
(* mmt_sec_init and mmt_sec_register: plugins, rules, attributes and engines. *)
LEMMA InitHandlers ==
  ASSUME Init
  PROVE  /\ engines \in [Threads -> Seq(Engine)]
         /\ AttsInv /\ rules \in Seq(RuleIds) /\ IsInjective(rules) /\ DOMAIN told = RuleIds
         /\ Apart([plugins |-> plugins, loaded |-> loaded]) /\ ToSet(rules) \subseteq ToSet(loaded)
         /\ UNION {RulesOf(t) : t \in Threads} = ToSet(rules)
         /\ \A t, v \in Threads : t # v => RulesOf(t) \cap RulesOf(v) = {}
         /\ EnginesDistinct
<1> USE DEF Init, InitRules, InitThreads
<1>1. PICK s : s = LoadRules([plugins |-> <<>>, loaded |-> <<>>], folder)
  OBVIOUS
<1>2. Apart(s) /\ plugins = s.plugins /\ loaded = s.loaded
  <2>1. folder \in SUBSET Files
    OBVIOUS
  <2>2. plugins = s.plugins /\ loaded = s.loaded
    BY <1>1
  <2> QED BY <1>1, <2>1, <2>2, NothingLoaded, LoadRulesKeeps
<1>3. s = [plugins |-> plugins, loaded |-> loaded] /\ loaded \in Seq(RuleIds) /\ IsInjective(loaded)
  BY <1>2 DEF Apart, Tables
<1>4. PICK out \in Excluded : rules = FilterRules(out, loaded)
  OBVIOUS
<1>5. rules \in Seq(RuleIds) /\ IsInjective(rules) /\ ToSet(rules) \subseteq ToSet(loaded)
  <2>1. out \in Seq(Nat)
    BY UpdateAssumption
  <2>2. Within(RuleIds, loaded, rules)
    BY <1>3, <1>4, <2>1, FilterKeeps
  <2> QED BY <1>3, <2>2 DEF Within
<1>6. Indexed(atts) /\ \A id \in ToSet(rules) : Covers(atts, id)
  <2>1. atts = UniqueAtts(rules)
    OBVIOUS
  <2> QED BY <1>5, <2>1, UniqueIs
<1>7. DOMAIN told = RuleIds /\ \A id \in ToSet(rules) : Told(atts, told, id)
  <2>1. ToSet(rules) \subseteq RuleIds
    <3>1. \A i \in 1 .. Len(rules) : rules[i] \in RuleIds
      BY <1>5
    <3> QED BY <1>5, <3>1 DEF ToSet
  <2>2. told = Tell([id \in RuleIds |-> <<>>], atts, rules)
    BY DEF RuleIds
  <2>3. DOMAIN told = RuleIds /\ \A id \in RuleIds : id \in ToSet(rules) => told[id] = [a \in RuleAtts[id] |-> Index(atts, a)]
    BY <2>2 DEF Tell
  <2> QED BY <1>6, <2>1, <2>3 DEF Told
<1>8. PICK mask \in Masks :
        /\ MaskFits(rules, mask)
        /\ engines = [t \in Threads |-> Engines(atts, Distribute(rules, mask)[t])]
  BY DEF MaskFits, Engines
<1>9. PICK of : Distributed(rules, of) /\ engines = [t \in Threads |-> Engines(atts, of[t])]
  <2>1. Distributed(rules, Distribute(rules, mask))
    BY <1>5, <1>8, DistributeGives
  <2> QED BY <1>8, <2>1
<1> HIDE DEF Init, InitRules, InitThreads
<1>10. ASSUME NEW t \in Threads
       PROVE  /\ engines[t] = Engines(atts, of[t]) /\ engines[t] \in Seq(Engine)
              /\ DOMAIN engines[t] = DOMAIN of[t]
              /\ \A i \in DOMAIN engines[t] : engines[t][i].rule = of[t][i] /\ EngineRight(atts, told, engines[t][i])
              /\ RulesOf(t) = ToSet(of[t])
  <2>1. engines[t] = Engines(atts, of[t])
    BY <1>9
  <2>2. of[t] \in Seq(RuleIds) /\ ToSet(of[t]) \subseteq ToSet(rules)
    BY <1>9 DEF Distributed
  <2>3. \A id \in ToSet(of[t]) : Told(atts, told, id)
    BY <1>7, <2>2
  <2>4. /\ engines[t] \in Seq(Engine) /\ DOMAIN engines[t] = DOMAIN of[t]
        /\ \A i \in DOMAIN of[t] : engines[t][i].rule = of[t][i] /\ EngineRight(atts, told, engines[t][i])
    <3>1. /\ Engines(atts, of[t]) \in Seq(Engine) /\ DOMAIN Engines(atts, of[t]) = DOMAIN of[t]
          /\ \A i \in DOMAIN of[t] : /\ Engines(atts, of[t])[i].rule = of[t][i]
                                     /\ EngineRight(atts, told, Engines(atts, of[t])[i])
      <4>1. Indexed(atts) /\ of[t] \in Seq(RuleIds)
        BY <1>6, <2>2
      <4> QED BY <4>1, <2>3, EnginesMade
    <3> QED BY <2>1, <3>1
  <2>5. RulesOf(t) = ToSet(of[t])
    <3>1. RulesOf(t) = {engines[t][i].rule : i \in DOMAIN of[t]}
      BY <2>4 DEF RulesOf
    <3>2. \A i \in DOMAIN of[t] : engines[t][i].rule = of[t][i]
      BY <2>4
    <3> QED BY <3>1, <3>2 DEF ToSet
  <2> QED BY <2>1, <2>4, <2>5
<1>11. engines \in [Threads -> Seq(Engine)]
  <2>1. engines = [t \in Threads |-> engines[t]]
    BY <1>9
  <2> QED BY <2>1, <1>10
<1>12. AttsInv
  <2>1. hash = [t \in Threads |-> HandlerHash(engines[t])]
    BY DEF Init, InitThreads
  <2> QED BY <1>6, <1>7, <1>10, <2>1 DEF AttsInv
<1>13. UNION {RulesOf(t) : t \in Threads} = ToSet(rules)
  <2>1. {RulesOf(t) : t \in Threads} = {ToSet(of[t]) : t \in Threads}
    BY <1>10
  <2> QED BY <2>1, <1>9 DEF Distributed
<1>14. \A t, v \in Threads : t # v => RulesOf(t) \cap RulesOf(v) = {}
  BY <1>9, <1>10 DEF Distributed
<1>15. EnginesDistinct
  <2> SUFFICES ASSUME NEW t \in Threads PROVE IsInjective([i \in DOMAIN engines[t] |-> engines[t][i].rule])
    BY DEF EnginesDistinct
  <2>1. IsInjective(of[t]) /\ DOMAIN engines[t] = DOMAIN of[t] /\ \A i \in DOMAIN of[t] : engines[t][i].rule = of[t][i]
    BY <1>9, <1>10 DEF Distributed
  <2> QED BY <2>1 DEF IsInjective
<1> QED BY <1>2, <1>3, <1>5, <1>7, <1>11, <1>12, <1>13, <1>14, <1>15

(* An updater that does nothing has nothing to add. *)
LEMMA IdleIs == Idle \in Jobs /\ Idle.pc = "idle" /\ Idle.new = <<>> /\ Idle.turn = 1 /\ Idle.ids = <<>>
<1>1. <<>> \in Seq(RuleIds) /\ 1 \in Threads
  BY ThreadsAre
<1> QED BY <1>1 DEF Idle, Jobs, Pcs

(* No message. *)
LEMMA NoMsgIs == NoMsg \in Msgs /\ NoMsg.count = 0
BY DEF NoMsg, Msgs, Places

(* The invariant at the start. *)
LEMMA InitIInv == Init => IInv /\ OnceInv
<1> SUFFICES ASSUME Init PROVE IInv /\ OnceInv
  OBVIOUS
<1>1. /\ engines \in [Threads -> Seq(Engine)]
      /\ AttsInv /\ rules \in Seq(RuleIds) /\ IsInjective(rules) /\ DOMAIN told = RuleIds
      /\ Apart([plugins |-> plugins, loaded |-> loaded]) /\ ToSet(rules) \subseteq ToSet(loaded)
      /\ UNION {RulesOf(t) : t \in Threads} = ToSet(rules)
      /\ \A t, v \in Threads : t # v => RulesOf(t) \cap RulesOf(v) = {}
      /\ EnginesDistinct
  BY InitHandlers
<1>2. /\ folder \in SUBSET Files /\ known = Len(atts) /\ extracted = Registered(atts)
      /\ msg = [t \in Threads |-> NoMsg] /\ job = [u \in Updaters |-> Idle] /\ updates = 0
      /\ lock = 0 /\ end = "no"
  BY DEF Init, InitRules, InitThreads
<1>3. \A u \in Updaters : job[u] = Idle /\ job[u].pc = "idle" /\ job[u].new = <<>> /\ job[u].turn = 1
  BY <1>2, IdleIs
<1>4. \A t \in Threads : msg[t] = NoMsg /\ msg[t].count = 0
  BY <1>2, NoMsgIs
<1>5. TypeInv
  <2>1. msg \in [Threads -> Msgs] /\ job \in [Updaters -> Jobs]
    BY <1>2, NoMsgIs, IdleIs
  <2>2. updates \in 0 .. MaxUpdates
    BY <1>2, UpdateAssumption
  <2> QED BY <1>1, <1>2, <2>1, <2>2 DEF TypeInv
<1>6. PlugInv
  <2>1. loaded \in Seq(RuleIds) /\ IsInjective(loaded)
    BY <1>1 DEF Apart, Tables
  <2>2. \A t \in Threads : RulesOf(t) \subseteq ToSet(loaded)
    BY <1>1
  <2> QED BY <1>1, <1>2, <1>3, <2>1, <2>2, NoRules DEF PlugInv
<1>7. Len(atts) \in Nat
  BY <1>1 DEF AttsInv, Indexed
<1>8. EndInv
  BY <1>2, <1>4, <1>7 DEF EndInv
<1>9. KnownInv
  BY <1>2, <1>7 DEF KnownInv, Places
<1>10. LockInv
  BY <1>2, <1>3, UpdateAssumption DEF LockInv, Holding
<1>11. BackedInv
  BY <1>1 DEF BackedInv
<1>12. GivenInv
  BY <1>1, <1>3 DEF GivenInv, AllGiven
<1>13. OnceInv
  BY <1>1, <1>3, NoRules DEF OnceInv
<1> QED BY <1>1, <1>5, <1>6, <1>8, <1>9, <1>10, <1>11, <1>12, <1>13 DEF IInv

-----------------------------------------------------------------------------
(* Each action keeps the invariant.  Files of the folder were loaded, and what is
   to be done about them is decided. *)
LEMMA LoadedKeeps ==
  ASSUME IInv, NEW u \in Updaters, NEW dir \in SUBSET folder, NEW s, NEW j \in Jobs, Begin(u, j),
         s = LoadRules([plugins |-> plugins, loaded |-> loaded], dir),
         plugins' = s.plugins, loaded' = s.loaded, UNCHANGED folder,
         j.pc \in {"idle", "add", "exit"}, j.turn = 1, ToSet(j.new) \subseteq ToSet(s.loaded),
         IsInjective(j.new), ToSet(j.new) \cap ToSet(rules) = {}
  PROVE  IInv' /\ (OnceInv => OnceInv')
<1> USE DEF IInv
<1>1. /\ Running /\ job[u].pc = "idle" /\ updates < MaxUpdates
      /\ updates' = updates + 1 /\ job' = [job EXCEPT ![u] = j]
      /\ UNCHANGED <<global, handlers, msg, dpi, lock, end>>
  BY DEF Begin
<1>2. end = "no" /\ end' = "no"
  BY <1>1 DEF Running
<1>3. Apart(s) /\ ToSet(loaded) \subseteq ToSet(s.loaded)
  <2>1. Apart([plugins |-> plugins, loaded |-> loaded])
    BY <1>2 DEF PlugInv
  <2>2. dir \in SUBSET Files
    BY DEF TypeInv
  <2>3. ToSet([plugins |-> plugins, loaded |-> loaded].loaded) \subseteq ToSet(s.loaded) /\ Apart(s)
    BY <2>1, <2>2, LoadRulesKeeps
  <2> QED BY <2>3
<1>4. s = [plugins |-> plugins', loaded |-> loaded'] /\ s.loaded \in Seq(RuleIds) /\ IsInjective(s.loaded)
  BY <1>3 DEF Apart, Tables
<1>5. job \in [Updaters -> Jobs] /\ job' \in [Updaters -> Jobs] /\ job'[u] = j /\ \A v \in Updaters : v # u => job'[v] = job[v]
  BY <1>1 DEF TypeInv
<1>6. UNCHANGED <<rules, atts, told, engines, hash, msg, known, extracted, lock, end>>
  BY <1>1 DEF global, handlers, dpi
<1>7. \A t \in Threads : RulesOf(t)' = RulesOf(t)
  BY <1>6 DEF RulesOf
<1>8. TypeInv'
  <2>1. updates' \in 0 .. MaxUpdates
    BY <1>1, UpdateAssumption DEF TypeInv
  <2> QED BY <1>5, <1>6, <2>1 DEF TypeInv
<1>9. PlugInv'
  <2>1. Apart([plugins |-> plugins', loaded |-> loaded'])
    BY <1>3, <1>4
  <2>2. loaded' \in Seq(RuleIds) /\ IsInjective(loaded') /\ ToSet(loaded) \subseteq ToSet(loaded')
    BY <1>3, <1>4
  <2>3. \A v \in Updaters : ToSet(job'[v].new) \subseteq ToSet(loaded')
    BY <1>5, <2>2 DEF PlugInv
  <2>4. \A t \in Threads : RulesOf(t)' \subseteq ToSet(loaded')
    BY <1>7, <2>2 DEF PlugInv
  <2>5. ToSet(rules') \subseteq ToSet(loaded')
    BY <1>6, <2>2 DEF PlugInv
  <2> QED BY <1>2, <2>1, <2>2, <2>3, <2>4, <2>5 DEF PlugInv
<1>10. AttsInv' /\ EndInv'
  BY <1>6 DEF AttsInv, EndInv
<1>11. KnownInv'
  <2>1. \A v \in Updaters : job[v].pc \in Adding => job'[v].pc \in Adding
    BY <1>1, <1>5 DEF Adding
  <2> QED BY <1>6, <2>1 DEF KnownInv
<1>12. LockInv'
  BY <1>1, <1>5, <1>6 DEF LockInv, Holding
<1>13. BackedInv'
  <2>1. \A t \in Threads : Behind(t) => Behind(t)'
    BY <1>1, <1>5 DEF Behind
  <2> QED BY <1>6, <1>7, <2>1 DEF BackedInv
<1>14. GivenInv'
  <2>1. updates' # 0
    BY <1>1 DEF TypeInv
  <2> QED BY <2>1 DEF GivenInv, AllGiven
<1>15. OnceInv => OnceInv'
  <2>1. EnginesDistinct => EnginesDistinct'
    BY <1>6 DEF EnginesDistinct
  <2> QED BY <1>5, <1>6, <2>1 DEF OnceInv
<1> QED BY <1>8, <1>9, <1>10, <1>11, <1>12, <1>13, <1>14, <1>15

(* What is new is decided. *)
LEMMA AskAddKeeps ==
  ASSUME IInv, NEW u \in Updaters, NEW mask \in Masks, AskAdd(u, mask)
  PROVE  IInv' /\ (OnceInv => OnceInv')
<1>1. PICK s : /\ s = LoadRules([plugins |-> plugins, loaded |-> loaded], folder)
               /\ plugins' = s.plugins /\ loaded' = s.loaded /\ UNCHANGED folder
               /\ LET new == Only(s.loaded, ToSet(Ids(mask)) \ ToSet(rules))
                  IN  Begin(u, IF new = <<>> THEN Idle ELSE [Idle EXCEPT !.pc = RoomFor(new), !.mask = mask, !.new = new])
  BY DEF AskAdd
<1> DEFINE new == Only(s.loaded, ToSet(Ids(mask)) \ ToSet(rules))
           j == IF new = <<>> THEN Idle ELSE [Idle EXCEPT !.pc = RoomFor(new), !.mask = mask, !.new = new]
<1>2. end = "no"
  BY <1>1 DEF Begin, Running
<1>3. s.loaded \in Seq(RuleIds) /\ IsInjective(s.loaded)
  <2>1. Apart([plugins |-> plugins, loaded |-> loaded]) /\ folder \in SUBSET Files
    BY <1>2 DEF IInv, PlugInv, TypeInv
  <2>2. Apart(s)
    BY <1>1, <2>1, LoadRulesKeeps
  <2> QED BY <2>2 DEF Apart, Tables
<1>4. new \in Seq(RuleIds) /\ ToSet(new) = ToSet(s.loaded) \cap (ToSet(Ids(mask)) \ ToSet(rules)) /\ IsInjective(new)
  BY <1>3, OnlyKeeps
<1>5. Begin(u, j)
  BY <1>1
<1> HIDE DEF new
<1>6. /\ j \in Jobs /\ j.pc \in {"idle", "add", "exit"} /\ j.turn = 1 /\ ToSet(j.new) \subseteq ToSet(s.loaded)
      /\ IsInjective(j.new) /\ ToSet(j.new) \cap ToSet(rules) = {}
  <2>1. CASE new = <<>>
    BY <2>1, IdleIs, NoRules
  <2>2. CASE new # <<>>
    <3>1. PICK pc \in {"add", "exit"} : pc = RoomFor(new)
      BY DEF RoomFor
    <3> DEFINE k == [Idle EXCEPT !.pc = pc, !.mask = mask, !.new = new]
    <3>2. k \in Jobs
      <4>1. Idle \in Jobs /\ pc \in Pcs /\ mask \in Masks
        BY IdleIs DEF Pcs
      <4> QED BY <4>1, <1>4 DEF Jobs
    <3>3. k.pc = pc /\ k.turn = 1 /\ k.new = new
      BY DEF Idle
    <3>4. j = k
      BY <2>2, <3>1
    <3> HIDE DEF k, j
    <3> QED BY <3>1, <3>2, <3>3, <3>4, <1>4
  <2> QED BY <2>1, <2>2
<1> HIDE DEF j
<1> QED BY <1>1, <1>5, <1>6, LoadedKeeps

(* A file could not be loaded. *)
LEMMA LoadFailsKeeps ==
  ASSUME IInv, NEW u \in Updaters, LoadFails(u)
  PROVE  IInv' /\ (OnceInv => OnceInv')
<1> DEFINE j == [Idle EXCEPT !.pc = "exit"]
<1>1. PICK f, s : /\ s = LoadRules([plugins |-> plugins, loaded |-> loaded], {g \in folder : g < f})
                  /\ plugins' = s.plugins /\ loaded' = s.loaded /\ UNCHANGED folder
                  /\ Begin(u, j)
  BY DEF LoadFails
<1>2. j \in Jobs /\ j.pc = "exit" /\ j.turn = 1 /\ j.new = <<>>
  <2>1. Idle \in Jobs /\ "exit" \in Pcs
    BY IdleIs DEF Pcs
  <2>2. j \in Jobs
    BY <2>1 DEF Jobs
  <2> QED BY <2>2 DEF Idle
<1> HIDE DEF j
<1>3. PICK dir \in SUBSET folder : dir = {g \in folder : g < f}
  OBVIOUS
<1>4. ToSet(j.new) \subseteq ToSet(s.loaded) /\ IsInjective(j.new) /\ ToSet(j.new) \cap ToSet(rules) = {}
  BY <1>2, NoRules
<1> QED BY <1>1, <1>2, <1>3, <1>4, LoadedKeeps

(* What is to be removed is asked. *)
LEMMA AskRemoveKeeps ==
  ASSUME IInv, NEW u \in Updaters, NEW ids \in Removals, AskRemove(u, ids)
  PROVE  IInv' /\ (OnceInv => OnceInv')
<1> USE DEF IInv
<1> DEFINE j == [Idle EXCEPT !.pc = "rm", !.ids = ids]
<1>1. /\ Running /\ job[u].pc = "idle" /\ updates < MaxUpdates
      /\ updates' = updates + 1 /\ job' = [job EXCEPT ![u] = j]
      /\ UNCHANGED <<pluginVars, global, handlers, msg, dpi, lock, end>>
  BY DEF AskRemove, Begin
<1>2. j \in Jobs /\ j.pc = "rm" /\ j.turn = 1 /\ j.new = <<>>
  <2>1. Idle \in Jobs /\ "rm" \in Pcs
    BY IdleIs DEF Pcs
  <2>2. j \in Jobs
    BY <2>1 DEF Jobs
  <2> QED BY <2>2 DEF Idle
<1> HIDE DEF j
<1>3. job \in [Updaters -> Jobs] /\ job' \in [Updaters -> Jobs] /\ job'[u] = j /\ \A v \in Updaters : v # u => job'[v] = job[v]
  BY <1>1, <1>2 DEF TypeInv
<1>4. UNCHANGED <<folder, plugins, loaded, rules, atts, told, engines, hash, msg, known, extracted, lock, end>>
  BY <1>1 DEF pluginVars, global, handlers, dpi
<1>5. \A t \in Threads : RulesOf(t)' = RulesOf(t)
  BY <1>4 DEF RulesOf
<1>6. TypeInv'
  <2>1. updates' \in 0 .. MaxUpdates
    BY <1>1, UpdateAssumption DEF TypeInv
  <2> QED BY <1>3, <1>4, <2>1 DEF TypeInv
<1>7. PlugInv'
  <2>1. \A v \in Updaters : ToSet(job'[v].new) \subseteq ToSet(loaded)
    BY <1>2, <1>3, NoRules DEF PlugInv
  <2> QED BY <1>4, <1>5, <2>1 DEF PlugInv
<1>8. AttsInv' /\ EndInv'
  BY <1>4 DEF AttsInv, EndInv
<1>9. KnownInv'
  <2>1. \A v \in Updaters : job[v].pc \in Adding => job'[v].pc \in Adding
    BY <1>1, <1>3 DEF Adding
  <2> QED BY <1>4, <2>1 DEF KnownInv
<1>10. LockInv'
  BY <1>1, <1>2, <1>3, <1>4 DEF LockInv, Holding
<1>11. BackedInv'
  <2>1. \A t \in Threads : Behind(t) => Behind(t)'
    BY <1>1, <1>3 DEF Behind
  <2> QED BY <1>4, <1>5, <2>1 DEF BackedInv
<1>12. GivenInv'
  <2>1. updates' # 0
    BY <1>1 DEF TypeInv
  <2> QED BY <2>1 DEF GivenInv, AllGiven
<1>13. OnceInv => OnceInv'
  <2>1. EnginesDistinct => EnginesDistinct'
    BY <1>4 DEF EnginesDistinct
  <2> QED BY <1>2, <1>3, <1>4, <2>1, NoRules DEF OnceInv
<1> QED BY <1>6, <1>7, <1>8, <1>9, <1>10, <1>11, <1>12, <1>13

(* What a rule was told stays true when others are told. *)
LEMMA ToldStays ==
  ASSUME NEW xs, Indexed(xs), NEW ys, Indexed(ys), Extends(xs, ys), NEW td,
         NEW rs \in Seq(RuleIds), \A id \in ToSet(rs) : Covers(ys, id), DOMAIN td = RuleIds
  PROVE  /\ DOMAIN Tell(td, ys, rs) = RuleIds
         /\ \A id \in ToSet(rs) : Told(ys, Tell(td, ys, rs), id)
         /\ \A id \in RuleIds : Told(xs, td, id) => Told(ys, Tell(td, ys, rs), id)
<1> DEFINE new == Tell(td, ys, rs)
<1>1. ToSet(rs) \subseteq RuleIds
  <2>1. \A i \in 1 .. Len(rs) : rs[i] \in RuleIds
    OBVIOUS
  <2> QED BY <2>1 DEF ToSet
<1>2. /\ DOMAIN new = RuleIds
      /\ \A id \in RuleIds : new[id] = IF id \in ToSet(rs) THEN [a \in RuleAtts[id] |-> Index(ys, a)] ELSE td[id]
  BY DEF Tell
<1> HIDE DEF new
<1>3. \A id \in ToSet(rs) : Told(ys, new, id)
  BY <1>1, <1>2 DEF Told
<1>4. ASSUME NEW id \in RuleIds, Told(xs, td, id), id \notin ToSet(rs) PROVE Told(ys, new, id)
  <2>1. Covers(xs, id)
    BY <1>4 DEF Told
  <2>2. Covers(ys, id) /\ \A a \in RuleAtts[id] : Index(ys, a) = Index(xs, a)
    BY <2>1, IndicesStay
  <2>3. [a \in RuleAtts[id] |-> Index(ys, a)] = [a \in RuleAtts[id] |-> Index(xs, a)]
    BY <2>2
  <2>4. new[id] = [a \in RuleAtts[id] |-> Index(xs, a)]
    BY <1>2, <1>4 DEF Told
  <2> QED BY <2>2, <2>3, <2>4 DEF Told
<1> QED BY <1>2, <1>3, <1>4 DEF new

(* Rules and attributes are appended, their functions told. *)
LEMMA AddGlobalKeeps ==
  ASSUME IInv, NEW u \in Updaters, AddGlobal(u)
  PROVE  IInv' /\ (OnceInv /\ (\A v, w \in Updaters : v = w) => OnceInv')
<1> USE DEF IInv
<1>0. PICK pc \in {"toThreads", "exit"} : pc = IF Len(AddAtts(atts, job[u].new)) > MaxAtts THEN "exit" ELSE "toThreads"
  OBVIOUS
<1>1. PICK new, ys, j : new = job[u].new /\ ys = AddAtts(atts, new) /\ j = [job[u] EXCEPT !.pc = pc]
  OBVIOUS
<1>2. /\ Running /\ lock = 0 /\ job[u].pc = "add"
      /\ rules' = rules \o new /\ atts' = ys /\ told' = Tell(told, ys, new)
      /\ lock' = u /\ job' = [job EXCEPT ![u] = j]
      /\ UNCHANGED <<folder, plugins, loaded, engines, hash, msg, known, extracted, updates, end>>
  <2>1. atts' = AddAtts(atts, new)
    BY <1>1 DEF AddGlobal, AddAtts
  <2>2. [job EXCEPT ![u] = j] = [job EXCEPT ![u].pc = pc]
    BY <1>1
  <2>3. Goto(u, pc)
    BY <1>0, <1>1, <2>1 DEF AddGlobal
  <2> QED BY <1>1, <2>1, <2>2, <2>3 DEF AddGlobal, Locked, Goto, pluginVars, handlers, dpi
<1>3. job \in [Updaters -> Jobs] /\ job[u] \in Jobs /\ new \in Seq(RuleIds) /\ job[u].turn = 1
  <2>1. job \in [Updaters -> Jobs] /\ job[u] \in Jobs
    BY DEF TypeInv
  <2>2. job[u].turn = 1
    BY <1>2 DEF LockInv, Holding
  <2> QED BY <1>1, <2>1, <2>2 DEF Jobs
<1>4. j \in Jobs /\ j.pc = pc /\ j.turn = 1 /\ j.new = new
  <2>1. pc \in Pcs
    BY DEF Pcs
  <2> QED BY <1>1, <1>3, <2>1 DEF Jobs
<1>5. job' \in [Updaters -> Jobs] /\ job'[u] = j /\ \A v \in Updaters : v # u => job'[v] = job[v]
  BY <1>2, <1>3, <1>4
<1>6. Indexed(atts) /\ Indexed(ys) /\ Extends(atts, ys) /\ \A id \in ToSet(new) : Covers(ys, id)
  <2>1. Indexed(atts)
    BY DEF AttsInv
  <2> QED BY <1>1, <1>3, <2>1, AddAttsKeeps
<1>7. /\ DOMAIN told' = RuleIds /\ \A id \in ToSet(new) : Told(ys, told', id)
      /\ \A id \in RuleIds : Told(atts, told, id) => Told(ys, told', id)
  <2>1. DOMAIN told = RuleIds
    BY DEF TypeInv
  <2>2. /\ DOMAIN Tell(told, ys, new) = RuleIds
        /\ \A id \in ToSet(new) : Told(ys, Tell(told, ys, new), id)
        /\ \A id \in RuleIds : Told(atts, told, id) => Told(ys, Tell(told, ys, new), id)
    BY <1>3, <1>6, <2>1, ToldStays
  <2> QED BY <1>2, <2>2
<1>8. /\ rules \in Seq(RuleIds) /\ rules' \in Seq(RuleIds) /\ ToSet(rules') = ToSet(rules) \cup ToSet(new)
      /\ IsInjective(rules) /\ IsInjective(new) /\ ToSet(rules) \cap ToSet(new) = {} => IsInjective(rules')
  <2>1. rules \in Seq(RuleIds)
    BY DEF TypeInv
  <2> QED BY <1>2, <1>3, <2>1, Joined
<1>9. \A t \in Threads : RulesOf(t)' = RulesOf(t)
  BY <1>2 DEF RulesOf
<1>10. TypeInv'
  BY <1>2, <1>5, <1>7, <1>8 DEF TypeInv
<1>11. PlugInv'
  <2>1. ToSet(new) \subseteq ToSet(loaded)
    BY <1>1 DEF PlugInv
  <2>2. \A v \in Updaters : ToSet(job'[v].new) \subseteq ToSet(loaded)
    BY <1>4, <1>5, <2>1 DEF PlugInv
  <2> QED BY <1>2, <1>8, <1>9, <2>1, <2>2 DEF PlugInv
<1>12. AttsInv'
  <2>1. \A id \in ToSet(rules') : Told(ys, told', id)
    <3>1. \A id \in ToSet(rules) : id \in RuleIds /\ Told(atts, told, id)
      <4>1. \A i \in 1 .. Len(rules) : rules[i] \in RuleIds
        BY <1>8
      <4> QED BY <1>8, <4>1 DEF ToSet, AttsInv
    <3> QED BY <1>7, <1>8, <3>1
  <2>2. ASSUME NEW t \in Threads, NEW i \in DOMAIN engines[t] PROVE EngineRight(ys, told', engines[t][i])
    <3>1. EngineRight(atts, told, engines[t][i])
      BY DEF AttsInv
    <3>2. engines[t][i].rule \in RuleIds
      <4>1. engines[t] \in Seq(Engine)
        BY DEF TypeInv
      <4>2. engines[t][i] \in Engine
        BY <4>1
      <4> QED BY <4>2 DEF Engine
    <3>3. Covers(atts, engines[t][i].rule)
      BY <3>1 DEF EngineRight, Told
    <3>4. HashOf(ys, engines[t][i].rule) = HashOf(atts, engines[t][i].rule)
      BY <1>6, <3>3, IndicesStay
    <3> QED BY <1>7, <3>1, <3>2, <3>4 DEF EngineRight
  <2> QED BY <1>2, <1>6, <2>1, <2>2 DEF AttsInv
<1>13. Len(atts) \in Nat /\ Len(ys) \in Nat /\ Len(atts) <= Len(ys) /\ (Len(atts) = Len(ys) => atts = ys)
  <2>1. atts \in Seq(AllAtts) /\ ys \in Seq(AllAtts)
    BY <1>6 DEF Indexed
  <2> QED BY <1>6, <2>1, ExtendsFacts DEF Extends
<1>14. EndInv'
  <2>1. \A t \in Threads : msg[t].count \in Nat
    BY DEF TypeInv, Msgs, Places
  <2>2. end = "no"
    BY <1>2 DEF Running
  <2>3. \A t \in Threads : msg[t].count <= Len(ys)
    BY <1>13, <2>1 DEF EndInv
  <2> QED BY <1>2, <2>2, <2>3 DEF EndInv
<1>15. KnownInv'
  <2>1. end = "no"
    BY <1>2 DEF Running
  <2>2. known <= Len(atts) /\ known \in Nat /\ (known = Len(atts) => Registered(atts) \subseteq extracted)
    BY <2>1 DEF KnownInv, Places
  <2>3. known <= Len(ys) /\ (known = Len(ys) => Registered(ys) \subseteq extracted)
    BY <1>13, <2>2
  <2>4. job'[u].pc \in Adding
    BY <1>4, <1>5 DEF Adding
  <2> QED BY <1>2, <2>2, <2>3, <2>4 DEF KnownInv, Places
<1>16. LockInv'
  <2>1. \A v \in Updaters : job[v].pc \notin Holding
    BY <1>2, UpdateAssumption DEF LockInv
  <2> QED BY <1>2, <1>4, <1>5, <2>1 DEF LockInv, Holding
<1>17. BackedInv'
  <2>1. \A t \in Threads : ~Behind(t)
    BY <1>2, UpdateAssumption DEF Behind, LockInv, Holding
  <2> QED BY <1>8, <1>9, <2>1 DEF BackedInv
<1>18. GivenInv'
  <2>1. updates # 0
    BY <1>2 DEF GivenInv
  <2> QED BY <1>2, <2>1 DEF GivenInv, AllGiven
<1>19. ASSUME OnceInv, \A v, w \in Updaters : v = w PROVE OnceInv'
  <2>1. IsInjective(new) /\ ToSet(new) \cap ToSet(rules) = {}
    BY <1>1, <1>2, <1>19 DEF OnceInv
  <2>2. IsInjective(rules')
    BY <1>8, <1>19, <2>1 DEF OnceInv
  <2>3. EnginesDistinct'
    BY <1>2, <1>19 DEF OnceInv, EnginesDistinct
  <2>4. \A v \in Updaters : IsInjective(job'[v].new) /\ job'[v].pc # "add"
    BY <1>4, <1>5, <1>19, <2>1
  <2> QED BY <2>2, <2>3, <2>4 DEF OnceInv
<1> QED BY <1>10, <1>11, <1>12, <1>14, <1>15, <1>16, <1>17, <1>18, <1>19

(* The last engine takes the place of one that is freed. *)
LEMMA SwapOut ==
  ASSUME NEW T, NEW es \in Seq(T), NEW k \in DOMAIN es
  PROVE  LET r == Front(Swapped(es, k, Len(es))) IN
         /\ r \in Seq(T) /\ Len(r) = Len(es) - 1 /\ DOMAIN r = 1 .. Len(es) - 1
         /\ \A i \in 1 .. Len(es) - 1 : r[i] = IF i = k THEN es[Len(es)] ELSE es[i]
<1>1. PICK m \in Nat : m = Len(es)
  OBVIOUS
<1>2. DOMAIN es = 1 .. m /\ k \in 1 .. m /\ m # 0 /\ m \in 1 .. m
  <2>1. DOMAIN es = 1 .. m
    BY <1>1
  <2>2. k \in 1 .. m
    BY <2>1
  <2> QED BY <2>1, <2>2
<1> DEFINE q == Swapped(es, k, m)
<1>3. q \in Seq(T) /\ Len(q) = m /\ \A i \in 1 .. m : i # m => q[i] = IF i = k THEN es[m] ELSE es[i]
  <2>1. \A i \in 1 .. m : es[i] \in T
    BY <1>1
  <2>2. q = [i \in 1 .. m |-> IF i = m THEN es[k] ELSE IF i = k THEN es[m] ELSE es[i]]
    <3>1. es = [i \in 1 .. m |-> es[i]]
      BY <1>1
    <3> QED BY <1>2, <3>1 DEF Swapped
  <2> HIDE DEF q
  <2>3. q \in [1 .. m -> T]
    BY <1>2, <2>1, <2>2
  <2>4. q \in Seq(T) /\ Len(q) = m
    BY <2>3
  <2> QED BY <2>2, <2>4
<1> HIDE DEF q
<1> DEFINE r == SubSeq(q, 1, m - 1)
<1>4. r \in Seq(T) /\ Len(r) = m - 1 /\ DOMAIN r = 1 .. m - 1 /\ \A i \in 1 .. m - 1 : r[i] = q[i]
  <2>1. /\ r \in Seq(T) /\ Len(r) = m - 1
        /\ \A i \in 1 .. m - 1 : r[i] = q[i]
    BY <1>2, <1>3
  <2>2. DOMAIN r = 1 .. Len(r)
    BY <2>1, LenProperties
  <2> QED BY <2>1, <2>2
<1>5. Front(q) = r
  BY <1>3 DEF Front
<1> HIDE DEF r
<1>6. \A i \in 1 .. m - 1 : i \in 1 .. m /\ i # m
  OBVIOUS
<1>7. \A i \in 1 .. m - 1 : r[i] = IF i = k THEN es[m] ELSE es[i]
  BY <1>3, <1>4, <1>6
<1> QED BY <1>1, <1>4, <1>5, <1>7 DEF q

OneEach(es) == \A i, j \in DOMAIN es : es[i].rule = es[j].rule => i = j
HasRules(e) == e.rule \in ToSet(rules)

KeepSound(es, s) ==
  /\ s.es \in Seq(Engine) /\ s.i \in Nat \ {0}
  /\ \A j \in DOMAIN s.es : \E k \in DOMAIN es : s.es[j] = es[k]
  /\ \A k \in DOMAIN es : HasRules(es[k]) => \E j \in DOMAIN s.es : s.es[j] = es[k]
  /\ \A j \in DOMAIN s.es : j < s.i => HasRules(s.es[j])
  /\ OneEach(es) => OneEach(s.es)

(* One place of the array is looked at. *)
LEMMA KeepNextSound ==
  ASSUME NEW es \in Seq(Engine), NEW s, s = [i |-> s.i, es |-> s.es], KeepSound(es, s)
  PROVE  LET r == KeepNext(s) IN
         /\ r = [i |-> r.i, es |-> r.es] /\ KeepSound(es, r)
         /\ Len(r.es) \in Nat /\ r.i - Len(r.es) = s.i - Len(s.es) + 1
<1> DEFINE r == KeepNext(s)
           rs == Front(Swapped(s.es, s.i, Len(s.es)))
<1>1. PICK m \in Nat, i \in Nat \ {0} : m = Len(s.es) /\ i = s.i
  BY DEF KeepSound
<1>2. s.es \in Seq(Engine) /\ DOMAIN s.es = 1 .. m
  BY <1>1 DEF KeepSound
<1>3. CASE i > m \/ HasRules(s.es[i])
  <2>1. r = [i |-> i + 1, es |-> s.es]
    BY <1>1, <1>3 DEF KeepNext, HasRules
  <2>2. r.i = i + 1 /\ r.es = s.es
    BY <2>1
  <2> HIDE DEF r
  <2>3. ASSUME NEW j \in DOMAIN r.es, j < r.i PROVE HasRules(r.es[j])
    <3>1. j \in 1 .. m /\ (j < i \/ j = i)
      BY <1>2, <2>2, <2>3
    <3>2. j < i => HasRules(s.es[j])
      BY <1>1, <1>2, <3>1 DEF KeepSound
    <3> QED BY <1>3, <2>2, <3>1, <3>2
  <2>4. KeepSound(es, r)
    <3>1. i + 1 \in Nat \ {0}
      OBVIOUS
    <3> QED BY <2>2, <2>3, <3>1 DEF KeepSound
  <2>5. Len(r.es) = m /\ r.i - m = i - m + 1
    BY <1>1, <2>2
  <2> QED BY <1>1, <2>1, <2>2, <2>4, <2>5 DEF r
<1>4. CASE ~(i > m) /\ ~HasRules(s.es[i])
  <2>1. r = [i |-> i, es |-> rs]
    BY <1>1, <1>4 DEF KeepNext, HasRules
  <2>2. r.i = i /\ r.es = rs
    BY <2>1
  <2>3. i \in 1 .. m /\ m # 0 /\ m \in 1 .. m
    BY <1>4
  <2>4. /\ rs \in Seq(Engine) /\ Len(rs) = m - 1 /\ DOMAIN rs = 1 .. m - 1
        /\ \A j \in 1 .. m - 1 : rs[j] = IF j = i THEN s.es[m] ELSE s.es[j]
    BY <1>1, <1>2, <2>3, SwapOut
  <2> HIDE DEF r, rs
  <2>5. \A j \in 1 .. m - 1 : j \in 1 .. m /\ j # m
    OBVIOUS
  <2>6. \A j \in DOMAIN rs : \E k \in DOMAIN es : rs[j] = es[k]
    BY <1>2, <2>3, <2>4, <2>5 DEF KeepSound
  <2>7. ASSUME NEW k \in DOMAIN es, HasRules(es[k]) PROVE \E j \in DOMAIN rs : rs[j] = es[k]
    <3>1. PICK j \in 1 .. m : s.es[j] = es[k]
      BY <1>2, <2>7 DEF KeepSound
    <3>2. j # i
      BY <1>4, <2>7, <3>1
    <3>3. CASE j = m
      <4>1. i \in 1 .. m - 1
        BY <2>3, <3>2, <3>3
      <4> QED BY <4>1, <2>4, <3>1, <3>3
    <3>4. CASE j # m
      <4>1. j \in 1 .. m - 1
        BY <3>4
      <4> QED BY <4>1, <2>4, <3>1, <3>2
    <3> QED BY <3>3, <3>4
  <2>8. ASSUME NEW j \in DOMAIN rs, j < i PROVE HasRules(rs[j])
    <3>1. j \in 1 .. m /\ j # i /\ rs[j] = s.es[j]
      BY <2>4, <2>5, <2>8
    <3> QED BY <3>1, <1>1, <1>2, <2>8 DEF KeepSound
  <2>9. ASSUME OneEach(es) PROVE OneEach(rs)
    <3>1. OneEach(s.es)
      BY <2>9 DEF KeepSound
    <3> SUFFICES ASSUME NEW a \in 1 .. m - 1, NEW b \in 1 .. m - 1, rs[a].rule = rs[b].rule PROVE a = b
      BY <2>4 DEF OneEach
    <3>2. \A x, y \in 1 .. m : s.es[x].rule = s.es[y].rule => x = y
      BY <3>1, <1>2 DEF OneEach
    <3> QED BY <3>2, <2>3, <2>4, <2>5
  <2>10. KeepSound(es, r)
    BY <2>2, <2>4, <2>6, <2>7, <2>8, <2>9 DEF KeepSound
  <2>11. Len(r.es) = m - 1 /\ i - (m - 1) = i - m + 1 /\ m - 1 \in Nat
    BY <2>2, <2>3, <2>4
  <2> QED BY <1>1, <2>1, <2>2, <2>10, <2>11 DEF r
<1> QED BY <1>3, <1>4

(* What mmt_single_sec_remove_rules does to one handler. *)
LEMMA KeepKeeps ==
  ASSUME NEW es \in Seq(Engine)
  PROVE  /\ Keep(es) \in Seq(Engine)
         /\ \A j \in DOMAIN Keep(es) : HasRules(Keep(es)[j]) /\ \E k \in DOMAIN es : Keep(es)[j] = es[k]
         /\ \A k \in DOMAIN es : HasRules(es[k]) => \E j \in DOMAIN Keep(es) : Keep(es)[j] = es[k]
         /\ OneEach(es) => OneEach(Keep(es))
<1> DEFINE D == {s \in [i : Nat, es : Seq(Engine)] : KeepSound(es, s)}
           base == [i |-> 1, es |-> es]
           G == [k \in 1 .. Len(es) |-> [s \in D |-> KeepNext(s)]]
<1>1. PICK n \in Nat : n = Len(es) /\ DOMAIN es = 1 .. n
  OBVIOUS
<1>2. base \in D /\ base.i = 1 /\ base.es = es
  <2>1. base.i = 1 /\ base.es = es /\ base \in [i : Nat, es : Seq(Engine)]
    OBVIOUS
  <2>2. \A j \in DOMAIN es : ~(j < 1)
    BY <1>1
  <2> HIDE DEF base
  <2>3. KeepSound(es, base)
    BY <2>1, <2>2 DEF KeepSound
  <2> QED BY <2>1, <2>3
<1>3. ASSUME NEW s \in D
      PROVE  /\ KeepNext(s) \in D
             /\ Len(KeepNext(s).es) \in Nat /\ KeepNext(s).i - Len(KeepNext(s).es) = s.i - Len(s.es) + 1
  <2>1. s = [i |-> s.i, es |-> s.es] /\ KeepSound(es, s)
    OBVIOUS
  <2> DEFINE r == KeepNext(s)
  <2>2. /\ r = [i |-> r.i, es |-> r.es] /\ KeepSound(es, r)
        /\ Len(r.es) \in Nat /\ r.i - Len(r.es) = s.i - Len(s.es) + 1
    BY <2>1, KeepNextSound
  <2> HIDE DEF r
  <2>3. r \in [i : Nat, es : Seq(Engine)]
    BY <2>2 DEF KeepSound
  <2> QED BY <2>2, <2>3 DEF r
<1> HIDE DEF D, base
<1>4. G \in [1 .. n -> [D -> D]] /\ \A k \in 1 .. n : \A s \in D : G[k][s] = KeepNext(s)
  BY <1>1, <1>3
<1> HIDE DEF G
<1>5. PICK r : Reached(n, D, base, G, r) /\ Keep(es) = r.es
  <2>1. [i |-> 1, es |-> es] \in D
    BY <1>2 DEF base
  <2> QED BY <2>1, <1>1, <1>4, KeepFold DEF base
<1>6. PICK F : Steps(n, D, base, G, F) /\ r = F[n]
  BY <1>5 DEF Reached
<1> DEFINE A == {k \in 0 .. n : Len(F[k].es) \in Nat /\ F[k].i - Len(F[k].es) = 1 - n + k}
<1>7. 0 \in A
  BY <1>1, <1>2, <1>6 DEF Steps
<1>8. ASSUME NEW k \in 1 .. n, k - 1 \in A PROVE k \in A
  <2>1. k - 1 \in 0 .. n /\ k \in 0 .. n
    OBVIOUS
  <2>2. F[k - 1] \in D /\ F[k] = KeepNext(F[k - 1])
    BY <2>1, <1>4, <1>6 DEF Steps
  <2>3. Len(F[k].es) \in Nat /\ F[k].i - Len(F[k].es) = F[k - 1].i - Len(F[k - 1].es) + 1
    BY <2>2, <1>3
  <2>4. F[k - 1].i - Len(F[k - 1].es) = 1 - n + (k - 1)
    BY <1>8
  <2>5. F[k].i - Len(F[k].es) = (1 - n + (k - 1)) + 1
    BY <2>3, <2>4
  <2>6. (1 - n + (k - 1)) + 1 = 1 - n + k
    OBVIOUS
  <2> QED BY <2>1, <2>3, <2>5, <2>6
<1>9. n \in A
  <2> HIDE DEF A
  <2>1. n \in 0 .. n
    OBVIOUS
  <2> QED BY <1>7, <1>8, <2>1, UpTo
<1>10. r \in D /\ Len(r.es) \in Nat /\ r.i - Len(r.es) = 1
  <2>1. n \in 0 .. n /\ 1 - n + n = 1
    OBVIOUS
  <2> QED BY <2>1, <1>6, <1>9 DEF Steps
<1>11. KeepSound(es, r) /\ r.i \in Nat
  BY <1>10 DEF D
<1>12. \A j \in DOMAIN r.es : j < r.i
  <2>1. r.es \in Seq(Engine)
    BY <1>11 DEF KeepSound
  <2>2. PICK m \in Nat, i \in Nat : m = Len(r.es) /\ i = r.i
    BY <1>10, <1>11
  <2>3. DOMAIN r.es = 1 .. m /\ i - m = 1
    BY <1>10, <2>1, <2>2
  <2> QED BY <2>2, <2>3
<1>13. \A j \in DOMAIN r.es : HasRules(r.es[j])
  BY <1>11, <1>12 DEF KeepSound
<1> QED BY <1>5, <1>11, <1>13 DEF KeepSound

(* One engine for each rule, said of each array. *)
LEMMA DistinctIs == EnginesDistinct <=> \A t \in Threads : OneEach(engines[t])
BY DEF EnginesDistinct, OneEach, IsInjective

(* What mmt_single_sec_add_rules does to one handler. *)
LEMMA AddedEngines ==
  ASSUME TypeInv, AttsInv, NEW t \in Threads, NEW ids
  PROVE  LET rs == ToAdd(t, ids)
             es == engines[t] \o Engines(atts, rs)
         IN  /\ es \in Seq(Engine) /\ rs \in Seq(RuleIds) /\ ToSet(rs) \subseteq ToSet(rules)
             /\ Len(es) = Len(engines[t]) + Len(rs)
             /\ \A i \in DOMAIN engines[t] : i \in DOMAIN es /\ es[i] = engines[t][i]
             /\ \A i \in DOMAIN es : i \in DOMAIN engines[t] \/ es[i].rule \in ToSet(rs) \ RulesOf(t)
             /\ \A i \in DOMAIN es : EngineRight(atts, told, es[i])
             /\ IsInjective(rules) /\ OneEach(engines[t]) => OneEach(es)
<1> DEFINE rs == ToAdd(t, ids)
           new == Engines(atts, rs)
           old == engines[t]
           es == old \o new
<1>1. rules \in Seq(RuleIds) /\ old \in Seq(Engine) /\ Indexed(atts)
  BY DEF TypeInv, AttsInv
<1>2. /\ rs \in Seq(RuleIds) /\ ToSet(rs) = ToSet(rules) \cap (ToSet(ids) \ RulesOf(t))
      /\ IsInjective(rules) => IsInjective(rs)
  <2>1. rs = Only(rules, ToSet(ids) \ RulesOf(t))
    BY DEF ToAdd, RulesOf
  <2> HIDE DEF rs
  <2> QED BY <1>1, <2>1, OnlyKeeps
<1> HIDE DEF rs
<1>3. \A id \in ToSet(rs) : Told(atts, told, id)
  BY <1>2 DEF AttsInv
<1>4. /\ new \in Seq(Engine) /\ DOMAIN new = DOMAIN rs
      /\ \A i \in DOMAIN rs : new[i].rule = rs[i] /\ EngineRight(atts, told, new[i])
  BY <1>1, <1>2, <1>3, EnginesMade
<1>5. \A i \in DOMAIN old : EngineRight(atts, told, old[i]) /\ old[i].rule \in RulesOf(t)
  BY DEF AttsInv, RulesOf
<1> HIDE DEF new, old
<1>6. PICK n \in Nat, m \in Nat : n = Len(old) /\ m = Len(new)
  BY <1>1, <1>4
<1>7. DOMAIN old = 1 .. n /\ DOMAIN new = 1 .. m /\ DOMAIN rs = 1 .. m /\ Len(rs) = m
  <2>1. DOMAIN new = 1 .. m /\ DOMAIN old = 1 .. n
    BY <1>1, <1>4, <1>6
  <2>2. DOMAIN rs = 1 .. Len(rs) /\ Len(rs) \in Nat
    BY <1>2
  <2>3. Len(rs) = m
    <3>1. PICK k \in Nat : k = Len(rs) /\ DOMAIN rs = 1 .. k
      BY <2>2
    <3>2. 1 .. k = 1 .. m
      BY <1>4, <2>1, <3>1
    <3>3. k \in 1 .. k \/ k = 0
      OBVIOUS
    <3>4. m \in 1 .. m \/ m = 0
      OBVIOUS
    <3>5. k <= m /\ m <= k
      BY <3>2, <3>3, <3>4
    <3> QED BY <3>1, <3>5
  <2> QED BY <2>1, <2>2, <2>3
<1>8. es \in Seq(Engine) /\ DOMAIN es = 1 .. n + m /\ Len(es) = n + m
  BY <1>1, <1>4, <1>6
<1>9. \A i \in 1 .. n + m : es[i] = IF i <= n THEN old[i] ELSE new[i - n]
  BY <1>1, <1>4, <1>6
<1> HIDE DEF es
<1>10. \A i \in 1 .. n : i \in 1 .. n + m /\ es[i] = old[i]
  BY <1>9
<1>11. \A i \in 1 .. n + m : i \in 1 .. n \/ (i \notin 1 .. n /\ i - n \in 1 .. m /\ es[i] = new[i - n])
  BY <1>9
<1>12. \A i \in 1 .. m : rs[i] \in ToSet(rs) /\ rs[i] \notin RulesOf(t) /\ new[i].rule = rs[i]
  BY <1>2, <1>4, <1>7 DEF ToSet
<1>13. \A i \in 1 .. n + m : i \in 1 .. n \/ es[i].rule \in ToSet(rs) \ RulesOf(t)
  BY <1>11, <1>12
<1>14. \A i \in 1 .. n + m : EngineRight(atts, told, es[i])
  BY <1>4, <1>5, <1>7, <1>10, <1>11
<1>15. ASSUME IsInjective(rules), OneEach(old) PROVE OneEach(es)
  <2> SUFFICES ASSUME NEW i \in 1 .. n + m, NEW j \in 1 .. n + m, es[i].rule = es[j].rule PROVE i = j
    BY <1>8 DEF OneEach
  <2>1. CASE i \in 1 .. n /\ j \in 1 .. n
    BY <2>1, <1>7, <1>10, <1>15 DEF OneEach
  <2>2. CASE i \in 1 .. n /\ j \notin 1 .. n
    BY <2>2, <1>5, <1>7, <1>10, <1>13
  <2>3. CASE i \notin 1 .. n /\ j \in 1 .. n
    BY <2>3, <1>5, <1>7, <1>10, <1>13
  <2>4. CASE i \notin 1 .. n /\ j \notin 1 .. n
    <3>1. i - n \in 1 .. m /\ j - n \in 1 .. m /\ rs[i - n] = rs[j - n]
      BY <2>4, <1>11, <1>12
    <3>2. i - n = j - n
      BY <3>1, <1>2, <1>7, <1>15 DEF IsInjective
    <3> QED BY <3>2
  <2> QED BY <2>1, <2>2, <2>3, <2>4
<1>16. ToSet(rs) \subseteq ToSet(rules)
  BY <1>2
<1>17. /\ es \in Seq(Engine) /\ rs \in Seq(RuleIds) /\ ToSet(rs) \subseteq ToSet(rules)
       /\ Len(es) = Len(old) + Len(rs)
       /\ \A i \in DOMAIN old : i \in DOMAIN es /\ es[i] = old[i]
       /\ \A i \in DOMAIN es : i \in DOMAIN old \/ es[i].rule \in ToSet(rs) \ RulesOf(t)
       /\ \A i \in DOMAIN es : EngineRight(atts, told, es[i])
       /\ IsInjective(rules) /\ OneEach(old) => OneEach(es)
  BY <1>2, <1>6, <1>7, <1>8, <1>10, <1>13, <1>14, <1>15, <1>16
<1> QED BY <1>17 DEF es, old, new, rs

(* The job goes on with the next handler, or gives the lock back. *)
NextTurn(u, pc) ==
  IF job[u].turn = Cardinality(Threads) THEN Unlock(u, pc)
  ELSE job' = [job EXCEPT ![u].turn = job[u].turn + 1] /\ UNCHANGED lock

(* The lock goes with the job. *)
LEMMA TurnKeeps ==
  ASSUME TypeInv, LockInv, NEW u \in Updaters, lock = u, job[u].pc \in Holding, NEW pc \in {"idle", "register"},
         NextTurn(u, pc)
  PROVE  /\ job' \in [Updaters -> Jobs] /\ lock' \in Updaters \cup {0} /\ LockInv'
         /\ \A v \in Updaters : v # u => job'[v] = job[v]
         /\ ToSet(job'[u].new) \subseteq ToSet(job[u].new) /\ (IsInjective(job[u].new) => IsInjective(job'[u].new))
         /\ \/ job'[u].pc = job[u].pc /\ job'[u].turn = job[u].turn + 1
            \/ job'[u].pc = pc /\ lock' = 0 /\ job[u].turn = Cardinality(Threads)
<1>1. job \in [Updaters -> Jobs] /\ job[u] \in Jobs /\ job[u].pc \in Holding
  BY DEF TypeInv, LockInv
<1>2. \A v \in Updaters : v # u => job[v].pc \notin Holding
  BY DEF LockInv
<1>3. CASE job[u].turn = Cardinality(Threads)
  <2> DEFINE j == [Idle EXCEPT !.pc = pc]
  <2>1. lock' = 0 /\ job' = [job EXCEPT ![u] = j]
    BY <1>3 DEF NextTurn, Unlock
  <2>2. j \in Jobs /\ j.pc = pc /\ j.turn = 1 /\ j.new = <<>> /\ pc \notin Holding
    <3>1. Idle \in Jobs /\ pc \in Pcs
      BY IdleIs DEF Pcs
    <3>2. j \in Jobs
      BY <3>1 DEF Jobs
    <3> QED BY <3>2 DEF Idle, Holding
  <2> HIDE DEF j
  <2>3. job' \in [Updaters -> Jobs] /\ job'[u] = j /\ \A v \in Updaters : v # u => job'[v] = job[v]
    BY <1>1, <2>1, <2>2
  <2>4. \A v \in Updaters : job'[v].pc \notin Holding /\ v # 0
    BY <1>2, <2>2, <2>3, UpdateAssumption
  <2>5. LockInv'
    BY <2>1, <2>2, <2>3, <2>4 DEF LockInv
  <2> QED BY <1>3, <2>1, <2>2, <2>3, <2>5, NoRules
<1>4. CASE job[u].turn # Cardinality(Threads)
  <2> DEFINE j == [job[u] EXCEPT !.turn = job[u].turn + 1]
  <2>1. lock' = lock /\ job' = [job EXCEPT ![u] = j]
    BY <1>4 DEF NextTurn
  <2>2. j \in Jobs /\ j.pc = job[u].pc /\ j.turn = job[u].turn + 1 /\ j.new = job[u].new
    <3>1. PICK n \in Nat \ {0} : n = Cardinality(Threads) /\ Threads = 1 .. n
      BY ThreadsAre
    <3>2. job[u].turn \in 1 .. n /\ job[u].turn # n
      BY <1>1, <1>4, <3>1 DEF Jobs
    <3>3. job[u].turn + 1 \in 1 .. n
      BY <3>2
    <3>4. job[u].turn + 1 \in Threads
      BY <3>1, <3>3
    <3> QED BY <1>1, <3>4 DEF Jobs
  <2> HIDE DEF j
  <2>3. job' \in [Updaters -> Jobs] /\ job'[u] = j /\ \A v \in Updaters : v # u => job'[v] = job[v]
    BY <1>1, <2>1, <2>2
  <2>4. LockInv'
    BY <1>1, <1>2, <2>1, <2>2, <2>3 DEF LockInv
  <2>5. lock' \in Updaters \cup {0}
    BY <2>1
  <2> QED BY <2>1, <2>2, <2>3, <2>4, <2>5
<1> QED BY <1>3, <1>4

(* A handler gets new rules. *)
LEMMA AddToThreadKeeps ==
  ASSUME IInv, NEW u \in Updaters, AddToThread(u)
  PROVE  IInv' /\ (OnceInv => OnceInv')
<1> USE DEF IInv
<1>1. PICK t, ids : t = job[u].turn /\ ids = job[u].mask[t]
  OBVIOUS
<1>2. PICK rs : rs = ToAdd(t, ids)
  OBVIOUS
<1>3. PICK es : es = engines[t] \o Engines(atts, rs)
  OBVIOUS
<1>4. /\ Running /\ lock = u /\ job[u].pc = "toThreads"
      /\ engines' = [engines EXCEPT ![t] = es]
      /\ hash' = [hash EXCEPT ![t] = HandlerHash(engines'[t])]
      /\ NextTurn(u, "register")
      /\ UNCHANGED <<folder, plugins, loaded, rules, atts, told, msg, known, extracted, updates, end>>
  BY <1>1, <1>2, <1>3 DEF AddToThread, AddRules, Engines, NextTurn, pluginVars, global, dpi
<1>5. t \in Threads /\ job \in [Updaters -> Jobs] /\ engines \in [Threads -> Seq(Engine)]
  BY <1>1 DEF TypeInv, Jobs
<1>6. /\ es \in Seq(Engine) /\ ToSet(rs) \subseteq ToSet(rules)
      /\ \A i \in DOMAIN engines[t] : i \in DOMAIN es /\ es[i] = engines[t][i]
      /\ \A i \in DOMAIN es : i \in DOMAIN engines[t] \/ es[i].rule \in ToSet(rs) \ RulesOf(t)
      /\ \A i \in DOMAIN es : EngineRight(atts, told, es[i])
      /\ IsInjective(rules) /\ OneEach(engines[t]) => OneEach(es)
  BY <1>2, <1>3, <1>5, AddedEngines
<1>7. /\ engines' \in [Threads -> Seq(Engine)] /\ engines'[t] = es
      /\ \A v \in Threads : v # t => engines'[v] = engines[v]
  BY <1>4, <1>5, <1>6
<1>8. /\ RulesOf(t)' \subseteq RulesOf(t) \cup ToSet(rules)
      /\ \A v \in Threads : v # t => RulesOf(v)' = RulesOf(v)
  BY <1>6, <1>7 DEF RulesOf
<1>9. /\ job' \in [Updaters -> Jobs] /\ lock' \in Updaters \cup {0} /\ LockInv'
      /\ \A v \in Updaters : v # u => job'[v] = job[v]
      /\ ToSet(job'[u].new) \subseteq ToSet(job[u].new) /\ (IsInjective(job[u].new) => IsInjective(job'[u].new))
      /\ \/ job'[u].pc = job[u].pc /\ job'[u].turn = job[u].turn + 1
         \/ job'[u].pc = "register" /\ lock' = 0 /\ job[u].turn = Cardinality(Threads)
  BY <1>4, TurnKeeps DEF Holding
<1>10. job'[u].pc \in Adding
  BY <1>4, <1>9 DEF Adding
<1>11. end = "no"
  BY <1>4 DEF Running
<1>12. TypeInv'
  BY <1>4, <1>7, <1>9 DEF TypeInv
<1>13. PlugInv'
  <2>1. \A v \in Updaters : ToSet(job'[v].new) \subseteq ToSet(loaded)
    BY <1>9 DEF PlugInv
  <2>2. \A v \in Threads : RulesOf(v)' \subseteq ToSet(loaded)
    BY <1>8 DEF PlugInv
  <2> QED BY <1>4, <2>1, <2>2 DEF PlugInv
<1>14. AttsInv'
  <2>1. \A v \in Threads : \A i \in DOMAIN engines'[v] : EngineRight(atts, told, engines'[v][i])
    BY <1>6, <1>7 DEF AttsInv
  <2>2. hash' = [v \in Threads |-> HandlerHash(engines'[v])]
    <3>1. hash = [v \in Threads |-> HandlerHash(engines[v])]
      BY DEF AttsInv
    <3>2. \A v \in Threads : hash'[v] = HandlerHash(engines'[v])
      BY <1>4, <1>5, <1>7, <3>1
    <3>3. DOMAIN hash' = Threads /\ hash' = [v \in DOMAIN hash' |-> hash'[v]]
      BY <1>4, <3>1
    <3> QED BY <3>2, <3>3
  <2> QED BY <1>4, <2>1, <2>2 DEF AttsInv
<1>15. EndInv'
  BY <1>4, <1>11 DEF EndInv
<1>16. KnownInv'
  BY <1>4, <1>10 DEF KnownInv
<1>17. BackedInv'
  <2>1. \A v \in Threads : ~Behind(v)
    BY <1>4 DEF Behind, LockInv, Holding
  <2>2. \A v \in Threads : RulesOf(v) \subseteq ToSet(rules)
    BY <2>1 DEF BackedInv
  <2> QED BY <1>4, <1>8, <2>2 DEF BackedInv
<1>18. GivenInv'
  <2>1. updates # 0
    BY <1>4 DEF GivenInv
  <2> QED BY <1>4, <2>1 DEF GivenInv, AllGiven
<1>19. ASSUME OnceInv PROVE OnceInv'
  <2>1. \A v \in Threads : OneEach(engines'[v])
    BY <1>6, <1>7, <1>19, DistinctIs DEF OnceInv
  <2>2. EnginesDistinct'
    BY <2>1 DEF EnginesDistinct, OneEach, IsInjective
  <2>3. \A v \in Updaters : IsInjective(job'[v].new) /\ (job'[v].pc = "add" => v # u)
    BY <1>9, <1>10, <1>19 DEF OnceInv, Adding
  <2> QED BY <1>4, <1>9, <1>19, <2>2, <2>3 DEF OnceInv
<1> QED BY <1>9, <1>12, <1>13, <1>14, <1>15, <1>16, <1>17, <1>18, <1>19

(* The program takes the attributes again. *)
LEMMA RegisterKeeps ==
  ASSUME IInv, NEW u \in Updaters, Register(u)
  PROVE  IInv' /\ (OnceInv => OnceInv')
<1> USE DEF IInv
<1>1. /\ Running /\ lock = 0 /\ job[u].pc = "register"
      /\ known' = Len(atts) /\ extracted' = extracted \cup Registered(atts)
      /\ job' = [job EXCEPT ![u] = Idle]
      /\ UNCHANGED <<folder, plugins, loaded, rules, atts, told, engines, hash, msg, lock, updates, end>>
  BY DEF Register, pluginVars, global, handlers
<1>2. job \in [Updaters -> Jobs] /\ job' \in [Updaters -> Jobs] /\ job'[u] = Idle /\ \A v \in Updaters : v # u => job'[v] = job[v]
  BY <1>1, IdleIs DEF TypeInv
<1>3. \A t \in Threads : RulesOf(t)' = RulesOf(t)
  BY <1>1 DEF RulesOf
<1>4. TypeInv'
  BY <1>1, <1>2 DEF TypeInv
<1>5. PlugInv'
  <2>1. \A v \in Updaters : ToSet(job'[v].new) \subseteq ToSet(loaded)
    BY <1>2, IdleIs, NoRules DEF PlugInv
  <2> QED BY <1>1, <1>3, <2>1 DEF PlugInv
<1>6. AttsInv' /\ EndInv'
  BY <1>1 DEF AttsInv, EndInv
<1>7. KnownInv'
  <2>1. Len(atts) \in Nat
    BY DEF AttsInv, Indexed
  <2> QED BY <1>1, <2>1 DEF KnownInv, Places
<1>8. LockInv'
  BY <1>1, <1>2, IdleIs DEF LockInv, Holding
<1>9. BackedInv'
  <2>1. \A t \in Threads : Behind(t) => Behind(t)'
    BY <1>1, <1>2 DEF Behind
  <2> QED BY <1>1, <1>3, <2>1 DEF BackedInv
<1>10. GivenInv'
  <2>1. updates # 0
    BY <1>1 DEF GivenInv
  <2> QED BY <1>1, <2>1 DEF GivenInv, AllGiven
<1>11. OnceInv => OnceInv'
  <2>1. EnginesDistinct => EnginesDistinct'
    BY <1>1 DEF EnginesDistinct
  <2> QED BY <1>1, <1>2, <2>1, IdleIs, NoRules DEF OnceInv
<1> QED BY <1>4, <1>5, <1>6, <1>7, <1>8, <1>9, <1>10, <1>11

(* Rules are removed from the global array. *)
LEMMA RemoveGlobalKeeps ==
  ASSUME IInv, NEW u \in Updaters, RemoveGlobal(u)
  PROVE  IInv' /\ (OnceInv => OnceInv')
<1> USE DEF IInv
<1>1. PICK j : j = [job[u] EXCEPT !.pc = "fromThreads"]
  OBVIOUS
<1> DEFINE i == [Idle EXCEPT !.pc = "idle"]
<1>2. /\ Running /\ lock = 0 /\ job[u].pc = "rm"
      /\ rules' = FoldLeft(RemoveRule, rules, job[u].ids)
      /\ \/ rules' = rules /\ lock' = 0 /\ job' = [job EXCEPT ![u] = i]
         \/ rules' # rules /\ lock' = u /\ job' = [job EXCEPT ![u] = j]
      /\ UNCHANGED <<folder, plugins, loaded, atts, told, engines, hash, msg, known, extracted, updates, end>>
  <2>1. [job EXCEPT ![u] = j] = [job EXCEPT ![u].pc = "fromThreads"]
    BY <1>1
  <2> QED BY <2>1 DEF RemoveGlobal, Locked, Unlock, Goto, pluginVars, handlers, dpi
<1>3. job \in [Updaters -> Jobs] /\ job[u] \in Jobs /\ job[u].turn = 1
  <2>1. job[u].turn = 1
    BY <1>2 DEF LockInv, Holding
  <2> QED BY <2>1 DEF TypeInv
<1>4. Within(RuleIds, rules, rules')
  <2>1. rules \in Seq(RuleIds)
    BY DEF TypeInv
  <2>2. \E n \in Nat : DOMAIN job[u].ids = 1 .. n
    <3>1. job[u].ids \in Seq(Nat)
      <4>1. job[u].ids \in Removals \cup {<<>>}
        BY <1>3 DEF Jobs
      <4>2. <<>> \in Seq(Nat)
        OBVIOUS
      <4>3. \A out \in Removals : out \in Seq(Nat)
        BY UpdateAssumption
      <4> QED BY <4>1, <4>2, <4>3
    <3>2. DOMAIN job[u].ids = 1 .. Len(job[u].ids) /\ Len(job[u].ids) \in Nat
      BY <3>1, LenProperties
    <3> QED BY <3>2
  <2>3. PICK n \in Nat : DOMAIN job[u].ids = 1 .. n
    BY <2>2
  <2>4. Within(RuleIds, rules, FoldLeft(RemoveRule, rules, job[u].ids))
    BY <2>1, <2>3, RemoveAllKeeps
  <2> QED BY <1>2, <2>4
<1>5. rules' \in Seq(RuleIds) /\ ToSet(rules') \subseteq ToSet(rules) /\ (IsInjective(rules) => IsInjective(rules'))
  BY <1>4 DEF Within
<1>6. i \in Jobs /\ i.pc = "idle" /\ i.turn = 1 /\ i.new = <<>>
  <2>1. Idle \in Jobs /\ "idle" \in Pcs
    BY IdleIs DEF Pcs
  <2>2. i \in Jobs
    BY <2>1 DEF Jobs
  <2> QED BY <2>2 DEF Idle
<1> HIDE DEF i
<1>7. j \in Jobs /\ j.pc = "fromThreads" /\ j.turn = 1 /\ j.new = job[u].new
  <2>1. "fromThreads" \in Pcs
    BY DEF Pcs
  <2> QED BY <1>1, <1>3, <2>1 DEF Jobs
<1>8. /\ job' \in [Updaters -> Jobs] /\ \A v \in Updaters : v # u => job'[v] = job[v]
      /\ \/ rules' = rules /\ lock' = 0 /\ job'[u] = i
         \/ rules' # rules /\ lock' = u /\ job'[u] = j
  BY <1>2, <1>3, <1>6, <1>7
<1>9. ToSet(job'[u].new) \subseteq ToSet(job[u].new) /\ (IsInjective(job[u].new) => IsInjective(job'[u].new)) /\ job'[u].pc # "add"
  BY <1>6, <1>7, <1>8, NoRules
<1>10. \A t \in Threads : RulesOf(t)' = RulesOf(t)
  BY <1>2 DEF RulesOf
<1>11. TypeInv'
  BY <1>2, <1>5, <1>8 DEF TypeInv
<1>12. PlugInv'
  <2>1. \A v \in Updaters : ToSet(job'[v].new) \subseteq ToSet(loaded)
    BY <1>8, <1>9 DEF PlugInv
  <2> QED BY <1>2, <1>5, <1>10, <2>1 DEF PlugInv
<1>13. AttsInv'
  BY <1>2, <1>5 DEF AttsInv
<1>14. EndInv'
  BY <1>2 DEF EndInv
<1>15. KnownInv'
  <2>1. \A v \in Updaters : job[v].pc \in Adding => job'[v].pc \in Adding
    BY <1>2, <1>8 DEF Adding
  <2> QED BY <1>2, <2>1 DEF KnownInv
<1>16. LockInv'
  <2>1. \A v \in Updaters : job[v].pc \notin Holding /\ v # 0
    BY <1>2, UpdateAssumption DEF LockInv
  <2> QED BY <1>6, <1>7, <1>8, <2>1 DEF LockInv, Holding
<1>17. BackedInv'
  <2>1. \A t \in Threads : RulesOf(t) \subseteq ToSet(rules)
    <3>1. \A t \in Threads : ~Behind(t)
      BY <1>2, UpdateAssumption DEF Behind, LockInv, Holding
    <3> QED BY <3>1 DEF BackedInv
  <2>2. CASE rules' = rules
    BY <1>10, <2>1, <2>2 DEF BackedInv
  <2>3. CASE rules' # rules
    <3>1. PICK n \in Nat : Threads = 1 .. n
      BY ThreadsAre
    <3>2. \A t \in Threads : 1 <= t
      BY <3>1
    <3>3. job'[u].pc = "fromThreads" /\ job'[u].turn = 1
      BY <1>7, <1>8, <2>3
    <3>4. \A t \in Threads : Behind(t)'
      BY <3>2, <3>3 DEF Behind
    <3> QED BY <3>4 DEF BackedInv
  <2> QED BY <2>2, <2>3
<1>18. GivenInv'
  <2>1. updates # 0
    BY <1>2 DEF GivenInv
  <2> QED BY <1>2, <2>1 DEF GivenInv, AllGiven
<1>19. OnceInv => OnceInv'
  <2>1. EnginesDistinct => EnginesDistinct'
    BY <1>2 DEF EnginesDistinct
  <2> QED BY <1>5, <1>8, <1>9, <2>1 DEF OnceInv
<1> QED BY <1>11, <1>12, <1>13, <1>14, <1>15, <1>16, <1>17, <1>18, <1>19

(* A handler loses the rules that are gone. *)
LEMMA RemoveFromThreadKeeps ==
  ASSUME IInv, NEW u \in Updaters, RemoveFromThread(u)
  PROVE  IInv' /\ (OnceInv => OnceInv')
<1> USE DEF IInv
<1>1. PICK t : t = job[u].turn
  OBVIOUS
<1>2. PICK es : es = Keep(engines[t])
  OBVIOUS
<1>3. /\ Running /\ lock = u /\ job[u].pc = "fromThreads"
      /\ engines' = [engines EXCEPT ![t] = es]
      /\ hash' = [hash EXCEPT ![t] = HandlerHash(engines'[t])]
      /\ NextTurn(u, "idle")
      /\ UNCHANGED <<folder, plugins, loaded, rules, atts, told, msg, known, extracted, updates, end>>
  BY <1>1, <1>2 DEF RemoveFromThread, NextTurn, pluginVars, global, dpi
<1>4. t \in Threads /\ job \in [Updaters -> Jobs] /\ engines \in [Threads -> Seq(Engine)]
  BY <1>1 DEF TypeInv, Jobs
<1>5. /\ es \in Seq(Engine)
      /\ \A j \in DOMAIN es : HasRules(es[j]) /\ \E k \in DOMAIN engines[t] : es[j] = engines[t][k]
      /\ OneEach(engines[t]) => OneEach(es)
  <2>1. engines[t] \in Seq(Engine)
    BY <1>4
  <2> QED BY <1>2, <2>1, KeepKeeps
<1>6. /\ engines' \in [Threads -> Seq(Engine)] /\ engines'[t] = es
      /\ \A v \in Threads : v # t => engines'[v] = engines[v]
  BY <1>3, <1>4, <1>5
<1>7. /\ RulesOf(t)' \subseteq ToSet(rules) /\ RulesOf(t)' \subseteq RulesOf(t)
      /\ \A v \in Threads : v # t => RulesOf(v)' = RulesOf(v)
  BY <1>5, <1>6 DEF RulesOf, HasRules
<1>8. /\ job' \in [Updaters -> Jobs] /\ lock' \in Updaters \cup {0} /\ LockInv'
      /\ \A v \in Updaters : v # u => job'[v] = job[v]
      /\ ToSet(job'[u].new) \subseteq ToSet(job[u].new) /\ (IsInjective(job[u].new) => IsInjective(job'[u].new))
      /\ \/ job'[u].pc = job[u].pc /\ job'[u].turn = job[u].turn + 1
         \/ job'[u].pc = "idle" /\ lock' = 0 /\ job[u].turn = Cardinality(Threads)
  BY <1>3, TurnKeeps DEF Holding
<1>9. end = "no"
  BY <1>3 DEF Running
<1>10. TypeInv'
  BY <1>3, <1>6, <1>8 DEF TypeInv
<1>11. PlugInv'
  <2>1. \A v \in Updaters : ToSet(job'[v].new) \subseteq ToSet(loaded)
    BY <1>8 DEF PlugInv
  <2>2. \A v \in Threads : RulesOf(v)' \subseteq ToSet(loaded)
    BY <1>7 DEF PlugInv
  <2> QED BY <1>3, <2>1, <2>2 DEF PlugInv
<1>12. AttsInv'
  <2>1. \A v \in Threads : \A i \in DOMAIN engines'[v] : EngineRight(atts, told, engines'[v][i])
    BY <1>5, <1>6 DEF AttsInv
  <2>2. hash' = [v \in Threads |-> HandlerHash(engines'[v])]
    <3>1. hash = [v \in Threads |-> HandlerHash(engines[v])]
      BY DEF AttsInv
    <3>2. \A v \in Threads : hash'[v] = HandlerHash(engines'[v])
      BY <1>3, <1>4, <1>6, <3>1
    <3>3. DOMAIN hash' = Threads /\ hash' = [v \in DOMAIN hash' |-> hash'[v]]
      BY <1>3, <3>1
    <3> QED BY <3>2, <3>3
  <2> QED BY <1>3, <2>1, <2>2 DEF AttsInv
<1>13. EndInv'
  BY <1>3, <1>9 DEF EndInv
<1>14. KnownInv'
  <2>1. \A v \in Updaters : job[v].pc \in Adding => job'[v].pc \in Adding
    BY <1>3, <1>8 DEF Adding
  <2> QED BY <1>3, <2>1 DEF KnownInv
<1>15. BackedInv'
  <2>1. PICK n \in Nat \ {0} : n = Cardinality(Threads) /\ Threads = 1 .. n
    BY ThreadsAre
  <2>2. ASSUME NEW v \in Threads PROVE Behind(v)' \/ RulesOf(v)' \subseteq ToSet(rules)
    <3>1. CASE v = t
      BY <1>7, <3>1
    <3>2. CASE v # t /\ ~Behind(v)
      BY <1>7, <3>2 DEF BackedInv
    <3>3. CASE v # t /\ Behind(v)
      <4>1. PICK w \in Updaters : job[w].pc = "fromThreads" /\ job[w].turn <= v
        BY <3>3 DEF Behind
      <4>2. w = u
        BY <1>3, <4>1 DEF LockInv, Holding
      <4>3. t + 1 <= v /\ t # n
        <5>1. t \in 1 .. n /\ v \in 1 .. n /\ t <= v /\ v # t
          BY <1>1, <1>4, <2>1, <3>3, <4>1, <4>2
        <5> QED BY <5>1
      <4>4. job'[u].pc = "fromThreads" /\ job'[u].turn = t + 1
        BY <1>1, <1>3, <1>8, <2>1, <4>3
      <4>5. Behind(v)'
        BY <4>3, <4>4 DEF Behind
      <4> QED BY <4>5
    <3> QED BY <3>1, <3>2, <3>3
  <2> QED BY <1>3, <2>2 DEF BackedInv
<1>16. GivenInv'
  <2>1. updates # 0
    BY <1>3 DEF GivenInv
  <2> QED BY <1>3, <2>1 DEF GivenInv, AllGiven
<1>17. ASSUME OnceInv PROVE OnceInv'
  <2>1. \A v \in Threads : OneEach(engines'[v])
    BY <1>5, <1>6, <1>17, DistinctIs DEF OnceInv
  <2>2. EnginesDistinct'
    BY <2>1 DEF EnginesDistinct, OneEach, IsInjective
  <2>3. \A v \in Updaters : IsInjective(job'[v].new) /\ (job'[v].pc = "add" => v # u)
    BY <1>3, <1>8, <1>17 DEF OnceInv
  <2> QED BY <1>3, <1>8, <1>17, <2>2, <2>3 DEF OnceInv
<1> QED BY <1>8, <1>10, <1>11, <1>12, <1>13, <1>14, <1>15, <1>16, <1>17

(* Steps that change neither rules nor jobs. *)
LEMMA SendKeeps ==
  ASSUME IInv, NEW i \in Found, Send({i})
  PROVE  IInv' /\ (OnceInv => OnceInv')
<1> USE DEF IInv
<1>1. /\ Running
      /\ msg' = [t \in Threads |-> IF {i} \cap hash[t] = {} THEN NoMsg ELSE [has |-> {i}, count |-> Len(atts)]]
      /\ UNCHANGED <<folder, plugins, loaded, rules, atts, told, engines, hash, known, extracted, lock, job, updates, end>>
  BY DEF Send, pluginVars, global, handlers, dpi
<1>2. end = "no" /\ Len(atts) \in Nat /\ i \in Nat
  <2>1. end = "no"
    BY <1>1 DEF Running
  <2>2. i \in 1 .. known /\ known \in Nat
    BY <2>1 DEF Found, KnownInv, Places
  <2> QED BY <2>1, <2>2 DEF AttsInv, Indexed
<1> DEFINE m == [has |-> {i}, count |-> Len(atts)]
<1>3. m \in Msgs /\ m.count = Len(atts)
  BY <1>2 DEF Msgs, Places
<1> HIDE DEF m
<1>4. \A t \in Threads : msg'[t] = NoMsg \/ msg'[t] = m
  BY <1>1 DEF m
<1>5. msg' \in [Threads -> Msgs]
  <2>1. msg' = [t \in Threads |-> msg'[t]]
    BY <1>1
  <2> QED BY <2>1, <1>3, <1>4, NoMsgIs
<1>6. \A t \in Threads : msg'[t].count <= Len(atts)
  BY <1>2, <1>3, <1>4, NoMsgIs
<1>7. \A t \in Threads : RulesOf(t)' = RulesOf(t)
  BY <1>1 DEF RulesOf
<1>8. TypeInv'
  BY <1>1, <1>5 DEF TypeInv
<1>9. PlugInv'
  BY <1>1, <1>7 DEF PlugInv
<1>10. AttsInv'
  BY <1>1 DEF AttsInv
<1>11. EndInv'
  BY <1>1, <1>2, <1>6 DEF EndInv
<1>12. KnownInv' /\ LockInv'
  BY <1>1 DEF KnownInv, LockInv
<1>13. BackedInv' /\ GivenInv'
  BY <1>1, <1>7 DEF BackedInv, Behind, GivenInv, AllGiven
<1>14. OnceInv => OnceInv'
  BY <1>1 DEF OnceInv, EnginesDistinct
<1> QED BY <1>8, <1>9, <1>10, <1>11, <1>12, <1>13, <1>14

(* Verifying a message changes only counts of verdicts. *)
LEMMA WorkDoes ==
  ASSUME IInv, NEW t \in Threads, Work(t)
  PROVE  /\ engines' \in [Threads -> Seq(Engine)]
         /\ \A v \in Threads : v # t => engines'[v] = engines[v]
         /\ DOMAIN engines'[t] = DOMAIN engines[t]
         /\ \A i \in DOMAIN engines[t] :
              /\ engines'[t][i].rule = engines[t][i].rule /\ engines'[t][i].hash = engines[t][i].hash
              /\ engines'[t][i].alerts >= engines[t][i].alerts
<1>1. PICK found \in SUBSET Concerned(t) :
        /\ \A i \in found : engines[t][i].alerts < MaxAlerts
        /\ engines' = [engines EXCEPT ![t] = Counted(@, found)]
  BY DEF Work
<1> DEFINE old == engines[t]
           es == Counted(old, found)
<1>2. engines \in [Threads -> Seq(Engine)] /\ old \in Seq(Engine)
  BY DEF IInv, TypeInv
<1>3. engines' = [engines EXCEPT ![t] = es]
  BY <1>1
<1>4. PICK n \in Nat : n = Len(old) /\ DOMAIN old = 1 .. n
  BY <1>2
<1>5. ASSUME NEW i \in 1 .. n
      PROVE  /\ es[i] \in Engine /\ es[i].rule = old[i].rule /\ es[i].hash = old[i].hash
             /\ es[i].alerts >= old[i].alerts
  <2>1. old[i] \in Engine
    BY <1>2, <1>4
  <2> HIDE DEF old
  <2>2. old[i].alerts \in 0 .. MaxAlerts /\ MaxAlerts \in Nat
    BY <2>1, UpdateAssumption DEF Engine, Counts
  <2>3. CASE i \in found
    <3>1. es[i] = [old[i] EXCEPT !.alerts = old[i].alerts + 1]
      BY <1>4, <2>3 DEF Counted
    <3>2. old[i].alerts < MaxAlerts
      BY <1>1, <2>3 DEF old
    <3>3. old[i].alerts + 1 \in Counts /\ old[i].alerts + 1 >= old[i].alerts
      BY <2>2, <3>2 DEF Counts
    <3> HIDE DEF es
    <3> QED BY <2>1, <3>1, <3>3 DEF Engine
  <2>4. CASE i \notin found
    <3>1. es[i] = old[i]
      BY <1>4, <2>4 DEF Counted
    <3> HIDE DEF es
    <3> QED BY <2>1, <2>2, <3>1
  <2> QED BY <2>3, <2>4
<1>6. DOMAIN es = 1 .. n /\ es \in Seq(Engine)
  <2>1. es = [i \in 1 .. n |-> es[i]]
    BY <1>4 DEF Counted
  <2> HIDE DEF es, old
  <2>2. es \in [1 .. n -> Engine]
    BY <1>5, <2>1
  <2> QED BY <2>2
<1> HIDE DEF es
<1>7. engines' \in [Threads -> Seq(Engine)] /\ engines'[t] = es /\ \A v \in Threads : v # t => engines'[v] = engines[v]
  <2> HIDE DEF old
  <2> QED BY <1>2, <1>3, <1>6
<1> QED BY <1>4, <1>5, <1>6, <1>7

(* Verifying a message keeps the invariant. *)
LEMMA WorkKeeps ==
  ASSUME IInv, NEW t \in Threads, Work(t)
  PROVE  IInv' /\ (OnceInv => OnceInv')
<1>1. /\ end \in {"no", "stopping"} /\ msg' = [msg EXCEPT ![t] = NoMsg]
      /\ UNCHANGED <<folder, plugins, loaded, rules, atts, told, hash, known, extracted, lock, job, updates, end>>
  BY DEF Work, pluginVars, global, dpi
<1>2. /\ engines' \in [Threads -> Seq(Engine)]
      /\ \A v \in Threads : v # t => engines'[v] = engines[v]
      /\ DOMAIN engines'[t] = DOMAIN engines[t]
      /\ \A i \in DOMAIN engines[t] :
           engines'[t][i].rule = engines[t][i].rule /\ engines'[t][i].hash = engines[t][i].hash
  BY WorkDoes
<1>3. \A v \in Threads : /\ DOMAIN engines'[v] = DOMAIN engines[v]
                         /\ \A i \in DOMAIN engines[v] :
                              engines'[v][i].rule = engines[v][i].rule /\ engines'[v][i].hash = engines[v][i].hash
  BY <1>2
<1> USE DEF IInv
<1>4. \A v \in Threads : RulesOf(v)' = RulesOf(v) /\ HandlerHash(engines'[v]) = HandlerHash(engines[v])
  BY <1>3 DEF RulesOf, HandlerHash
<1>5. msg' \in [Threads -> Msgs] /\ msg'[t] = NoMsg /\ \A v \in Threads : v # t => msg'[v] = msg[v]
  BY <1>1, NoMsgIs DEF TypeInv
<1>6. TypeInv'
  BY <1>1, <1>2, <1>5 DEF TypeInv
<1>7. PlugInv'
  BY <1>1, <1>4 DEF PlugInv
<1>8. AttsInv'
  <2>1. \A v \in Threads : \A i \in DOMAIN engines'[v] : EngineRight(atts, told, engines'[v][i])
    BY <1>3 DEF AttsInv, EngineRight
  <2>2. [v \in Threads |-> HandlerHash(engines'[v])] = [v \in Threads |-> HandlerHash(engines[v])]
    BY <1>4
  <2> QED BY <1>1, <2>1, <2>2 DEF AttsInv
<1>9. EndInv'
  <2>1. Len(atts) \in Nat
    BY DEF AttsInv, Indexed
  <2>2. \A v \in Threads : msg'[v].count <= Len(atts)
    BY <1>5, <2>1, NoMsgIs DEF EndInv
  <2> QED BY <1>1, <2>2 DEF EndInv
<1>10. KnownInv' /\ LockInv'
  BY <1>1 DEF KnownInv, LockInv
<1>11. BackedInv' /\ GivenInv'
  <2>1. BackedInv'
    BY <1>1, <1>4 DEF BackedInv, Behind
  <2>2. UNION {RulesOf(v)' : v \in Threads} = UNION {RulesOf(v) : v \in Threads}
    BY <1>4
  <2>3. AllGiven => AllGiven'
    BY <1>1, <1>4, <2>2 DEF AllGiven
  <2> QED BY <1>1, <2>1, <2>3 DEF GivenInv
<1>12. ASSUME OnceInv PROVE OnceInv'
  <2>1. \A v \in Threads : OneEach(engines'[v])
    BY <1>3, <1>12, DistinctIs DEF OnceInv, OneEach
  <2>2. EnginesDistinct'
    BY <2>1 DEF EnginesDistinct, OneEach, IsInjective
  <2> QED BY <1>1, <1>12, <2>2 DEF OnceInv
<1> QED BY <1>6, <1>7, <1>8, <1>9, <1>10, <1>11, <1>12

(* The rest of the program changes no rule, until the end. *)
LEMMA InstallKeeps ==
  ASSUME IInv, NEW f \in Files, InstallFile(f)
  PROVE  IInv' /\ (OnceInv => OnceInv')
<1> USE DEF IInv
<1>1. /\ folder' = folder \cup {f}
      /\ UNCHANGED <<plugins, loaded, rules, atts, told, engines, hash, msg, known, extracted, lock, job, updates, end>>
  BY DEF InstallFile, Install, global, handlers, dpi
<1>2. \A t \in Threads : RulesOf(t)' = RulesOf(t)
  BY <1>1 DEF RulesOf
<1>3. TypeInv'
  BY <1>1 DEF TypeInv
<1>4. PlugInv'
  BY <1>1, <1>2 DEF PlugInv
<1>5. AttsInv' /\ EndInv' /\ KnownInv' /\ LockInv'
  BY <1>1 DEF AttsInv, EndInv, KnownInv, LockInv
<1>6. BackedInv' /\ GivenInv'
  BY <1>1, <1>2 DEF BackedInv, Behind, GivenInv, AllGiven
<1>7. OnceInv => OnceInv'
  BY <1>1 DEF OnceInv, EnginesDistinct
<1> QED BY <1>3, <1>4, <1>5, <1>6, <1>7

(* The program is to end. *)
LEMMA InterruptKeeps ==
  ASSUME IInv, Interrupt
  PROVE  IInv' /\ (OnceInv => OnceInv')
<1> USE DEF IInv
<1>1. /\ end' = "stopping" /\ end = "no"
      /\ UNCHANGED <<folder, plugins, loaded, rules, atts, told, engines, hash, msg, known, extracted, lock, job, updates>>
  BY DEF Interrupt, Running, pluginVars, global, handlers, dpi
<1>2. \A t \in Threads : RulesOf(t)' = RulesOf(t)
  BY <1>1 DEF RulesOf
<1>3. TypeInv'
  BY <1>1 DEF TypeInv
<1>4. PlugInv'
  BY <1>1, <1>2 DEF PlugInv
<1>5. AttsInv' /\ EndInv' /\ KnownInv' /\ LockInv'
  BY <1>1 DEF AttsInv, EndInv, KnownInv, LockInv
<1>6. BackedInv' /\ GivenInv'
  BY <1>1, <1>2 DEF BackedInv, Behind, GivenInv, AllGiven
<1>7. OnceInv => OnceInv'
  BY <1>1 DEF OnceInv, EnginesDistinct
<1> QED BY <1>3, <1>4, <1>5, <1>6, <1>7

(* A handler without engines needs nothing. *)
LEMMA NoEngines ==
  HandlerHash(<<>>) = {} /\ \A i : i \notin DOMAIN <<>>
BY DEF HandlerHash

(* The handlers are freed. *)
LEMMA UnregisterKeeps ==
  ASSUME IInv, Unregister
  PROVE  IInv' /\ (OnceInv => OnceInv')
<1> USE DEF IInv
<1>1. /\ end' = "released" /\ end = "stopping" /\ engines' = [t \in Threads |-> <<>>]
      /\ hash' = [t \in Threads |-> {}] /\ \A t \in Threads : msg[t] = NoMsg
      /\ UNCHANGED <<folder, plugins, loaded, rules, atts, told, msg, known, extracted, lock, job, updates>>
  BY DEF Unregister, FreeHandlers, pluginVars, global, dpi
<1>2. \A t \in Threads : engines'[t] = <<>> /\ DOMAIN engines'[t] = {}
  BY <1>1
<1>3. \A t \in Threads : RulesOf(t)' = {}
  BY <1>2 DEF RulesOf
<1>4. TypeInv'
  <2>1. <<>> \in Seq(Engine)
    OBVIOUS
  <2>2. engines' \in [Threads -> Seq(Engine)]
    BY <1>1, <2>1
  <2> QED BY <1>1, <2>2 DEF TypeInv
<1>5. PlugInv'
  BY <1>1, <1>3 DEF PlugInv
<1>6. AttsInv'
  <2>1. \A t \in Threads : HandlerHash(engines'[t]) = {}
    BY <1>2, NoEngines
  <2>2. hash' = [t \in Threads |-> HandlerHash(engines'[t])]
    BY <1>1, <2>1
  <2> QED BY <1>1, <1>2, <2>2 DEF AttsInv
<1>7. EndInv' /\ KnownInv' /\ LockInv'
  BY <1>1, <1>2 DEF EndInv, KnownInv, LockInv
<1>8. BackedInv' /\ GivenInv'
  BY <1>1, <1>3 DEF BackedInv, GivenInv, AllGiven
<1>9. OnceInv => OnceInv'
  <2>1. EnginesDistinct'
    <3>1. \A t \in Threads : OneEach(engines'[t])
      BY <1>2 DEF OneEach
    <3> QED BY <3>1 DEF EnginesDistinct, OneEach, IsInjective
  <2> QED BY <1>1, <2>1 DEF OnceInv
<1> QED BY <1>4, <1>5, <1>6, <1>7, <1>8, <1>9

(* Rules, attributes and plugins are forgotten. *)
LEMMA CloseKeeps ==
  ASSUME IInv, Close
  PROVE  IInv' /\ (OnceInv => OnceInv')
<1> USE DEF IInv
<1>1. /\ end' = "closed" /\ end = "released" /\ rules' = <<>> /\ atts' = <<>> /\ plugins' = <<>>
      /\ UNCHANGED <<folder, loaded, told, engines, hash, msg, known, extracted, lock, job, updates>>
  BY DEF Close, CloseAll, handlers, dpi
<1>2. \A t \in Threads : engines[t] = <<>> /\ DOMAIN engines[t] = {} /\ msg[t] = NoMsg
  BY <1>1 DEF EndInv
<1>3. \A t \in Threads : RulesOf(t) = {} /\ RulesOf(t)' = {}
  BY <1>1, <1>2 DEF RulesOf
<1>4. TypeInv'
  <2>1. <<>> \in Seq(RuleIds)
    OBVIOUS
  <2> QED BY <1>1, <2>1 DEF TypeInv
<1>5. PlugInv'
  BY <1>1, <1>3, NoRules DEF PlugInv
<1>6. Indexed(<<>>) /\ Len(<<>>) = 0
  BY NoRules DEF Indexed
<1>7. AttsInv'
  BY <1>1, <1>2, <1>6, NoRules DEF AttsInv
<1>8. EndInv'
  BY <1>1, <1>2, <1>6, NoMsgIs DEF EndInv
<1>9. KnownInv' /\ LockInv'
  BY <1>1 DEF KnownInv, LockInv
<1>10. BackedInv' /\ GivenInv'
  BY <1>1, <1>3 DEF BackedInv, GivenInv, AllGiven
<1>11. OnceInv => OnceInv'
  BY <1>1, NoRules DEF OnceInv, EnginesDistinct
<1> QED BY <1>4, <1>5, <1>7, <1>8, <1>9, <1>10, <1>11

(* Plugins are closed while engines are there. *)
LEMMA ExitAtOnceKeeps ==
  ASSUME IInv, ExitAtOnce
  PROVE  IInv' /\ (OnceInv => OnceInv')
<1> USE DEF IInv
<1>1. /\ end' = "forced" /\ end \in {"stopping", "released"} /\ plugins' = <<>>
      /\ UNCHANGED <<folder, loaded, rules, atts, told, engines, hash, msg, known, extracted, lock, job, updates>>
  BY DEF ExitAtOnce, CloseAll, global, handlers, dpi
<1>2. \A t \in Threads : RulesOf(t)' = RulesOf(t)
  BY <1>1 DEF RulesOf
<1>3. TypeInv'
  BY <1>1 DEF TypeInv
<1>4. PlugInv'
  BY <1>1, <1>2 DEF PlugInv
<1>5. AttsInv' /\ EndInv' /\ KnownInv' /\ LockInv'
  BY <1>1 DEF AttsInv, EndInv, KnownInv, LockInv
<1>6. BackedInv' /\ GivenInv'
  BY <1>1, <1>2 DEF BackedInv, Behind, GivenInv, AllGiven
<1>7. OnceInv => OnceInv'
  BY <1>1 DEF OnceInv, EnginesDistinct
<1> QED BY <1>3, <1>4, <1>5, <1>6, <1>7

(* So they are by the exit of an updater. *)
LEMMA ExitFailedKeeps ==
  ASSUME IInv, NEW u \in Updaters, ExitFailed(u)
  PROVE  IInv' /\ (OnceInv => OnceInv')
<1> USE DEF IInv
<1>1. /\ end' = "failed" /\ end \in {"no", "stopping", "released"} /\ plugins' = <<>>
      /\ UNCHANGED <<folder, loaded, rules, atts, told, engines, hash, msg, known, extracted, lock, job, updates>>
  BY DEF ExitFailed, CloseAll, global, handlers, dpi
<1>2. \A t \in Threads : RulesOf(t)' = RulesOf(t)
  BY <1>1 DEF RulesOf
<1>3. TypeInv'
  BY <1>1 DEF TypeInv
<1>4. PlugInv'
  BY <1>1, <1>2 DEF PlugInv
<1>5. AttsInv' /\ EndInv' /\ KnownInv' /\ LockInv'
  BY <1>1 DEF AttsInv, EndInv, KnownInv, LockInv
<1>6. BackedInv' /\ GivenInv'
  BY <1>1, <1>2 DEF BackedInv, Behind, GivenInv, AllGiven
<1>7. OnceInv => OnceInv'
  BY <1>1 DEF OnceInv, EnginesDistinct
<1> QED BY <1>3, <1>4, <1>5, <1>6, <1>7

(* A step that changes nothing. *)
LEMMA StayKeeps ==
  ASSUME IInv, UNCHANGED vars
  PROVE  IInv' /\ (OnceInv => OnceInv')
<1>1. UNCHANGED <<folder, plugins, loaded, rules, atts, told, engines, hash, msg, known, extracted, lock, job, updates, end>>
  BY DEF vars, pluginVars, global, handlers, dpi
<1>2. \A t \in Threads : RulesOf(t)' = RulesOf(t)
  BY <1>1 DEF RulesOf
<1>3. TypeInv' /\ PlugInv'
  BY <1>1, <1>2 DEF IInv, TypeInv, PlugInv
<1>4. AttsInv' /\ EndInv' /\ KnownInv' /\ LockInv'
  BY <1>1 DEF IInv, AttsInv, EndInv, KnownInv, LockInv
<1>5. BackedInv' /\ GivenInv'
  BY <1>1, <1>2 DEF IInv, BackedInv, Behind, GivenInv, AllGiven
<1>6. OnceInv => OnceInv'
  BY <1>1 DEF OnceInv, EnginesDistinct
<1> QED BY <1>3, <1>4, <1>5, <1>6 DEF IInv

(* Every step keeps the invariant; that rules are there once needs one caller. *)
LEMMA NextKeeps ==
  ASSUME IInv, [Next]_vars
  PROVE  IInv' /\ (OnceInv /\ (\A v, w \in Updaters : v = w) => OnceInv')
<1>1. ASSUME NEW u \in Updaters, Update(u)
      PROVE  IInv' /\ (OnceInv /\ (\A v, w \in Updaters : v = w) => OnceInv')
  <2>0. CASE LoadFails(u)
    BY <2>0, LoadFailsKeeps
  <2>1. CASE \E mask \in Masks : AskAdd(u, mask)
    BY <2>1, AskAddKeeps
  <2>2. CASE \E ids \in Removals : AskRemove(u, ids)
    BY <2>2, AskRemoveKeeps
  <2>3. CASE AddGlobal(u)
    BY <2>3, AddGlobalKeeps
  <2>4. CASE AddToThread(u)
    BY <2>4, AddToThreadKeeps
  <2>5. CASE Register(u)
    BY <2>5, RegisterKeeps
  <2>6. CASE RemoveGlobal(u)
    BY <2>6, RemoveGlobalKeeps
  <2>7. CASE RemoveFromThread(u)
    BY <2>7, RemoveFromThreadKeeps
  <2>8. CASE ExitFailed(u)
    BY <2>8, ExitFailedKeeps
  <2> QED BY <1>1, <2>0, <2>1, <2>2, <2>3, <2>4, <2>5, <2>6, <2>7, <2>8 DEF Update
<1>2. CASE \E i \in Found : Send({i})
  BY <1>2, SendKeeps
<1>3. CASE \E t \in Threads : Work(t)
  BY <1>3, WorkKeeps
<1>4. CASE \E f \in Files : InstallFile(f)
  BY <1>4, InstallKeeps
<1>5. CASE Interrupt
  BY <1>5, InterruptKeeps
<1>6. CASE Unregister
  BY <1>6, UnregisterKeeps
<1>7. CASE Close
  BY <1>7, CloseKeeps
<1>8. CASE ExitAtOnce
  BY <1>8, ExitAtOnceKeeps
<1>9. CASE UNCHANGED vars
  BY <1>9, StayKeeps
<1> QED BY <1>1, <1>2, <1>3, <1>4, <1>5, <1>6, <1>7, <1>8, <1>9 DEF Next

-----------------------------------------------------------------------------
(* The invariant always holds. *)
LEMMA SpecIInv == Spec => []IInv
<1>1. Init => IInv
  BY InitIInv
<1>2. IInv /\ [Next]_vars => IInv'
  BY NextKeeps
<1> QED BY <1>1, <1>2, PTL DEF Spec

(* The program calls mmt_sec_add_rules and mmt_sec_remove_rules from its main
   thread only.  With two callers, one could decide what is new while the other
   adds it: that is decided before the lock is taken. *)
OneCaller == \A v, w \in Updaters : v = w

(* With one caller, rules are there once. *)
LEMMA SpecOnceInv ==
  ASSUME OneCaller
  PROVE  Spec => [](IInv /\ OnceInv)
<1>1. Init => IInv /\ OnceInv
  BY InitIInv
<1>2. IInv /\ OnceInv /\ [Next]_vars => (IInv /\ OnceInv)'
  BY NextKeeps DEF OneCaller
<1> QED BY <1>1, <1>2, PTL DEF Spec

(* An engine's hash and what its functions were told, from the attributes. *)
LEMMA EngineHash ==
  ASSUME IInv, NEW t \in Threads, NEW i \in DOMAIN engines[t]
  PROVE  LET e == engines[t][i] IN
         /\ e.hash = {k \in DOMAIN atts : atts[k] \in RuleAtts[e.rule]}
         /\ told[e.rule] = [a \in RuleAtts[e.rule] |-> Index(atts, a)]
         /\ e \in Engine
<1> DEFINE e == engines[t][i]
<1>1. Indexed(atts) /\ EngineRight(atts, told, e)
  BY DEF IInv, AttsInv
<1>2. e \in Engine
  BY DEF IInv, TypeInv
<1> HIDE DEF e
<1>3. Covers(atts, e.rule)
  BY <1>1 DEF EngineRight, Told
<1>4. HashOf(atts, e.rule) = {k \in DOMAIN atts : atts[k] \in RuleAtts[e.rule]}
  BY <1>1, <1>3, HashIs
<1>5. /\ e.hash = {k \in DOMAIN atts : atts[k] \in RuleAtts[e.rule]}
      /\ told[e.rule] = [a \in RuleAtts[e.rule] |-> Index(atts, a)] /\ e \in Engine
  BY <1>1, <1>2, <1>4 DEF EngineRight, Told
<1> QED BY <1>5 DEF e

(* A handler needs only attributes that have an index. *)
LEMMA HandlerNeeds ==
  ASSUME IInv, NEW t \in Threads
  PROVE  hash[t] = HandlerHash(engines[t]) /\ hash[t] \subseteq DOMAIN atts
<1>1. hash[t] = HandlerHash(engines[t])
  BY DEF IInv, AttsInv
<1>2. \A i \in DOMAIN engines[t] : engines[t][i].hash \subseteq DOMAIN atts
  BY EngineHash
<1> QED BY <1>1, <1>2 DEF HandlerHash

(* After any number of additions and removals, the hash of every engine is the
   indices its attributes have now, its functions were told the same, and a
   handler asks for what its engines need: no message is kept from a rule
   (mmt_security.c:720, "to keep the order/index of the rested proto_att"). *)
THEOREM HashSafe == Spec => []HashCurrent
<1>1. ASSUME IInv PROVE HashCurrent
  <2> SUFFICES ASSUME NEW t \in Threads
               PROVE  /\ hash[t] = HandlerHash(engines[t])
                      /\ \A i \in DOMAIN engines[t] :
                           LET id == engines[t][i].rule
                           IN  /\ engines[t][i].hash = {k \in DOMAIN atts : atts[k] \in RuleAtts[id]}
                               /\ told[id] = [a \in RuleAtts[id] |-> CHOOSE k \in DOMAIN atts : atts[k] = a]
    BY DEF HashCurrent
  <2>1. hash[t] = HandlerHash(engines[t])
    BY <1>1, HandlerNeeds
  <2>2. ASSUME NEW i \in DOMAIN engines[t]
        PROVE  LET id == engines[t][i].rule
               IN  /\ engines[t][i].hash = {k \in DOMAIN atts : atts[k] \in RuleAtts[id]}
                   /\ told[id] = [a \in RuleAtts[id] |-> CHOOSE k \in DOMAIN atts : atts[k] = a]
    BY <1>1, EngineHash DEF Index
  <2> QED BY <2>1, <2>2
<1> QED BY <1>1, SpecIInv, PTL

(* Between two commands the program looks for, and the DPI extracts, every
   attribute a verified rule reads with what its data needs
   (main_sec_standalone.c:245, "register the new proto_atts if need"). *)
THEOREM NeedsSafe == Spec => []NeedsExtracted
<1>1. ASSUME IInv PROVE NeedsExtracted
  <2> SUFFICES ASSUME end # "closed", \A u \in Updaters : job[u].pc = "idle"
               PROVE  known = Len(atts) /\ \A t \in Threads : hash[t] \subseteq Found
    BY DEF NeedsExtracted
  <2>1. known = Len(atts) /\ Registered(atts) \subseteq extracted
    BY <1>1 DEF IInv, KnownInv, Adding
  <2>2. DOMAIN atts = 1 .. known
    <3>1. DOMAIN atts = 1 .. Len(atts)
      BY <1>1, LenProperties DEF IInv, AttsInv, Indexed
    <3> QED BY <2>1, <3>1
  <2>3. DOMAIN atts \subseteq Found
    <3> SUFFICES ASSUME NEW i \in DOMAIN atts PROVE i \in Found
      OBVIOUS
    <3>1. atts[i] \in ToSet(atts)
      BY DEF ToSet
    <3>2. atts[i] \in extracted /\ (atts[i] \in DOMAIN Companion => Companion[atts[i]] \in extracted)
      BY <2>1, <3>1 DEF Registered
    <3> QED BY <2>2, <3>2 DEF Found
  <2>4. \A t \in Threads : hash[t] \subseteq DOMAIN atts
    BY <1>1, HandlerNeeds
  <2> QED BY <2>1, <2>3, <2>4
<1> QED BY <1>1, SpecIInv, PTL

(* Between two changes of the rules no thread verifies a rule that was removed,
   and no thread ever has an engine whose plugin is closed, unless exit did not
   wait or an assertion of an update failed (mmt_single_security.c:285, plugins_engine.c:333). *)
THEOREM BackedSafe == Spec => []EnginesBacked
<1>1. ASSUME IInv PROVE RemovedGone
  <2> SUFFICES ASSUME lock = 0, NEW t \in Threads PROVE RulesOf(t) \subseteq ToSet(rules)
    BY DEF RemovedGone
  <2>1. \A u \in Updaters : job[u].pc \notin Holding
    BY <1>1, UpdateAssumption DEF IInv, LockInv
  <2>2. ~Behind(t)
    BY <2>1 DEF Behind, Holding
  <2> QED BY <1>1, <2>2 DEF IInv, BackedInv
<1>2. ASSUME IInv PROVE PluginsOpen
  <2> SUFFICES ASSUME end \notin {"forced", "failed"}, NEW t \in Threads PROVE RulesOf(t) \subseteq CodeOf(plugins)
    BY DEF PluginsOpen, CodeOf
  <2>1. CASE end = "closed"
    <3>1. engines[t] = <<>>
      BY <1>2, <2>1 DEF IInv, EndInv
    <3>2. DOMAIN engines[t] = {}
      BY <3>1
    <3> QED BY <3>2 DEF RulesOf
  <2>2. CASE end # "closed"
    <3> DEFINE s == [plugins |-> plugins, loaded |-> loaded]
    <3>1. Apart(s) /\ RulesOf(t) \subseteq ToSet(loaded) /\ s.plugins = plugins /\ s.loaded = loaded
      BY <1>2, <2>2 DEF IInv, PlugInv
    <3> HIDE DEF s
    <3> QED BY <3>1 DEF Apart
  <2> QED BY <2>1, <2>2
<1>3. IInv => EnginesBacked
  BY <1>1, <1>2 DEF EnginesBacked
<1> QED BY <1>3, SpecIInv, PTL

(* Ids name one plugin each, a handler has one engine for a rule, and at the
   start each rule is given to one thread (mmt_security.h:63, "The other rules
   will be attributed equally to the rest of threads"). *)
THEOREM RulesSafe ==
  ASSUME OneCaller
  PROVE  Spec => []RulesSound
<1>1. ASSUME IInv PROVE TypeOK
  <2>1. folder \subseteq Files /\ rules \in Seq(RuleIds) /\ loaded \in Seq(RuleIds)
    BY <1>1 DEF IInv, TypeInv, PlugInv
  <2>2. ASSUME NEW t \in Threads, NEW i \in DOMAIN engines[t]
        PROVE  /\ engines[t][i].rule \in RuleIds /\ engines[t][i].hash \subseteq DOMAIN atts
               /\ engines[t][i].alerts \in 0 .. MaxAlerts
    BY <1>1, EngineHash DEF Engine, Counts
  <2>3. \A t \in Threads : hash[t] \subseteq DOMAIN atts /\ msg[t].count <= Len(atts)
    BY <1>1, HandlerNeeds DEF IInv, EndInv
  <2>4. /\ lock \in Updaters \cup {0} /\ updates \in 0 .. MaxUpdates
        /\ end \in {"no", "stopping", "released", "closed", "forced", "failed"}
    BY <1>1 DEF IInv, TypeInv
  <2>5. \A u \in Updaters : job[u].pc \in Pcs /\ job[u].turn \in Threads
    BY <1>1 DEF IInv, TypeInv, Jobs
  <2> QED BY <2>1, <2>2, <2>3, <2>4, <2>5 DEF TypeOK, Pcs
<1>2. ASSUME IInv PROVE PluginsDisjoint
  <2>1. IsInjective(loaded)
    BY <1>2 DEF IInv, PlugInv
  <2>2. CASE plugins = <<>>
    <3>1. DOMAIN plugins = {}
      BY <2>2
    <3> QED BY <2>1, <2>2, <3>1 DEF PluginsDisjoint
  <2>3. CASE plugins # <<>>
    <3> DEFINE s == [plugins |-> plugins, loaded |-> loaded]
    <3>1. Apart(s) /\ s.plugins = plugins /\ s.loaded = loaded
      BY <1>2, <2>3 DEF IInv, PlugInv
    <3> HIDE DEF s
    <3> QED BY <2>1, <3>1 DEF Apart, PluginsDisjoint, CodeOf
  <2> QED BY <2>2, <2>3
<1>3. IInv /\ OnceInv => RulesSound
  BY <1>1, <1>2 DEF IInv, OnceInv, GivenInv, RulesSound
<1> QED BY <1>3, SpecOnceInv, PTL

(* Between two arrays of engines no count goes down. *)
Grown(es, fs) ==
  \A k \in DOMAIN es : \A j \in DOMAIN fs : es[k].rule = fs[j].rule => fs[j].alerts >= es[k].alerts

(* An array that is not changed. *)
LEMMA SameGrown ==
  ASSUME NEW es \in Seq(Engine), OneEach(es)
  PROVE  Grown(es, es)
<1> SUFFICES ASSUME NEW k \in DOMAIN es, NEW j \in DOMAIN es, es[k].rule = es[j].rule
             PROVE  es[j].alerts >= es[k].alerts
  BY DEF Grown
<1>1. k = j
  BY DEF OneEach
<1>2. es[k] \in Engine
  OBVIOUS
<1>3. es[k].alerts \in 0 .. MaxAlerts
  BY <1>2 DEF Engine, Counts
<1> QED BY <1>1, <1>3, UpdateAssumption

(* No step makes a count of an engine smaller. *)
LEMMA EnginesGrow ==
  ASSUME IInv, OnceInv, [Next]_vars, NEW v \in Threads
  PROVE  Grown(engines[v], engines'[v])
<1>1. engines \in [Threads -> Seq(Engine)] /\ \A t \in Threads : OneEach(engines[t]) /\ Grown(engines[t], engines[t])
  <2>1. engines \in [Threads -> Seq(Engine)] /\ \A t \in Threads : OneEach(engines[t])
    BY DistinctIs DEF IInv, TypeInv, OnceInv
  <2>2. \A t \in Threads : Grown(engines[t], engines[t])
    BY <2>1, SameGrown
  <2> QED BY <2>1, <2>2
<1>2. ASSUME UNCHANGED engines PROVE Grown(engines[v], engines'[v])
  BY <1>1, <1>2
<1>3. ASSUME NEW u \in Updaters, AddToThread(u) PROVE Grown(engines[v], engines'[v])
  <2>1. PICK t, ids : t = job[u].turn /\ ids = job[u].mask[t]
    OBVIOUS
  <2>2. PICK rs, es : rs = ToAdd(t, ids) /\ es = engines[t] \o Engines(atts, rs)
    OBVIOUS
  <2>3. t \in Threads
    BY <2>1 DEF IInv, TypeInv, Jobs
  <2>4. engines' = [engines EXCEPT ![t] = es]
    BY <1>3, <2>1, <2>2 DEF AddToThread, AddRules, Engines
  <2>5. /\ \A i \in DOMAIN engines[t] : i \in DOMAIN es /\ es[i] = engines[t][i]
        /\ \A i \in DOMAIN es : i \in DOMAIN engines[t] \/ es[i].rule \in ToSet(rs) \ RulesOf(t)
    <3>1. TypeInv /\ AttsInv
      BY DEF IInv
    <3> QED BY <2>2, <2>3, <3>1, AddedEngines
  <2>6. ASSUME NEW k \in DOMAIN engines[t], NEW j \in DOMAIN es, engines[t][k].rule = es[j].rule
        PROVE  es[j].alerts >= engines[t][k].alerts
    <3>1. j \in DOMAIN engines[t]
      BY <2>5, <2>6 DEF RulesOf
    <3> QED BY <1>1, <2>3, <2>5, <2>6, <3>1 DEF Grown
  <2>7. Grown(engines[t], es)
    BY <2>6 DEF Grown
  <2> QED BY <1>1, <2>3, <2>4, <2>7
<1>4. ASSUME NEW u \in Updaters, RemoveFromThread(u) PROVE Grown(engines[v], engines'[v])
  <2>1. PICK t : t = job[u].turn
    OBVIOUS
  <2>2. PICK es : es = Keep(engines[t])
    OBVIOUS
  <2>3. t \in Threads
    BY <2>1 DEF IInv, TypeInv, Jobs
  <2>4. engines' = [engines EXCEPT ![t] = es]
    BY <1>4, <2>1, <2>2 DEF RemoveFromThread
  <2>5. \A j \in DOMAIN es : \E k \in DOMAIN engines[t] : es[j] = engines[t][k]
    <3>1. engines[t] \in Seq(Engine)
      BY <1>1, <2>3
    <3> QED BY <2>2, <3>1, KeepKeeps
  <2>6. Grown(engines[t], es)
    BY <1>1, <2>3, <2>5 DEF Grown
  <2> QED BY <1>1, <2>3, <2>4, <2>6
<1>5. ASSUME NEW t \in Threads, Work(t) PROVE Grown(engines[v], engines'[v])
  <2>1. /\ \A w \in Threads : w # t => engines'[w] = engines[w]
        /\ DOMAIN engines'[t] = DOMAIN engines[t]
        /\ \A i \in DOMAIN engines[t] :
              /\ engines'[t][i].rule = engines[t][i].rule
              /\ engines'[t][i].alerts >= engines[t][i].alerts
    BY <1>5, WorkDoes
  <2>2. Grown(engines[t], engines'[t])
    BY <1>1, <2>1 DEF Grown, OneEach
  <2> QED BY <1>1, <2>1, <2>2
<1>6. ASSUME Unregister PROVE Grown(engines[v], engines'[v])
  <2>1. engines'[v] = <<>> /\ DOMAIN engines'[v] = {}
    BY <1>6 DEF Unregister, FreeHandlers
  <2> QED BY <2>1 DEF Grown
<1>7. CASE \E u \in Updaters : Update(u)
  <2> PICK u \in Updaters : Update(u)
    BY <1>7
  <2>1. CASE AddToThread(u) \/ RemoveFromThread(u)
    BY <2>1, <1>3, <1>4
  <2>2. CASE \/ \E mask \in Masks : AskAdd(u, mask)
             \/ \E ids \in Removals : AskRemove(u, ids)
             \/ LoadFails(u) \/ ExitFailed(u)
    <3>1. UNCHANGED engines
      BY <2>2 DEF AskAdd, AskRemove, LoadFails, ExitFailed, Begin, handlers
    <3> QED BY <1>2, <3>1
  <2>3. CASE AddGlobal(u) \/ Register(u) \/ RemoveGlobal(u)
    <3>1. UNCHANGED engines
      BY <2>3 DEF AddGlobal, Register, RemoveGlobal, handlers
    <3> QED BY <1>2, <3>1
  <2> QED BY <2>1, <2>2, <2>3 DEF Update
<1>8. CASE \/ \E i \in Found : Send({i})
           \/ \E f \in Files : InstallFile(f)
           \/ Interrupt \/ Close \/ ExitAtOnce \/ UNCHANGED vars
  <2>1. UNCHANGED engines
    BY <1>8 DEF Send, InstallFile, Interrupt, Close, ExitAtOnce, vars, handlers
  <2> QED BY <1>2, <2>1
<1> QED BY <1>5, <1>6, <1>7, <1>8 DEF Next

(* The verdicts counted for a rule stay with it while engines are swapped,
   copied and added around it (mmt_single_security.c:237 and 393). *)
THEOREM AlertsSafe ==
  ASSUME OneCaller
  PROVE  Spec => AlertsKept
<1> DEFINE A == \A t \in Threads : \A id \in RulesOf(t) :
                  id \in RulesOf(t)' => AlertsOf(t, id)' >= AlertsOf(t, id)
<1>1. ASSUME IInv, OnceInv, [Next]_vars PROVE A
  <2> SUFFICES ASSUME NEW t \in Threads, NEW id \in RulesOf(t), id \in RulesOf(t)'
               PROVE  AlertsOf(t, id)' >= AlertsOf(t, id)
    OBVIOUS
  <2>1. Grown(engines[t], engines'[t])
    BY <1>1, EnginesGrow
  <2>2. PICK k : k = CHOOSE i \in DOMAIN engines[t] : engines[t][i].rule = id
    OBVIOUS
  <2>3. PICK j : j = CHOOSE i \in DOMAIN engines'[t] : engines'[t][i].rule = id
    OBVIOUS
  <2>4. k \in DOMAIN engines[t] /\ engines[t][k].rule = id
    BY <2>2 DEF RulesOf
  <2>5. j \in DOMAIN engines'[t] /\ engines'[t][j].rule = id
    BY <2>3 DEF RulesOf
  <2>6. AlertsOf(t, id) = engines[t][k].alerts /\ AlertsOf(t, id)' = engines'[t][j].alerts
    BY <2>2, <2>3 DEF AlertsOf
  <2> QED BY <2>1, <2>4, <2>5, <2>6 DEF Grown
<1>2. IInv /\ OnceInv /\ [Next]_vars => [A]_vars
  BY <1>1
<1>3. Spec => [][A]_vars
  <2> HIDE DEF A
  <2> QED BY <1>2, SpecOnceInv, PTL DEF Spec
<1> QED BY <1>3 DEF AlertsKept
=============================================================================
