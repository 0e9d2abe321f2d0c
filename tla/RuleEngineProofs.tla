--------------------------- MODULE RuleEngineProofs ---------------------------
(***************************************************************************)
(* Theorems about the engine of a rule, in three parts, each resting on    *)
(* the ones before it:                                                     *)
(*                                                                         *)
(*   - its two stores agree at every step of every walk, and the walk      *)
(*     never goes on with what was freed (Sound);                          *)
(*   - the attempts at the rule: which instances belong to one, what a     *)
(*     verdict ends, and that none is forgotten while it can still go on   *)
(*     (Attempts, Ending, Patient);                                        *)
(*   - what the verdicts of a rule "a THEN b" mean (Truth).                *)
(*                                                                         *)
(* They are about the classes of rules named in RuleFsm, StepByStep and    *)
(* narrower ones.                                                          *)
(***************************************************************************)
EXTENDS RuleVerdicts, FiniteSetTheorems, SequenceTheorems, WellFoundedInduction, TLAPS

-----------------------------------------------------------------------------
(* A set of natural numbers has a least element. *)
LEMMA Least == ASSUME NEW T \in SUBSET Nat, T # {} PROVE \E x \in T : \A y \in T : x <= y
<1> DEFINE R == OpToRel(<, Nat)
<1>1. IsWellFoundedOn(R, Nat)
  BY NatLessThanWellFounded
<1>2. \A x \in Nat, y \in Nat : <<y, x>> \in R <=> y < x
  BY DEF OpToRel
<1>3. PICK r : IsWellFoundedOn(r, Nat) /\ \A x \in Nat, y \in Nat : <<y, x>> \in r <=> y < x
  <2> HIDE DEF R
  <2> QED BY <1>1, <1>2
<1>4. PICK x \in T : \A y \in T : ~(<<y, x>> \in r)
  BY <1>3, WFMin
<1>5. \A y \in T : ~(y < x)
  BY <1>3, <1>4
<1> QED BY <1>5

(* F[i] is what Only keeps of the first i members of a list, up to n. *)
Firsts(list, K, n, F) ==
  F = [i \in 0 .. n |-> IF i = 0 THEN <<>>
                       ELSE IF list[i] \in K THEN Append(F[i - 1], list[i]) ELSE F[i - 1]]

(* The recursion of Only ends. *)
LEMMA OnlyDefined ==
  ASSUME NEW list, NEW K, NEW n \in Nat
  PROVE  \E F : Firsts(list, K, n, F)
<1> DEFINE Body(F, i) == IF i = 0 THEN <<>>
                         ELSE IF list[i] \in K THEN Append(F[i - 1], list[i]) ELSE F[i - 1]
           Good(m) == \E F : F = [i \in 0 .. m |-> Body(F, i)]
           T == {m \in Nat : ~Good(m)}
<1>1. SUFFICES ASSUME T # {} PROVE FALSE
  BY DEF Firsts
<1>2. PICK m \in T : \A k \in T : m <= k
  <2> HIDE DEF T
  <2>1. T \subseteq Nat
    BY DEF T
  <2> QED BY <1>1, <2>1, Least
<1>3. m # 0
  <2>1. [i \in 0 .. 0 |-> <<>>] = [i \in 0 .. 0 |-> Body([j \in 0 .. 0 |-> <<>>], i)]
    OBVIOUS
  <2>2. Good(0)
    BY <2>1
  <2> QED BY <2>2
<1>4. m - 1 \in Nat /\ m \in Nat /\ ~(m <= m - 1)
  BY <1>3
<1>5. PICK G : G = [i \in 0 .. m - 1 |-> Body(G, i)]
  BY <1>2, <1>4
<1> DEFINE F == [i \in 0 .. m |-> IF i = m THEN Body(G, m) ELSE G[i]]
<1>6. ASSUME NEW i \in 0 .. m PROVE F[i] = Body(F, i)
  <2>1. CASE i = 0
    BY <2>1, <1>3, <1>4, <1>5
  <2>2. CASE i \in 1 .. m
    <3>1. F[i - 1] = G[i - 1]
      BY <2>2, <1>4
    <3>2. Body(F, i) = Body(G, i)
      BY <3>1, <2>2
    <3>3. CASE i = m
      BY <3>2, <3>3
    <3>4. CASE i # m
      <4>1. i \in 0 .. m - 1
        BY <3>4, <2>2, <1>4
      <4>2. G[i] = Body(G, i)
        BY <1>5, <4>1
      <4> QED BY <4>2, <3>2, <3>4
    <3> QED BY <3>3, <3>4
  <2> QED BY <2>1, <2>2, <1>4
<1>7. F = [i \in 0 .. m |-> Body(F, i)]
  <2>1. F = [i \in 0 .. m |-> F[i]]
    OBVIOUS
  <2> HIDE DEF F
  <2> QED BY <2>1, <1>6
<1>8. Good(m)
  <2> HIDE DEF F
  <2> QED BY <1>7
<1> QED BY <1>8, <1>2

(* Only keeps of a list what is in K, once if it was there once. *)
LEMMA OnlyKeeps ==
  ASSUME NEW S, NEW list \in Seq(S), NEW K
  PROVE  /\ Only(list, K) \in Seq(S)
         /\ \A x : x \in ToSet(Only(list, K)) <=> x \in ToSet(list) /\ x \in K
         /\ IsInjective(list) => IsInjective(Only(list, K))
<1> DEFINE Body(F, i) == IF i = 0 THEN <<>>
                         ELSE IF list[i] \in K THEN Append(F[i - 1], list[i]) ELSE F[i - 1]
           F == CHOOSE g : Firsts(list, K, Len(list), g)
<1>1. Len(list) \in Nat
  OBVIOUS
<1>2. Firsts(list, K, Len(list), F)
  BY <1>1, OnlyDefined
<1>3. Only(list, K) = F[Len(list)]
  BY DEF Only, Firsts
<1> HIDE DEF F
<1>4. F[0] = <<>> /\ \A i \in 1 .. Len(list) : F[i] = IF list[i] \in K THEN Append(F[i - 1], list[i]) ELSE F[i - 1]
  <2>1. F = [i \in 0 .. Len(list) |-> Body(F, i)]
    BY <1>2 DEF Firsts
  <2>2. \A i \in 0 .. Len(list) : F[i] = Body(F, i)
    <3> HIDE DEF Body
    <3> QED BY <2>1
  <2>3. \A i \in 1 .. Len(list) : i # 0 /\ i \in 0 .. Len(list)
    BY <1>1
  <2> QED BY <2>2, <2>3, <1>1
<1> DEFINE Held(i) ==
      /\ F[i] \in Seq(S)
      /\ \A x : (\E k \in 1 .. Len(F[i]) : F[i][k] = x) <=> (\E k \in 1 .. i : list[k] = x) /\ x \in K
      /\ IsInjective(list) => \A j, k \in 1 .. Len(F[i]) : F[i][j] = F[i][k] => j = k
<1>5. Held(0)
  BY <1>4
<1>6. ASSUME NEW i \in 1 .. Len(list), Held(i - 1) PROVE Held(i)
  <2>0. list[i] \in S /\ i - 1 \in Nat
    BY <1>1
  <2>1. CASE list[i] \notin K
    <3>1. F[i] = F[i - 1]
      BY <1>4, <2>1
    <3>2. \A x : (\E k \in 1 .. i : list[k] = x) /\ x \in K <=> (\E k \in 1 .. i - 1 : list[k] = x) /\ x \in K
      BY <2>1, <2>0
    <3> QED BY <3>1, <3>2, <1>6
  <2>2. CASE list[i] \in K
    <3> DEFINE f == F[i - 1]
               y == list[i]
    <3>1. F[i] = Append(f, y)
      BY <1>4, <2>2
    <3>2. f \in Seq(S) /\ y \in S
      BY <1>6, <2>0
    <3>3. /\ \A x : (\E k \in 1 .. Len(f) : f[k] = x) <=> (\E k \in 1 .. i - 1 : list[k] = x) /\ x \in K
          /\ IsInjective(list) => \A j, k \in 1 .. Len(f) : f[j] = f[k] => j = k
      BY <1>6
    <3>4. y = list[i]
      OBVIOUS
    <3> HIDE DEF f, y
    <3>5. /\ F[i] \in Seq(S) /\ Len(F[i]) = Len(f) + 1 /\ Len(f) \in Nat
          /\ \A k \in 1 .. Len(f) : F[i][k] = f[k]
          /\ F[i][Len(f) + 1] = y
      BY <3>1, <3>2
    <3>6. ASSUME NEW x
          PROVE (\E k \in 1 .. Len(F[i]) : F[i][k] = x) <=> (\E k \in 1 .. i : list[k] = x) /\ x \in K
      <4>1. (\E k \in 1 .. Len(F[i]) : F[i][k] = x) <=> (\E k \in 1 .. Len(f) : f[k] = x) \/ x = y
        BY <3>5
      <4>2. (\E k \in 1 .. i : list[k] = x) <=> (\E k \in 1 .. i - 1 : list[k] = x) \/ x = y
        BY <2>0, <3>4
      <4> QED BY <4>1, <4>2, <3>3, <2>2, <3>4
    <3>7. ASSUME IsInjective(list), NEW j \in 1 .. Len(F[i]), NEW k \in 1 .. Len(F[i]), F[i][j] = F[i][k]
          PROVE  j = k
      <4>1. \A l \in 1 .. Len(f) : f[l] # y
        <5> SUFFICES ASSUME NEW l \in 1 .. Len(f), f[l] = y PROVE FALSE
          OBVIOUS
        <5>1. PICK k0 \in 1 .. i - 1 : list[k0] = y
          BY <3>3
        <5>2. k0 = i
          BY <5>1, <3>4, <3>7, <1>1 DEF IsInjective
        <5> QED BY <5>2, <5>1, <2>0
      <4> QED BY <4>1, <3>3, <3>5, <3>7
    <3> QED BY <3>5, <3>6, <3>7
  <2> QED BY <2>1, <2>2
<1>7. Held(Len(list))
  <2> DEFINE T == {i \in 0 .. Len(list) : ~Held(i)}
  <2> HIDE DEF Held
  <2>1. SUFFICES ASSUME T # {} PROVE FALSE
    BY <1>1
  <2>2. PICK i \in T : \A k \in T : i <= k
    <3>1. T \in SUBSET Nat
      BY <1>1
    <3> HIDE DEF T
    <3> QED BY <2>1, <3>1, Least
  <2>3. i \in 1 .. Len(list) /\ i - 1 \in 0 .. Len(list)
    BY <2>2, <1>5, <1>1
  <2>4. Held(i - 1)
    BY <2>2, <2>3
  <2> QED BY <2>2, <2>3, <2>4, <1>6
<1>8. DOMAIN F[Len(list)] = 1 .. Len(F[Len(list)])
  BY <1>7
<1>9. ToSet(F[Len(list)]) = {F[Len(list)][k] : k \in 1 .. Len(F[Len(list)])} /\ ToSet(list) = {list[k] : k \in 1 .. Len(list)}
  BY <1>8 DEF ToSet
<1> HIDE DEF Body
<1>10. \A x : x \in ToSet(F[Len(list)]) <=> x \in ToSet(list) /\ x \in K
  BY <1>7, <1>9
<1>11. IsInjective(list) => IsInjective(F[Len(list)])
  BY <1>7, <1>8 DEF IsInjective
<1> QED BY <1>3, <1>7, <1>10, <1>11

LEMMA EraseKeeps ==
  ASSUME NEW S, NEW list \in Seq(S), NEW a
  PROVE  /\ Erase(list, a) \in Seq(S)
         /\ \A x : x \in ToSet(Erase(list, a)) <=> x \in ToSet(list) /\ x # a
         /\ IsInjective(list) => IsInjective(Erase(list, a))
<1>1. \A x : x \in ToSet(list) \ {a} <=> x \in ToSet(list) /\ x # a
  OBVIOUS
<1>2. Erase(list, a) = Only(list, ToSet(list) \ {a})
  BY DEF Erase
<1> QED BY <1>1, <1>2, OnlyKeeps

LEMMA FiniteSegment ==
  ASSUME NEW c \in Nat
  PROVE  IsFiniteSet(1 .. c) /\ Cardinality(1 .. c) = c
BY FS_Interval

(* An address is found for every new instance. *)
LEMMA FreshIsFree ==
  ASSUME NEW used \in SUBSET (Nat \ {0}), IsFiniteSet(used)
  PROVE  Fresh(used) \in Nat \ {0} /\ Fresh(used) \notin used
<1> DEFINE T == (1 .. Cardinality(used) + 1) \ used
<1>1. Cardinality(used) \in Nat
  BY FS_CardinalityType
<1>2. T # {}
  <2> SUFFICES ASSUME 1 .. Cardinality(used) + 1 \subseteq used PROVE FALSE
    OBVIOUS
  <2>1. Cardinality(1 .. Cardinality(used) + 1) <= Cardinality(used)
    BY FS_Subset
  <2>2. Cardinality(1 .. Cardinality(used) + 1) = Cardinality(used) + 1
    BY <1>1, FS_Interval
  <2> QED BY <1>1, <2>1, <2>2
<1>3. T \in SUBSET Nat
  BY <1>1
<1>4. PICK n \in T : \A k \in T : n <= k
  <2> HIDE DEF T
  <2> QED BY <1>2, <1>3, Least
<1>5. n \in 1 .. Cardinality(used) + 1 /\ n \notin used
  OBVIOUS
<1>6. \A k \in 1 .. n - 1 : k \in used
  <2> SUFFICES ASSUME NEW k \in 1 .. n - 1, k \notin used PROVE FALSE
    OBVIOUS
  <2>1. k \in T
    BY <1>1, <1>5
  <2>2. n <= k
    BY <1>4, <2>1
  <2> QED BY <2>2, <1>1, <1>5
<1>7. /\ Fresh(used) \in 1 .. Cardinality(used) + 1
      /\ Fresh(used) \notin used
  BY <1>5, <1>6 DEF Fresh
<1> QED BY <1>7, <1>1

(* Addresses are found for all the new nodes. *)
LEMMA PlacesExist ==
  ASSUME NEW used \in SUBSET (Nat \ {0}), IsFiniteSet(used), NEW size \in Nat, NEW wanted \in SUBSET (1 .. size)
  PROVE  \E f \in [wanted -> (1 .. Cardinality(used) + size) \ used] : IsInjective(f)
<1> DEFINE all == 1 .. Cardinality(used) + size
           free == all \ used
<1>1. Cardinality(used) \in Nat
  BY FS_CardinalityType
<1>2. IsFiniteSet(all) /\ Cardinality(all) = Cardinality(used) + size
  <2> DEFINE c == Cardinality(used) + size
  <2>1. c \in Nat
    BY <1>1
  <2> HIDE DEF c
  <2>2. IsFiniteSet(1 .. c) /\ Cardinality(1 .. c) = c
    BY <2>1, FiniteSegment
  <2> QED BY <2>2 DEF c
<1>3. IsFiniteSet(free) /\ Cardinality(free) = Cardinality(all) - Cardinality(all \cap used)
  BY <1>2, FS_Difference
<1>4. Cardinality(all \cap used) <= Cardinality(used) /\ Cardinality(all \cap used) \in Nat
  <2>1. all \cap used \subseteq used
    OBVIOUS
  <2> HIDE DEF all
  <2> QED BY <2>1, FS_Subset, FS_CardinalityType
<1>5. Cardinality(free) \in Nat /\ Cardinality(free) >= size
  BY <1>1, <1>2, <1>3, <1>4
<1>6. ExistsBijection(1 .. Cardinality(free), free)
  <2> HIDE DEF free
  <2> QED BY <1>3, FS_CountingElements, FS_NatBijection
<1>7. PICK g : g \in Bijection(1 .. Cardinality(free), free)
  BY <1>6 DEF ExistsBijection
<1> HIDE DEF free
<1>8. /\ g \in [1 .. Cardinality(free) -> free]
      /\ \A i, j \in 1 .. Cardinality(free) : g[i] = g[j] => i = j
  BY <1>7 DEF Bijection, Injection, Surjection, IsInjective
<1> DEFINE f == [i \in wanted |-> g[i]]
<1>9. \A i \in wanted : i \in 1 .. Cardinality(free)
  BY <1>5
<1>10. f \in [wanted -> free]
  BY <1>8, <1>9
<1>11. IsInjective(f)
  BY <1>8, <1>9 DEF IsInjective
<1> QED BY <1>10, <1>11 DEF free

-----------------------------------------------------------------------------
Messages == [n : 0 .. MaxMessages, ts : Nat, kind : Kinds \cup {NoMessage}]
Fsms == [id : Ids, state : Rule.states, event : Events, min : Int, max : Int,
         trace : [Events -> Messages \cup {NoMessage}]]

LEMMA RuleTypes ==
  /\ {Rule.init, Rule.error, Rule.success, Rule.incl} \subseteq Rule.states
  /\ \A s \in Rule.states :
       /\ Outgoing(s) \in Seq([event : Events, action : {"nothing", "create", "reset"}, target : Rule.states])
       /\ Rule.delay[s] \in [min : Int, max : Int]
       /\ \A i \in DOMAIN Outgoing(s) :
            /\ Outgoing(s)[i] \in [event : Events, action : {"nothing", "create", "reset"}, target : Rule.states]
            /\ Outgoing(s)[i].event \in Events /\ Outgoing(s)[i].target \in Rule.states
            /\ Outgoing(s)[i].event = TIMEOUT => i = 1
            /\ s \in Rule.temporary => Outgoing(s)[i].target \notin Rule.temporary
  /\ Events \subseteq Nat
<1> DEFINE Transitions == [event : Events, action : {"nothing", "create", "reset"}, target : Rule.states]
<1>1. RuleShape /\ NoTemporaryChain
  BY RuleAssumption
<1>2. Rule.trans \in [Rule.states -> Seq(Transitions)]
  BY <1>1 DEF RuleShape, Events
<1>3. {Rule.init, Rule.error, Rule.success, Rule.incl} \subseteq Rule.states
  BY <1>1 DEF RuleShape
<1>4. Events \subseteq Nat
  BY <1>1 DEF RuleShape, Events, TIMEOUT
<1>5. ASSUME NEW s \in Rule.states
      PROVE  /\ Outgoing(s) \in Seq(Transitions)
             /\ Rule.delay[s] \in [min : Int, max : Int]
             /\ \A i \in DOMAIN Outgoing(s) : Outgoing(s)[i].event = TIMEOUT => i = 1
             /\ \A i \in DOMAIN Outgoing(s) : s \in Rule.temporary => Outgoing(s)[i].target \notin Rule.temporary
  <2>1. Outgoing(s) \in Seq(Transitions)
    <3> HIDE DEF Transitions
    <3> QED BY <1>2 DEF Outgoing
  <2>2. Rule.delay[s] \in [min : Int, max : Int]
    BY <1>1 DEF RuleShape
  <2>3. \A i \in DOMAIN Outgoing(s) : Outgoing(s)[i].event = TIMEOUT => i = 1
    BY <1>1 DEF RuleShape, Outgoing
  <2>4. \A i \in DOMAIN Outgoing(s) : s \in Rule.temporary => Outgoing(s)[i].target \notin Rule.temporary
    BY <1>1 DEF NoTemporaryChain, Outgoing
  <2> QED BY <2>1, <2>2, <2>3, <2>4
<1>6. ASSUME NEW s \in Rule.states, NEW i \in DOMAIN Outgoing(s)
      PROVE  Outgoing(s)[i] \in Transitions
  <2> HIDE DEF Transitions
  <2> QED BY <1>5
<1>7. \A t \in Transitions : t.event \in Events /\ t.target \in Rule.states
  OBVIOUS
<1> QED BY <1>3, <1>4, <1>5, <1>6, <1>7

LEMMA NotNone == ASSUME NEW f \in Fsms PROVE f # None
BY DEF Fsms, None

(* What is left of an instance f after a step of its machine. *)
SameButState(g, f) == g \in Fsms /\ g.id = f.id
SameInstance(g, f) == SameButState(g, f) /\ g.state = f.state /\ g.trace = f.trace

Ends == {"error", "final", "inconclusive"}

LEMMA SettleType ==
  ASSUME StepByStep, NEW f \in Fsms, NEW t, NEW from, NEW m \in Messages
  PROVE  LET r == Settle(f, t, from, m)
         IN  /\ SameInstance(r.fsm, f)
             /\ Final(f.state) => r.val \in Ends
             /\ ~Final(f.state) => r.val = "changed"
<1>1. CASE Final(f.state)
  <2>1. f.state \in {Rule.error, Rule.success, Rule.incl}
    BY <1>1 DEF StepByStep, Fsms
  <2>2. Outcome(f.state) \in Ends
    BY <2>1 DEF Outcome, Ends
  <2> QED BY <1>1, <2>2 DEF Settle, SameInstance, SameButState
<1>2. CASE ~Final(f.state)
  <2> DEFINE g == Restart(f, t, from, m)
  <2>1. Rule.delay[f.state].min \in Int /\ Rule.delay[f.state].max \in Int /\ m.ts \in Nat /\ f.min \in Int /\ f.max \in Int
    BY RuleTypes DEF Fsms, Messages
  <2> DEFINE lo == Rule.delay[f.state].min + m.ts
             hi == Rule.delay[f.state].max + m.ts
  <2>2. \E x, y \in Int : g = [f EXCEPT !.min = x, !.max = y]
    <3>1. lo \in Int /\ hi \in Int /\ Later(f.min, lo) \in Int /\ Earlier(f.max, hi) \in Int
      BY <2>1 DEF Later, Earlier
    <3>2. \/ g = [f EXCEPT !.min = lo, !.max = hi]
          \/ g = [f EXCEPT !.min = Later(f.min, lo), !.max = Earlier(f.max, hi)]
      BY DEF Restart
    <3> HIDE DEF g, lo, hi
    <3> QED BY <3>1, <3>2
  <2>3. SameInstance(g, f)
    BY <2>2 DEF SameInstance, SameButState, Fsms
  <2> QED BY <1>2, <2>3 DEF Settle
<1> QED BY <1>1, <1>2

LEMMA EnterType ==
  ASSUME NEW f \in Fsms, NEW t, t.target \in Rule.states, NEW m \in Messages
  PROVE  /\ SameButState(Enter(f, t, m), f) /\ Enter(f, t, m).state = t.target
         /\ Enter(f, t, m).trace = [f.trace EXCEPT ![f.event] = m]
BY DEF Enter, SameButState, Fsms

LEMMA EventType ==
  ASSUME NEW f \in Fsms, NEW e \in Events
  PROVE  SameInstance([f EXCEPT !.event = e], f) /\ [f EXCEPT !.event = e].event = e
BY DEF SameInstance, SameButState, Fsms

(* g has the trace of f with m recorded under the events of E. *)
Recorded(g, f, m, E) == g.trace = [e \in Events |-> IF e \in E THEN m ELSE f.trace[e]]

LEMMA RecordOne ==
  ASSUME NEW f \in Fsms, NEW m, NEW e \in Events, NEW g, g.trace = [f.trace EXCEPT ![e] = m]
  PROVE  Recorded(g, f, m, {e})
BY DEF Recorded, Fsms

LEMMA RecordTwo ==
  ASSUME NEW f \in Fsms, NEW g \in Fsms, NEW m, NEW d \in Events, NEW e \in Events, NEW k,
         Recorded(g, f, m, {d}), k.trace = [g.trace EXCEPT ![e] = m]
  PROVE  Recorded(k, f, m, {d, e})
BY DEF Recorded, Fsms

(* What becomes of an instance that entered a temporary state. *)
LEMMA TryType ==
  ASSUME StepByStep, NEW f \in Fsms, NEW m \in Messages, f.state \in Rule.temporary
  PROVE  LET r == TryImmediately(f, m)
         IN  /\ SameButState(r.fsm, f)
             /\ r.val \in {"same", "changed"} \cup Ends
             /\ \/ r.fsm.state = f.state /\ r.fsm.trace = f.trace
                \/ \E j \in DOMAIN Outgoing(f.state) :
                     LET u == Outgoing(f.state)[j]
                     IN  /\ u.event # TIMEOUT
                         /\ r.fsm.state = u.target
                         /\ r.fsm.trace = [f.trace EXCEPT ![u.event] = m]
<1> DEFINE out   == Outgoing(f.state)
           real  == {i \in DOMAIN out : out[i].event # TIMEOUT}
           fires == {i \in real : Guard(out[i].event, m, f.trace)}
           r     == TryImmediately(f, m)
<1>1. out \in Seq([event : Events, action : {"nothing", "create", "reset"}, target : Rule.states])
      /\ \A i \in DOMAIN out : out[i].event \in Events /\ out[i].target \in Rule.states
  BY RuleTypes DEF Fsms
<1>2. real \in SUBSET Nat
  BY <1>1
<1>3. CASE TooEarly(f, m) \/ real = {}
  <2>1. r.fsm = f /\ r.val = "same"
    BY <1>3 DEF TryImmediately
  <2> QED BY <2>1 DEF SameButState
<1>4. CASE ~TooEarly(f, m) /\ real # {} /\ fires = {}
  <2> DEFINE i == CHOOSE i \in real : \A j \in real : i <= j
  <2>1. \E k \in real : \A j \in real : k <= j
    <3> HIDE DEF real
    <3> QED BY <1>2, <1>4, Least
  <2>2. i \in real
    <3> HIDE DEF real
    <3> QED BY <2>1
  <2>3. r.fsm = [f EXCEPT !.event = out[i].event] /\ r.val = "same"
    BY <1>4 DEF TryImmediately
  <2> HIDE DEF i
  <2>4. SameInstance(r.fsm, f)
    BY <2>2, <2>3, <1>1, EventType
  <2> QED BY <2>3, <2>4 DEF SameInstance
<1>5. CASE ~TooEarly(f, m) /\ real # {} /\ fires # {}
  <2> DEFINE i == CHOOSE i \in fires : \A j \in fires : j <= i
             g == [f EXCEPT !.event = out[i].event]
  <2>1. \E k \in fires : \A j \in fires : j <= k
    <3> DEFINE T == {Len(out) - k : k \in fires}
    <3>0. Len(out) \in Nat /\ fires \subseteq 1 .. Len(out)
      BY <1>1
    <3>1. T \in SUBSET Nat /\ T # {}
      BY <3>0, <1>5
    <3>2. PICK x \in T : \A y \in T : x <= y
      <4> HIDE DEF T
      <4> QED BY <3>1, Least
    <3>3. PICK k \in fires : x = Len(out) - k
      BY <3>2
    <3>4. \A j \in fires : Len(out) - k <= Len(out) - j
      BY <3>2, <3>3
    <3> HIDE DEF T, fires
    <3>5. \A j \in fires : j <= k
      BY <3>0, <3>4
    <3> QED BY <3>5
  <2>2. i \in fires
    <3> HIDE DEF fires
    <3> QED BY <2>1
  <2>3. /\ i \in DOMAIN out /\ out[i].event # TIMEOUT /\ out[i].event \in Events /\ out[i].target \in Rule.states
    BY SMTT(30), <2>2, <1>1
  <2>4. r = IF Clones(out[i]) THEN [fsm |-> g, val |-> "changed"]
            ELSE Settle(Enter(g, out[i], m), out[i], f.state, m)
    BY <1>5 DEF TryImmediately
  <2> HIDE DEF i, r, out
  <2>5. SameInstance(g, f) /\ g.event = out[i].event
    BY <2>3, EventType
  <2> HIDE DEF g
  <2>6. CASE Clones(out[i])
    <3>1. r.fsm = g /\ r.val = "changed"
      BY <2>4, <2>6
    <3> QED BY <3>1, <2>5 DEF SameInstance, r, out
  <2>7. CASE ~Clones(out[i])
    <3> DEFINE h == Enter(g, out[i], m)
    <3>1. g \in Fsms
      BY <2>5 DEF SameInstance, SameButState
    <3>2. SameButState(h, g) /\ h.state = out[i].target /\ h.trace = [g.trace EXCEPT ![g.event] = m]
      BY <3>1, <2>3, EnterType
    <3>3. r = Settle(h, out[i], f.state, m)
      BY <2>4, <2>7
    <3> HIDE DEF h
    <3>4. h \in Fsms
      BY <3>2 DEF SameButState
    <3>5. SameInstance(r.fsm, h) /\ r.val \in {"changed"} \cup Ends
      BY <3>3, <3>4, SettleType
    <3>6. /\ SameButState(r.fsm, f) /\ r.fsm.state = out[i].target /\ r.fsm.trace = [f.trace EXCEPT ![out[i].event] = m]
      BY <3>2, <3>5, <2>5 DEF SameInstance, SameButState
    <3> QED BY <3>5, <3>6, <2>3 DEF r, out
  <2> QED BY <2>6, <2>7
<1> QED BY <1>3, <1>4, <1>5

(* What an instance that takes transition t to a state that lasts becomes. *)
LEMMA MoveOnce ==
  ASSUME StepByStep, NEW f \in Fsms, NEW t, t.target \in Rule.states, ~Temporary(t.target), NEW m \in Messages
  PROVE  LET r == Move(f, t, m)
         IN  /\ SameButState(r.fsm, f)
             /\ r.fsm.state = t.target /\ Recorded(r.fsm, f, m, {f.event})
             /\ r.val = "changed" <=> ~Final(t.target)
             /\ r.val \in Ends <=> Final(t.target)
<1> DEFINE g == Enter(f, t, m)
           r == Move(f, t, m)
<1>1. SameButState(g, f) /\ g.state = t.target /\ g.trace = [f.trace EXCEPT ![f.event] = m]
  BY EnterType
<1>2. r = Settle(g, t, f.state, m)
  BY <1>1 DEF Move
<1> HIDE DEF g, r
<1>3. g \in Fsms /\ f.event \in Events
  BY <1>1 DEF SameButState, Fsms
<1>4. Recorded(g, f, m, {f.event})
  BY <1>1, <1>3, RecordOne
<1>5. /\ SameInstance(r.fsm, g)
      /\ Final(g.state) => r.val \in Ends
      /\ ~Final(g.state) => r.val = "changed"
  BY <1>2, <1>3, SettleType
<1>6. SameButState(r.fsm, f) /\ r.fsm.state = t.target /\ Recorded(r.fsm, f, m, {f.event})
  BY <1>1, <1>4, <1>5 DEF SameInstance, SameButState, Recorded
<1>7. "changed" \notin Ends
  BY DEF Ends
<1> QED BY <1>1, <1>5, <1>6, <1>7 DEF r

(* What an instance that takes transition t becomes. *)
LEMMA MoveType ==
  ASSUME StepByStep, NEW f \in Fsms, NEW t, t.target \in Rule.states, NEW m \in Messages
  PROVE  LET r == Move(f, t, m)
         IN  /\ SameButState(r.fsm, f)
             /\ r.val \in {"same", "changed"} \cup Ends
             /\ \/ r.fsm.state = t.target /\ Recorded(r.fsm, f, m, {f.event})
                \/ \E j \in DOMAIN Outgoing(t.target) :
                     LET u == Outgoing(t.target)[j]
                     IN  /\ u.event # TIMEOUT
                         /\ r.fsm.state = u.target
                         /\ Recorded(r.fsm, f, m, {f.event, u.event})
             /\ ~Temporary(t.target) =>
                  /\ r.fsm.state = t.target /\ Recorded(r.fsm, f, m, {f.event})
                  /\ r.val = "changed" <=> ~Final(t.target)
                  /\ r.val \in Ends <=> Final(t.target)
<1> DEFINE g == Enter(f, t, m)
           r == Move(f, t, m)
<1>1. SameButState(g, f) /\ g.state = t.target /\ g.trace = [f.trace EXCEPT ![f.event] = m]
  BY EnterType
<1>2. r = IF Temporary(g.state) THEN TryImmediately(g, m) ELSE Settle(g, t, f.state, m)
  BY DEF Move
<1> HIDE DEF g, r
<1>3. g \in Fsms /\ f.event \in Events
  BY <1>1 DEF SameButState, Fsms
<1>4. Recorded(g, f, m, {f.event})
  BY <1>1, <1>3, RecordOne
<1>5. CASE ~Temporary(t.target)
  <2>1. /\ SameButState(r.fsm, f)
        /\ r.fsm.state = t.target /\ Recorded(r.fsm, f, m, {f.event})
        /\ r.val = "changed" <=> ~Final(t.target)
        /\ r.val \in Ends <=> Final(t.target)
    BY <1>5, MoveOnce DEF r
  <2>2. r.val \in {"same", "changed"} \cup Ends
    BY <2>1
  <2> QED BY <2>1, <2>2, <1>5 DEF r
<1>6. CASE Temporary(t.target)
  <2>1. r = TryImmediately(g, m) /\ g.state \in Rule.temporary
    BY <1>1, <1>2, <1>6 DEF Temporary
  <2>2. /\ SameButState(r.fsm, g)
        /\ r.val \in {"same", "changed"} \cup Ends
        /\ \/ r.fsm.state = g.state /\ r.fsm.trace = g.trace
           \/ \E j \in DOMAIN Outgoing(g.state) :
                LET u == Outgoing(g.state)[j]
                IN  /\ u.event # TIMEOUT
                    /\ r.fsm.state = u.target
                    /\ r.fsm.trace = [g.trace EXCEPT ![u.event] = m]
    BY <2>1, <1>3, TryType
  <2>3. SameButState(r.fsm, f)
    BY <2>2, <1>1 DEF SameButState
  <2>4. CASE r.fsm.state = g.state /\ r.fsm.trace = g.trace
    <3>1. Recorded(r.fsm, f, m, {f.event})
      BY <2>4, <1>4 DEF Recorded
    <3> QED BY <3>1, <2>2, <2>3, <2>4, <1>1, <1>6 DEF r
  <2>5. ASSUME NEW j \in DOMAIN Outgoing(g.state),
               Outgoing(g.state)[j].event # TIMEOUT,
               r.fsm.state = Outgoing(g.state)[j].target,
               r.fsm.trace = [g.trace EXCEPT ![Outgoing(g.state)[j].event] = m]
        PROVE  \E k \in DOMAIN Outgoing(t.target) :
                 LET u == Outgoing(t.target)[k]
                 IN  /\ u.event # TIMEOUT
                     /\ r.fsm.state = u.target
                     /\ Recorded(r.fsm, f, m, {f.event, u.event})
    <3>1. Outgoing(g.state)[j].event \in Events
      BY <1>1, RuleTypes
    <3>2. Recorded(r.fsm, f, m, {f.event, Outgoing(g.state)[j].event})
      BY <2>5, <3>1, <1>3, <1>4, RecordTwo
    <3> QED BY <3>2, <2>5, <1>1
  <2> QED BY <2>2, <2>3, <2>4, <2>5, <1>6 DEF r
<1> QED BY <1>5, <1>6

(* The four ways fsm_handle_event ends, by the rules of StepByStep: nothing comes
   of the message, a clone of the instance takes the transition, the instance
   takes it, or the instance ends. *)
Unmoved(r, f) == r.clone = None /\ r.val = "same" /\ SameInstance(r.fsm, f)

Cloned(r, f, t, m) ==
  /\ Clones(t) /\ t.event # TIMEOUT /\ SameInstance(r.fsm, f)
  /\ r.clone \in Fsms /\ r.val \in {"same", "changed"} \cup Ends
  /\ \/ r.clone.state = t.target /\ Recorded(r.clone, f, m, {t.event})
     \/ \E j \in DOMAIN Outgoing(t.target) :
          LET u == Outgoing(t.target)[j]
          IN  /\ u.event # TIMEOUT
              /\ r.clone.state = u.target
              /\ Recorded(r.clone, f, m, {t.event, u.event})

Moved(r, f, t, m) ==
  /\ r.clone = None /\ r.val = "changed" /\ MovesOn(t) /\ t.event # TIMEOUT
  /\ SameButState(r.fsm, f) /\ r.fsm.state = t.target /\ Recorded(r.fsm, f, m, {t.event})

Ended(r, f, t, m) ==
  /\ r.clone = None /\ r.val \in Ends /\ f.state # Rule.init
  /\ SameButState(r.fsm, f) /\ Recorded(r.fsm, f, m, {t.event})

LEMMA HandleType ==
  ASSUME StepByStep, NEW f \in Fsms, NEW i \in DOMAIN Outgoing(f.state), NEW m \in Messages
  PROVE  LET r == HandleEvent(f, i, m)
             t == Outgoing(f.state)[i]
         IN  Unmoved(r, f) \/ Cloned(r, f, t, m) \/ Moved(r, f, t, m) \/ Ended(r, f, t, m)
<1> DEFINE r   == HandleEvent(f, i, m)
           t   == Outgoing(f.state)[i]
           out == Outgoing(f.state)[1]
           g   == [f EXCEPT !.event = t.event]
<1>1. f.state \in Rule.states /\ 1 \in DOMAIN Outgoing(f.state)
  <2>1. f.state \in Rule.states
    BY DEF Fsms
  <2> QED BY <2>1, RuleTypes
<1>2. /\ t.event \in Events /\ t.target \in Rule.states
      /\ out.event \in Events /\ out.target \in Rule.states
  BY <1>1, RuleTypes
<1>3. /\ Temporary(f.state) => ~Final(f.state)
      /\ \A s \in Rule.states : Final(s) => ~Temporary(s)
      /\ t.event = TIMEOUT => Final(t.target)
      /\ out.event = TIMEOUT => Final(out.target)
      /\ MovesOn(t) => ~Temporary(t.target)
      /\ f.state = Rule.init => t.event # TIMEOUT /\ Clones(t)
  BY <1>1 DEF StepByStep
<1>4. SameInstance(g, f) /\ g.event = t.event
  BY <1>2, EventType
<1>5. r = CASE TooEarly(f, m) -> [fsm |-> f, clone |-> None, val |-> "same"]
            [] ~TooEarly(f, m) /\ TimedOut(f, m) ->
                 LET p == Move(IF Final(out.target) THEN g ELSE f, out, m)
                 IN  [fsm |-> p.fsm, clone |-> None, val |-> p.val]
            [] ~TooEarly(f, m) /\ ~TimedOut(f, m) /\ t.event = TIMEOUT ->
                 [fsm |-> f, clone |-> None, val |-> "same"]
            [] OTHER ->
                 IF ~Guard(t.event, m, f.trace)
                 THEN [fsm |-> g, clone |-> None, val |-> "same"]
                 ELSE LET p == Move(g, t, m) IN
                      IF Clones(t)
                      THEN [fsm |-> g, clone |-> p.fsm, val |-> p.val]
                      ELSE [fsm |-> p.fsm, clone |-> None, val |-> p.val]
  BY DEF HandleEvent
<1> HIDE DEF r, g, t
<1>6. CASE TooEarly(f, m) \/ (~TooEarly(f, m) /\ ~TimedOut(f, m) /\ t.event = TIMEOUT)
  <2>1. r = [fsm |-> f, clone |-> None, val |-> "same"]
    BY <1>5, <1>6
  <2> QED BY <2>1 DEF Unmoved, SameInstance, SameButState, r
<1>7. CASE ~TooEarly(f, m) /\ TimedOut(f, m)
  <2>1. out.event = TIMEOUT /\ f.state # Rule.init
    BY <1>7 DEF TimedOut
  <2> DEFINE p == Move(g, out, m)
  <2>2. r = [fsm |-> p.fsm, clone |-> None, val |-> p.val]
    BY <1>5, <1>7, <1>3, <2>1
  <2>3. g \in Fsms
    BY <1>4 DEF SameInstance, SameButState
  <2>4. /\ SameButState(p.fsm, g) /\ Recorded(p.fsm, g, m, {g.event})
        /\ p.val \in Ends
    BY <2>1, <2>3, <1>2, <1>3, MoveType
  <2> HIDE DEF p
  <2>5. Ended(r, f, t, m)
    BY <2>1, <2>2, <2>4, <1>4 DEF Ended, SameInstance, SameButState, Recorded
  <2> QED BY <2>5 DEF r, t
<1>8. CASE ~TooEarly(f, m) /\ ~TimedOut(f, m) /\ t.event # TIMEOUT
  <2>1. CASE ~Guard(t.event, m, f.trace)
    <3>1. r = [fsm |-> g, clone |-> None, val |-> "same"]
      BY <1>5, <1>8, <2>1
    <3> QED BY <3>1, <1>4 DEF Unmoved, r
  <2>2. CASE Guard(t.event, m, f.trace)
    <3> DEFINE p == Move(g, t, m)
    <3>1. r = IF Clones(t)
              THEN [fsm |-> g, clone |-> p.fsm, val |-> p.val]
              ELSE [fsm |-> p.fsm, clone |-> None, val |-> p.val]
      BY <1>5, <1>8, <2>2
    <3>2. g \in Fsms
      BY <1>4 DEF SameInstance, SameButState
    <3>3. /\ SameButState(p.fsm, g)
          /\ p.val \in {"same", "changed"} \cup Ends
          /\ \/ p.fsm.state = t.target /\ Recorded(p.fsm, g, m, {g.event})
             \/ \E j \in DOMAIN Outgoing(t.target) :
                  LET u == Outgoing(t.target)[j]
                  IN  /\ u.event # TIMEOUT
                      /\ p.fsm.state = u.target
                      /\ Recorded(p.fsm, g, m, {g.event, u.event})
          /\ ~Temporary(t.target) =>
               /\ p.fsm.state = t.target /\ Recorded(p.fsm, g, m, {g.event})
               /\ p.val = "changed" <=> ~Final(t.target)
               /\ p.val \in Ends <=> Final(t.target)
      BY <3>2, <1>2, MoveType
    <3> HIDE DEF p
    <3>4. g.trace = f.trace /\ g.id = f.id /\ g.event = t.event
      BY <1>4 DEF SameInstance, SameButState
    <3>5. \A E : Recorded(p.fsm, g, m, E) => Recorded(p.fsm, f, m, E)
      BY <3>4 DEF Recorded
    <3>6. SameButState(p.fsm, f)
      BY <3>3, <3>4 DEF SameButState
    <3>7. CASE Clones(t)
      <4>1. r = [fsm |-> g, clone |-> p.fsm, val |-> p.val]
        BY <3>1, <3>7
      <4>2. r.clone = p.fsm /\ r.val = p.val /\ r.fsm = g
        BY <4>1
      <4>3. p.fsm \in Fsms
        BY <3>6 DEF SameButState
      <4>4. \/ r.clone.state = t.target /\ Recorded(r.clone, f, m, {t.event})
            \/ \E j \in DOMAIN Outgoing(t.target) :
                 LET u == Outgoing(t.target)[j]
                 IN  /\ u.event # TIMEOUT
                     /\ r.clone.state = u.target
                     /\ Recorded(r.clone, f, m, {t.event, u.event})
        BY <3>3, <3>4, <3>5, <4>2
      <4>5. Cloned(r, f, t, m)
        BY <4>2, <4>3, <4>4, <3>3, <3>7, <1>4, <1>8 DEF Cloned
      <4> QED BY <4>5 DEF r, t
    <3>8. CASE ~Clones(t) /\ ~Final(t.target)
      <4>1. r = [fsm |-> p.fsm, clone |-> None, val |-> p.val] /\ MovesOn(t)
        BY <3>1, <3>8 DEF MovesOn
      <4>2. Moved(r, f, t, m)
        BY <4>1, <3>3, <3>4, <3>5, <3>6, <3>8, <1>3, <1>8 DEF Moved
      <4> QED BY <4>2 DEF r, t
    <3>9. CASE ~Clones(t) /\ Final(t.target)
      <4>1. r = [fsm |-> p.fsm, clone |-> None, val |-> p.val] /\ ~Temporary(t.target)
        BY <3>1, <3>9, <1>2, <1>3
      <4>2. Ended(r, f, t, m)
        BY <4>1, <3>3, <3>4, <3>5, <3>6, <3>9, <1>3 DEF Ended
      <4> QED BY <4>2 DEF r, t
    <3> QED BY <3>7, <3>8, <3>9
  <2> QED BY <2>1, <2>2
<1> QED BY <1>6, <1>7, <1>8

-----------------------------------------------------------------------------
(* The store.  I, B, N and X stand for inst, byId, node and expecting, also as
   they are between two statements of the code. *)
Nodes == [fsm : Nat \ {0}, index : Nat \ {0}, counter : Nat]

EventOf(I, N, a) == Outgoing(I[N[a].fsm].state)[N[a].index].event

(* Every node stands for a transition that its instance can take, hangs in the list
   of its event and nowhere else, and is the only one for it. *)
NodesFit(I, N, X) ==
  /\ N \in [DOMAIN N -> Nodes] /\ DOMAIN N \in SUBSET (Nat \ {0}) /\ IsFiniteSet(DOMAIN N)
  /\ X \in [Events -> Seq(Nat)]
  /\ \A a \in DOMAIN N : /\ N[a].fsm \in DOMAIN I
                         /\ N[a].index \in DOMAIN Outgoing(I[N[a].fsm].state)
  /\ \A e \in Events : /\ IsInjective(X[e])
                      /\ \A a : a \in ToSet(X[e]) <=> a \in DOMAIN N /\ EventOf(I, N, a) = e
  /\ \A a, b \in DOMAIN N : N[a].fsm = N[b].fsm /\ N[a].index = N[b].index => a = b

(* Every instance is filed once, under its own id, and the bootstrap instance,
   where it was made, has id 0 to itself. *)
IdsFit(I, B) ==
  /\ I \in [DOMAIN I -> Fsms] /\ DOMAIN I \in SUBSET (Nat \ {0}) /\ IsFiniteSet(DOMAIN I)
  /\ B \in [Ids -> Seq(Nat)]
  /\ \A i \in Ids : /\ IsInjective(B[i])
                   /\ \A h : h \in ToSet(B[i]) <=> h \in DOMAIN I /\ I[h].id = i
  /\ Bootstrap \in DOMAIN I /\ I[Bootstrap].state = Rule.init /\ I[Bootstrap].id = 0
  /\ I[Bootstrap].trace = NewFsm.trace
  /\ \A h \in DOMAIN I \ {Bootstrap} : I[h].id # 0

(* Instances may change as long as what their nodes stand for does not. *)
LEMMA NodesAgree ==
  ASSUME NEW I, NEW N, NEW X, NEW J, NodesFit(I, N, X),
         \A a \in DOMAIN N : /\ N[a].fsm \in DOMAIN J
                             /\ N[a].index \in DOMAIN Outgoing(J[N[a].fsm].state)
                             /\ EventOf(J, N, a) = EventOf(I, N, a)
  PROVE  NodesFit(J, N, X)
<1>1. \A e \in Events : \A a : a \in ToSet(X[e]) <=> a \in DOMAIN N /\ EventOf(J, N, a) = e
  BY DEF NodesFit
<1> QED BY <1>1 DEF NodesFit

(* What follows a node in a list is another node of it. *)
LEMMA FollowingOther ==
  ASSUME NEW S, NEW list \in Seq(S), IsInjective(list), NEW n, Following(list, n) # NoNode
  PROVE  Following(list, n) \in ToSet(list) /\ Following(list, n) # n
<1>1. PICK i \in 1 .. Len(list) - 1 : list[i] = n /\ Following(list, n) = list[1 + i]
  <2>1. \E i \in 1 .. Len(list) - 1 : list[i] = n
    BY DEF Following
  <2> QED BY <2>1 DEF Following
<1>2. i + 1 \in 1 .. Len(list) /\ i \in 1 .. Len(list) /\ DOMAIN list = 1 .. Len(list) /\ i + 1 # i
  OBVIOUS
<1>3. list[1 + i] \in ToSet(list)
  BY <1>2 DEF ToSet
<1>4. list[1 + i] # list[i]
  BY <1>2 DEF IsInjective
<1> QED BY <1>1, <1>3, <1>4

LEMMA FirstIn ==
  ASSUME NEW S, NEW list \in Seq(S), FirstOf(list) # NoNode
  PROVE  FirstOf(list) \in ToSet(list)
<1>1. list # <<>> /\ FirstOf(list) = list[1]
  BY DEF FirstOf
<1>2. 1 \in DOMAIN list
  BY <1>1
<1> QED BY <1>1, <1>2 DEF ToSet

(* A node is removed. *)
LEMMA RemoveFits ==
  ASSUME NEW I, NEW N, NEW X, NodesFit(I, N, X), NEW e \in Events, NEW n \in ToSet(X[e])
  PROVE  NodesFit(I, Without(N, {n}), [X EXCEPT ![e] = Erase(@, n)])
<1> DEFINE M == Without(N, {n})
           Y == [X EXCEPT ![e] = Erase(@, n)]
<1>1. /\ X \in [Events -> Seq(Nat)]
      /\ N \in [DOMAIN N -> Nodes] /\ DOMAIN N \in SUBSET (Nat \ {0}) /\ IsFiniteSet(DOMAIN N)
      /\ \A d \in Events : IsInjective(X[d]) /\ \A a : a \in ToSet(X[d]) <=> a \in DOMAIN N /\ EventOf(I, N, a) = d
  BY DEF NodesFit
<1>2. /\ DOMAIN M = DOMAIN N \ {n} /\ \A a \in DOMAIN M : M[a] = N[a]
  BY DEF Without
<1>3. /\ Erase(X[e], n) \in Seq(Nat) /\ IsInjective(Erase(X[e], n))
      /\ \A x : x \in ToSet(Erase(X[e], n)) <=> x \in ToSet(X[e]) /\ x # n
  BY <1>1, EraseKeeps
<1>4. Y \in [Events -> Seq(Nat)] /\ Y[e] = Erase(X[e], n) /\ \A d \in Events \ {e} : Y[d] = X[d]
  BY <1>1, <1>3
<1>5. M \in [DOMAIN M -> Nodes]
  BY <1>1, <1>2 DEF Without
<1>6. IsFiniteSet(DOMAIN M)
  BY <1>1, <1>2, FS_RemoveElement
<1> HIDE DEF M, Y
<1>7. \A a \in DOMAIN M : EventOf(I, M, a) = EventOf(I, N, a)
  BY <1>2 DEF EventOf
<1>8. ASSUME NEW d \in Events
      PROVE  IsInjective(Y[d]) /\ \A a : a \in ToSet(Y[d]) <=> a \in DOMAIN M /\ EventOf(I, M, a) = d
  <2>1. CASE d = e
    BY <2>1, <1>1, <1>2, <1>3, <1>4, <1>7
  <2>2. CASE d # e
    <3>1. EventOf(I, N, n) = e
      BY <1>1
    <3> QED BY <3>1, <2>2, <1>1, <1>2, <1>4, <1>7
  <2> QED BY <2>1, <2>2
<1>9. NodesFit(I, M, Y)
  <2>1. \A a \in DOMAIN M : M[a].fsm \in DOMAIN I /\ M[a].index \in DOMAIN Outgoing(I[M[a].fsm].state)
    BY <1>2 DEF NodesFit
  <2>2. \A a, b \in DOMAIN M : M[a].fsm = M[b].fsm /\ M[a].index = M[b].index => a = b
    BY <1>2 DEF NodesFit
  <2>3. DOMAIN M \in SUBSET (Nat \ {0})
    BY <1>1, <1>2
  <2> QED BY <1>4, <1>5, <1>6, <1>8, <2>1, <2>2, <2>3 DEF NodesFit
<1> QED BY <1>9 DEF M, Y

(* A node is marked as reached. *)
LEMMA MarkFits ==
  ASSUME NEW I, NEW N, NEW X, NodesFit(I, N, X), NEW n \in DOMAIN N, NEW c \in Nat
  PROVE  NodesFit(I, [N EXCEPT ![n].counter = c], X)
<1> DEFINE M == [N EXCEPT ![n].counter = c]
<1>1. N \in [DOMAIN N -> Nodes]
  BY DEF NodesFit
<1>2. /\ M \in [DOMAIN N -> Nodes] /\ DOMAIN M = DOMAIN N
      /\ \A a \in DOMAIN N : M[a].fsm = N[a].fsm /\ M[a].index = N[a].index
  BY <1>1 DEF Nodes
<1> HIDE DEF M
<1>3. \A a \in DOMAIN N : EventOf(I, M, a) = EventOf(I, N, a)
  BY <1>2 DEF EventOf
<1>4. \A e \in Events : IsInjective(X[e]) /\ \A a : a \in ToSet(X[e]) <=> a \in DOMAIN M /\ EventOf(I, M, a) = e
  BY <1>2, <1>3 DEF NodesFit
<1>5. NodesFit(I, M, X)
  BY <1>2, <1>4 DEF NodesFit
<1> QED BY <1>5 DEF M

(* The nodes of some instances are unlinked and freed. *)
LEMMA UnlinkFits ==
  ASSUME NEW I, NEW N, NEW X, NodesFit(I, N, X), NEW gone, NEW J,
         \A a \in DOMAIN N : N[a].fsm \notin gone =>
           N[a].fsm \in DOMAIN J /\ J[N[a].fsm].state = I[N[a].fsm].state
  PROVE  NodesFit(J, Unlink(N, X, gone).node, Unlink(N, X, gone).expecting)
<1> DEFINE kept == {a \in DOMAIN N : N[a].fsm \notin gone}
           M == [a \in kept |-> N[a]]
           Y == [e \in Events |-> Only(X[e], kept)]
<1>0. Unlink(N, X, gone).node = M /\ Unlink(N, X, gone).expecting = Y
  BY DEF Unlink
<1>1. /\ X \in [Events -> Seq(Nat)]
      /\ N \in [DOMAIN N -> Nodes] /\ DOMAIN N \in SUBSET (Nat \ {0}) /\ IsFiniteSet(DOMAIN N)
      /\ \A d \in Events : IsInjective(X[d]) /\ \A a : a \in ToSet(X[d]) <=> a \in DOMAIN N /\ EventOf(I, N, a) = d
  BY DEF NodesFit
<1>2. DOMAIN M = kept /\ (\A a \in kept : M[a] = N[a]) /\ M \in [DOMAIN M -> Nodes]
  BY <1>1
<1>3. kept \subseteq DOMAIN N /\ (\A a \in kept : N[a].fsm \notin gone)
  OBVIOUS
<1>4. IsFiniteSet(kept)
  BY <1>1, <1>3, FS_Subset
<1> HIDE DEF kept
<1>5. ASSUME NEW d \in Events
      PROVE  /\ Y[d] \in Seq(Nat) /\ IsInjective(Y[d])
             /\ \A x : x \in ToSet(Y[d]) <=> x \in ToSet(X[d]) /\ x \in kept
  <2>1. Y[d] = Only(X[d], kept) /\ X[d] \in Seq(Nat) /\ IsInjective(X[d])
    BY <1>1
  <2> QED BY <2>1, OnlyKeeps
<1>6. Y \in [Events -> Seq(Nat)]
  BY <1>5
<1> HIDE DEF M, Y
<1>7. \A a \in kept : EventOf(J, M, a) = EventOf(I, N, a)
  BY <1>2, <1>3 DEF EventOf
<1>8. \A d \in Events : IsInjective(Y[d]) /\ \A a : a \in ToSet(Y[d]) <=> a \in DOMAIN M /\ EventOf(J, M, a) = d
  BY <1>1, <1>2, <1>3, <1>5, <1>7
<1>9. \A a \in DOMAIN M : M[a].fsm \in DOMAIN J /\ M[a].index \in DOMAIN Outgoing(J[M[a].fsm].state)
  BY <1>2, <1>3 DEF NodesFit
<1>10. \A a, b \in DOMAIN M : M[a].fsm = M[b].fsm /\ M[a].index = M[b].index => a = b
  BY <1>2, <1>3 DEF NodesFit
<1>11. DOMAIN M \in SUBSET (Nat \ {0}) /\ IsFiniteSet(DOMAIN M)
  BY <1>1, <1>2, <1>3, <1>4
<1> QED BY <1>0, <1>2, <1>6, <1>8, <1>9, <1>10, <1>11 DEF NodesFit

(* The transitions of a state that nodes are made for. *)
Wanted(s, timeouts) == {i \in DOMAIN Outgoing(s) : timeouts \/ Outgoing(s)[i].event # TIMEOUT}

(* r is the store with new nodes for h in state s at the addresses new, each in
   front of the list of its event. *)
Filed(r, n, x, h, s, timeouts, counter, new) ==
  /\ IsInjective(new)
  /\ DOMAIN r.node = DOMAIN n \cup {new[i] : i \in Wanted(s, timeouts)}
  /\ \A a \in DOMAIN n : r.node[a] = n[a]
  /\ \A i \in Wanted(s, timeouts) : r.node[new[i]] = [fsm |-> h, index |-> i, counter |-> counter]
  /\ r.node = [a \in DOMAIN r.node |-> r.node[a]] /\ IsFiniteSet(DOMAIN r.node)
  /\ r.expecting \in [Events -> Seq(Nat)]
  /\ \A e \in Events : \A a :
       a \in ToSet(r.expecting[e]) <=>
         \/ a \in ToSet(x[e])
         \/ \E i \in Wanted(s, timeouts) : Outgoing(s)[i].event = e /\ a = new[i]
  /\ \A e \in Events : IsInjective(x[e]) /\ ToSet(x[e]) \subseteq DOMAIN n => IsInjective(r.expecting[e])

LEMMA ExpectFiles ==
  ASSUME NEW n, NEW x \in [Events -> Seq(Nat)], NEW h, NEW s \in Rule.states, NEW timeouts, NEW counter,
         DOMAIN n \in SUBSET (Nat \ {0}), IsFiniteSet(DOMAIN n)
  PROVE  \E new \in [Wanted(s, timeouts) -> (Nat \ {0}) \ DOMAIN n] :
           Filed(Expect(n, x, h, s, timeouts, counter), n, x, h, s, timeouts, counter, new)
<1> DEFINE size    == Len(Outgoing(s))
           wanted  == {i \in 1 .. size : timeouts \/ Outgoing(s)[i].event # TIMEOUT}
           free    == (1 .. Cardinality(DOMAIN n) + size) \ DOMAIN n
           new     == CHOOSE f \in [wanted -> free] : IsInjective(f)
           made    == {new[i] : i \in wanted}
           last    == [k \in 1 .. size |-> size + 1 - k]
           For(e)  == Only(last, {i \in wanted : Outgoing(s)[i].event = e})
           M       == [a \in DOMAIN n \cup made |->
                         IF a \in made
                         THEN [fsm |-> h, index |-> CHOOSE i \in wanted : new[i] = a, counter |-> counter]
                         ELSE n[a]]
           front(e) == [k \in DOMAIN For(e) |-> new[For(e)[k]]]
           Y       == [e \in Events |-> front(e) \o x[e]]
<1>1. Expect(n, x, h, s, timeouts, counter).node = M /\ Expect(n, x, h, s, timeouts, counter).expecting = Y
  BY DEF Expect
<1>2. size \in Nat /\ DOMAIN Outgoing(s) = 1 .. size
  BY RuleTypes
<1>3. wanted = Wanted(s, timeouts) /\ wanted \in SUBSET (1 .. size)
  BY <1>2 DEF Wanted
<1>4. Cardinality(DOMAIN n) \in Nat
  BY FS_CardinalityType
<1>5. free \subseteq (Nat \ {0}) \ DOMAIN n
  BY <1>2, <1>4
<1>6. last \in Seq(1 .. size) /\ IsInjective(last) /\ ToSet(last) = 1 .. size
  <2>1. last \in Seq(1 .. size)
    BY <1>2
  <2>2. IsInjective(last)
    BY <1>2 DEF IsInjective
  <2>3. \A i \in 1 .. size : size + 1 - i \in 1 .. size /\ last[size + 1 - i] = i
    BY <1>2
  <2>4. ToSet(last) = 1 .. size
    BY <2>1, <2>3, <1>2 DEF ToSet
  <2> QED BY <2>1, <2>2, <2>4
<1>7. new \in [wanted -> free] /\ IsInjective(new)
  <2>1. \E f \in [wanted -> free] : IsInjective(f)
    <3> HIDE DEF size, wanted
    <3> QED BY <1>2, <1>3, PlacesExist
  <2> HIDE DEF wanted, free
  <2> QED BY <2>1
<1>8. made \subseteq free /\ IsFiniteSet(made)
  <2>1. made \subseteq free
    <3> HIDE DEF new, free, wanted
    <3> QED BY <1>7
  <2>2. IsFiniteSet(1 .. Cardinality(DOMAIN n) + size)
    <3> DEFINE c == Cardinality(DOMAIN n) + size
    <3>1. c \in Nat
      BY <1>2, <1>4
    <3> HIDE DEF c
    <3>2. IsFiniteSet(1 .. c)
      BY <3>1, FiniteSegment
    <3> QED BY <3>2 DEF c
  <2>3. made \subseteq 1 .. Cardinality(DOMAIN n) + size
    <3> HIDE DEF made
    <3> QED BY <2>1
  <2> HIDE DEF made
  <2> QED BY <2>1, <2>2, <2>3, FS_Subset
<1> HIDE DEF new, free, last, wanted
<1>9. ASSUME NEW e \in Events
      PROVE  /\ For(e) \in Seq(1 .. size) /\ IsInjective(For(e))
             /\ \A i : i \in ToSet(For(e)) <=> i \in wanted /\ Outgoing(s)[i].event = e
  <2>1. /\ For(e) \in Seq(1 .. size) /\ IsInjective(For(e))
        /\ \A i : i \in ToSet(For(e)) <=> i \in ToSet(last) /\ i \in {j \in wanted : Outgoing(s)[j].event = e}
    <3> HIDE DEF size
    <3> QED BY <1>6, OnlyKeeps
  <2> QED BY <2>1, <1>3, <1>6
<1> HIDE DEF For
<1>10. ASSUME NEW e \in Events
       PROVE  /\ front(e) \in Seq(Nat) /\ IsInjective(front(e))
              /\ \A a : a \in ToSet(front(e)) <=> \E i \in wanted : Outgoing(s)[i].event = e /\ a = new[i]
  <2>1. PICK f \in Seq(1 .. size) : f = For(e)
    BY <1>9
  <2>2. IsInjective(f) /\ \A i : i \in ToSet(f) <=> i \in wanted /\ Outgoing(s)[i].event = e
    BY <2>1, <1>9
  <2>3. \A k \in DOMAIN f : f[k] \in wanted /\ Outgoing(s)[f[k]].event = e /\ f[k] \in ToSet(f)
    BY <2>2 DEF ToSet
  <2> DEFINE g == [k \in DOMAIN f |-> new[f[k]]]
  <2>4. g = front(e)
    BY <2>1
  <2>5. \A i \in wanted : new[i] \in Nat
    BY <1>5, <1>7
  <2>6. DOMAIN f = 1 .. Len(f) /\ Len(f) \in Nat
    BY <2>1
  <2>7. g \in Seq(Nat)
    BY <2>3, <2>5, <2>6
  <2>8. IsInjective(g)
    BY <2>2, <2>3, <1>7 DEF IsInjective
  <2>9. \A a : a \in ToSet(g) <=> \E i \in wanted : Outgoing(s)[i].event = e /\ a = new[i]
    <3>1. \A a : a \in ToSet(g) <=> \E k \in DOMAIN f : a = new[f[k]]
      BY DEF ToSet
    <3>2. \A i : i \in ToSet(f) <=> \E k \in DOMAIN f : i = f[k]
      BY DEF ToSet
    <3> QED BY ZenonT(40), <3>1, <3>2, <2>2
  <2> HIDE DEF g
  <2> QED BY <2>4, <2>7, <2>8, <2>9
<1> HIDE DEF front
<1>11. ASSUME NEW e \in Events
       PROVE  /\ Y[e] \in Seq(Nat)
              /\ \A a : a \in ToSet(Y[e]) <=>
                    \/ a \in ToSet(x[e])
                    \/ \E i \in wanted : Outgoing(s)[i].event = e /\ a = new[i]
              /\ IsInjective(x[e]) /\ ToSet(x[e]) \subseteq DOMAIN n => IsInjective(Y[e])
  <2>1. PICK f \in Seq(Nat) : f = front(e)
    BY <1>10
  <2>2. PICK y \in Seq(Nat) : y = x[e]
    OBVIOUS
  <2>3. Y[e] = f \o y
    BY <2>1, <2>2
  <2>4. IsInjective(f) /\ \A a : a \in ToSet(f) <=> \E i \in wanted : Outgoing(s)[i].event = e /\ a = new[i]
    BY <2>1, <1>10
  <2>5. /\ f \o y \in Seq(Nat) /\ Len(f \o y) = Len(f) + Len(y)
        /\ \A k \in 1 .. Len(f) : (f \o y)[k] = f[k]
        /\ \A k \in 1 .. Len(y) : (f \o y)[Len(f) + k] = y[k]
        /\ DOMAIN f = 1 .. Len(f) /\ DOMAIN y = 1 .. Len(y) /\ DOMAIN (f \o y) = 1 .. Len(f) + Len(y)
        /\ Len(f) \in Nat /\ Len(y) \in Nat
    BY ConcatProperties
  <2> DEFINE z == f \o y
  <2> HIDE DEF z
  <2>6. \A k \in 1 .. Len(f) + Len(y) : k \in 1 .. Len(f) \/ (k - Len(f) \in 1 .. Len(y) /\ k = Len(f) + (k - Len(f)))
    BY <2>5
  <2>7. \A a : a \in ToSet(z) <=> a \in ToSet(f) \/ a \in ToSet(y)
    <3> SUFFICES ASSUME NEW a PROVE a \in ToSet(z) <=> a \in ToSet(f) \/ a \in ToSet(y)
      OBVIOUS
    <3>1. a \in ToSet(z) <=> \E k \in 1 .. Len(f) + Len(y) : z[k] = a
      BY <2>5 DEF ToSet, z
    <3>2. a \in ToSet(f) <=> \E k \in 1 .. Len(f) : f[k] = a
      BY <2>5 DEF ToSet
    <3>3. a \in ToSet(y) <=> \E k \in 1 .. Len(y) : y[k] = a
      BY <2>5 DEF ToSet
    <3>4. \A k \in 1 .. Len(y) : Len(f) + k \in 1 .. Len(f) + Len(y)
      BY <2>5
    <3>5. \A k \in 1 .. Len(f) : k \in 1 .. Len(f) + Len(y)
      BY <2>5
    <3>6. (\A k \in 1 .. Len(f) : z[k] = f[k]) /\ (\A k \in 1 .. Len(y) : z[Len(f) + k] = y[k])
      BY <2>5 DEF z
    <3> QED BY <3>1, <3>2, <3>3, <3>4, <3>5, <3>6, <2>6
  <2>8. ASSUME IsInjective(y), ToSet(y) \subseteq DOMAIN n PROVE IsInjective(z)
    <3>1. (\A k \in 1 .. Len(f) : z[k] = f[k]) /\ (\A k \in 1 .. Len(y) : z[Len(f) + k] = y[k])
      BY <2>5 DEF z
    <3>2. DOMAIN z = 1 .. Len(f) + Len(y)
      BY <2>5 DEF z
    <3>3. \A k \in 1 .. Len(f) : f[k] \notin DOMAIN n
      <4> SUFFICES ASSUME NEW k \in 1 .. Len(f) PROVE f[k] \notin DOMAIN n
        OBVIOUS
      <4>1. f[k] \in ToSet(f)
        BY <2>5 DEF ToSet
      <4>2. PICK i \in wanted : f[k] = new[i]
        BY <4>1, <2>4
      <4> QED BY <4>2, <1>5, <1>7
    <3>4. \A k \in 1 .. Len(y) : y[k] \in DOMAIN n
      BY <2>5, <2>8 DEF ToSet
    <3>5. \A j, k \in 1 .. Len(f) : f[j] = f[k] => j = k
      BY <2>4, <2>5 DEF IsInjective
    <3>6. \A j, k \in 1 .. Len(y) : y[j] = y[k] => j = k
      BY <2>8, <2>5 DEF IsInjective
    <3>7. ASSUME NEW j \in 1 .. Len(f) + Len(y), NEW k \in 1 .. Len(f) + Len(y), z[j] = z[k] PROVE j = k
      <4>1. CASE j \in 1 .. Len(f) /\ k \in 1 .. Len(f)
        BY <4>1, <3>1, <3>5, <3>7
      <4>2. CASE j \in 1 .. Len(f) /\ k - Len(f) \in 1 .. Len(y) /\ k = Len(f) + (k - Len(f))
        BY <4>2, <3>1, <3>3, <3>4, <3>7
      <4>3. CASE k \in 1 .. Len(f) /\ j - Len(f) \in 1 .. Len(y) /\ j = Len(f) + (j - Len(f))
        BY <4>3, <3>1, <3>3, <3>4, <3>7
      <4>4. CASE /\ j - Len(f) \in 1 .. Len(y) /\ j = Len(f) + (j - Len(f))
                 /\ k - Len(f) \in 1 .. Len(y) /\ k = Len(f) + (k - Len(f))
        <5>1. z[j] = y[j - Len(f)] /\ z[k] = y[k - Len(f)]
          BY <4>4, <3>1
        <5>2. j - Len(f) = k - Len(f)
          BY <5>1, <4>4, <3>6, <3>7
        <5> QED BY <5>2, <4>4
      <4> QED BY <4>1, <4>2, <4>3, <4>4, <2>6
    <3> QED BY <3>2, <3>7 DEF IsInjective
  <2> QED BY <2>2, <2>3, <2>4, <2>5, <2>7, <2>8 DEF z
<1>12. /\ DOMAIN M = DOMAIN n \cup made
       /\ \A a \in DOMAIN n : M[a] = n[a]
       /\ \A i \in wanted : M[new[i]] = [fsm |-> h, index |-> i, counter |-> counter]
  <2>1. \A a \in DOMAIN n : a \notin made
    BY <1>5, <1>8
  <2>2. ASSUME NEW i \in wanted PROVE (CHOOSE j \in wanted : new[j] = new[i]) = i
    <3>1. \A j \in wanted : new[j] = new[i] => j = i
      BY <1>7 DEF IsInjective
    <3> QED BY <3>1
  <2> QED BY <2>1, <2>2
<1>13. IsFiniteSet(DOMAIN n \cup made)
  BY <1>8, FS_Union
<1>14. Y \in [Events -> Seq(Nat)]
  BY <1>11
<1>15. new \in [Wanted(s, timeouts) -> (Nat \ {0}) \ DOMAIN n]
  BY <1>3, <1>5, <1>7
<1>16. M = [a \in DOMAIN M |-> M[a]]
  OBVIOUS
<1> DEFINE r == Expect(n, x, h, s, timeouts, counter)
<1> HIDE DEF M, Y, r
<1>17. r.node = M /\ r.expecting = Y
  BY <1>1 DEF r
<1>18. DOMAIN M = DOMAIN n \cup {new[i] : i \in Wanted(s, timeouts)} /\ IsFiniteSet(DOMAIN M)
  BY <1>3, <1>12, <1>13
<1>19. \A e \in Events : \A a :
         a \in ToSet(Y[e]) <=>
           \/ a \in ToSet(x[e])
           \/ \E i \in Wanted(s, timeouts) : Outgoing(s)[i].event = e /\ a = new[i]
  BY <1>3, <1>11
<1>20. \A i \in Wanted(s, timeouts) : M[new[i]] = [fsm |-> h, index |-> i, counter |-> counter]
  BY <1>3, <1>12
<1>21. \A e \in Events : IsInjective(x[e]) /\ ToSet(x[e]) \subseteq DOMAIN n => IsInjective(Y[e])
  BY <1>11
<1>22. Filed(r, n, x, h, s, timeouts, counter, new)
  <2>1. IsInjective(new) /\ r.expecting \in [Events -> Seq(Nat)]
    BY <1>7, <1>14, <1>17
  <2>2. DOMAIN r.node = DOMAIN n \cup {new[i] : i \in Wanted(s, timeouts)} /\ IsFiniteSet(DOMAIN r.node)
    BY <1>17, <1>18
  <2>3. r.node = [a \in DOMAIN r.node |-> r.node[a]]
    BY <1>16, <1>17
  <2>4. \A a \in DOMAIN n : r.node[a] = n[a]
    BY <1>12, <1>17
  <2>5. \A i \in Wanted(s, timeouts) : r.node[new[i]] = [fsm |-> h, index |-> i, counter |-> counter]
    BY <1>17, <1>20
  <2> HIDE DEF made
  <2> QED BY <2>1, <2>2, <2>3, <2>4, <2>5, <1>17, <1>19, <1>21 DEF Filed
<1> QED BY <1>15, <1>22 DEF r

Widened(r, I, N, X, h, W, counter) ==
  /\ NodesFit(I, r.node, r.expecting)
  /\ \A e \in Events : ToSet(X[e]) \subseteq ToSet(r.expecting[e])
  /\ DOMAIN N \subseteq DOMAIN r.node /\ \A a \in DOMAIN N : r.node[a] = N[a]
  /\ \A a \in DOMAIN r.node \ DOMAIN N : r.node[a].fsm = h /\ r.node[a].counter = counter
  /\ \A i \in W : \E a \in DOMAIN r.node : r.node[a].fsm = h /\ r.node[a].index = i

LEMMA ExpectWidens ==
  ASSUME NEW I, NEW N, NEW X, NodesFit(I, N, X),
         NEW h \in Nat \ {0}, h \in DOMAIN I, I[h].state \in Rule.states,
         NEW timeouts, NEW counter \in Nat,
         \A a \in DOMAIN N : N[a].fsm = h => N[a].index \notin Wanted(I[h].state, timeouts)
  PROVE  Widened(Expect(N, X, h, I[h].state, timeouts, counter), I, N, X, h, Wanted(I[h].state, timeouts), counter)
<1> DEFINE s == I[h].state
           r == Expect(N, X, h, s, timeouts, counter)
           W == Wanted(s, timeouts)
<1>1. /\ X \in [Events -> Seq(Nat)]
      /\ N \in [DOMAIN N -> Nodes] /\ DOMAIN N \in SUBSET (Nat \ {0}) /\ IsFiniteSet(DOMAIN N)
      /\ \A d \in Events : IsInjective(X[d]) /\ \A a : a \in ToSet(X[d]) <=> a \in DOMAIN N /\ EventOf(I, N, a) = d
      /\ \A a \in DOMAIN N : N[a].fsm \in DOMAIN I /\ N[a].index \in DOMAIN Outgoing(I[N[a].fsm].state)
      /\ \A a, b \in DOMAIN N : N[a].fsm = N[b].fsm /\ N[a].index = N[b].index => a = b
  BY DEF NodesFit
<1>2. s \in Rule.states
  OBVIOUS
<1>3. PICK new \in [W -> (Nat \ {0}) \ DOMAIN N] : Filed(r, N, X, h, s, timeouts, counter, new)
  <2> HIDE DEF s
  <2> QED BY <1>1, <1>2, ExpectFiles
<1>4. W \subseteq DOMAIN Outgoing(s) /\ W \subseteq Nat \ {0}
  <2>1. Outgoing(s) \in Seq([event : Events, action : {"nothing", "create", "reset"}, target : Rule.states])
    BY <1>2, RuleTypes
  <2>2. DOMAIN Outgoing(s) \subseteq Nat \ {0}
    BY <2>1
  <2> QED BY <2>2 DEF Wanted
<1>5. \A i \in W : i \in DOMAIN Outgoing(s)
  BY <1>4
<1>6. \A a \in DOMAIN N : N[a].fsm = h => N[a].index \notin W
  OBVIOUS
<1> DEFINE M == r.node
           Y == r.expecting
<1> HIDE DEF r, W
<1>7. /\ IsInjective(new)
      /\ DOMAIN M = DOMAIN N \cup {new[i] : i \in W}
      /\ \A a \in DOMAIN N : M[a] = N[a]
      /\ \A i \in W : /\ M[new[i]] = [fsm |-> h, index |-> i, counter |-> counter]
                      /\ M[new[i]].fsm = h /\ M[new[i]].index = i /\ M[new[i]].counter = counter
      /\ IsFiniteSet(DOMAIN M)
      /\ Y \in [Events -> Seq(Nat)]
      /\ \A e \in Events : \A a :
            a \in ToSet(Y[e]) <=>
              \/ a \in ToSet(X[e])
              \/ \E i \in W : Outgoing(s)[i].event = e /\ a = new[i]
      /\ \A e \in Events : IsInjective(X[e]) /\ ToSet(X[e]) \subseteq DOMAIN N => IsInjective(Y[e])
  <2>1. /\ IsInjective(new)
        /\ DOMAIN M = DOMAIN N \cup {new[i] : i \in W}
        /\ \A a \in DOMAIN N : M[a] = N[a]
        /\ IsFiniteSet(DOMAIN M)
        /\ Y \in [Events -> Seq(Nat)]
        /\ \A e \in Events : \A a :
              a \in ToSet(Y[e]) <=>
                \/ a \in ToSet(X[e])
                \/ \E i \in W : Outgoing(s)[i].event = e /\ a = new[i]
        /\ \A e \in Events : IsInjective(X[e]) /\ ToSet(X[e]) \subseteq DOMAIN N => IsInjective(Y[e])
    BY <1>3 DEF Filed, W
  <2>2. \A i \in W : M[new[i]] = [fsm |-> h, index |-> i, counter |-> counter]
    BY <1>3 DEF Filed, W
  <2>3. \A i \in W : M[new[i]].fsm = h /\ M[new[i]].index = i /\ M[new[i]].counter = counter
    <3> HIDE DEF M
    <3> SUFFICES ASSUME NEW i \in W PROVE M[new[i]].fsm = h /\ M[new[i]].index = i /\ M[new[i]].counter = counter
      OBVIOUS
    <3>1. M[new[i]] = [fsm |-> h, index |-> i, counter |-> counter]
      BY <2>2
    <3> QED BY <3>1
  <2> HIDE DEF M, Y
  <2> QED BY <2>1, <2>2, <2>3
<1>0. M = [a \in DOMAIN M |-> M[a]]
  BY <1>3 DEF Filed
<1> HIDE DEF M, Y
<1>8. \A a \in DOMAIN M : a \in DOMAIN N \/ \E i \in W : a = new[i]
  BY <1>7
<1>9. \A i \in W : new[i] \in (Nat \ {0}) \ DOMAIN N
  BY <1>3
<1>10. /\ \A a \in DOMAIN N : EventOf(I, M, a) = EventOf(I, N, a)
       /\ \A i \in W : EventOf(I, M, new[i]) = Outgoing(s)[i].event
  BY <1>7 DEF EventOf
<1>11. M \in [DOMAIN M -> Nodes]
  <2>1. \A a \in DOMAIN M : M[a] \in Nodes
    <3> SUFFICES ASSUME NEW a \in DOMAIN M PROVE M[a] \in Nodes
      OBVIOUS
    <3>1. CASE a \in DOMAIN N
      BY <3>1, <1>1, <1>7
    <3>2. ASSUME NEW i \in W, a = new[i] PROVE M[a] \in Nodes
      <4>1. M[a] = [fsm |-> h, index |-> i, counter |-> counter] /\ i \in Nat \ {0}
        BY <3>2, <1>4, <1>7
      <4> QED BY <4>1 DEF Nodes
    <3> QED BY <3>1, <3>2, <1>8
  <2> QED BY <2>1, <1>0
<1>12. DOMAIN M \in SUBSET (Nat \ {0})
  BY <1>1, <1>8, <1>9
<1>13. ASSUME NEW a \in DOMAIN M
       PROVE  M[a].fsm \in DOMAIN I /\ M[a].index \in DOMAIN Outgoing(I[M[a].fsm].state)
  <2>1. CASE a \in DOMAIN N
    BY <2>1, <1>1, <1>7
  <2>2. ASSUME NEW i \in W, a = new[i] PROVE M[a].fsm \in DOMAIN I /\ M[a].index \in DOMAIN Outgoing(I[M[a].fsm].state)
    BY <2>2, <1>5, <1>7
  <2> QED BY <2>1, <2>2, <1>8
<1>14. ASSUME NEW e \in Events
       PROVE  IsInjective(Y[e]) /\ \A a : a \in ToSet(Y[e]) <=> a \in DOMAIN M /\ EventOf(I, M, a) = e
  <2>1. ToSet(X[e]) \subseteq DOMAIN N /\ IsInjective(X[e])
    BY <1>1
  <2>2. IsInjective(Y[e])
    BY <2>1, <1>7
  <2>3. ASSUME NEW a PROVE a \in ToSet(Y[e]) <=> a \in DOMAIN M /\ EventOf(I, M, a) = e
    <3>1. CASE a \in DOMAIN N
      BY <3>1, <1>1, <1>7, <1>9, <1>10
    <3>2. CASE a \notin DOMAIN N
      <4>1. a \notin ToSet(X[e])
        BY <3>2, <2>1
      <4>2. a \in ToSet(Y[e]) <=> \E i \in W : Outgoing(s)[i].event = e /\ a = new[i]
        BY <4>1, <1>7
      <4>3. a \in DOMAIN M <=> \E i \in W : a = new[i]
        BY <3>2, <1>7
      <4> QED BY <4>2, <4>3, <1>10
    <3> QED BY <3>1, <3>2
  <2> QED BY <2>2, <2>3
<1>15. ASSUME NEW a \in DOMAIN M, NEW b \in DOMAIN M, M[a].fsm = M[b].fsm, M[a].index = M[b].index
       PROVE  a = b
  <2>1. CASE a \in DOMAIN N /\ b \in DOMAIN N
    BY <2>1, <1>15, <1>1, <1>7
  <2>2. ASSUME NEW i \in W, a = new[i], b \in DOMAIN N PROVE FALSE
    <3>1. M[a].fsm = h /\ M[a].index = i /\ N[b].fsm = h /\ N[b].index = i
      BY <2>2, <1>7, <1>15
    <3> QED BY <3>1, <2>2, <1>6
  <2>3. ASSUME NEW i \in W, b = new[i], a \in DOMAIN N PROVE FALSE
    <3>1. M[b].fsm = h /\ M[b].index = i /\ N[a].fsm = h /\ N[a].index = i
      BY <2>3, <1>7, <1>15
    <3> QED BY <3>1, <2>3, <1>6
  <2>4. ASSUME NEW i \in W, NEW j \in W, a = new[i], b = new[j] PROVE a = b
    <3>1. M[a].index = i /\ M[b].index = j
      BY <2>4, <1>7
    <3> QED BY <3>1, <2>4, <1>15
  <2> QED BY <2>1, <2>2, <2>3, <2>4, <1>8
<1>16. NodesFit(I, M, Y)
  BY <1>7, <1>11, <1>12, <1>13, <1>14, <1>15 DEF NodesFit
<1>17. \A e \in Events : ToSet(X[e]) \subseteq ToSet(Y[e])
  BY <1>7
<1>18. ASSUME NEW a \in DOMAIN M \ DOMAIN N PROVE M[a].fsm = h /\ M[a].counter = counter
  <2>1. PICK i \in W : a = new[i]
    BY <1>8
  <2> QED BY <2>1, <1>7
<1>19. \A i \in W : \E a \in DOMAIN M : M[a].fsm = h /\ M[a].index = i
  BY <1>7
<1>20. DOMAIN N \subseteq DOMAIN M /\ \A a \in DOMAIN N : M[a] = N[a]
  BY <1>7
<1>21. Widened(r, I, N, X, h, W, counter)
  BY ONLY <1>16, <1>17, <1>18, <1>19, <1>20 DEF Widened, M, Y
<1> QED BY ONLY <1>21 DEF r, W

LEMMA ExpectFits ==
  ASSUME NEW I, NEW N, NEW X, NodesFit(I, N, X),
         NEW h \in Nat \ {0}, h \in DOMAIN I, I[h].state \in Rule.states,
         NEW timeouts, NEW counter \in Nat,
         \A a \in DOMAIN N : N[a].fsm = h => N[a].index \notin Wanted(I[h].state, timeouts)
  PROVE  LET r == Expect(N, X, h, I[h].state, timeouts, counter)
         IN  /\ NodesFit(I, r.node, r.expecting)
             /\ \A e \in Events : ToSet(X[e]) \subseteq ToSet(r.expecting[e])
             /\ DOMAIN N \subseteq DOMAIN r.node /\ \A a \in DOMAIN N : r.node[a] = N[a]
             /\ \A a \in DOMAIN r.node \ DOMAIN N : r.node[a].fsm = h /\ r.node[a].counter = counter
             /\ \A i \in Wanted(I[h].state, timeouts) : \E a \in DOMAIN r.node : r.node[a].fsm = h /\ r.node[a].index = i
<1>1. Widened(Expect(N, X, h, I[h].state, timeouts, counter), I, N, X, h, Wanted(I[h].state, timeouts), counter)
  BY ExpectWidens
<1> QED BY ONLY <1>1 DEF Widened

(* An instance changes, and keeps its id. *)
LEMMA UpdateIds ==
  ASSUME NEW I, NEW B, IdsFit(I, B), NEW h \in DOMAIN I, NEW g, SameButState(g, I[h]),
         h = Bootstrap => SameInstance(g, I[h]),
         NEW J, J = [x \in DOMAIN I |-> IF x = h THEN g ELSE I[x]]
  PROVE  IdsFit(J, B)
<1>1. DOMAIN J = DOMAIN I /\ J[h] = g /\ \A x \in DOMAIN I \ {h} : J[x] = I[x]
  OBVIOUS
<1>2. g \in Fsms /\ g.id = I[h].id
  BY DEF SameButState
<1>3. J \in [DOMAIN J -> Fsms]
  BY <1>2 DEF IdsFit
<1>4. \A x \in DOMAIN I : J[x].id = I[x].id
  BY <1>1, <1>2
<1>5. J[Bootstrap].state = I[Bootstrap].state /\ J[Bootstrap].trace = I[Bootstrap].trace
  <2>1. Bootstrap \in DOMAIN I
    BY DEF IdsFit
  <2>2. CASE h = Bootstrap
    BY <2>2, <1>1 DEF SameInstance
  <2>3. CASE h # Bootstrap
    BY <2>1, <2>3, <1>1
  <2> QED BY <2>2, <2>3
<1>6. \A i \in Ids : IsInjective(B[i]) /\ \A x : x \in ToSet(B[i]) <=> x \in DOMAIN J /\ J[x].id = i
  BY <1>1, <1>4 DEF IdsFit
<1>7. Bootstrap \in DOMAIN J /\ J[Bootstrap].state = Rule.init /\ J[Bootstrap].id = 0 /\ J[Bootstrap].trace = NewFsm.trace
  BY <1>1, <1>4, <1>5 DEF IdsFit
<1>8. \A x \in DOMAIN J \ {Bootstrap} : J[x].id # 0
  BY <1>1, <1>4 DEF IdsFit
<1>9. DOMAIN J \in SUBSET (Nat \ {0}) /\ IsFiniteSet(DOMAIN J) /\ B \in [Ids -> Seq(Nat)]
  BY <1>1 DEF IdsFit
<1> QED BY <1>3, <1>6, <1>7, <1>8, <1>9 DEF IdsFit

(* An instance is added. *)
LEMMA AddIds ==
  ASSUME NEW I, NEW B, IdsFit(I, B), NEW h \in (Nat \ {0}) \ DOMAIN I, NEW g \in Fsms, g.id # 0,
         NEW J, J = [x \in DOMAIN I \cup {h} |-> IF x = h THEN g ELSE I[x]]
  PROVE  IdsFit(J, [B EXCEPT ![g.id] = <<h>> \o @])
<1> DEFINE C == [B EXCEPT ![g.id] = <<h>> \o @]
<1>0. /\ I \in [DOMAIN I -> Fsms] /\ DOMAIN I \in SUBSET (Nat \ {0}) /\ IsFiniteSet(DOMAIN I)
      /\ B \in [Ids -> Seq(Nat)]
      /\ \A i \in Ids : IsInjective(B[i]) /\ \A x : x \in ToSet(B[i]) <=> x \in DOMAIN I /\ I[x].id = i
      /\ Bootstrap \in DOMAIN I /\ I[Bootstrap].state = Rule.init /\ I[Bootstrap].id = 0
      /\ I[Bootstrap].trace = NewFsm.trace
      /\ \A x \in DOMAIN I \ {Bootstrap} : I[x].id # 0
  BY DEF IdsFit
<1>1. DOMAIN J = DOMAIN I \cup {h} /\ J[h] = g /\ \A x \in DOMAIN I : J[x] = I[x]
  OBVIOUS
<1>2. g.id \in Ids
  BY DEF Fsms
<1>3. J \in [DOMAIN J -> Fsms]
  BY <1>0
<1>4. IsFiniteSet(DOMAIN J) /\ DOMAIN J \in SUBSET (Nat \ {0})
  BY <1>0, <1>1, FS_AddElement
<1>5. PICK b \in Seq(Nat) : b = B[g.id]
  BY <1>0, <1>2
<1>6. /\ <<h>> \o b \in Seq(Nat) /\ Len(<<h>> \o b) = Len(b) + 1
      /\ (<<h>> \o b)[1] = h /\ \A k \in 1 .. Len(b) : (<<h>> \o b)[k + 1] = b[k]
      /\ Len(b) \in Nat /\ DOMAIN b = 1 .. Len(b) /\ DOMAIN (<<h>> \o b) = 1 .. Len(b) + 1
  OBVIOUS
<1> DEFINE c == <<h>> \o b
<1>7. C[g.id] = c /\ \A i \in Ids \ {g.id} : C[i] = B[i]
  BY <1>0, <1>2, <1>5
<1>8. C \in [Ids -> Seq(Nat)]
  BY <1>0, <1>2, <1>5, <1>6, <1>7
<1> HIDE DEF c, C
<1>9. \A k \in 1 .. Len(b) + 1 : k = 1 \/ (k - 1 \in 1 .. Len(b) /\ k = (k - 1) + 1)
  BY <1>6
<1>10. \A x : x \in ToSet(c) <=> x = h \/ x \in ToSet(b)
  <2> SUFFICES ASSUME NEW x PROVE x \in ToSet(c) <=> x = h \/ x \in ToSet(b)
    OBVIOUS
  <2>1. x \in ToSet(c) <=> \E k \in 1 .. Len(b) + 1 : c[k] = x
    BY <1>6 DEF ToSet, c
  <2>2. x \in ToSet(b) <=> \E k \in 1 .. Len(b) : b[k] = x
    BY <1>6 DEF ToSet
  <2>3. c[1] = h /\ 1 \in 1 .. Len(b) + 1 /\ \A k \in 1 .. Len(b) : c[k + 1] = b[k] /\ k + 1 \in 1 .. Len(b) + 1
    BY <1>6 DEF c
  <2> QED BY <2>1, <2>2, <2>3, <1>9
<1>11. h \notin ToSet(b) /\ IsInjective(b)
  BY <1>0, <1>2, <1>5
<1>12. IsInjective(c)
  <2>1. c[1] = h /\ (\A k \in 1 .. Len(b) : c[k + 1] = b[k] /\ b[k] # h) /\ DOMAIN c = 1 .. Len(b) + 1
    BY <1>6, <1>11 DEF c, ToSet
  <2>2. \A j, k \in 1 .. Len(b) : b[j] = b[k] => j = k
    BY <1>6, <1>11 DEF IsInjective
  <2>3. ASSUME NEW j \in 1 .. Len(b) + 1, NEW k \in 1 .. Len(b) + 1, c[j] = c[k] PROVE j = k
    <3>0. j = 1 \/ k = 1 => j = k
      <4>1. \A l \in 1 .. Len(b) + 1 : l # 1 => c[l] # h
        <5> SUFFICES ASSUME NEW l \in 1 .. Len(b) + 1, l # 1 PROVE c[l] # h
          OBVIOUS
        <5>1. l - 1 \in 1 .. Len(b) /\ l = (l - 1) + 1
          BY <1>9
        <5>2. c[(l - 1) + 1] = b[l - 1] /\ b[l - 1] # h
          BY <5>1, <2>1
        <5> QED BY <5>1, <5>2
      <4> QED BY <4>1, <2>1, <2>3
    <3>1. CASE j = 1 \/ k = 1
      BY <3>1, <3>0
    <3>2. CASE j - 1 \in 1 .. Len(b) /\ k - 1 \in 1 .. Len(b)
      <4>1. j = (j - 1) + 1 /\ k = (k - 1) + 1
        OBVIOUS
      <4>2. b[j - 1] = b[k - 1]
        BY <4>1, <3>2, <2>1, <2>3
      <4>3. j - 1 = k - 1
        BY <4>2, <3>2, <2>2
      <4> QED BY <4>1, <4>3
    <3> QED BY <3>1, <3>2, <1>9
  <2> QED BY <2>1, <2>3 DEF IsInjective
<1>13. ASSUME NEW i \in Ids
       PROVE  IsInjective(C[i]) /\ \A x : x \in ToSet(C[i]) <=> x \in DOMAIN J /\ J[x].id = i
  <2>1. CASE i = g.id
    BY <2>1, <1>0, <1>1, <1>5, <1>7, <1>10, <1>12
  <2>2. CASE i # g.id
    BY <2>2, <1>0, <1>1, <1>7
  <2> QED BY <2>1, <2>2
<1>14. \A x \in DOMAIN J \ {Bootstrap} : J[x].id # 0
  BY <1>0, <1>1
<1>15. Bootstrap \in DOMAIN J /\ J[Bootstrap] = I[Bootstrap]
  BY <1>0, <1>1
<1>16. IdsFit(J, C)
  BY <1>0, <1>3, <1>4, <1>8, <1>13, <1>14, <1>15 DEF IdsFit
<1> QED BY <1>16 DEF C

(* Instances are dropped that are not the bootstrap instance: some of those of
   one id. *)
LEMMA DropIds ==
  ASSUME NEW I, NEW B, IdsFit(I, B), NEW id \in Ids, NEW gone, NEW list \in Seq(Nat),
         Bootstrap \notin gone, IsInjective(list),
         \A x \in gone : x \in DOMAIN I /\ I[x].id = id,
         \A x : x \in ToSet(list) <=> x \in ToSet(B[id]) /\ x \notin gone
  PROVE  IdsFit(Without(I, gone), [B EXCEPT ![id] = list])
<1> DEFINE J == Without(I, gone)
           C == [B EXCEPT ![id] = list]
<1>0. /\ I \in [DOMAIN I -> Fsms] /\ DOMAIN I \in SUBSET (Nat \ {0}) /\ IsFiniteSet(DOMAIN I)
      /\ B \in [Ids -> Seq(Nat)]
      /\ \A i \in Ids : IsInjective(B[i]) /\ \A x : x \in ToSet(B[i]) <=> x \in DOMAIN I /\ I[x].id = i
      /\ Bootstrap \in DOMAIN I /\ I[Bootstrap].state = Rule.init /\ I[Bootstrap].id = 0
      /\ I[Bootstrap].trace = NewFsm.trace
      /\ \A x \in DOMAIN I \ {Bootstrap} : I[x].id # 0
  BY DEF IdsFit
<1>1. DOMAIN J = DOMAIN I \ gone /\ J \in [DOMAIN J -> Fsms] /\ \A x \in DOMAIN J : J[x] = I[x]
  BY <1>0 DEF Without
<1>2. C \in [Ids -> Seq(Nat)] /\ C[id] = list /\ \A i \in Ids \ {id} : C[i] = B[i]
  BY <1>0
<1>3. IsFiniteSet(DOMAIN J) /\ DOMAIN J \in SUBSET (Nat \ {0})
  <2>1. DOMAIN I \ gone \subseteq DOMAIN I
    OBVIOUS
  <2> HIDE DEF J
  <2> QED BY <2>1, <1>0, <1>1, FS_Subset
<1> HIDE DEF J, C
<1>4. ASSUME NEW i \in Ids
      PROVE  IsInjective(C[i]) /\ \A x : x \in ToSet(C[i]) <=> x \in DOMAIN J /\ J[x].id = i
  <2>1. CASE i = id
    BY <2>1, <1>0, <1>1, <1>2
  <2>2. CASE i # id
    BY <2>2, <1>0, <1>1, <1>2
  <2> QED BY <2>1, <2>2
<1>5. IdsFit(J, C)
  BY <1>0, <1>1, <1>2, <1>3, <1>4 DEF IdsFit
<1> QED BY <1>5 DEF J, C


-----------------------------------------------------------------------------
(* The inductive invariant: both stores are in order, and the walk goes on with a
   node of the list it walks. *)
Sound ==
  /\ NodesFit(inst, node, expecting)
  /\ IdsFit(inst, byId) /\ availId \in Ids
  /\ pc \in {"idle", "walk", "halted"}
  /\ msg \in Messages /\ ev \in Events /\ next \in Nat
  /\ verdict \in {"unknown", "respected", "not_respected", "detected"}
  /\ next # NoNode => next \in ToSet(expecting[ev])

(* The instance, the transition and the node that are processed. *)
LEMMA Reaching ==
  ASSUME Sound, next # NoNode
  PROVE  /\ next \in DOMAIN node /\ node[next].fsm \in DOMAIN inst /\ inst[node[next].fsm] \in Fsms
         /\ node[next].index \in DOMAIN Outgoing(inst[node[next].fsm].state)
         /\ Outgoing(inst[node[next].fsm].state)[node[next].index].event = ev
         /\ node[next] \in Nodes
<1>1. next \in ToSet(expecting[ev]) /\ ev \in Events
  BY DEF Sound
<1>2. next \in DOMAIN node /\ EventOf(inst, node, next) = ev
  BY <1>1 DEF Sound, NodesFit
<1>3. node[next].fsm \in DOMAIN inst /\ node[next].index \in DOMAIN Outgoing(inst[node[next].fsm].state)
      /\ node[next] \in Nodes
  BY <1>2 DEF Sound, NodesFit
<1>4. inst[node[next].fsm] \in Fsms
  BY <1>3 DEF Sound, IdsFit
<1> QED BY <1>2, <1>3, <1>4 DEF EventOf

(* An instance has no two nodes in one list. *)
LEMMA OnlyNode ==
  ASSUME StepByStep, Sound, next # NoNode, NEW b \in ToSet(expecting[ev]) \ {next}
  PROVE  b \in DOMAIN node /\ node[b].fsm # node[next].fsm
<1>1. ev \in Events
  BY DEF Sound
<1>2. b \in DOMAIN node /\ EventOf(inst, node, b) = ev
  BY <1>1 DEF Sound, NodesFit
<1>3. node[b].index \in DOMAIN Outgoing(inst[node[b].fsm].state)
  BY <1>2 DEF Sound, NodesFit
<1>4. SUFFICES ASSUME node[b].fsm = node[next].fsm PROVE FALSE
  BY <1>2
<1>5. inst[node[next].fsm].state \in Rule.states
  BY Reaching DEF Fsms
<1>6. node[b].index = node[next].index
  BY <1>2, <1>3, <1>4, <1>5, Reaching DEF StepByStep, EventOf
<1>7. b = next
  BY <1>2, <1>4, <1>6, Reaching DEF Sound, NodesFit
<1> QED BY <1>7

(* A new instance has no node yet, and all the old ones stay as they were. *)
LEMMA NodesGrow ==
  ASSUME NEW I, NEW N, NEW X, NodesFit(I, N, X), NEW J, DOMAIN I \subseteq DOMAIN J,
         \A x \in DOMAIN I : J[x].state = I[x].state
  PROVE  NodesFit(J, N, X)
<1>1. \A a \in DOMAIN N : N[a].fsm \in DOMAIN I /\ N[a].index \in DOMAIN Outgoing(I[N[a].fsm].state)
  BY DEF NodesFit
<1>2. \A a \in DOMAIN N : J[N[a].fsm].state = I[N[a].fsm].state
  BY <1>1
<1>3. \A a \in DOMAIN N : EventOf(J, N, a) = EventOf(I, N, a)
  BY <1>2 DEF EventOf
<1> QED BY <1>1, <1>2, <1>3, NodesAgree

(* What Fired makes of a trial that created an instance. *)
NewFiled(f, r) ==
  /\ f.new /\ f.val = r.val
  /\ f.h \in Nat \ {0} /\ f.h \notin DOMAIN inst
  /\ DOMAIN f.inst = DOMAIN inst \cup {f.h}
  /\ f.inst[f.h] = [r.clone EXCEPT !.id = f.id]
  /\ f.inst[node[next].fsm] = r.fsm
  /\ \A x \in DOMAIN inst \ {node[next].fsm} : f.inst[x] = inst[x]
  /\ node[next].fsm # Bootstrap => f.id = inst[node[next].fsm].id
  /\ node[next].fsm = Bootstrap => \A x \in DOMAIN inst : inst[x].id # f.id
  /\ IdsFit(f.inst, f.byId) /\ f.availId \in Ids
  /\ f.expecting = expecting /\ f.node = [node EXCEPT ![next].counter = msg.n]
  /\ NodesFit(f.inst, f.node, f.expecting)

LEMMA FiredNew ==
  ASSUME StepByStep, Sound, Reached, NEW r, NEW f, f = Fired(r), ~f.left,
         SameInstance(r.fsm, inst[node[next].fsm]), r.clone \in Fsms
  PROVE  NewFiled(f, r)
<1> DEFINE x0 == node[next].fsm
           h  == Fresh(DOMAIN inst)
           id == IF x0 = Bootstrap THEN CHOOSE i \in FreeIds : \A k \in FreeIds : i <= k ELSE inst[x0].id
           g  == [r.clone EXCEPT !.id = id]
           J  == [x \in DOMAIN inst |-> IF x = x0 THEN r.fsm ELSE inst[x]]
<1>0. r.clone # None
  BY NotNone
<1>a. f.left = (r.clone # None /\ x0 = Bootstrap /\ FreeIds = {})
  BY ZenonT(30) DEF Fired
<1>b. ~(x0 = Bootstrap /\ FreeIds = {})
  BY <1>0, <1>a, Zenon
<1>c. f.new = (r.clone # None)
  BY ZenonT(30) DEF Fired
<1>d. f.new
  BY <1>0, <1>c, Zenon
<1>e. f.h = h /\ f.val = r.val
  BY <1>0 DEF Fired
<1>f. f.node = [node EXCEPT ![next].counter = msg.n] /\ f.expecting = expecting
  BY <1>0 DEF Fired
<1>1. /\ f.availId = IF x0 = Bootstrap THEN f.id ELSE availId
      /\ f.byId = [byId EXCEPT ![f.id] = <<h>> \o @]
  BY <1>0 DEF Fired
<1>2. f.id = IF x0 = Bootstrap
             THEN IF FreeIds = {} THEN 0 ELSE CHOOSE i \in FreeIds : \A k \in FreeIds : i <= k
             ELSE inst[x0].id
  BY <1>0 DEF Fired
<1>3. f.id = id
  BY <1>b, <1>2
<1>4. f.inst = [x \in DOMAIN inst \cup {h} |->
                   IF x = h /\ r.clone # None THEN [r.clone EXCEPT !.id = f.id]
                   ELSE IF x = x0 THEN r.fsm ELSE inst[x]]
  BY <1>0, <1>2 DEF Fired
<1>5. x0 \in DOMAIN inst /\ next \in DOMAIN node /\ msg.n \in Nat
  BY Reaching DEF Reached, Sound, Messages
<1>6. IdsFit(inst, byId) /\ NodesFit(inst, node, expecting) /\ availId \in Ids
  BY DEF Sound
<1>7. DOMAIN inst \in SUBSET (Nat \ {0}) /\ IsFiniteSet(DOMAIN inst) /\ Bootstrap \in DOMAIN inst
  BY <1>6 DEF IdsFit
<1>8. h \in Nat \ {0} /\ h \notin DOMAIN inst
  BY <1>7, FreshIsFree
<1> HIDE DEF h
<1>9. id \in Ids /\ id # 0 /\ (x0 = Bootstrap => \A x \in DOMAIN inst : inst[x].id # id)
  <2>1. CASE x0 = Bootstrap
    <3>1. FreeIds # {} /\ FreeIds \in SUBSET Nat
      BY <1>b, <2>1 DEF FreeIds, Ids
    <3>2. \E i \in FreeIds : \A k \in FreeIds : i <= k
      BY <3>1, Least
    <3>3. id \in FreeIds
      BY <2>1, <3>2
    <3> HIDE DEF id
    <3>4. id \in Ids /\ byId[id] = <<>>
      BY <3>3 DEF FreeIds
    <3>5. ToSet(byId[id]) = {}
      BY <3>4 DEF ToSet
    <3>6. \A x \in DOMAIN inst : inst[x].id # id
      BY <3>4, <3>5, <1>6 DEF IdsFit
    <3>7. inst[Bootstrap].id = 0
      BY <1>6 DEF IdsFit
    <3> QED BY <3>4, <3>6, <3>7, <1>7
  <2>2. CASE x0 # Bootstrap
    BY <2>2, <1>5, <1>6 DEF IdsFit, Fsms
  <2> QED BY <2>1, <2>2
<1> HIDE DEF id
<1>10. g \in Fsms /\ g.id = id
  BY <1>9 DEF Fsms
<1>11. /\ DOMAIN f.inst = DOMAIN inst \cup {h} /\ f.inst[h] = g /\ f.inst[x0] = r.fsm
       /\ \A x \in DOMAIN inst \ {x0} : f.inst[x] = inst[x]
  BY <1>0, <1>3, <1>4, <1>5, <1>8
<1>12. DOMAIN J = DOMAIN inst /\ J[x0] = r.fsm /\ (\A x \in DOMAIN inst \ {x0} : J[x] = inst[x])
  BY <1>5
<1>13. f.inst = [x \in DOMAIN J \cup {h} |-> IF x = h THEN g ELSE J[x]]
  BY <1>0, <1>3, <1>4, <1>8
<1>14. IdsFit(J, byId)
  <2>1. SameButState(r.fsm, inst[x0])
    BY DEF SameInstance
  <2> HIDE DEF x0
  <2> QED BY <2>1, <1>5, <1>6, UpdateIds DEF x0
<1> HIDE DEF g, J
<1>15. IdsFit(f.inst, [byId EXCEPT ![g.id] = <<h>> \o @])
  <2>1. h \in (Nat \ {0}) \ DOMAIN J
    BY <1>8, <1>12
  <2> QED BY <2>1, <1>9, <1>10, <1>13, <1>14, AddIds
<1>16. IdsFit(f.inst, f.byId)
  BY <1>1, <1>3, <1>10, <1>15
<1>17. f.availId \in Ids
  BY <1>1, <1>3, <1>6, <1>9
<1>18. NodesFit(inst, f.node, expecting)
  BY <1>f, <1>5, <1>6, MarkFits
<1>19. \A x \in DOMAIN inst : f.inst[x].state = inst[x].state
  BY <1>11 DEF SameInstance
<1>20. NodesFit(f.inst, f.node, expecting)
  <2>1. DOMAIN inst \subseteq DOMAIN f.inst
    BY <1>11
  <2> QED BY <2>1, <1>18, <1>19, NodesGrow
<1>21. f.inst[f.h] = [r.clone EXCEPT !.id = f.id]
  BY <1>e, <1>3, <1>11 DEF g
<1>22. x0 # Bootstrap => f.id = inst[x0].id
  BY <1>3 DEF id
<1>23. x0 = Bootstrap => \A x \in DOMAIN inst : inst[x].id # f.id
  BY <1>3, <1>9
<1> QED BY <1>d, <1>e, <1>f, <1>8, <1>11, <1>16, <1>17, <1>20, <1>21, <1>22, <1>23 DEF NewFiled

(* What Fired makes of a trial that created no instance. *)
OldFiled(f, r) ==
  /\ ~f.new /\ ~f.left /\ f.val = r.val /\ f.h = node[next].fsm /\ f.id = inst[f.h].id
  /\ DOMAIN f.inst = DOMAIN inst /\ f.inst[f.h] = r.fsm
  /\ \A x \in DOMAIN inst \ {f.h} : f.inst[x] = inst[x]
  /\ IdsFit(f.inst, f.byId) /\ f.availId \in Ids
  /\ f.val # "changed" => /\ f.expecting = expecting
                          /\ f.node = [node EXCEPT ![next].counter = msg.n]
  /\ f.val = "changed" => /\ f.expecting = [expecting EXCEPT ![ev] = Erase(@, next)]
                          /\ f.node = Without([node EXCEPT ![next].counter = msg.n], {next})

LEMMA FiredOld ==
  ASSUME StepByStep, Sound, Reached, NEW r, NEW f, f = Fired(r),
         SameButState(r.fsm, inst[node[next].fsm]), r.clone = None,
         node[next].fsm = Bootstrap => SameInstance(r.fsm, inst[node[next].fsm])
  PROVE  OldFiled(f, r)
<1> DEFINE x0 == node[next].fsm
<1>1. f.new = (r.clone # None)
  BY ZenonT(30) DEF Fired
<1>2. ~f.new
  BY <1>1, Zenon
<1>3. f.left = (r.clone # None /\ x0 = Bootstrap /\ FreeIds = {})
  BY ZenonT(30) DEF Fired
<1>4. ~f.left
  BY <1>3, Zenon
<1>5. f.h = x0 /\ f.val = r.val /\ f.id = inst[x0].id /\ f.byId = byId /\ f.availId = availId
  BY DEF Fired
<1>6. x0 \in DOMAIN inst
  BY Reaching DEF Reached
<1>7. f.inst = [x \in DOMAIN inst \cup {x0} |->
                   IF x = x0 /\ r.clone # None THEN [r.clone EXCEPT !.id = f.id]
                   ELSE IF x = x0 THEN r.fsm ELSE inst[x]]
  BY DEF Fired
<1>8. f.inst = [x \in DOMAIN inst |-> IF x = x0 THEN r.fsm ELSE inst[x]]
  BY <1>6, <1>7
<1>9. /\ DOMAIN f.inst = DOMAIN inst /\ f.inst[x0] = r.fsm
      /\ \A x \in DOMAIN inst \ {x0} : f.inst[x] = inst[x]
  BY <1>6, <1>8
<1>10. IdsFit(inst, byId) /\ availId \in Ids
  BY DEF Sound
<1> HIDE DEF x0
<1>11. IdsFit(f.inst, byId)
  BY <1>6, <1>8, <1>10, UpdateIds DEF x0
<1>12. f.val # "changed" => f.expecting = expecting /\ f.node = [node EXCEPT ![next].counter = msg.n]
  BY <1>5 DEF Fired
<1>13. f.val = "changed" => /\ f.expecting = [expecting EXCEPT ![ev] = Erase(@, next)]
                            /\ f.node = Without([node EXCEPT ![next].counter = msg.n], {next})
  BY <1>5 DEF Fired
<1> QED BY <1>2, <1>4, <1>5, <1>9, <1>10, <1>11, <1>12, <1>13 DEF x0, OldFiled

(* What an instance waits for when it moves on: what the old state waited for goes
   with the node that was used, but for a timeout. *)
LEMMA WantedAnew ==
  ASSUME StepByStep, NEW s \in Rule.states, NEW i \in DOMAIN Outgoing(s),
         MovesOn(Outgoing(s)[i]), Outgoing(s)[i].event # TIMEOUT,
         NEW j \in DOMAIN Outgoing(s), j # i, NEW w, ~w
  PROVE  LET q == Outgoing(s)[i].target
         IN  /\ j \notin Wanted(q, w)
             /\ j \in DOMAIN Outgoing(q)
             /\ Outgoing(q)[j].event = Outgoing(s)[j].event
<1> DEFINE q == Outgoing(s)[i].target
<1>1. /\ Outgoing(s)[j].event = TIMEOUT
      /\ Outgoing(s)[1].event = TIMEOUT <=> Outgoing(q)[1].event = TIMEOUT
      /\ ~Final(q)
  BY DEF StepByStep, MovesOn
<1>2. j = 1 /\ q \in Rule.states
  BY <1>1, RuleTypes
<1>3. Outgoing(q)[1].event = TIMEOUT
  BY <1>1, <1>2
<1>4. 1 \in DOMAIN Outgoing(q)
  BY SMTT(30), <1>1, <1>2, RuleTypes DEF Final
<1>5. 1 \notin Wanted(q, w)
  BY <1>3 DEF Wanted
<1> QED BY <1>1, <1>2, <1>3, <1>4, <1>5

(* The node that was used is removed, and its instance is in a further state. *)
LEMMA MovedFits ==
  ASSUME StepByStep, Sound, Reached, NEW f, NEW g \in Fsms, NEW w, ~w,
         MovesOn(Outgoing(inst[node[next].fsm].state)[node[next].index]), ev # TIMEOUT,
         g.state = Outgoing(inst[node[next].fsm].state)[node[next].index].target,
         f.inst[node[next].fsm] = g, DOMAIN f.inst = DOMAIN inst,
         \A x \in DOMAIN inst \ {node[next].fsm} : f.inst[x] = inst[x],
         f.node = Without([node EXCEPT ![next].counter = msg.n], {next}),
         f.expecting = [expecting EXCEPT ![ev] = Erase(@, next)]
  PROVE  /\ NodesFit(f.inst, f.node, f.expecting)
         /\ \A a \in DOMAIN f.node : f.node[a].fsm = node[next].fsm => f.node[a].index \notin Wanted(g.state, w)
<1> DEFINE h == node[next].fsm
           s == inst[h].state
           i == node[next].index
           M == [node EXCEPT ![next].counter = msg.n]
<1>1. /\ next \in DOMAIN node /\ h \in DOMAIN inst /\ i \in DOMAIN Outgoing(s) /\ s \in Rule.states
      /\ Outgoing(s)[i].event = ev /\ msg.n \in Nat /\ next \in ToSet(expecting[ev]) /\ ev \in Events
  BY Reaching DEF Reached, Sound, Fsms, Messages
<1>2. NodesFit(inst, node, expecting)
  BY DEF Sound
<1>3. NodesFit(inst, M, expecting)
  BY <1>1, <1>2, MarkFits
<1>4. NodesFit(inst, f.node, f.expecting)
  <2> HIDE DEF M
  <2>1. NodesFit(inst, Without(M, {next}), [expecting EXCEPT ![ev] = Erase(@, next)])
    BY <1>1, <1>3, RemoveFits
  <2> QED BY <2>1 DEF M
<1>5. \A a \in DOMAIN f.node : /\ a \in DOMAIN node /\ a # next
                               /\ f.node[a].fsm = node[a].fsm /\ f.node[a].index = node[a].index
  <2>1. node \in [DOMAIN node -> Nodes]
    BY <1>2 DEF NodesFit
  <2> QED BY <2>1 DEF Without, Nodes
<1>6. ASSUME NEW a \in DOMAIN f.node, f.node[a].fsm = h
      PROVE  f.node[a].index # i /\ f.node[a].index \in DOMAIN Outgoing(s)
  <2>1. f.node[a].index \in DOMAIN Outgoing(s)
    BY <1>4, <1>6 DEF NodesFit
  <2>2. f.node[a].index # i
    BY <1>1, <1>2, <1>5, <1>6 DEF NodesFit
  <2> QED BY <2>1, <2>2
<1> HIDE DEF h, s, i, M
<1>7. ASSUME NEW a \in DOMAIN f.node, f.node[a].fsm = h
      PROVE  /\ f.node[a].index \notin Wanted(g.state, w)
             /\ f.node[a].index \in DOMAIN Outgoing(g.state)
             /\ Outgoing(g.state)[f.node[a].index].event = Outgoing(s)[f.node[a].index].event
  <2>1. f.node[a].index # i /\ f.node[a].index \in DOMAIN Outgoing(s)
    BY <1>6, <1>7
  <2>2. MovesOn(Outgoing(s)[i]) /\ Outgoing(s)[i].event # TIMEOUT /\ g.state = Outgoing(s)[i].target
    BY <1>1 DEF h, s, i
  <2>3. PICK j \in DOMAIN Outgoing(s) : j = f.node[a].index /\ j # i
    BY <2>1
  <2>4. /\ j \notin Wanted(Outgoing(s)[i].target, w)
        /\ j \in DOMAIN Outgoing(Outgoing(s)[i].target)
        /\ Outgoing(Outgoing(s)[i].target)[j].event = Outgoing(s)[j].event
    BY <2>2, <2>3, <1>1, WantedAnew
  <2>5. /\ j \notin Wanted(g.state, w)
        /\ j \in DOMAIN Outgoing(g.state)
        /\ Outgoing(g.state)[j].event = Outgoing(s)[j].event
    BY <2>2, <2>4, Zenon
  <2> QED BY <2>3, <2>5, Zenon
<1>8. ASSUME NEW a \in DOMAIN f.node
      PROVE  /\ f.node[a].fsm \in DOMAIN f.inst
             /\ f.node[a].index \in DOMAIN Outgoing(f.inst[f.node[a].fsm].state)
             /\ EventOf(f.inst, f.node, a) = EventOf(inst, f.node, a)
  <2>0. f.node[a].fsm \in DOMAIN inst /\ f.node[a].index \in DOMAIN Outgoing(inst[f.node[a].fsm].state)
    BY <1>4 DEF NodesFit
  <2>1. CASE f.node[a].fsm = h
    <3>1. f.inst[h] = g /\ inst[h].state = s
      BY DEF h, s
    <3> QED BY <3>1, <2>0, <2>1, <1>7 DEF EventOf
  <2>2. CASE f.node[a].fsm # h
    <3>1. f.inst[f.node[a].fsm] = inst[f.node[a].fsm]
      BY <2>0, <2>2 DEF h
    <3> QED BY <3>1, <2>0 DEF EventOf
  <2> QED BY <2>1, <2>2
<1>9. NodesFit(f.inst, f.node, f.expecting)
  BY <1>4, <1>8, NodesAgree
<1> QED BY <1>7, <1>9 DEF h

(* What a node of the walk makes of the store, whatever the trial gave: either the
   store is in order, or it will be once the instance that ended is gone. *)
FiringFits(f) ==
  /\ f.val \in {"same", "changed"} \cup Ends
  /\ IdsFit(f.inst, f.byId) /\ f.availId \in Ids
  /\ f.h \in DOMAIN f.inst /\ f.inst[f.h].id = f.id
  /\ f.val \in Ends \cup {"changed"} => f.h # Bootstrap
  /\ f.val \notin Ends => NodesFit(f.inst, f.node, f.expecting)
  /\ \E I : /\ NodesFit(I, f.node, f.expecting) /\ DOMAIN I \subseteq DOMAIN f.inst
            /\ \A x \in DOMAIN I : x # f.h => f.inst[x].state = I[x].state
  /\ f.val = "changed" => \A a \in DOMAIN f.node :
       f.node[a].fsm = f.h => f.node[a].index \notin Wanted(f.inst[f.h].state, f.new)
  /\ \A b \in ToSet(expecting[ev]) \ {next} :
       b \in ToSet(f.expecting[ev]) /\ b \in DOMAIN f.node /\ f.node[b].fsm # f.h

LEMMA FiringSound ==
  ASSUME StepByStep, Sound, Reached, NEW f, f = Fired(Tried), ~f.left
  PROVE  FiringFits(f)
<1> DEFINE x0 == node[next].fsm
           fsm == inst[x0]
           i == node[next].index
           t == Outgoing(fsm.state)[i]
           M == [node EXCEPT ![next].counter = msg.n]
<1>1. /\ next \in DOMAIN node /\ x0 \in DOMAIN inst /\ fsm \in Fsms
      /\ i \in DOMAIN Outgoing(fsm.state) /\ t.event = ev /\ next # NoNode
      /\ msg \in Messages /\ msg.n \in Nat /\ next \in ToSet(expecting[ev]) /\ ev \in Events
  BY Reaching DEF Reached, Sound, Messages
<1>2. /\ NodesFit(inst, node, expecting) /\ IdsFit(inst, byId)
  BY DEF Sound
<1>3. PICK r : r = Tried
  OBVIOUS
<1>4. r = HandleEvent(fsm, i, msg) /\ f = Fired(r)
  BY <1>3 DEF Tried
<1>5. Unmoved(r, fsm) \/ Cloned(r, fsm, t, msg) \/ Moved(r, fsm, t, msg) \/ Ended(r, fsm, t, msg)
  <2> HIDE DEF fsm, i
  <2> QED BY <1>1, <1>4, HandleType
<1>6. NodesFit(inst, M, expecting)
  <2> HIDE DEF x0, fsm, t, i
  <2> QED BY <1>1, <1>2, MarkFits
<1>7. DOMAIN M = DOMAIN node /\ \A a \in DOMAIN node : M[a].fsm = node[a].fsm
  <2>1. node \in [DOMAIN node -> Nodes]
    BY <1>2 DEF NodesFit
  <2> QED BY <2>1, <1>1 DEF Nodes
<1>8. \A b \in ToSet(expecting[ev]) \ {next} : b \in DOMAIN node /\ node[b].fsm # x0
  BY <1>1, OnlyNode
<1>9. Bootstrap \in DOMAIN inst /\ inst[Bootstrap].state = Rule.init
  BY <1>2 DEF IdsFit
<1>10. "same" \notin Ends /\ "changed" \notin Ends /\ "same" # "changed"
  BY DEF Ends
<1> HIDE DEF M
<1>11. CASE Cloned(r, fsm, t, msg)
  <2>1. SameInstance(r.fsm, fsm) /\ r.clone \in Fsms /\ r.val \in {"same", "changed"} \cup Ends
    BY <1>11 DEF Cloned
  <2>2. /\ f.val = r.val
        /\ f.h \in Nat \ {0} /\ f.h \notin DOMAIN inst
        /\ DOMAIN f.inst = DOMAIN inst \cup {f.h}
        /\ f.inst[f.h] = [r.clone EXCEPT !.id = f.id]
        /\ IdsFit(f.inst, f.byId) /\ f.availId \in Ids
        /\ f.expecting = expecting /\ f.node = [node EXCEPT ![next].counter = msg.n]
        /\ NodesFit(f.inst, f.node, f.expecting)
    <3>1. NewFiled(f, r)
      BY <1>1, <1>4, <2>1, FiredNew
    <3> QED BY <3>1 DEF NewFiled
  <2>3. f.node = M
    BY <2>2 DEF M
  <2>4. f.inst[f.h].id = f.id
    BY <2>1, <2>2 DEF Fsms
  <2>5. \A a \in DOMAIN f.node : f.node[a].fsm # f.h
    BY <1>2, <1>7, <2>2, <2>3 DEF NodesFit
  <2>6. \A b \in ToSet(expecting[ev]) \ {next} :
          b \in ToSet(f.expecting[ev]) /\ b \in DOMAIN f.node /\ f.node[b].fsm # f.h
    BY <2>2, <2>3, <2>5, <1>7, <1>8
  <2>7. f.h # Bootstrap
    BY <2>2, <1>9
  <2>8. \E I : /\ NodesFit(I, f.node, f.expecting) /\ DOMAIN I \subseteq DOMAIN f.inst
               /\ \A x \in DOMAIN I : x # f.h => f.inst[x].state = I[x].state
    BY <2>2
  <2> QED BY SMTT(30), <2>1, <2>2, <2>4, <2>5, <2>6, <2>7, <2>8 DEF FiringFits
<1>12. ASSUME SameButState(r.fsm, fsm), r.clone = None, x0 = Bootstrap => SameInstance(r.fsm, fsm)
       PROVE  /\ f.val = r.val /\ f.h = x0 /\ f.id = fsm.id
              /\ DOMAIN f.inst = DOMAIN inst /\ f.inst[f.h] = r.fsm
              /\ \A x \in DOMAIN inst \ {f.h} : f.inst[x] = inst[x]
              /\ IdsFit(f.inst, f.byId) /\ f.availId \in Ids /\ f.inst[f.h].id = f.id
              /\ ~f.new
              /\ f.val # "changed" => f.expecting = expecting /\ f.node = M
              /\ f.val = "changed" => /\ f.expecting = [expecting EXCEPT ![ev] = Erase(@, next)]
                                      /\ f.node = Without(M, {next})
  <2>1. /\ ~f.new /\ f.val = r.val /\ f.h = x0 /\ f.id = inst[f.h].id
        /\ DOMAIN f.inst = DOMAIN inst /\ f.inst[f.h] = r.fsm
        /\ \A x \in DOMAIN inst \ {f.h} : f.inst[x] = inst[x]
        /\ IdsFit(f.inst, f.byId) /\ f.availId \in Ids
        /\ f.val # "changed" => /\ f.expecting = expecting
                                /\ f.node = [node EXCEPT ![next].counter = msg.n]
        /\ f.val = "changed" => /\ f.expecting = [expecting EXCEPT ![ev] = Erase(@, next)]
                                /\ f.node = Without([node EXCEPT ![next].counter = msg.n], {next})
    <3>1. OldFiled(f, r)
      BY <1>4, <1>12, FiredOld
    <3> QED BY <3>1 DEF OldFiled
  <2>2. f.inst[f.h].id = f.id
    BY <2>1, <1>12 DEF SameButState
  <2> QED BY <2>1, <2>2 DEF M
<1>13. ASSUME f.expecting = expecting, f.node = M, f.h = x0, DOMAIN f.inst = DOMAIN inst,
              \A x \in DOMAIN inst \ {f.h} : f.inst[x] = inst[x]
       PROVE  /\ \A b \in ToSet(expecting[ev]) \ {next} :
                   b \in ToSet(f.expecting[ev]) /\ b \in DOMAIN f.node /\ f.node[b].fsm # f.h
              /\ \E I : /\ NodesFit(I, f.node, f.expecting) /\ DOMAIN I \subseteq DOMAIN f.inst
                        /\ \A x \in DOMAIN I : x # f.h => f.inst[x].state = I[x].state
  <2>1. \A b \in ToSet(expecting[ev]) \ {next} :
          b \in ToSet(f.expecting[ev]) /\ b \in DOMAIN f.node /\ f.node[b].fsm # f.h
    BY <1>7, <1>8, <1>13
  <2>2. NodesFit(inst, f.node, f.expecting) /\ DOMAIN inst \subseteq DOMAIN f.inst
        /\ \A x \in DOMAIN inst : x # f.h => f.inst[x].state = inst[x].state
    BY <1>6, <1>13
  <2> QED BY <2>1, <2>2
<1>14. CASE Unmoved(r, fsm)
  <2>1. SameInstance(r.fsm, fsm) /\ SameButState(r.fsm, fsm) /\ r.clone = None /\ r.val = "same"
        /\ r.fsm.state = fsm.state
    BY <1>14 DEF Unmoved, SameInstance
  <2>2. /\ f.val = "same" /\ f.h = x0 /\ DOMAIN f.inst = DOMAIN inst /\ f.inst[f.h] = r.fsm
        /\ \A x \in DOMAIN inst \ {f.h} : f.inst[x] = inst[x]
        /\ IdsFit(f.inst, f.byId) /\ f.availId \in Ids /\ f.inst[f.h].id = f.id
        /\ f.expecting = expecting /\ f.node = M
    BY <2>1, <1>10, <1>12
  <2>3. \A x \in DOMAIN inst : f.inst[x].state = inst[x].state
    BY <2>1, <2>2
  <2>4. NodesFit(f.inst, f.node, f.expecting)
    <3>1. DOMAIN inst \subseteq DOMAIN f.inst /\ NodesFit(inst, f.node, f.expecting)
      BY <2>2, <1>6
    <3> QED BY <3>1, <2>3, NodesGrow
  <2> QED BY <2>2, <2>4, <1>1, <1>10, <1>13 DEF FiringFits
<1>15. CASE Ended(r, fsm, t, msg)
  <2>1. SameButState(r.fsm, fsm) /\ r.clone = None /\ r.val \in Ends /\ x0 # Bootstrap
    BY <1>15, <1>9 DEF Ended
  <2>2. /\ f.val \in Ends /\ f.h = x0 /\ DOMAIN f.inst = DOMAIN inst
        /\ \A x \in DOMAIN inst \ {f.h} : f.inst[x] = inst[x]
        /\ IdsFit(f.inst, f.byId) /\ f.availId \in Ids /\ f.inst[f.h].id = f.id
        /\ f.expecting = expecting /\ f.node = M
    BY <2>1, <1>10, <1>12
  <2> QED BY <2>1, <2>2, <1>1, <1>10, <1>13 DEF FiringFits
<1>16. CASE Moved(r, fsm, t, msg)
  <2>1. SameButState(r.fsm, fsm) /\ r.clone = None /\ r.val = "changed" /\ MovesOn(t) /\ ev # TIMEOUT
        /\ r.fsm.state = t.target
    BY <1>16, <1>1 DEF Moved
  <2>2. x0 # Bootstrap
    BY <1>1, <1>9, <2>1 DEF StepByStep, MovesOn
  <2>3. r.fsm \in Fsms
    BY <2>1 DEF SameButState
  <2>4. /\ f.val = "changed" /\ f.h = x0 /\ DOMAIN f.inst = DOMAIN inst /\ f.inst[f.h] = r.fsm
        /\ \A x \in DOMAIN inst \ {f.h} : f.inst[x] = inst[x]
        /\ IdsFit(f.inst, f.byId) /\ f.availId \in Ids /\ f.inst[f.h].id = f.id /\ ~f.new
        /\ f.expecting = [expecting EXCEPT ![ev] = Erase(@, next)]
        /\ f.node = Without(M, {next})
    BY SMTT(30), <2>1, <2>2, <1>12
  <2>5. /\ NodesFit(f.inst, f.node, f.expecting)
        /\ \A a \in DOMAIN f.node : f.node[a].fsm = x0 => f.node[a].index \notin Wanted(r.fsm.state, f.new)
    BY <2>1, <2>3, <2>4, MovedFits DEF M
  <2>6. ASSUME NEW b \in ToSet(expecting[ev]) \ {next}
        PROVE  b \in ToSet(f.expecting[ev]) /\ b \in DOMAIN f.node /\ f.node[b].fsm # f.h
    <3>1. b \in DOMAIN node /\ node[b].fsm # x0
      BY <1>8
    <3>2. b \in DOMAIN f.node /\ f.node[b].fsm # f.h
      BY <3>1, <2>4, <1>7 DEF Without
    <3>3. expecting \in [Events -> Seq(Nat)]
      BY <1>2 DEF NodesFit
    <3>4. f.expecting[ev] = Erase(expecting[ev], next)
      BY <3>3, <2>4, <1>1
    <3>5. b \in ToSet(f.expecting[ev])
      BY <3>3, <3>4, <1>1, EraseKeeps
    <3> QED BY <3>2, <3>5
  <2>7. \E I : /\ NodesFit(I, f.node, f.expecting) /\ DOMAIN I \subseteq DOMAIN f.inst
               /\ \A x \in DOMAIN I : x # f.h => f.inst[x].state = I[x].state
    BY <2>5
  <2>8. f.val \notin Ends /\ f.h \in DOMAIN f.inst
    BY <2>4, <1>1, <1>10
  <2>9. \A a \in DOMAIN f.node : f.node[a].fsm = f.h => f.node[a].index \notin Wanted(f.inst[f.h].state, f.new)
    BY <2>4, <2>5
  <2> QED BY <2>2, <2>4, <2>5, <2>6, <2>7, <2>8, <2>9 DEF FiringFits
<1> QED BY <1>5, <1>11, <1>14, <1>15, <1>16

(* The walk goes on with the node after this one, if that is still there. *)
LEMMA GoesOn ==
  ASSUME Sound, next # NoNode, NEW n, n = Following(expecting[ev], next)
  PROVE  n \in Nat /\ (n # NoNode => n \in ToSet(expecting[ev]) \ {next})
<1>1. PICK list \in Seq(Nat) : list = expecting[ev] /\ IsInjective(list)
  BY DEF Sound, NodesFit
<1>2. CASE n # NoNode
  <2>1. Following(list, next) # NoNode /\ n = Following(list, next)
    BY <1>1, <1>2
  <2>2. n \in ToSet(list) /\ n # next
    BY <1>1, <2>1, FollowingOther
  <2>3. n \in Nat
    BY <2>2, <1>1 DEF ToSet
  <2> QED BY <2>2, <2>3, <1>1
<1>3. CASE n = NoNode
  BY <1>3 DEF NoNode
<1> QED BY <1>2, <1>3

(* An instance that ended is dropped, alone or with others of its id. *)
LEMMA GoneFits ==
  ASSUME NEW f, FiringFits(f), f.val \in Ends, NEW gone, f.h \in gone, NEW list \in Seq(Nat),
         \A x \in gone : x \in DOMAIN f.inst /\ f.inst[x].id = f.id,
         IsInjective(list), \A x : x \in ToSet(list) <=> x \in ToSet(f.byId[f.id]) /\ x \notin gone
  PROVE  LET u == Unlink(f.node, f.expecting, gone)
             J == Without(f.inst, gone)
         IN  /\ NodesFit(J, u.node, u.expecting)
             /\ IdsFit(J, [f.byId EXCEPT ![f.id] = list])
             /\ f.id \in Ids
             /\ \A e \in Events : \A b \in DOMAIN f.node :
                  b \in ToSet(f.expecting[e]) /\ f.node[b].fsm \notin gone => b \in ToSet(u.expecting[e])
<1> DEFINE u == Unlink(f.node, f.expecting, gone)
           J == Without(f.inst, gone)
<1>1. IdsFit(f.inst, f.byId) /\ f.h \in DOMAIN f.inst /\ f.inst[f.h].id = f.id /\ f.h # Bootstrap
  BY DEF FiringFits
<1>2. f.inst[f.h] \in Fsms /\ f.inst[Bootstrap].id = 0 /\ f.id # 0
  BY <1>1 DEF IdsFit
<1>3. f.id \in Ids /\ Bootstrap \notin gone
  BY <1>1, <1>2 DEF Fsms
<1>4. IdsFit(J, [f.byId EXCEPT ![f.id] = list])
  BY <1>1, <1>3, DropIds
<1>5. PICK I : /\ NodesFit(I, f.node, f.expecting) /\ DOMAIN I \subseteq DOMAIN f.inst
               /\ \A x \in DOMAIN I : x # f.h => f.inst[x].state = I[x].state
  BY DEF FiringFits
<1>6. \A a \in DOMAIN f.node : f.node[a].fsm \in DOMAIN I
  BY <1>5 DEF NodesFit
<1>7. \A a \in DOMAIN f.node : f.node[a].fsm \notin gone =>
        f.node[a].fsm \in DOMAIN J /\ J[f.node[a].fsm].state = I[f.node[a].fsm].state
  BY <1>5, <1>6 DEF Without
<1>8. NodesFit(J, u.node, u.expecting)
  <2> HIDE DEF J
  <2> QED BY <1>5, <1>7, UnlinkFits
<1>9. ASSUME NEW e \in Events, NEW b \in DOMAIN f.node, b \in ToSet(f.expecting[e]), f.node[b].fsm \notin gone
      PROVE  b \in ToSet(u.expecting[e])
  <2> DEFINE kept == {a \in DOMAIN f.node : f.node[a].fsm \notin gone}
  <2>1. u.expecting[e] = Only(f.expecting[e], kept)
    BY DEF Unlink
  <2>2. f.expecting[e] \in Seq(Nat)
    BY <1>5 DEF NodesFit
  <2>3. b \in kept
    BY <1>9
  <2> HIDE DEF kept, u
  <2> QED BY <2>1, <2>2, <2>3, <1>9, OnlyKeeps
<1> QED BY <1>3, <1>4, <1>8, <1>9

(* The bootstrap instance is filed under the first events of the rule. *)
LEMMA InitSound == ASSUME Init PROVE Sound
<1> DEFINE N == <<>>
           X == [e \in Events |-> <<>>]
           J == [h \in {Bootstrap} |-> NewFsm]
           e0 == Expect(N, X, Bootstrap, Rule.init, FALSE, 0)
<1>1. NewFsm \in Fsms /\ NewFsm.state = Rule.init /\ NewFsm.id = 0
  <2>1. 0 \in Ids /\ 0 \in Events
    BY RuleAssumption DEF Ids, Events, TIMEOUT
  <2>2. Rule.init \in Rule.states
    BY RuleTypes
  <2> QED BY <2>1, <2>2 DEF NewFsm, Fsms
<1>2. NodesFit(J, N, X)
  <2>1. DOMAIN N = {} /\ N = [a \in {} |-> N[a]] /\ IsFiniteSet({})
    BY FS_EmptySet
  <2>2. X \in [Events -> Seq(Nat)] /\ \A e \in Events : X[e] = <<>>
    OBVIOUS
  <2>3. IsInjective(<<>>) /\ ToSet(<<>>) = {}
    BY DEF IsInjective, ToSet
  <2>4. N \in [DOMAIN N -> Nodes] /\ DOMAIN N \in SUBSET (Nat \ {0}) /\ IsFiniteSet(DOMAIN N)
    BY <2>1
  <2>5. \A e \in Events : IsInjective(X[e]) /\ \A a : a \in ToSet(X[e]) <=> a \in DOMAIN N /\ EventOf(J, N, a) = e
    BY <2>1, <2>2, <2>3
  <2> HIDE DEF N, X, J
  <2> QED BY <2>1, <2>2, <2>4, <2>5 DEF NodesFit
<1>3. Bootstrap \in Nat \ {0} /\ Bootstrap \in DOMAIN J /\ J[Bootstrap] = NewFsm /\ DOMAIN J = {Bootstrap}
  BY DEF Bootstrap
<1>4. NodesFit(J, e0.node, e0.expecting)
  <2>1. \A a \in DOMAIN N : N[a].fsm = Bootstrap => N[a].index \notin Wanted(J[Bootstrap].state, FALSE)
    OBVIOUS
  <2>2. J[Bootstrap].state \in Rule.states /\ J[Bootstrap].state = Rule.init
    BY <1>1, <1>3, RuleTypes
  <2> HIDE DEF N, X, J
  <2>3. NodesFit(J, Expect(N, X, Bootstrap, J[Bootstrap].state, FALSE, 0).node,
                    Expect(N, X, Bootstrap, J[Bootstrap].state, FALSE, 0).expecting)
    BY <1>2, <1>3, <2>1, <2>2, ExpectFits
  <2> QED BY <2>2, <2>3
<1>5. inst = J /\ node = e0.node /\ expecting = e0.expecting
  BY DEF Init
<1> HIDE DEF e0
<1>6. IdsFit(inst, byId)
  <2>1. byId = [i \in Ids |-> IF i = 0 THEN <<Bootstrap>> ELSE <<>>]
    BY DEF Init
  <2>2. ToSet(<<Bootstrap>>) = {Bootstrap} /\ ToSet(<<>>) = {} /\ IsInjective(<<Bootstrap>>) /\ IsInjective(<<>>)
    BY DEF ToSet, IsInjective
  <2>3. \A i \in Ids : IsInjective(byId[i]) /\ \A h : h \in ToSet(byId[i]) <=> h \in DOMAIN inst /\ inst[h].id = i
    BY <2>1, <2>2, <1>1, <1>3, <1>5
  <2>4. byId \in [Ids -> Seq(Nat)]
    BY <2>1, <1>3
  <2>5. IsFiniteSet({Bootstrap})
    BY FS_Singleton
  <2>6. inst \in [DOMAIN inst -> Fsms]
    BY <1>1, <1>5
  <2> HIDE DEF J
  <2> QED BY <2>3, <2>4, <2>5, <2>6, <1>1, <1>3, <1>5 DEF IdsFit
<1>7. availId = 0 /\ pc = "idle" /\ msg = [n |-> 0, ts |-> 0, kind |-> NoMessage] /\ ev = TIMEOUT /\ next = NoNode
      /\ verdict = "unknown"
  BY DEF Init
<1>8. availId \in Ids /\ msg \in Messages /\ ev \in Events /\ next \in Nat
  BY <1>7, RuleAssumption DEF Ids, Messages, Events, TIMEOUT, NoNode
<1> QED BY <1>4, <1>5, <1>6, <1>7, <1>8 DEF Sound

(* The parts of a step of the walk that do not depend on what was tried. *)
LEMMA StaySound ==
  ASSUME Sound, Reached, NEW f, FiringFits(f), Stay(f)
  PROVE  Sound'
<1>1. /\ inst' = f.inst /\ byId' = f.byId /\ availId' = f.availId
      /\ node' = f.node /\ expecting' = f.expecting
      /\ next' = Following(expecting[ev], next)
      /\ pc' = pc /\ msg' = msg /\ ev' = ev /\ verdict' = verdict
      /\ f.val \in {"same", "err_arg"}
  BY DEF Stay
<1>2. next' \in Nat /\ (next' # NoNode => next' \in ToSet(expecting[ev]) \ {next})
  BY <1>1, GoesOn DEF Reached
<1>3. f.val \notin Ends
  BY <1>1 DEF Ends
<1>4. next' # NoNode => next' \in ToSet(f.expecting[ev])
  BY <1>2 DEF FiringFits
<1> QED BY <1>1, <1>2, <1>3, <1>4 DEF FiringFits, Sound

LEMMA AdvanceSound ==
  ASSUME Sound, Reached, NEW f, FiringFits(f), Advance(f)
  PROVE  Sound'
<1> DEFINE e == Expect(f.node, f.expecting, f.h, f.inst[f.h].state, f.new, msg.n)
<1>1. /\ inst' = f.inst /\ byId' = f.byId /\ availId' = f.availId
      /\ node' = e.node /\ expecting' = e.expecting
      /\ next' = Following(expecting[ev], next)
      /\ pc' = pc /\ msg' = msg /\ ev' = ev /\ verdict' = verdict
      /\ f.val = "changed"
  BY DEF Advance
<1>2. next' \in Nat /\ (next' # NoNode => next' \in ToSet(expecting[ev]) \ {next})
  BY <1>1, GoesOn DEF Reached
<1>3. f.val \notin Ends
  BY <1>1 DEF Ends
<1>4. next' # NoNode => next' \in ToSet(f.expecting[ev])
  BY <1>2 DEF FiringFits
<1>5. NodesFit(f.inst, f.node, f.expecting) /\ IdsFit(f.inst, f.byId) /\ f.availId \in Ids /\ f.h \in DOMAIN f.inst
  BY <1>3 DEF FiringFits
<1>6. f.h \in Nat \ {0} /\ f.inst[f.h].state \in Rule.states
  BY <1>5 DEF IdsFit, Fsms
<1>7. \A a \in DOMAIN f.node : f.node[a].fsm = f.h => f.node[a].index \notin Wanted(f.inst[f.h].state, f.new)
  BY <1>1 DEF FiringFits
<1>8. msg.n \in Nat /\ ev \in Events
  BY DEF Sound, Messages
<1>9. NodesFit(f.inst, e.node, e.expecting) /\ \A d \in Events : ToSet(f.expecting[d]) \subseteq ToSet(e.expecting[d])
  BY <1>5, <1>6, <1>7, <1>8, ExpectFits
<1> HIDE DEF e
<1>10. next' # NoNode => next' \in ToSet(e.expecting[ev])
  BY <1>4, <1>8, <1>9
<1> QED BY <1>1, <1>2, <1>5, <1>9, <1>10 DEF Sound

LEMMA DropSound ==
  ASSUME Sound, Reached, NEW f, FiringFits(f), Drop(f)
  PROVE  Sound'
<1> DEFINE u == Unlink(f.node, f.expecting, {f.h})
           list == Erase(f.byId[f.id], f.h)
           B == [f.byId EXCEPT ![f.id] = list]
<1>1. /\ inst' = Without(f.inst, {f.h})
      /\ byId' = B
      /\ availId' = IF byId'[f.id] = <<>> THEN f.id ELSE f.availId
      /\ node' = u.node /\ expecting' = u.expecting
      /\ next' = Following(expecting[ev], next)
      /\ pc' = pc /\ msg' = msg /\ ev' = ev /\ verdict' = verdict
      /\ f.val \in {"error", "final", "inconclusive"}
  BY DEF Drop
<1>2. next' \in Nat /\ (next' # NoNode => next' \in ToSet(expecting[ev]) \ {next})
  BY <1>1, GoesOn DEF Reached
<1>3. f.val \in Ends /\ ev \in Events
  BY <1>1 DEF Ends, Sound
<1>4. next' # NoNode => next' \in ToSet(f.expecting[ev]) /\ next' \in DOMAIN f.node /\ f.node[next'].fsm \notin {f.h}
  BY <1>2 DEF FiringFits
<1>5. IdsFit(f.inst, f.byId) /\ f.availId \in Ids /\ f.h \in DOMAIN f.inst /\ f.inst[f.h].id = f.id
  BY DEF FiringFits
<1>6. f.id \in Ids /\ f.byId[f.id] \in Seq(Nat) /\ IsInjective(f.byId[f.id])
  BY <1>5 DEF IdsFit, Fsms
<1>7. /\ list \in Seq(Nat) /\ IsInjective(list)
      /\ \A x : x \in ToSet(list) <=> x \in ToSet(f.byId[f.id]) /\ x # f.h
  BY <1>6, EraseKeeps
<1> HIDE DEF u, list
<1>8. /\ NodesFit(Without(f.inst, {f.h}), u.node, u.expecting)
      /\ IdsFit(Without(f.inst, {f.h}), B)
      /\ \A e \in Events : \A b \in DOMAIN f.node :
           b \in ToSet(f.expecting[e]) /\ f.node[b].fsm \notin {f.h} => b \in ToSet(u.expecting[e])
  <2>1. \A x \in {f.h} : x \in DOMAIN f.inst /\ f.inst[x].id = f.id
    BY <1>5
  <2>2. \A x : x \in ToSet(list) <=> x \in ToSet(f.byId[f.id]) /\ x \notin {f.h}
    BY <1>7
  <2> QED BY <2>1, <2>2, <1>3, <1>7, GoneFits DEF u
<1> HIDE DEF B
<1>9. next' # NoNode => next' \in ToSet(u.expecting[ev])
  BY <1>3, <1>4, <1>8
<1>10. availId' \in Ids
  BY <1>1, <1>5, <1>6
<1> QED BY <1>1, <1>2, <1>8, <1>9, <1>10 DEF Sound

LEMMA ConcludeSound ==
  ASSUME Sound, NEW f, FiringFits(f), Conclude(f)
  PROVE  Sound' /\ f.val \in Ends
<1> DEFINE family == {x \in DOMAIN f.inst : f.inst[x].id = f.id}
           u == Unlink(f.node, f.expecting, family)
           B == [f.byId EXCEPT ![f.id] = <<>>]
<1>1. /\ inst' = Without(f.inst, ToSet(f.byId[f.id]))
      /\ byId' = B /\ availId' = f.id
      /\ node' = u.node /\ expecting' = u.expecting
      /\ next' = NoNode /\ pc' = "idle" /\ msg' = msg /\ ev' = ev /\ verdict' = Verdict(f.val)
      /\ Verdict(f.val) # "unknown"
  BY DEF Conclude
<1>2. f.val \in Ends /\ Verdict(f.val) \in {"unknown", "respected", "not_respected", "detected"}
  BY <1>1 DEF Verdict, Ends
<1>3. IdsFit(f.inst, f.byId) /\ f.h \in DOMAIN f.inst /\ f.inst[f.h].id = f.id
  BY DEF FiringFits
<1>4. f.id \in Ids
  BY <1>3 DEF IdsFit, Fsms
<1>5. \A x : x \in ToSet(f.byId[f.id]) <=> x \in family
  BY <1>3, <1>4 DEF IdsFit
<1>6. ToSet(f.byId[f.id]) = family /\ f.h \in family
  <2> HIDE DEF family
  <2>1. ToSet(f.byId[f.id]) = family
    BY <1>5
  <2> QED BY <2>1, <1>3 DEF family
<1>7. \A x : x \in ToSet(<<>>) <=> x \in ToSet(f.byId[f.id]) /\ x \notin family
  BY <1>6 DEF ToSet
<1>8. \A x \in family : x \in DOMAIN f.inst /\ f.inst[x].id = f.id
  OBVIOUS
<1> HIDE DEF family, u
<1>9. NodesFit(Without(f.inst, family), u.node, u.expecting) /\ IdsFit(Without(f.inst, family), B)
  <2>1. <<>> \in Seq(Nat) /\ IsInjective(<<>>)
    BY DEF IsInjective
  <2> QED BY <2>1, <1>2, <1>6, <1>7, <1>8, GoneFits DEF u
<1> HIDE DEF B
<1> QED BY <1>1, <1>2, <1>4, <1>6, <1>9 DEF Sound, NoNode

LEMMA ProcessSound == ASSUME StepByStep, Sound, ProcessNode PROVE Sound'
<1>1. PICK f : /\ f = Fired(Tried)
               /\ Stay(f) \/ Advance(f) \/ Drop(f) \/ Conclude(f) \/ Halt(f)
  BY DEF ProcessNode
<1>2. Reached
  BY DEF ProcessNode
<1>3. ASSUME ~f.left PROVE FiringFits(f)
  BY <1>1, <1>2, <1>3, FiringSound
<1>4. CASE Stay(f)
  <2>1. FiringFits(f)
    BY <1>3, <1>4 DEF Stay
  <2> QED BY <2>1, <1>2, <1>4, StaySound
<1>5. CASE Advance(f)
  <2>1. FiringFits(f)
    BY <1>3, <1>5 DEF Advance
  <2> QED BY <2>1, <1>2, <1>5, AdvanceSound
<1>6. CASE Drop(f)
  <2>1. FiringFits(f)
    BY <1>3, <1>6 DEF Drop
  <2> QED BY <2>1, <1>2, <1>6, DropSound
<1>7. CASE Conclude(f)
  <2>1. FiringFits(f)
    BY <1>3, <1>7 DEF Conclude
  <2> QED BY <2>1, <1>7, ConcludeSound
<1>8. CASE Halt(f)
  <2>1. UNCHANGED <<store, msg, ev, next, verdict>> /\ pc' = "halted"
    BY <1>8 DEF Halt
  <2> QED BY <2>1 DEF Sound, store
<1> QED BY <1>1, <1>4, <1>5, <1>6, <1>7, <1>8

LEMMA StepSound == ASSUME StepByStep, Sound, [Next]_vars PROVE Sound'
<1>0. NodesFit(inst, node, expecting) /\ expecting \in [Events -> Seq(Nat)] /\ TIMEOUT \in Events /\ msg \in Messages
  BY DEF Sound, NodesFit, Events
<1>1. ASSUME NEW n, NEW e \in Events, n = FirstOf(expecting[e])
      PROVE  n \in Nat /\ (n # NoNode => n \in ToSet(expecting[e]))
  <2>1. PICK list \in Seq(Nat) : list = expecting[e]
    BY <1>0, <1>1
  <2>2. CASE n # NoNode
    <3>1. n \in ToSet(list)
      BY <2>1, <2>2, <1>1, FirstIn
    <3> QED BY <3>1, <2>1 DEF ToSet
  <2>3. CASE n = NoNode
    BY <2>3 DEF NoNode
  <2> QED BY <2>2, <2>3
<1>2. ASSUME NEW k \in Kinds, NEW d \in Delays, Receive(k, d) PROVE Sound'
  <2>1. /\ msg' = [n |-> msg.n + 1, ts |-> msg.ts + d, kind |-> k] /\ msg.n < MaxMessages
        /\ pc' = "walk" /\ ev' = TIMEOUT /\ next' = FirstOf(expecting[TIMEOUT]) /\ verdict' = "unknown"
        /\ UNCHANGED store
    BY <1>2 DEF Receive
  <2>2. msg' \in Messages
    BY <2>1, <1>0, RuleAssumption DEF Messages
  <2>3. next' \in Nat /\ (next' # NoNode => next' \in ToSet(expecting[TIMEOUT]))
    BY <2>1, <1>0, <1>1
  <2> QED BY <2>1, <2>2, <2>3, <1>0 DEF Sound, store
<1>3. ASSUME NextList PROVE Sound'
  <2> DEFINE rest == {e \in Rule.events : e > ev /\ Concerns(e)}
  <2>1. UNCHANGED <<store, msg, verdict>> /\ next = NoNode
    BY <1>3 DEF NextList
  <2>2. CASE rest = {}
    <3>1. pc' = "idle" /\ UNCHANGED <<ev, next>>
      BY <1>3, <2>2 DEF NextList
    <3> QED BY <3>1, <2>1 DEF Sound, store
  <2>3. CASE rest # {}
    <3>1. /\ ev' = CHOOSE e \in rest : \A k \in rest : e <= k
          /\ next' = FirstOf(expecting[ev']) /\ pc' = pc
      BY <1>3, <2>3 DEF NextList
    <3>2. rest \in SUBSET Nat /\ rest \subseteq Events
      BY RuleTypes DEF Events
    <3> HIDE DEF rest
    <3>3. \E e \in rest : \A k \in rest : e <= k
      BY <3>2, <2>3, Least
    <3>4. PICK e \in Events : ev' = e
      BY <3>1, <3>2, <3>3
    <3>5. next' \in Nat /\ (next' # NoNode => next' \in ToSet(expecting[e]))
      BY <3>1, <3>4, <1>1
    <3> QED BY <3>1, <3>4, <3>5, <2>1 DEF Sound, store
  <2> QED BY <2>2, <2>3
<1>4. ASSUME Skip PROVE Sound'
  <2>1. /\ next # NoNode /\ next' = Following(expecting[ev], next)
        /\ UNCHANGED <<store, pc, msg, ev, verdict>>
    BY <1>4 DEF Skip
  <2>2. next' \in Nat /\ (next' # NoNode => next' \in ToSet(expecting[ev]))
    BY <2>1, GoesOn
  <2> QED BY <2>1, <2>2 DEF Sound, store
<1>5. CASE UNCHANGED vars
  BY <1>5 DEF vars, store, Sound
<1> QED BY <1>2, <1>3, <1>4, <1>5, ProcessSound DEF Next

-----------------------------------------------------------------------------
(* What the runs check follows. *)
LEMMA SoundLists == ASSUME Sound PROVE ListsSound
<1>1. IdsFit(inst, byId) /\ NodesFit(inst, node, expecting)
  BY DEF Sound
<1>2. \A h \in DOMAIN inst : inst[h] \in Fsms
  BY <1>1 DEF IdsFit
<1>3. TypeOK
  <2>1. DOMAIN inst \subseteq Nat /\ byId \in [Ids -> Seq(Nat)]
    BY <1>1 DEF IdsFit
  <2>2. DOMAIN node \subseteq Nat /\ expecting \in [Events -> Seq(Nat)]
    BY <1>1 DEF NodesFit
  <2>3. \A h \in DOMAIN inst : inst[h].state \in Rule.states /\ inst[h].id \in Ids
    BY <1>2 DEF Fsms
  <2>4. msg.n \in 0 .. MaxMessages
    BY DEF Sound, Messages
  <2> QED BY <2>1, <2>2, <2>3, <2>4 DEF TypeOK, Sound
<1>4. \A e \in Events : ToSet(expecting[e]) \subseteq DOMAIN node /\ IsInjective(expecting[e])
  BY <1>1 DEF NodesFit
<1>5. \A e, f \in Events : e # f => ToSet(expecting[e]) \cap ToSet(expecting[f]) = {}
  BY <1>1 DEF NodesFit
<1>6. ASSUME NEW i \in Ids
      PROVE  IsInjective(byId[i]) /\ ToSet(byId[i]) = {h \in DOMAIN inst : inst[h].id = i}
  <2>1. IsInjective(byId[i]) /\ \A h : h \in ToSet(byId[i]) <=> h \in DOMAIN inst /\ inst[h].id = i
    BY <1>1 DEF IdsFit
  <2> QED BY <2>1
<1>7. FiledOnce
  BY <1>4, <1>5, <1>6 DEF FiledOnce
<1>8. BootstrapKept
  BY <1>1 DEF IdsFit, BootstrapKept, State
<1> QED BY <1>3, <1>7, <1>8 DEF ListsSound

LEMMA SoundWalk == ASSUME Sound PROVE WalkSafe
<1>1. NodesFit(inst, node, expecting)
  BY DEF Sound
<1>2. ASSUME NEW a \in DOMAIN node
      PROVE  /\ node[a].fsm \in DOMAIN inst
             /\ node[a].index \in DOMAIN Outgoing(State(node[a].fsm))
             /\ \E e \in Events : /\ a \in ToSet(expecting[e])
                                 /\ Outgoing(State(node[a].fsm))[node[a].index].event = e
  <2>1. node[a].fsm \in DOMAIN inst /\ node[a].index \in DOMAIN Outgoing(inst[node[a].fsm].state)
    BY <1>1 DEF NodesFit
  <2>2. inst[node[a].fsm].state \in Rule.states
    BY <2>1 DEF Sound, IdsFit, Fsms
  <2>3. EventOf(inst, node, a) \in Events
    BY <2>1, <2>2, RuleTypes DEF EventOf
  <2>4. a \in ToSet(expecting[EventOf(inst, node, a)])
    BY <2>3, <1>1 DEF NodesFit
  <2> QED BY <2>1, <2>3, <2>4 DEF State, EventOf
<1>3. next # NoNode => next \in DOMAIN node /\ next \in ToSet(expecting[ev])
  BY <1>1 DEF Sound, NodesFit
<1> QED BY <1>2, <1>3 DEF WalkSafe, NodesCurrent, NextAlive

(* The store of the engine is consistent at every step of every walk, for every
   rule that goes on step by step, any messages and any number of instances: the
   lists that rule_verif_engine.c files instances under agree with what is alive. *)
THEOREM StoreIsSound == ASSUME StepByStep PROVE Spec => []ListsSound
<1>1. Init => Sound
  BY InitSound
<1>2. Sound /\ [Next]_vars => Sound'
  BY StepSound
<1>3. Sound => ListsSound
  BY SoundLists
<1> QED BY <1>1, <1>2, <1>3, PTL DEF Spec

(* The walk over a list is safe although each node it processes may free others:
   _process_a_node, the resets and the loop of _process_event_type never leave it
   on a freed node or one that names a transition its instance cannot take. *)
THEOREM WalkIsSafe == ASSUME StepByStep PROVE Spec => []WalkSafe
<1>1. Init => Sound
  BY InitSound
<1>2. Sound /\ [Next]_vars => Sound'
  BY StepSound
<1>3. Sound => WalkSafe
  BY SoundWalk
<1> QED BY <1>1, <1>2, <1>3, PTL DEF Spec

-----------------------------------------------------------------------------
(* The attempts at the rule: which instances belong to one, by the message that
   began it, what a verdict ends, and that none is forgotten while it can still
   go on. *)

(* The events an instance has met, and the messages all instances hold. *)
Slots(trace) == {e \in Rule.events : trace[e] # NoMessage}
Mail(I) == {I[h].trace[e] : h \in DOMAIN I, e \in Events} \ {NoMessage}

Traces == [Events -> Messages \cup {NoMessage}]

(* Messages of one number are one message. *)
OneEach(trace) == \A d, e \in Slots(trace) : trace[d].n = trace[e].n => trace[d] = trace[e]

IsFirst(x, trace) ==
  /\ \E e \in Slots(trace) : x = trace[e]
  /\ \A e \in Slots(trace) : x.n <= trace[e].n

LEMMA NotEmpty == NoMessage \notin Messages
BY RuleAssumption DEF Messages

LEMMA SlotsIn == ASSUME NEW trace \in Traces, NEW e \in Slots(trace) PROVE trace[e] \in Messages /\ trace[e].n \in Nat
BY DEF Traces, Slots, Events, Messages

(* A trace that is not empty has one first message. *)
LEMMA FirstIs ==
  ASSUME NEW trace \in Traces, Slots(trace) # {}, OneEach(trace)
  PROVE  IsFirst(First(trace), trace) /\ \A x : IsFirst(x, trace) => x = First(trace)
<1> DEFINE ms == {trace[e] : e \in {e \in Rule.events : trace[e] # NoMessage}}
<1>1. First(trace) = CHOOSE m \in ms : \A k \in ms : m.n <= k.n
  BY DEF First
<1>2. \A x : x \in ms <=> \E e \in Slots(trace) : x = trace[e]
  BY DEF Slots
<1> HIDE DEF ms
<1>3. \A x : IsFirst(x, trace) <=> x \in ms /\ \A k \in ms : x.n <= k.n
  BY <1>2 DEF IsFirst
<1>4. \E x : IsFirst(x, trace)
  <2> DEFINE T == {trace[e].n : e \in Slots(trace)}
  <2>1. T \in SUBSET Nat /\ T # {}
    BY SlotsIn
  <2>2. PICK n \in T : \A k \in T : n <= k
    <3> HIDE DEF T
    <3> QED BY <2>1, Least
  <2>3. PICK e \in Slots(trace) : n = trace[e].n
    BY <2>2
  <2>4. \A d \in Slots(trace) : n <= trace[d].n
    BY <2>2
  <2> QED BY <2>3, <2>4 DEF IsFirst
<1>5. IsFirst(First(trace), trace)
  <2>1. \E m \in ms : \A k \in ms : m.n <= k.n
    BY <1>3, <1>4
  <2>2. First(trace) \in ms /\ \A k \in ms : First(trace).n <= k.n
    BY <1>1, <2>1
  <2> QED BY <2>2, <1>3
<1>6. ASSUME NEW x, NEW y, IsFirst(x, trace), IsFirst(y, trace) PROVE x = y
  <2>1. PICK d \in Slots(trace) : x = trace[d]
    BY <1>6 DEF IsFirst
  <2>2. PICK e \in Slots(trace) : y = trace[e]
    BY <1>6 DEF IsFirst
  <2>3. x.n <= y.n /\ y.n <= x.n
    BY <1>6, <2>1, <2>2 DEF IsFirst
  <2>4. x.n = y.n
    BY <2>1, <2>2, <2>3, SlotsIn
  <2> QED BY <2>1, <2>2, <2>4 DEF OneEach
<1> QED BY <1>5, <1>6

(* A later message recorded in slots that were empty leaves the first one. *)
LEMMA FirstKept ==
  ASSUME NEW trace \in Traces, Slots(trace) # {}, OneEach(trace), NEW m \in Messages,
         \A e \in Slots(trace) : trace[e].n <= m.n /\ (trace[e].n = m.n => trace[e] = m),
         NEW E, E \cap Slots(trace) = {},
         NEW k, k = [e \in Events |-> IF e \in E THEN m ELSE trace[e]]
  PROVE  First(k) = First(trace) /\ Slots(k) = Slots(trace) \cup (E \cap Rule.events)
<1>1. \A e \in Rule.events : k[e] = IF e \in E THEN m ELSE trace[e]
  BY DEF Events
<1>2. Slots(k) = Slots(trace) \cup (E \cap Rule.events)
  BY <1>1, NotEmpty DEF Slots
<1>3. k \in Traces
  BY DEF Traces
<1>4. \A e \in Slots(trace) : k[e] = trace[e]
  BY <1>1 DEF Slots
<1>5. \A e \in Slots(k) \ Slots(trace) : k[e] = m
  BY <1>1, <1>2 DEF Slots
<1>6. OneEach(k)
  <2> SUFFICES ASSUME NEW d \in Slots(k), NEW e \in Slots(k), k[d].n = k[e].n PROVE k[d] = k[e]
    BY DEF OneEach
  <2>1. CASE d \in Slots(trace) /\ e \in Slots(trace)
    BY <2>1, <1>4 DEF OneEach
  <2>2. CASE d \in Slots(trace) /\ e \notin Slots(trace)
    BY <2>2, <1>4, <1>5
  <2>3. CASE d \notin Slots(trace) /\ e \in Slots(trace)
    BY <2>3, <1>4, <1>5
  <2>4. CASE d \notin Slots(trace) /\ e \notin Slots(trace)
    BY <2>4, <1>5
  <2> QED BY <2>1, <2>2, <2>3, <2>4
<1>7. IsFirst(First(trace), trace)
  BY FirstIs
<1>8. IsFirst(First(trace), k)
  <2>1. PICK e \in Slots(trace) : First(trace) = trace[e]
    BY <1>7 DEF IsFirst
  <2>2. First(trace).n <= m.n
    BY <2>1
  <2>3. e \in Slots(k) /\ First(trace) = k[e]
    BY <2>1, <1>2, <1>4
  <2>4. \A d \in Slots(k) : First(trace).n <= k[d].n
    BY <2>2, <1>4, <1>5, <1>7 DEF IsFirst
  <2> QED BY <2>3, <2>4 DEF IsFirst
<1>9. Slots(k) # {}
  BY <1>2
<1> QED BY <1>2, <1>3, <1>6, <1>8, <1>9, FirstIs

(* The message that begins a trace is its first. *)
LEMMA FirstNew ==
  ASSUME NEW trace \in Traces, Slots(trace) = {}, NEW m \in Messages,
         NEW E, E \cap Rule.events # {},
         NEW k, k = [e \in Events |-> IF e \in E THEN m ELSE trace[e]]
  PROVE  First(k) = m /\ Slots(k) = E \cap Rule.events
<1>1. \A e \in Rule.events : k[e] = IF e \in E THEN m ELSE trace[e]
  BY DEF Events
<1>2. Slots(k) = E \cap Rule.events
  BY <1>1, NotEmpty DEF Slots
<1>3. k \in Traces
  BY DEF Traces
<1>4. \A e \in Slots(k) : k[e] = m
  BY <1>1, <1>2
<1>5. OneEach(k)
  BY <1>4 DEF OneEach
<1>6. IsFirst(m, k)
  <2>1. m.n \in Nat
    BY DEF Messages
  <2> QED BY <2>1, <1>2, <1>4 DEF IsFirst
<1> QED BY <1>2, <1>3, <1>5, <1>6, FirstIs

-----------------------------------------------------------------------------
(* What the instances hold: no two messages of one number, none later than m; and
   what a live instance has met is something, and may lie behind its state. *)
MailFits(I, m) ==
  /\ \A x \in Mail(I) : x.n <= m.n /\ (x.n = m.n => x = m)
  /\ \A x, y \in Mail(I) : x.n = y.n => x = y
TracesFit(I, m, past) ==
  /\ MailFits(I, m)
  /\ \A h \in DOMAIN I : Slots(I[h].trace) \subseteq past[I[h].state]
  /\ \A h \in DOMAIN I \ {Bootstrap} : Slots(I[h].trace) # {}

(* Instances of one id began with one message. *)
Families(I) ==
  \A h, g \in DOMAIN I \ {Bootstrap} : I[h].id = I[g].id => First(I[h].trace) = First(I[g].trace)

LEMMA TraceFacts ==
  ASSUME NEW I, NEW B, IdsFit(I, B), NEW m, NEW past, TracesFit(I, m, past), NEW h \in DOMAIN I
  PROVE  /\ I[h].trace \in Traces /\ OneEach(I[h].trace)
         /\ \A e \in Slots(I[h].trace) : I[h].trace[e].n <= m.n /\ (I[h].trace[e].n = m.n => I[h].trace[e] = m)
         /\ h = Bootstrap => Slots(I[h].trace) = {}
<1>1. I[h] \in Fsms
  BY DEF IdsFit
<1>2. I[h].trace \in Traces
  BY <1>1 DEF Fsms, Traces
<1>3. \A e \in Slots(I[h].trace) : I[h].trace[e] \in Mail(I)
  BY DEF Slots, Mail, Events
<1>4. OneEach(I[h].trace)
  BY <1>3 DEF OneEach, TracesFit, MailFits
<1>5. \A e \in Slots(I[h].trace) : I[h].trace[e].n <= m.n /\ (I[h].trace[e].n = m.n => I[h].trace[e] = m)
  BY <1>3 DEF TracesFit, MailFits
<1>6. h = Bootstrap => Slots(I[h].trace) = {}
  BY DEF IdsFit, NewFsm, Slots, Events
<1> QED BY <1>2, <1>4, <1>5, <1>6

(* An instance g records the message under events that did not lie behind it. *)
RecordedWell(g, f, boot, m, E) ==
  /\ ~boot => First(g.trace) = First(f.trace)
  /\ boot /\ E \cap Rule.events # {} => First(g.trace) = m
  /\ Slots(g.trace) = Slots(f.trace) \cup (E \cap Rule.events)
  /\ \A e \in Events : g.trace[e] = m \/ g.trace[e] = f.trace[e]

LEMMA RecordedFacts ==
  ASSUME NEW I, NEW B, IdsFit(I, B), NEW m \in Messages, NEW past, TracesFit(I, m, past), NEW h \in DOMAIN I,
         NEW E, E \cap past[I[h].state] = {}, NEW g, Recorded(g, I[h], m, E)
  PROVE  RecordedWell(g, I[h], h = Bootstrap, m, E)
<1>1. g.trace = [e \in Events |-> IF e \in E THEN m ELSE I[h].trace[e]]
  BY DEF Recorded
<1>2. E \cap Slots(I[h].trace) = {}
  BY DEF TracesFit
<1>3. CASE h # Bootstrap
  <2>1. Slots(I[h].trace) # {}
    BY <1>3 DEF TracesFit
  <2>2. First(g.trace) = First(I[h].trace) /\ Slots(g.trace) = Slots(I[h].trace) \cup (E \cap Rule.events)
    BY <1>1, <1>2, <2>1, TraceFacts, FirstKept
  <2> QED BY <2>2, <1>1, <1>3 DEF RecordedWell
<1>4. CASE h = Bootstrap
  <2>1. Slots(I[h].trace) = {} /\ I[h].trace \in Traces
    BY <1>4, TraceFacts
  <2>2. Slots(g.trace) = E \cap Rule.events
    BY <1>1, <2>1, NotEmpty DEF Slots, Events
  <2>3. E \cap Rule.events # {} => First(g.trace) = m
    BY <1>1, <2>1, FirstNew
  <2> QED BY <2>1, <2>2, <2>3, <1>1, <1>4 DEF RecordedWell
<1> QED BY <1>3, <1>4

(* What a node of the walk makes of the traces: x is the instance it is about, and
   either x may have changed, or there is a clone of it. *)
SameMember(f, x) == f.inst[x].id = inst[x].id /\ f.inst[x].trace = inst[x].trace /\ f.inst[x].state = inst[x].state
FiringTraces(f, past) ==
  /\ DOMAIN f.inst = DOMAIN inst \cup {f.h}
  /\ \A x \in DOMAIN inst \ {f.h} : SameMember(f, x)
  /\ \A e \in Events : f.inst[f.h].trace[e] \in Mail(inst) \cup {msg, NoMessage}
  /\ f.h # Bootstrap => Slots(f.inst[f.h].trace) # {}
  /\ f.val \notin Ends => Slots(f.inst[f.h].trace) \subseteq past[f.inst[f.h].state]
  /\ \/ f.h \in DOMAIN inst /\ f.inst[f.h].id = inst[f.h].id
        /\ (f.h # Bootstrap => First(f.inst[f.h].trace) = First(inst[f.h].trace))
     \/ f.h \notin DOMAIN inst /\ \E x \in DOMAIN inst \ {Bootstrap} :
          f.inst[f.h].id = inst[x].id /\ First(f.inst[f.h].trace) = First(inst[x].trace)
     \/ f.h \notin DOMAIN inst /\ node[next].fsm = Bootstrap /\ First(f.inst[f.h].trace) = msg
        /\ \A x \in DOMAIN inst : inst[x].id # f.inst[f.h].id

LEMMA FiringTraced ==
  ASSUME StepByStep, Sound, Reached, NEW past, OncePerPath(past), TracesFit(inst, msg, past),
         NEW f, f = Fired(Tried), ~f.left
  PROVE  FiringTraces(f, past)
<1> DEFINE x0 == node[next].fsm
           fsm == inst[x0]
           i == node[next].index
           t == Outgoing(fsm.state)[i]
<1>1. /\ next \in DOMAIN node /\ x0 \in DOMAIN inst /\ fsm \in Fsms
      /\ i \in DOMAIN Outgoing(fsm.state) /\ t.event = ev /\ next # NoNode
      /\ msg \in Messages
  BY Reaching DEF Reached, Sound
<1>2. IdsFit(inst, byId)
  BY DEF Sound
<1>3. PICK r : r = Tried
  OBVIOUS
<1>4. r = HandleEvent(fsm, i, msg) /\ f = Fired(r)
  BY <1>3 DEF Tried
<1>5. Unmoved(r, fsm) \/ Cloned(r, fsm, t, msg) \/ Moved(r, fsm, t, msg) \/ Ended(r, fsm, t, msg)
  <2> HIDE DEF fsm, i
  <2> QED BY <1>1, <1>4, HandleType
<1>6. fsm.state \in Rule.states /\ t.target \in Rule.states
  <2>1. fsm.state \in Rule.states
    BY <1>1 DEF Fsms
  <2> QED BY <2>1, <1>1, RuleTypes
<1>7. /\ t.event # TIMEOUT => /\ t.event \notin past[fsm.state] /\ t.event \in Rule.events
                              /\ past[fsm.state] \cup {t.event} \subseteq past[t.target]
      /\ t.event \in Events
      /\ past[fsm.state] \subseteq Rule.events /\ TIMEOUT \notin Rule.events
  <2>1. t.event \in Events
    BY <1>1, <1>6, RuleTypes
  <2>2. TIMEOUT \notin Rule.events
    BY RuleAssumption DEF RuleShape
  <2>3. past[fsm.state] \subseteq Rule.events
    BY <1>6 DEF OncePerPath
  <2>4. t.event # TIMEOUT => t.event \notin past[fsm.state] /\ past[fsm.state] \cup {t.event} \subseteq past[t.target]
    BY <1>1, <1>6 DEF OncePerPath
  <2> QED BY <2>1, <2>2, <2>3, <2>4 DEF Events
<1>8. Bootstrap \in DOMAIN inst /\ inst[Bootstrap].state = Rule.init
  BY <1>2 DEF IdsFit
<1>9. "same" \notin Ends /\ "changed" \notin Ends
  BY DEF Ends
<1>10. /\ Slots(fsm.trace) \subseteq past[fsm.state]
       /\ x0 # Bootstrap => Slots(fsm.trace) # {}
       /\ \A e \in Events : fsm.trace[e] \in Mail(inst) \cup {NoMessage}
  BY <1>1 DEF TracesFit, Mail
<1> HIDE DEF t, i
<1>11. ASSUME NEW E, E \cap past[fsm.state] = {}, NEW g, Recorded(g, fsm, msg, E)
       PROVE  /\ x0 # Bootstrap => First(g.trace) = First(fsm.trace)
              /\ x0 = Bootstrap /\ E \cap Rule.events # {} => First(g.trace) = msg
              /\ Slots(g.trace) = Slots(fsm.trace) \cup (E \cap Rule.events)
              /\ \A e \in Events : g.trace[e] \in Mail(inst) \cup {msg, NoMessage}
  <2>1. /\ x0 # Bootstrap => First(g.trace) = First(fsm.trace)
        /\ x0 = Bootstrap /\ E \cap Rule.events # {} => First(g.trace) = msg
        /\ Slots(g.trace) = Slots(fsm.trace) \cup (E \cap Rule.events)
        /\ \A e \in Events : g.trace[e] = msg \/ g.trace[e] = fsm.trace[e]
    <3>1. RecordedWell(g, fsm, x0 = Bootstrap, msg, E)
      BY <1>1, <1>2, <1>11, RecordedFacts, ZenonT(30)
    <3> QED BY <3>1, Zenon DEF RecordedWell
  <2> QED BY <2>1, <1>10
<1>12. ASSUME SameButState(r.fsm, fsm), r.clone = None, x0 = Bootstrap => SameInstance(r.fsm, fsm)
       PROVE  /\ f.val = r.val /\ f.h = x0 /\ f.h \in DOMAIN inst /\ f.inst[f.h].id = inst[f.h].id
              /\ DOMAIN f.inst = DOMAIN inst \cup {f.h} /\ f.inst[f.h] = r.fsm
              /\ \A x \in DOMAIN inst \ {f.h} : SameMember(f, x)
  <2>1. OldFiled(f, r)
    BY <1>4, <1>12, FiredOld
  <2>2. f.inst[f.h].id = inst[f.h].id
    BY <2>1, <1>12 DEF OldFiled, SameButState
  <2> QED BY <2>1, <2>2, <1>1 DEF OldFiled, SameMember
<1>13. CASE Unmoved(r, fsm)
  <2>1. SameInstance(r.fsm, fsm) /\ SameButState(r.fsm, fsm) /\ r.clone = None /\ r.val = "same"
        /\ r.fsm.state = fsm.state /\ r.fsm.trace = fsm.trace
    BY <1>13 DEF Unmoved, SameInstance
  <2>2. /\ f.val = r.val /\ f.h = x0 /\ f.h \in DOMAIN inst /\ f.inst[f.h].id = inst[f.h].id
        /\ DOMAIN f.inst = DOMAIN inst \cup {f.h} /\ f.inst[f.h] = r.fsm
        /\ \A x \in DOMAIN inst \ {f.h} : SameMember(f, x)
    BY <2>1, <1>12
  <2> HIDE DEF x0
  <2>3. /\ \A e \in Events : f.inst[f.h].trace[e] \in Mail(inst) \cup {msg, NoMessage}
        /\ f.h # Bootstrap => Slots(f.inst[f.h].trace) # {}
        /\ Slots(f.inst[f.h].trace) \subseteq past[f.inst[f.h].state]
        /\ First(f.inst[f.h].trace) = First(inst[f.h].trace)
    BY <2>1, <2>2, <1>10
  <2> QED BY <2>2, <2>3 DEF FiringTraces
<1>14. CASE Ended(r, fsm, t, msg)
  <2>1. SameButState(r.fsm, fsm) /\ r.clone = None /\ r.val \in Ends /\ x0 # Bootstrap
        /\ Recorded(r.fsm, fsm, msg, {t.event})
    BY <1>14, <1>8 DEF Ended
  <2>2. /\ f.val = r.val /\ f.h = x0 /\ f.h \in DOMAIN inst /\ f.inst[f.h].id = inst[f.h].id
        /\ DOMAIN f.inst = DOMAIN inst \cup {f.h} /\ f.inst[f.h] = r.fsm
        /\ \A x \in DOMAIN inst \ {f.h} : SameMember(f, x)
    BY <2>1, <1>12
  <2>3. {t.event} \cap past[fsm.state] = {}
    BY <1>7
  <2>4. /\ First(r.fsm.trace) = First(fsm.trace)
        /\ Slots(r.fsm.trace) = Slots(fsm.trace) \cup ({t.event} \cap Rule.events)
        /\ \A e \in Events : r.fsm.trace[e] \in Mail(inst) \cup {msg, NoMessage}
    BY <2>1, <2>3, <1>11
  <2>5. Slots(r.fsm.trace) # {}
    BY <2>1, <2>4, <1>10
  <2> QED BY <2>1, <2>2, <2>4, <2>5 DEF FiringTraces
<1>15. CASE Moved(r, fsm, t, msg)
  <2>1. SameButState(r.fsm, fsm) /\ r.clone = None /\ r.val = "changed" /\ MovesOn(t) /\ t.event # TIMEOUT
        /\ r.fsm.state = t.target /\ Recorded(r.fsm, fsm, msg, {t.event})
    BY <1>15 DEF Moved
  <2>2. x0 # Bootstrap
    BY <1>1, <1>8, <2>1 DEF StepByStep, MovesOn, t
  <2>3. /\ f.val = r.val /\ f.h = x0 /\ f.h \in DOMAIN inst /\ f.inst[f.h].id = inst[f.h].id
        /\ DOMAIN f.inst = DOMAIN inst \cup {f.h} /\ f.inst[f.h] = r.fsm
        /\ \A x \in DOMAIN inst \ {f.h} : SameMember(f, x)
    BY <2>1, <2>2, <1>12
  <2>4. {t.event} \cap past[fsm.state] = {}
    BY <1>7, <2>1
  <2>5. /\ First(r.fsm.trace) = First(fsm.trace)
        /\ Slots(r.fsm.trace) = Slots(fsm.trace) \cup ({t.event} \cap Rule.events)
        /\ \A e \in Events : r.fsm.trace[e] \in Mail(inst) \cup {msg, NoMessage}
    BY <2>1, <2>2, <2>4, <1>11
  <2>6. Slots(r.fsm.trace) # {} /\ Slots(r.fsm.trace) \subseteq past[r.fsm.state]
    BY <2>1, <2>2, <2>5, <1>7, <1>10
  <2> QED BY <2>2, <2>3, <2>5, <2>6 DEF FiringTraces
<1>16. CASE Cloned(r, fsm, t, msg)
  <2>1. /\ SameInstance(r.fsm, fsm) /\ r.clone \in Fsms /\ t.event # TIMEOUT
        /\ \/ r.clone.state = t.target /\ Recorded(r.clone, fsm, msg, {t.event})
           \/ \E j \in DOMAIN Outgoing(t.target) :
                LET u == Outgoing(t.target)[j]
                IN  /\ u.event # TIMEOUT
                    /\ r.clone.state = u.target
                    /\ Recorded(r.clone, fsm, msg, {t.event, u.event})
    BY <1>16 DEF Cloned
  <2>2. NewFiled(f, r)
    BY <1>4, <2>1, FiredNew
  <2>3. /\ f.h \notin DOMAIN inst /\ DOMAIN f.inst = DOMAIN inst \cup {f.h}
        /\ f.inst[f.h].id = f.id /\ f.inst[f.h].trace = r.clone.trace /\ f.inst[f.h].state = r.clone.state
    BY <2>1, <2>2 DEF NewFiled, Fsms
  <2>4. \A x \in DOMAIN inst \ {f.h} : SameMember(f, x)
    <3>1. SameMember(f, x0)
      BY <2>1, <2>2 DEF NewFiled, SameMember, SameInstance, SameButState
    <3>2. \A x \in DOMAIN inst \ {x0} : SameMember(f, x)
      BY <2>2 DEF NewFiled, SameMember
    <3> QED BY <3>1, <3>2
  <2>5. PICK E : /\ Recorded(r.clone, fsm, msg, E) /\ E \cap past[fsm.state] = {} /\ t.event \in E
                 /\ (past[fsm.state] \cup E) \cap Rule.events \subseteq past[r.clone.state]
    <3>1. CASE r.clone.state = t.target /\ Recorded(r.clone, fsm, msg, {t.event})
      <4>1. {t.event} \cap past[fsm.state] = {} /\ past[fsm.state] \cup {t.event} \subseteq past[r.clone.state]
        BY <2>1, <3>1, <1>7
      <4> QED BY <4>1, <3>1
    <3>2. ASSUME NEW j \in DOMAIN Outgoing(t.target), Outgoing(t.target)[j].event # TIMEOUT,
                 r.clone.state = Outgoing(t.target)[j].target,
                 Recorded(r.clone, fsm, msg, {t.event, Outgoing(t.target)[j].event})
          PROVE  \E E : /\ Recorded(r.clone, fsm, msg, E) /\ E \cap past[fsm.state] = {} /\ t.event \in E
                        /\ (past[fsm.state] \cup E) \cap Rule.events \subseteq past[r.clone.state]
      <4> DEFINE u == Outgoing(t.target)[j]
      <4>1. u.event \notin past[t.target] /\ past[t.target] \cup {u.event} \subseteq past[u.target]
        BY <3>2, <1>6 DEF OncePerPath
      <4>2. {t.event, u.event} \cap past[fsm.state] = {}
        BY <4>1, <2>1, <1>7
      <4>3. past[fsm.state] \cup {t.event, u.event} \subseteq past[r.clone.state]
        BY <4>1, <2>1, <3>2, <1>7
      <4> QED BY <4>2, <4>3, <3>2
    <3> QED BY <2>1, <3>1, <3>2
  <2>6. /\ x0 # Bootstrap => First(r.clone.trace) = First(fsm.trace)
        /\ x0 = Bootstrap /\ E \cap Rule.events # {} => First(r.clone.trace) = msg
        /\ Slots(r.clone.trace) = Slots(fsm.trace) \cup (E \cap Rule.events)
        /\ \A e \in Events : r.clone.trace[e] \in Mail(inst) \cup {msg, NoMessage}
    BY <2>5, <1>11
  <2>7. E \cap Rule.events # {} /\ Slots(r.clone.trace) # {} /\ Slots(r.clone.trace) \subseteq past[r.clone.state]
    BY <2>1, <2>5, <2>6, <1>7, <1>10
  <2>8. CASE x0 = Bootstrap
    <3>1. \A x \in DOMAIN inst : inst[x].id # f.id
      BY <2>2, <2>8 DEF NewFiled
    <3>2. First(f.inst[f.h].trace) = msg
      BY <2>3, <2>6, <2>7, <2>8
    <3> QED BY <3>1, <3>2, <2>3, <2>4, <2>6, <2>7, <2>8 DEF FiringTraces
  <2>9. CASE x0 # Bootstrap
    <3>1. f.id = fsm.id
      BY <2>2, <2>9 DEF NewFiled
    <3>2. First(f.inst[f.h].trace) = First(fsm.trace)
      BY <2>3, <2>6, <2>9
    <3>3. \E x \in DOMAIN inst \ {Bootstrap} :
            f.inst[f.h].id = inst[x].id /\ First(f.inst[f.h].trace) = First(inst[x].trace)
      BY <3>1, <3>2, <2>3, <2>9, <1>1
    <3> QED BY <3>3, <2>3, <2>4, <2>6, <2>7 DEF FiringTraces
  <2> QED BY <2>8, <2>9
<1> QED BY <1>5, <1>13, <1>14, <1>15, <1>16

-----------------------------------------------------------------------------
(* J is what of the instances is left after a node was processed. *)
LeftOf(J, f) ==
  /\ DOMAIN J \subseteq DOMAIN f.inst /\ \A x \in DOMAIN J : J[x] = f.inst[x]
  /\ f.val \in Ends => f.h \notin DOMAIN J

LEMMA TracesStep ==
  ASSUME NEW past, TracesFit(inst, msg, past), msg \in Messages, NEW f, FiringTraces(f, past),
         NEW J, LeftOf(J, f)
  PROVE  TracesFit(J, msg, past)
<1>1. ASSUME NEW h \in DOMAIN J, NEW e \in Events PROVE J[h].trace[e] \in Mail(inst) \cup {msg, NoMessage}
  <2>1. h \in DOMAIN inst \cup {f.h} /\ J[h] = f.inst[h]
    BY DEF LeftOf, FiringTraces
  <2>2. CASE h = f.h
    BY <2>1, <2>2 DEF FiringTraces
  <2>3. CASE h # f.h
    <3>1. h \in DOMAIN inst /\ J[h].trace = inst[h].trace
      BY <2>1, <2>3 DEF FiringTraces, SameMember
    <3> QED BY <3>1 DEF Mail
  <2> QED BY <2>2, <2>3
<1>2. Mail(J) \subseteq Mail(inst) \cup {msg}
  BY <1>1 DEF Mail
<1>3. MailFits(J, msg)
  <2>1. msg.n \in Nat
    BY DEF Messages
  <2> QED BY <2>1, <1>2 DEF MailFits, TracesFit
<1>4. ASSUME NEW h \in DOMAIN J
      PROVE  /\ Slots(J[h].trace) \subseteq past[J[h].state]
             /\ h # Bootstrap => Slots(J[h].trace) # {}
  <2>1. h \in DOMAIN inst \cup {f.h} /\ J[h] = f.inst[h]
    BY DEF LeftOf, FiringTraces
  <2>2. CASE h = f.h
    BY <2>1, <2>2 DEF FiringTraces, LeftOf
  <2>3. CASE h # f.h
    <3>1. h \in DOMAIN inst /\ J[h].trace = inst[h].trace /\ J[h].state = inst[h].state
      BY <2>1, <2>3 DEF FiringTraces, SameMember
    <3> QED BY <3>1 DEF TracesFit
  <2> QED BY <2>2, <2>3
<1> QED BY <1>3, <1>4 DEF TracesFit

LEMMA FamiliesStep ==
  ASSUME NEW past, NEW f, FiringTraces(f, past), Families(inst), NEW J, LeftOf(J, f)
  PROVE  Families(J)
<1>1. \A x \in DOMAIN inst \ {f.h} : f.inst[x].id = inst[x].id /\ f.inst[x].trace = inst[x].trace
  BY DEF FiringTraces, SameMember
<1>2. ASSUME NEW g \in DOMAIN inst \ {Bootstrap}, g # f.h, f.h # Bootstrap, f.inst[f.h].id = inst[g].id
      PROVE  First(f.inst[f.h].trace) = First(inst[g].trace)
  <2>1. CASE f.h \in DOMAIN inst /\ f.inst[f.h].id = inst[f.h].id
             /\ First(f.inst[f.h].trace) = First(inst[f.h].trace)
    BY <2>1, <1>2 DEF Families
  <2>2. ASSUME NEW x \in DOMAIN inst \ {Bootstrap},
               f.inst[f.h].id = inst[x].id, First(f.inst[f.h].trace) = First(inst[x].trace)
        PROVE  First(f.inst[f.h].trace) = First(inst[g].trace)
    BY <2>2, <1>2 DEF Families
  <2>3. CASE \A x \in DOMAIN inst : inst[x].id # f.inst[f.h].id
    BY <2>3, <1>2
  <2> QED BY <2>1, <2>2, <2>3, <1>2 DEF FiringTraces
<1>3. \A g \in DOMAIN J : g \in DOMAIN inst \cup {f.h} /\ J[g] = f.inst[g]
  BY DEF LeftOf, FiringTraces
<1>4. ASSUME NEW h \in DOMAIN J \ {Bootstrap}, NEW g \in DOMAIN J \ {Bootstrap}, J[h].id = J[g].id
      PROVE  First(J[h].trace) = First(J[g].trace)
  <2>1. CASE h # f.h /\ g # f.h
    BY <2>1, <1>1, <1>3, <1>4 DEF Families
  <2>2. CASE h = f.h /\ g # f.h
    BY <2>2, <1>1, <1>2, <1>3, <1>4
  <2>3. CASE h # f.h /\ g = f.h
    BY <2>3, <1>1, <1>2, <1>3, <1>4
  <2>4. CASE h = f.h /\ g = f.h
    BY <2>4
  <2> QED BY <2>1, <2>2, <2>3, <2>4
<1> QED BY <1>4 DEF Families

(* What is left after each way a node may end. *)
LEMMA ProcessLeaves ==
  ASSUME StepByStep, Sound, Reached, NEW f, f = Fired(Tried),
         Stay(f) \/ Advance(f) \/ Drop(f) \/ Conclude(f)
  PROVE  ~f.left /\ msg' = msg /\ LeftOf(inst', f)
<1>0. ~f.left /\ msg' = msg
  BY DEF Stay, Advance, Drop, Conclude
<1>1. FiringFits(f)
  BY <1>0, FiringSound
<1>2. CASE Stay(f)
  BY <1>2 DEF Stay, LeftOf, Ends
<1>3. CASE Advance(f)
  BY <1>3 DEF Advance, LeftOf, Ends
<1>4. CASE Drop(f)
  BY <1>4 DEF Drop, LeftOf, Without
<1>5. CASE Conclude(f)
  <2>1. inst' = Without(f.inst, ToSet(f.byId[f.id]))
    BY <1>5 DEF Conclude
  <2>2. f.h \in ToSet(f.byId[f.id])
    BY <1>1 DEF FiringFits, IdsFit, Fsms
  <2>3. LeftOf(inst', f)
    BY <2>1, <2>2 DEF LeftOf, Without
  <2> QED BY <2>3, <1>0
<1> QED BY <1>0, <1>2, <1>3, <1>4, <1>5

(* Receiving a message only makes those held older. *)
LEMMA TracesAge ==
  ASSUME NEW I, NEW m \in Messages, NEW past, TracesFit(I, m, past), I \in [DOMAIN I -> Fsms],
         NEW k, k.n = m.n + 1
  PROVE  TracesFit(I, k, past) /\ \A x \in Mail(I) : x # k
<1>1. \A x \in Mail(I) : x.n \in Nat /\ x.n <= m.n
  <2>1. ASSUME NEW x \in Mail(I) PROVE x \in Messages
    <3>1. PICK h \in DOMAIN I, e \in Events : x = I[h].trace[e] /\ x # NoMessage
      BY DEF Mail
    <3>2. I[h].trace \in [Events -> Messages \cup {NoMessage}]
      BY DEF Fsms
    <3> QED BY <3>1, <3>2
  <2> QED BY <2>1 DEF Messages, TracesFit, MailFits
<1>2. m.n \in Nat
  BY DEF Messages
<1>3. \A x \in Mail(I) : x.n <= k.n /\ x.n # k.n
  BY <1>1, <1>2
<1> QED BY <1>3 DEF TracesFit, MailFits

Attempts(past) == Sound /\ TracesFit(inst, msg, past) /\ Families(inst)

LEMMA InitAttempts ==
  ASSUME NEW past, Init PROVE Attempts(past)
<1>1. DOMAIN inst = {Bootstrap} /\ inst[Bootstrap] = NewFsm
  BY DEF Init
<1>2. NewFsm.trace = [e \in Events |-> NoMessage]
  BY DEF NewFsm
<1>3. Slots(NewFsm.trace) = {} /\ Mail(inst) = {}
  BY <1>1, <1>2 DEF Slots, Mail, Events
<1>4. TracesFit(inst, msg, past) /\ Families(inst)
  BY <1>1, <1>3 DEF TracesFit, MailFits, Families
<1> QED BY <1>4, InitSound DEF Attempts

LEMMA StepAttempts ==
  ASSUME StepByStep, NEW past, OncePerPath(past), Attempts(past), [Next]_vars
  PROVE  Attempts(past)'
<1>0. Sound /\ TracesFit(inst, msg, past) /\ Families(inst) /\ msg \in Messages /\ inst \in [DOMAIN inst -> Fsms]
  BY DEF Attempts, Sound, IdsFit
<1>1. Sound'
  BY <1>0, StepSound
<1>2. ASSUME NEW J, NEW m, inst' = J, msg' = m, TracesFit(J, m, past), Families(J)
      PROVE  Attempts(past)'
  BY <1>1, <1>2 DEF Attempts
<1>3. ASSUME inst' = inst, msg' = msg PROVE Attempts(past)'
  BY <1>0, <1>2, <1>3
<1>4. ASSUME NEW k \in Kinds, NEW d \in Delays, Receive(k, d) PROVE Attempts(past)'
  <2>1. PICK m : m = [n |-> msg.n + 1, ts |-> msg.ts + d, kind |-> k]
    OBVIOUS
  <2>2. msg' = m /\ inst' = inst /\ m.n = msg.n + 1
    BY <1>4, <2>1 DEF Receive, store
  <2>3. TracesFit(inst, m, past)
    BY <2>2, <1>0, TracesAge
  <2> QED BY <2>2, <2>3, <1>0, <1>2
<1>5. CASE NextList
  BY <1>5, <1>3 DEF NextList, store
<1>6. CASE Skip
  BY <1>6, <1>3 DEF Skip, store
<1>7. CASE ProcessNode
  <2>1. PICK f : /\ f = Fired(Tried)
                 /\ Stay(f) \/ Advance(f) \/ Drop(f) \/ Conclude(f) \/ Halt(f)
    BY <1>7 DEF ProcessNode
  <2>2. Reached
    BY <1>7 DEF ProcessNode
  <2>3. CASE Halt(f)
    BY <2>3, <1>3 DEF Halt, store
  <2>4. CASE Stay(f) \/ Advance(f) \/ Drop(f) \/ Conclude(f)
    <3>1. ~f.left /\ msg' = msg /\ LeftOf(inst', f)
      BY <2>1, <2>2, <2>4, <1>0, ProcessLeaves
    <3>2. FiringTraces(f, past)
      BY <2>1, <2>2, <3>1, <1>0, FiringTraced
    <3>3. PICK J : J = inst'
      OBVIOUS
    <3>4. LeftOf(J, f)
      BY <3>1, <3>3
    <3>5. TracesFit(J, msg, past) /\ Families(J)
      BY <3>2, <3>4, <1>0, TracesStep, FamiliesStep
    <3> QED BY <3>1, <3>3, <3>5, <1>2
  <2> QED BY <2>1, <2>3, <2>4
<1>8. CASE UNCHANGED vars
  BY <1>8, <1>3 DEF vars, store
<1> QED BY <1>4, <1>5, <1>6, <1>7, <1>8 DEF Next

(* Instances of one id belong to one attempt at the rule: the id _process_a_node
   finds is free, a clone takes that of its origin, and no step replaces the
   message an attempt began with. *)
THEOREM FamiliesStayApart ==
  ASSUME StepByStep, NEW past, OncePerPath(past) PROVE Spec => []FamiliesApart
<1>1. Init => Attempts(past)
  BY InitAttempts
<1>2. Attempts(past) /\ [Next]_vars => Attempts(past)'
  BY StepAttempts
<1>3. Attempts(past) => FamiliesApart
  BY DEF Attempts, Families, FamiliesApart, Live
<1> QED BY <1>1, <1>2, <1>3, PTL DEF Spec

-----------------------------------------------------------------------------
(* One message begins one attempt: instances that began with the same message are of
   one id, and once there is an attempt that began with the current message, the
   bootstrap instance has seen it. *)
Attempted(I) ==
  \A h, g \in DOMAIN I \ {Bootstrap} : First(I[h].trace) = First(I[g].trace) => I[h].id = I[g].id
Counted(I, N, m) ==
  (\E h \in DOMAIN I \ {Bootstrap} : First(I[h].trace) = m) =>
    \A a \in DOMAIN N : N[a].fsm = Bootstrap => N[a].counter = m.n

LEMMA AttemptedFired ==
  ASSUME NEW past, NEW f, FiringTraces(f, past), Attempted(inst), Counted(inst, node, msg),
         Reached, Sound
  PROVE  Attempted(f.inst)
<1>1. \A x \in DOMAIN inst \ {f.h} : f.inst[x].id = inst[x].id /\ f.inst[x].trace = inst[x].trace
  BY DEF FiringTraces, SameMember
<1>2. ASSUME NEW g \in DOMAIN inst \ {Bootstrap}, g # f.h, f.h # Bootstrap,
             First(f.inst[f.h].trace) = First(inst[g].trace)
      PROVE  f.inst[f.h].id = inst[g].id
  <2>1. CASE f.h \in DOMAIN inst /\ f.inst[f.h].id = inst[f.h].id
             /\ First(f.inst[f.h].trace) = First(inst[f.h].trace)
    BY <2>1, <1>2 DEF Attempted
  <2>2. ASSUME NEW x \in DOMAIN inst \ {Bootstrap},
               f.inst[f.h].id = inst[x].id, First(f.inst[f.h].trace) = First(inst[x].trace)
        PROVE  f.inst[f.h].id = inst[g].id
    BY <2>2, <1>2 DEF Attempted
  <2>3. CASE node[next].fsm = Bootstrap /\ First(f.inst[f.h].trace) = msg
    <3>1. next \in DOMAIN node /\ node[next].counter # msg.n
      BY Reaching DEF Reached
    <3>2. node[next].counter = msg.n
      BY <2>3, <3>1, <1>2 DEF Counted
    <3> QED BY <3>1, <3>2
  <2> QED BY <2>1, <2>2, <2>3, <1>2 DEF FiringTraces
<1>3. \A g \in DOMAIN f.inst : g \in DOMAIN inst \cup {f.h}
  BY DEF FiringTraces
<1>4. ASSUME NEW h \in DOMAIN f.inst \ {Bootstrap}, NEW g \in DOMAIN f.inst \ {Bootstrap},
             First(f.inst[h].trace) = First(f.inst[g].trace)
      PROVE  f.inst[h].id = f.inst[g].id
  <2>1. CASE h # f.h /\ g # f.h
    BY <2>1, <1>1, <1>3, <1>4 DEF Attempted
  <2>2. CASE h = f.h /\ g # f.h
    BY <2>2, <1>1, <1>2, <1>3, <1>4
  <2>3. CASE h # f.h /\ g = f.h
    BY <2>3, <1>1, <1>2, <1>3, <1>4
  <2>4. CASE h = f.h /\ g = f.h
    BY <2>4
  <2> QED BY <2>1, <2>2, <2>3, <2>4
<1> QED BY <1>4 DEF Attempted

LEMMA AttemptedStep ==
  ASSUME NEW past, NEW f, FiringTraces(f, past), Attempted(inst), Counted(inst, node, msg),
         Reached, Sound, NEW J, LeftOf(J, f)
  PROVE  Attempted(J)
<1>1. Attempted(f.inst)
  BY AttemptedFired
<1> QED BY <1>1 DEF Attempted, LeftOf

(* The nodes of the bootstrap instance only change by being reached. *)
LeftNodes(M) ==
  \A a \in DOMAIN M : M[a].fsm = Bootstrap =>
    /\ a \in DOMAIN node /\ node[a].fsm = Bootstrap
    /\ M[a].counter = IF a = next THEN msg.n ELSE node[a].counter

LEMMA FiredNodes ==
  ASSUME Sound, Reached, NEW f, f = Fired(Tried)
  PROVE  LeftNodes(f.node)
<1>1. PICK r : f = Fired(r)
  OBVIOUS
<1> DEFINE n1 == [node EXCEPT ![next].counter = msg.n]
<1>2. f.node = n1 \/ f.node = Without(n1, {next})
  BY <1>1 DEF Fired
<1>3. node \in [DOMAIN node -> Nodes]
  BY DEF Sound, NodesFit
<1>4. /\ DOMAIN n1 = DOMAIN node
      /\ \A a \in DOMAIN node : n1[a].fsm = node[a].fsm /\ n1[a].counter = IF a = next THEN msg.n ELSE node[a].counter
  BY <1>3 DEF Nodes
<1> HIDE DEF n1
<1>5. DOMAIN f.node \subseteq DOMAIN n1 /\ \A a \in DOMAIN f.node : f.node[a] = n1[a]
  BY <1>2 DEF Without
<1> QED BY <1>4, <1>5 DEF LeftNodes

LEMMA ProcessNodes ==
  ASSUME StepByStep, Sound, Reached, NEW f, f = Fired(Tried),
         Stay(f) \/ Advance(f) \/ Drop(f) \/ Conclude(f)
  PROVE  LeftNodes(node')
<1>1. LeftNodes(f.node)
  BY FiredNodes
<1>2. ASSUME NEW M, \A a \in DOMAIN M : M[a].fsm = Bootstrap => a \in DOMAIN f.node /\ M[a] = f.node[a]
      PROVE  LeftNodes(M)
  BY <1>1, <1>2 DEF LeftNodes
<1>3. FiringFits(f)
  BY FiringSound DEF Stay, Advance, Drop, Conclude
<1>4. CASE Stay(f)
  BY <1>1, <1>4 DEF Stay
<1>5. CASE Advance(f)
  <2> DEFINE e == Expect(f.node, f.expecting, f.h, f.inst[f.h].state, f.new, msg.n)
  <2>1. node' = e.node /\ f.val = "changed"
    BY <1>5 DEF Advance
  <2>2. f.val \notin Ends
    BY <2>1 DEF Ends
  <2>3. NodesFit(f.inst, f.node, f.expecting) /\ IdsFit(f.inst, f.byId) /\ f.h \in DOMAIN f.inst
    BY <2>2, <1>3 DEF FiringFits
  <2>4. f.h \in Nat \ {0} /\ f.inst[f.h] \in Fsms /\ f.inst[f.h].state \in Rule.states /\ msg.n \in Nat
    BY SMTT(30), <2>3 DEF IdsFit, Fsms, Sound, Messages
  <2>5. \A a \in DOMAIN f.node : f.node[a].fsm = f.h => f.node[a].index \notin Wanted(f.inst[f.h].state, f.new)
    BY <2>1, <1>3 DEF FiringFits
  <2>6. /\ \A a \in DOMAIN f.node : e.node[a] = f.node[a]
        /\ \A a \in DOMAIN e.node \ DOMAIN f.node : e.node[a].fsm = f.h
    <3>1. PICK I, N, X, h, late, c : /\ I = f.inst /\ N = f.node /\ X = f.expecting
                                     /\ h = f.h /\ late = f.new /\ c = msg.n
      OBVIOUS
    <3>2. e = Expect(N, X, h, I[h].state, late, c)
      BY <3>1 DEF e
    <3> HIDE DEF e
    <3>3. /\ NodesFit(I, N, X) /\ h \in Nat \ {0} /\ h \in DOMAIN I
          /\ I[h].state \in Rule.states /\ c \in Nat
      BY ONLY <2>3, <2>4, <3>1
    <3>4. \A a \in DOMAIN N : N[a].fsm = h => N[a].index \notin Wanted(I[h].state, late)
      BY ONLY <2>5, <3>1
    <3>5. Widened(Expect(N, X, h, I[h].state, late, c), I, N, X, h, Wanted(I[h].state, late), c)
      BY ONLY <3>3, <3>4, ExpectWidens
    <3>6. Widened(e, I, N, X, h, Wanted(I[h].state, late), c)
      BY ONLY <3>2, <3>5
    <3>7. /\ \A a \in DOMAIN N : e.node[a] = N[a]
          /\ \A a \in DOMAIN e.node \ DOMAIN N : e.node[a].fsm = h
      BY ONLY <3>6 DEF Widened
    <3> QED BY ONLY <3>1, <3>7
  <2>7. f.h # Bootstrap
    BY <2>1, <1>3 DEF FiringFits
  <2> HIDE DEF e
  <2>8. LeftNodes(e.node)
    BY <2>6, <2>7, <1>2
  <2> QED BY <2>1, <2>8
<1>6. ASSUME NEW gone, node' = Unlink(f.node, f.expecting, gone).node PROVE LeftNodes(node')
  <2> DEFINE M == Unlink(f.node, f.expecting, gone).node
  <2>1. \A a \in DOMAIN M : a \in DOMAIN f.node /\ M[a] = f.node[a]
    BY DEF Unlink
  <2> HIDE DEF M
  <2>2. LeftNodes(M)
    BY <2>1, <1>2
  <2> QED BY <2>2, <1>6 DEF M
<1>7. CASE Drop(f)
  BY <1>6, <1>7 DEF Drop
<1>8. CASE Conclude(f)
  BY <1>6, <1>8 DEF Conclude
<1> QED BY <1>4, <1>5, <1>7, <1>8

LEMMA CountedStep ==
  ASSUME OneBeginning, NEW past, NEW f, FiringTraces(f, past), Counted(inst, node, msg),
         Reached, Sound, NEW J, LeftOf(J, f), NEW M, LeftNodes(M)
  PROVE  Counted(J, M, msg)
<1> SUFFICES ASSUME NEW h \in DOMAIN J \ {Bootstrap}, First(J[h].trace) = msg,
                    NEW a \in DOMAIN M, M[a].fsm = Bootstrap
             PROVE  M[a].counter = msg.n
  BY DEF Counted
<1>1. a \in DOMAIN node /\ node[a].fsm = Bootstrap /\ M[a].counter = IF a = next THEN msg.n ELSE node[a].counter
  BY DEF LeftNodes
<1>2. h \in DOMAIN inst \cup {f.h} /\ J[h] = f.inst[h]
  BY DEF LeftOf, FiringTraces
<1>3. ASSUME NEW x \in DOMAIN inst \ {Bootstrap}, First(inst[x].trace) = msg PROVE M[a].counter = msg.n
  BY <1>1, <1>3 DEF Counted
<1>4. CASE h # f.h
  <2>1. h \in DOMAIN inst \ {Bootstrap} /\ First(inst[h].trace) = msg
    BY <1>2, <1>4 DEF FiringTraces, SameMember
  <2> QED BY <2>1, <1>3
<1>5. CASE h = f.h
  <2>1. First(f.inst[f.h].trace) = msg /\ f.h # Bootstrap
    BY <1>2, <1>5
  <2>2. CASE f.h \in DOMAIN inst /\ First(f.inst[f.h].trace) = First(inst[f.h].trace)
    BY <2>1, <2>2, <1>3
  <2>3. ASSUME NEW x \in DOMAIN inst \ {Bootstrap}, First(f.inst[f.h].trace) = First(inst[x].trace)
        PROVE  M[a].counter = msg.n
    BY <2>1, <2>3, <1>3
  <2>4. CASE node[next].fsm = Bootstrap
    <3>1. NodesFit(inst, node, expecting) /\ IdsFit(inst, byId)
      BY DEF Sound
    <3>2. inst[Bootstrap].state = Rule.init /\ Rule.init \in Rule.states
      BY <3>1, RuleTypes DEF IdsFit
    <3>3. DOMAIN Outgoing(Rule.init) = {1}
      <4>1. Len(Outgoing(Rule.init)) = 1
        BY DEF OneBeginning
      <4>2. DOMAIN Outgoing(Rule.init) = 1 .. 1
        BY <4>1, <3>2, RuleTypes
      <4> QED BY <4>2
    <3>4. next \in DOMAIN node
      BY Reaching DEF Reached
    <3>5. node[a].index = 1 /\ node[next].index = 1
      BY <1>1, <2>4, <3>1, <3>2, <3>3, <3>4 DEF NodesFit
    <3>6. a = next
      BY <1>1, <2>4, <3>1, <3>4, <3>5 DEF NodesFit
    <3> QED BY <3>6, <1>1
  <2> QED BY <2>1, <2>2, <2>3, <2>4 DEF FiringTraces
<1> QED BY <1>4, <1>5

(* The first message of an attempt is one that its instances hold. *)
LEMMA FirstHeld ==
  ASSUME NEW I, NEW B, IdsFit(I, B), NEW m, NEW past, TracesFit(I, m, past), NEW h \in DOMAIN I \ {Bootstrap}
  PROVE  First(I[h].trace) \in Mail(I)
<1>1. Slots(I[h].trace) # {}
  BY DEF TracesFit
<1>2. IsFirst(First(I[h].trace), I[h].trace)
  BY <1>1, TraceFacts, FirstIs
<1> QED BY <1>2 DEF IsFirst, Slots, Mail, Events

(* The attempt that gives a verdict goes. *)
LEMMA ConcludeEnds ==
  ASSUME StepByStep, Sound, Reached, NEW f, f = Fired(Tried), Conclude(f), Attempted(f.inst)
  PROVE  \A h \in DOMAIN inst' \ {Bootstrap} : First(inst'[h].trace) # First(validTrace')
<1>1. FiringFits(f)
  BY FiringSound DEF Conclude
<1>2. f.val \in Ends
  BY <1>1, ConcludeSound
<1>3. IdsFit(f.inst, f.byId) /\ f.h \in DOMAIN f.inst /\ f.inst[f.h].id = f.id /\ f.h # Bootstrap
  BY <1>1, <1>2 DEF FiringFits
<1>4. f.id \in Ids
  BY <1>3 DEF IdsFit, Fsms
<1>5. \A x : x \in ToSet(f.byId[f.id]) <=> x \in DOMAIN f.inst /\ f.inst[x].id = f.id
  BY <1>3, <1>4 DEF IdsFit
<1>6. inst' = Without(f.inst, ToSet(f.byId[f.id])) /\ validTrace' = f.inst[f.h].trace
  BY DEF Conclude
<1>7. PICK J : J = inst'
  OBVIOUS
<1>8. \A h \in DOMAIN J : h \in DOMAIN f.inst /\ J[h] = f.inst[h] /\ f.inst[h].id # f.id
  BY <1>5, <1>6, <1>7 DEF Without
<1>9. \A h \in DOMAIN J \ {Bootstrap} : First(J[h].trace) # First(f.inst[f.h].trace)
  BY <1>3, <1>8 DEF Attempted
<1> QED BY <1>6, <1>7, <1>9

Ending(past) ==
  /\ Attempts(past) /\ Attempted(inst) /\ Counted(inst, node, msg)
  /\ verdict # "unknown" => pc = "idle"
  /\ OneVerdict

LEMMA InitEnding == ASSUME NEW past, Init PROVE Ending(past)
<1>1. DOMAIN inst = {Bootstrap} /\ verdict = "unknown"
  BY DEF Init
<1>2. Attempted(inst) /\ Counted(inst, node, msg) /\ OneVerdict
  BY <1>1 DEF Attempted, Counted, OneVerdict
<1> QED BY <1>1, <1>2, InitAttempts DEF Ending

LEMMA StepEnding ==
  ASSUME StepByStep, OneBeginning, NEW past, OncePerPath(past), Ending(past), [Next]_vars
  PROVE  Ending(past)'
<1>0. /\ Attempts(past) /\ Attempted(inst) /\ Counted(inst, node, msg) /\ OneVerdict
      /\ Sound /\ TracesFit(inst, msg, past) /\ msg \in Messages /\ IdsFit(inst, byId)
      /\ verdict # "unknown" => pc = "idle"
  BY DEF Ending, Attempts, Sound
<1>1. Attempts(past)'
  BY <1>0, StepAttempts
<1>2. ASSUME NEW J, NEW M, NEW m, inst' = J, node' = M, msg' = m, Attempted(J), Counted(J, M, m),
             verdict' # "unknown" =>
               /\ pc' = "idle"
               /\ \A h \in DOMAIN J \ {Bootstrap} : First(J[h].trace) # First(validTrace')
      PROVE  Ending(past)'
  BY <1>1, <1>2 DEF Ending, OneVerdict, Live
<1>3. ASSUME UNCHANGED <<inst, node, msg, verdict, validTrace>>, verdict # "unknown" => pc' = "idle"
      PROVE  Ending(past)'
  <2>1. verdict # "unknown" => \A h \in DOMAIN inst \ {Bootstrap} : First(inst[h].trace) # First(validTrace)
    BY <1>0 DEF OneVerdict, Live
  <2> QED BY <2>1, <1>0, <1>2, <1>3
<1>4. ASSUME NEW k \in Kinds, NEW d \in Delays, Receive(k, d) PROVE Ending(past)'
  <2>1. PICK m : m = [n |-> msg.n + 1, ts |-> msg.ts + d, kind |-> k]
    OBVIOUS
  <2>2. msg' = m /\ inst' = inst /\ node' = node /\ m.n = msg.n + 1 /\ verdict' = "unknown"
    BY <1>4, <2>1 DEF Receive, store
  <2>3. \A x \in Mail(inst) : x # m
    <3>1. inst \in [DOMAIN inst -> Fsms]
      BY <1>0 DEF IdsFit
    <3> QED BY <3>1, <2>2, <1>0, TracesAge
  <2>4. \A h \in DOMAIN inst \ {Bootstrap} : First(inst[h].trace) # m
    BY <2>3, <1>0, FirstHeld
  <2>5. Counted(inst, node, m)
    BY <2>4 DEF Counted
  <2> QED BY <2>2, <2>5, <1>0, <1>2
<1>5. CASE NextList
  <2>1. UNCHANGED <<inst, node, msg, verdict, validTrace>> /\ pc = "walk"
    BY <1>5 DEF NextList, store
  <2> QED BY <2>1, <1>0, <1>3
<1>6. CASE Skip
  BY <1>6, <1>0, <1>3 DEF Skip, store
<1>7. CASE ProcessNode
  <2>1. PICK f : /\ f = Fired(Tried)
                 /\ Stay(f) \/ Advance(f) \/ Drop(f) \/ Conclude(f) \/ Halt(f)
    BY <1>7 DEF ProcessNode
  <2>2. Reached /\ verdict = "unknown"
    BY <1>7, <1>0 DEF ProcessNode, Reached
  <2>3. CASE Halt(f)
    BY <2>2, <2>3, <1>3 DEF Halt, store
  <2>4. CASE Stay(f) \/ Advance(f) \/ Drop(f) \/ Conclude(f)
    <3>1. ~f.left /\ msg' = msg /\ LeftOf(inst', f) /\ LeftNodes(node')
      BY <2>1, <2>2, <2>4, <1>0, ProcessLeaves, ProcessNodes
    <3>2. FiringTraces(f, past)
      BY <2>1, <2>2, <3>1, <1>0, FiringTraced
    <3>3. PICK J, M : J = inst' /\ M = node'
      OBVIOUS
    <3>4. LeftOf(J, f) /\ LeftNodes(M)
      BY <3>1, <3>3
    <3>5. Attempted(J)
      BY <3>2, <3>4, <2>2, <1>0, AttemptedStep
    <3>6. Counted(J, M, msg)
      BY <3>2, <3>4, <2>2, <1>0, CountedStep
    <3>7. CASE verdict' = "unknown"
      BY <3>1, <3>3, <3>5, <3>6, <3>7, <1>2
    <3>8. CASE verdict' # "unknown"
      <4>1. Conclude(f)
        BY <2>2, <2>4, <3>8 DEF Stay, Advance, Drop
      <4>2. Attempted(f.inst)
        <5>1. FiringFits(f) /\ f.h # Bootstrap
          <6>1. FiringFits(f)
            BY <2>1, <2>2, <3>1, <1>0, FiringSound
          <6>2. f.val \in Ends
            BY <6>1, <4>1, <1>0, ConcludeSound
          <6> QED BY <6>1, <6>2 DEF FiringFits
        <5> QED BY <5>1, <3>2, <2>2, <1>0, AttemptedFired
      <4>3. \A h \in DOMAIN J \ {Bootstrap} : First(J[h].trace) # First(validTrace')
        BY <4>1, <4>2, <3>3, <2>1, <2>2, <1>0, ConcludeEnds
      <4>4. pc' = "idle"
        BY <4>1 DEF Conclude
      <4> QED BY <4>3, <4>4, <3>1, <3>3, <3>5, <3>6, <1>2
    <3> QED BY <3>7, <3>8
  <2> QED BY <2>1, <2>3, <2>4
<1>8. CASE UNCHANGED vars
  BY <1>8, <1>0, <1>3 DEF vars, store
<1> QED BY <1>4, <1>5, <1>6, <1>7, <1>8 DEF Next

(* A verdict ends its attempt: when _reset_engine_for_fsm has run, no instance is
   left that began with the first message of the reported trace, so the same attempt
   is never reported twice. *)
THEOREM VerdictEndsAttempt ==
  ASSUME StepByStep, OneBeginning, NEW past, OncePerPath(past) PROVE Spec => []OneVerdict
<1>1. Init => Ending(past)
  BY InitEnding
<1>2. Ending(past) /\ [Next]_vars => Ending(past)'
  BY StepEnding
<1>3. Ending(past) => OneVerdict
  BY DEF Ending
<1> QED BY <1>1, <1>2, <1>3, PTL DEF Spec

(* a stands before b in a list. *)
Precedes(list, a, b) == \E i, j \in DOMAIN list : i < j /\ list[i] = a /\ list[j] = b

(* The instance has recorded m. *)
Met(f, m) == \E e \in Rule.events : f.trace[e] = m

(* With m, nothing is left to do at transition i of f: f has recorded m since it has
   time, or the transition does not fire. *)
Through(f, i, m) ==
  LET t == Outgoing(f.state)[i]
  IN  \/ Met(f, m) /\ m.ts <= f.max
      \/ t.event = TIMEOUT /\ m.ts <= f.max
      \/ /\ t.event # TIMEOUT
         /\ t.action # "create" /\ f.min <= m.ts /\ m.ts <= f.max => ~Guard(t.event, m, f.trace)

(* Every instance has a node for each of its transitions; its deadlines do not cross and
   there is a way on; no message is newer than m; a node that m has reached is through
   with it. *)
AllFiled(I, N) ==
  \A h \in DOMAIN I : \A i \in DOMAIN Outgoing(I[h].state) :
    \E a \in DOMAIN N : N[a].fsm = h /\ N[a].index = i
Open(g) == g.min <= g.max /\ ~Final(g.state)
AllOpen(I) == \A h \in DOMAIN I \ {Bootstrap} : Open(I[h])
Older(I, N, m) ==
  /\ \A h \in DOMAIN I : \A e \in Events : I[h].trace[e] # NoMessage => I[h].trace[e].n <= m.n
  /\ \A a \in DOMAIN N : N[a].counter <= m.n
CountersTell(I, N, m) ==
  \A a \in DOMAIN N :
    N[a].counter = m.n /\ N[a].fsm # Bootstrap => Through(I[N[a].fsm], N[a].index, m)
Waiting(I, N, m) == AllFiled(I, N) /\ AllOpen(I) /\ Older(I, N, m) /\ CountersTell(I, N, m)

(* The nodes of the lists walked, and those of list d in front of n, are reached. *)
Walked(N, X, m, d, n) ==
  /\ \A e \in Events : e < d /\ (e = TIMEOUT \/ e \in Carries[m.kind]) =>
       \A a \in ToSet(X[e]) : N[a].counter = m.n
  /\ \A a \in ToSet(X[d]) : N[a].counter = m.n \/ (n # NoNode /\ ~Precedes(X[d], a, n))

(* Between messages nothing was missed; during one, the walk has left nothing behind. *)
Patient ==
  /\ Waiting(inst, node, msg)
  /\ pc = "walk" => Walked(node, expecting, msg, ev, next)
  /\ NothingMissed

-----------------------------------------------------------------------------
(* Only keeps the order of a list. *)
LEMMA OnlyOrder ==
  ASSUME NEW S, NEW list \in Seq(S), NEW K, NEW a, NEW b, Precedes(Only(list, K), a, b)
  PROVE  Precedes(list, a, b)
<1> DEFINE Body(F, i) == IF i = 0 THEN <<>>
                         ELSE IF list[i] \in K THEN Append(F[i - 1], list[i]) ELSE F[i - 1]
           F == CHOOSE g : Firsts(list, K, Len(list), g)
<1>1. Len(list) \in Nat
  OBVIOUS
<1>2. Firsts(list, K, Len(list), F)
  BY <1>1, OnlyDefined
<1>3. Only(list, K) = F[Len(list)]
  BY DEF Only, Firsts
<1> HIDE DEF F
<1>4. F[0] = <<>> /\ \A i \in 1 .. Len(list) : F[i] = IF list[i] \in K THEN Append(F[i - 1], list[i]) ELSE F[i - 1]
  <2>1. F = [i \in 0 .. Len(list) |-> Body(F, i)]
    BY <1>2 DEF Firsts
  <2>2. \A i \in 0 .. Len(list) : F[i] = Body(F, i)
    <3> HIDE DEF Body
    <3> QED BY <2>1
  <2>3. \A i \in 1 .. Len(list) : i # 0 /\ i \in 0 .. Len(list)
    BY <1>1
  <2> QED BY <2>2, <2>3, <1>1
<1> DEFINE Kept(f, i) ==
      /\ f \in Seq(S)
      /\ \A x \in 1 .. Len(f) : \E p \in 1 .. i : list[p] = f[x]
      /\ \A x, y \in 1 .. Len(f) : x < y => \E p, q \in 1 .. i : p < q /\ list[p] = f[x] /\ list[q] = f[y]
<1>5. Kept(F[0], 0)
  BY <1>4
<1>6. ASSUME NEW i \in 1 .. Len(list), Kept(F[i - 1], i - 1) PROVE Kept(F[i], i)
  <2>0. list[i] \in S /\ i - 1 \in Nat
    BY <1>1
  <2>21. \A p \in 1 .. i - 1 : p \in 1 .. i /\ p < i
    BY <1>1
  <2>1. CASE list[i] \notin K
    <3>1. F[i] = F[i - 1]
      BY <1>4, <2>1
    <3> QED BY <3>1, <2>21, <1>6
  <2>2. CASE list[i] \in K
    <3>1. PICK f, g : f = F[i - 1] /\ g = F[i]
      OBVIOUS
    <3>2. f \in Seq(S) /\ g = Append(f, list[i]) /\ Kept(f, i - 1)
      <4>1. Kept(f, i - 1)
        <5> HIDE DEF Kept
        <5> QED BY <3>1, <1>6
      <4> QED BY <4>1, <3>1, <1>4, <2>2
    <3>3. /\ g \in Seq(S) /\ Len(g) = Len(f) + 1 /\ Len(f) \in Nat
          /\ \A k \in 1 .. Len(f) : g[k] = f[k]
          /\ g[Len(f) + 1] = list[i]
      BY <3>2, <2>0
    <3>4. ASSUME NEW x \in 1 .. Len(g) PROVE \E p \in 1 .. i : list[p] = g[x]
      <4>1. CASE x \in 1 .. Len(f)
        BY <4>1, <3>2, <3>3, <2>21
      <4>2. CASE x = Len(f) + 1
        BY <4>2, <3>3, <1>1
      <4> QED BY <4>1, <4>2, <3>3
    <3>5. ASSUME NEW x \in 1 .. Len(g), NEW y \in 1 .. Len(g), x < y
          PROVE  \E p, q \in 1 .. i : p < q /\ list[p] = g[x] /\ list[q] = g[y]
      <4>0. x \in 1 .. Len(f)
        BY <3>3, <3>5
      <4>1. CASE y \in 1 .. Len(f)
        BY <4>0, <4>1, <3>2, <3>3, <3>5, <2>21
      <4>2. CASE y = Len(f) + 1
        <5>1. PICK p \in 1 .. i - 1 : list[p] = f[x]
          BY <4>0, <3>2
        <5>2. p \in 1 .. i /\ i \in 1 .. i /\ p < i /\ list[p] = g[x] /\ list[i] = g[y]
          BY <5>1, <4>0, <4>2, <3>3, <2>21
        <5> QED BY <5>2
      <4> QED BY <4>1, <4>2, <3>3
    <3> QED BY <3>1, <3>3, <3>4, <3>5
  <2> QED BY <2>1, <2>2
<1>7. Kept(F[Len(list)], Len(list))
  <2> DEFINE T == {i \in 0 .. Len(list) : ~Kept(F[i], i)}
  <2> HIDE DEF Kept
  <2>1. SUFFICES ASSUME T # {} PROVE FALSE
    BY <1>1
  <2>2. PICK i \in T : \A k \in T : i <= k
    <3>1. T \in SUBSET Nat
      BY <1>1
    <3> HIDE DEF T
    <3> QED BY <2>1, <3>1, Least
  <2>3. i \in 1 .. Len(list) /\ i - 1 \in 0 .. Len(list)
    BY <2>2, <1>5, <1>1
  <2>4. Kept(F[i - 1], i - 1)
    BY <2>2, <2>3
  <2> QED BY <2>2, <2>3, <2>4, <1>6
<1>8. PICK f : f = F[Len(list)] /\ Kept(f, Len(list)) /\ Precedes(f, a, b)
  BY <1>3, <1>7
<1>9. DOMAIN f = 1 .. Len(f) /\ DOMAIN list = 1 .. Len(list)
  BY <1>8
<1>10. PICK x, y \in 1 .. Len(f) : x < y /\ f[x] = a /\ f[y] = b
  BY <1>8, <1>9 DEF Precedes
<1>11. PICK p, q \in 1 .. Len(list) : p < q /\ list[p] = f[x] /\ list[q] = f[y]
  BY <1>8, <1>10
<1> QED BY <1>9, <1>10, <1>11 DEF Precedes

LEMMA EraseOrder ==
  ASSUME NEW S, NEW list \in Seq(S), NEW n, NEW a, NEW b, Precedes(Erase(list, n), a, b)
  PROVE  Precedes(list, a, b)
BY OnlyOrder DEF Erase

(* What stands in front of a member of the second part. *)
LEMMA ConcatOrder ==
  ASSUME NEW S, NEW f \in Seq(S), NEW y \in Seq(S), IsInjective(f \o y), NEW b \in ToSet(y), NEW a,
         Precedes(f \o y, a, b)
  PROVE  a \in ToSet(y) => Precedes(y, a, b)
<1> SUFFICES ASSUME a \in ToSet(y) PROVE Precedes(y, a, b)
  OBVIOUS
<1>1. /\ \A k \in 1 .. Len(y) : (f \o y)[Len(f) + k] = y[k]
      /\ DOMAIN y = 1 .. Len(y) /\ DOMAIN (f \o y) = 1 .. Len(f) + Len(y)
      /\ Len(f) \in Nat /\ Len(y) \in Nat
  BY ConcatProperties
<1>2. PICK i, j \in 1 .. Len(f) + Len(y) : i < j /\ (f \o y)[i] = a /\ (f \o y)[j] = b
  BY <1>1 DEF Precedes
<1>3. PICK p \in 1 .. Len(y), q \in 1 .. Len(y) : y[p] = a /\ y[q] = b
  BY <1>1 DEF ToSet
<1>4. /\ Len(f) + p \in DOMAIN (f \o y) /\ (f \o y)[Len(f) + p] = a
      /\ Len(f) + q \in DOMAIN (f \o y) /\ (f \o y)[Len(f) + q] = b
  BY <1>1, <1>3
<1>5. i \in DOMAIN (f \o y) /\ j \in DOMAIN (f \o y)
  BY <1>1, <1>2
<1>6. i = Len(f) + p /\ j = Len(f) + q
  BY <1>2, <1>4, <1>5 DEF IsInjective
<1>7. p < q
  BY <1>1, <1>2, <1>3, <1>6
<1> QED BY <1>1, <1>3, <1>7 DEF Precedes

(* What stands in front of the next member: the one before it, and what stands in
   front of that. *)
LEMMA FollowingOrder ==
  ASSUME NEW S, NEW list \in Seq(S), IsInjective(list), NEW n \in ToSet(list), NEW a \in ToSet(list),
         \/ Following(list, n) = NoNode /\ 0 \notin ToSet(list)
         \/ Precedes(list, a, Following(list, n))
  PROVE  a = n \/ Precedes(list, a, n)
<1>1. DOMAIN list = 1 .. Len(list) /\ Len(list) \in Nat
  OBVIOUS
<1>2. PICK k \in 1 .. Len(list), i \in 1 .. Len(list) : list[k] = n /\ list[i] = a
  BY <1>1 DEF ToSet
<1>0. k \in Int /\ i \in Int /\ 1 <= k /\ k <= Len(list) /\ 1 <= i /\ i <= Len(list)
  BY <1>1, <1>2
<1>3. CASE k = Len(list)
  <2>1. i = k \/ i < k
    BY <1>0, <1>3
  <2> QED BY <2>1, <1>1, <1>2 DEF Precedes
<1>4. CASE k # Len(list)
  <2>1. k \in 1 .. Len(list) - 1 /\ k + 1 \in 1 .. Len(list)
    <3>1. PICK l \in Nat : l = Len(list)
      BY <1>1
    <3>2. k \in 1 .. l - 1 /\ k + 1 \in 1 .. l
      BY <3>1, <1>0, <1>4
    <3> QED BY <3>1, <3>2
  <2>2. \A x \in 1 .. Len(list) - 1 : list[x] = n => x = k
    BY <1>1, <1>2 DEF IsInjective
  <2>3. Following(list, n) = list[1 + k]
    BY <2>1, <2>2, <1>2 DEF Following
  <2>4. Following(list, n) \in ToSet(list)
    BY <2>1, <2>3, <1>1 DEF ToSet
  <2>5. PICK p, q \in 1 .. Len(list) : p < q /\ list[p] = a /\ list[q] = list[1 + k]
    BY <2>3, <2>4, <1>1 DEF Precedes, NoNode
  <2>6. p = i /\ q = 1 + k
    BY <2>1, <2>5, <1>1, <1>2 DEF IsInjective
  <2>7. i = k \/ i < k
    BY <2>5, <2>6, <1>1, <1>2
  <2> QED BY <2>7, <1>1, <1>2 DEF Precedes
<1> QED BY <1>3, <1>4

(* Nothing stands in front of the first member. *)
LEMMA FirstOrder ==
  ASSUME NEW S, NEW list \in Seq(S), IsInjective(list), NEW a \in ToSet(list), 0 \notin ToSet(list)
  PROVE  FirstOf(list) # NoNode /\ ~Precedes(list, a, FirstOf(list))
<1>1. DOMAIN list = 1 .. Len(list) /\ Len(list) \in Nat
  OBVIOUS
<1>2. 1 \in 1 .. Len(list) /\ list # <<>>
  BY <1>1 DEF ToSet
<1>3. FirstOf(list) = list[1] /\ list[1] \in ToSet(list)
  BY <1>1, <1>2 DEF FirstOf, ToSet
<1>4. ASSUME NEW i \in 1 .. Len(list), NEW j \in 1 .. Len(list), i < j, list[j] = list[1] PROVE FALSE
  <2>1. j = 1
    BY <1>1, <1>2, <1>4 DEF IsInjective
  <2> QED BY <2>1, <1>4
<1> QED BY <1>1, <1>3, <1>4 DEF Precedes, NoNode

-----------------------------------------------------------------------------
(* What an instance that goes on with m has: m, and time left. *)
JustNow(g, m) == Met(g, m) /\ g.min <= g.max /\ m.ts <= g.max
SameWindow(g, f) == g.min = f.min /\ g.max = f.max

LEMMA MoveTimely ==
  ASSUME InTime, NEW f \in Fsms, NEW i \in DOMAIN Outgoing(f.state), NEW m \in Messages, NEW t,
         t = Outgoing(f.state)[i], f.event = t.event, t.event # TIMEOUT, ~Final(t.target),
         f.min <= m.ts, f.state # Rule.init /\ Outgoing(f.state)[1].event = TIMEOUT => m.ts <= f.max
  PROVE  LET r == Move(f, t, m) IN r.val = "changed" /\ JustNow(r.fsm, m)
<1>1. /\ f.state \in Rule.states /\ t.target \in Rule.states /\ f.event \in Rule.events
      /\ f.min \in Int /\ f.max \in Int /\ m.ts \in Nat
      /\ Rule.delay[t.target].min \in Int /\ Rule.delay[t.target].max \in Int
      /\ Rule.delay[t.target].min <= Rule.delay[t.target].max
  <2>1. f.state \in Rule.states /\ f.min \in Int /\ f.max \in Int /\ m.ts \in Nat /\ f.event \in Events
    BY DEF Fsms, Messages
  <2>2. t.target \in Rule.states
    BY <2>1, RuleTypes
  <2>3. Rule.delay[t.target].min <= Rule.delay[t.target].max
    BY <2>2, RuleAssumption DEF RuleShape
  <2> QED BY <2>1, <2>2, <2>3, RuleTypes DEF Events
<1>2. /\ Rule.delay[t.target].max >= 0
      /\ t.action # "reset" /\ f.state # Rule.init =>
           Rule.delay[t.target].min <= 0 /\ Outgoing(f.state)[1].event = TIMEOUT
      /\ ~Temporary(t.target)
  BY <1>1 DEF InTime, Temporary
<1> DEFINE g == Enter(f, t, m)
<1>3. /\ g \in Fsms /\ g.state = t.target /\ g.min = f.min /\ g.max = f.max
      /\ g.trace = [f.trace EXCEPT ![f.event] = m]
  <2>1. SameButState(g, f) /\ g.state = t.target /\ g.trace = [f.trace EXCEPT ![f.event] = m]
    BY <1>1, EnterType
  <2>2. g.min = f.min /\ g.max = f.max
    BY DEF Enter, Fsms
  <2> QED BY <2>1, <2>2 DEF SameButState
<1>4. Move(f, t, m) = Settle(g, t, f.state, m)
  BY <1>2, <1>3 DEF Move
<1> HIDE DEF g
<1>5. Met(g, m)
  <2>1. f.trace \in [Events -> Messages \cup {NoMessage}] /\ f.event \in Events
    BY <1>1 DEF Fsms, Events
  <2>2. g.trace[f.event] = m
    BY <1>3, <2>1
  <2> QED BY <2>2, <1>1 DEF Met
<1> DEFINE k == Restart(g, t, f.state, m)
           lo == Rule.delay[t.target].min + m.ts
           hi == Rule.delay[t.target].max + m.ts
<1>6. Settle(g, t, f.state, m) = [fsm |-> k, val |-> "changed"]
  BY <1>3 DEF Settle
<1>7. k = IF t.action = "reset" \/ f.state = Rule.init
          THEN [g EXCEPT !.min = lo, !.max = hi]
          ELSE [g EXCEPT !.min = Later(g.min, lo), !.max = Earlier(g.max, hi)]
  BY <1>3 DEF Restart
<1>8. k.trace = g.trace /\ k.min <= k.max /\ m.ts <= k.max
  <2>1. lo \in Int /\ hi \in Int /\ lo <= hi /\ m.ts <= hi
    BY <1>1, <1>2
  <2>2. CASE t.action = "reset" \/ f.state = Rule.init
    <3>1. k.trace = g.trace /\ k.min = lo /\ k.max = hi
      BY <1>3, <1>7, <2>2 DEF Fsms
    <3> QED BY <2>1, <3>1
  <2>3. CASE t.action # "reset" /\ f.state # Rule.init
    <3>1. k.trace = g.trace /\ k.min = Later(g.min, lo) /\ k.max = Earlier(g.max, hi)
      BY <1>3, <1>7, <2>3 DEF Fsms
    <3>2. lo <= m.ts /\ m.ts <= f.max
      BY <1>1, <1>2, <2>3
    <3> HIDE DEF lo, hi
    <3>3. Later(g.min, lo) <= m.ts /\ m.ts <= Earlier(g.max, hi)
      BY <1>1, <1>3, <2>1, <3>2 DEF Later, Earlier
    <3>4. Later(g.min, lo) \in Int /\ Earlier(g.max, hi) \in Int
      BY <1>1, <1>3, <2>1 DEF Later, Earlier
    <3> QED BY <1>1, <3>1, <3>3, <3>4
  <2> QED BY <2>2, <2>3
<1> HIDE DEF k
<1>9. JustNow(k, m)
  BY <1>5, <1>8 DEF JustNow, Met
<1> QED BY <1>4, <1>6, <1>9

(* A trial leaves nothing undone, and what goes on has time. *)
Timely(r, f, i, m) ==
  /\ r.val = "same" => SameWindow(r.fsm, f) /\ Through(f, i, m)
  /\ r.val = "changed" =>
       IF Clones(Outgoing(f.state)[i]) THEN SameWindow(r.fsm, f) /\ JustNow(r.clone, m)
                                       ELSE JustNow(r.fsm, m)

LEMMA HandleTimely ==
  ASSUME StepByStep, InTime, NEW f \in Fsms, NEW i \in DOMAIN Outgoing(f.state), NEW m \in Messages,
         f.state # Rule.init => f.min <= f.max
  PROVE  Timely(HandleEvent(f, i, m), f, i, m)
<1> DEFINE r   == HandleEvent(f, i, m)
           t   == Outgoing(f.state)[i]
           out == Outgoing(f.state)[1]
           g   == [f EXCEPT !.event = t.event]
<1>1. f.state \in Rule.states /\ 1 \in DOMAIN Outgoing(f.state)
  <2>1. f.state \in Rule.states
    BY DEF Fsms
  <2> QED BY <2>1, RuleTypes
<1>2. /\ t.event \in Events /\ t.target \in Rule.states
      /\ out.event \in Events /\ out.target \in Rule.states
      /\ t.event = TIMEOUT => t = out
  BY <1>1, RuleTypes
<1>3. /\ \A s \in Rule.states : ~Temporary(s)
      /\ t.event = TIMEOUT => Final(t.target) /\ f.state # Rule.init
      /\ out.event = TIMEOUT => Final(out.target)
  BY <1>1 DEF StepByStep, InTime, Temporary
<1>4. /\ SameInstance(g, f) /\ g.event = t.event /\ SameWindow(g, f)
      /\ f.min \in Int /\ f.max \in Int /\ m.ts \in Nat
  BY <1>2, EventType DEF SameWindow, Fsms, Messages
<1>5. r = CASE TooEarly(f, m) -> [fsm |-> f, clone |-> None, val |-> "same"]
            [] ~TooEarly(f, m) /\ TimedOut(f, m) ->
                 LET p == Move(IF Final(out.target) THEN g ELSE f, out, m)
                 IN  [fsm |-> p.fsm, clone |-> None, val |-> p.val]
            [] ~TooEarly(f, m) /\ ~TimedOut(f, m) /\ t.event = TIMEOUT ->
                 [fsm |-> f, clone |-> None, val |-> "same"]
            [] OTHER ->
                 IF ~Guard(t.event, m, f.trace)
                 THEN [fsm |-> g, clone |-> None, val |-> "same"]
                 ELSE LET p == Move(g, t, m) IN
                      IF Clones(t)
                      THEN [fsm |-> g, clone |-> p.fsm, val |-> p.val]
                      ELSE [fsm |-> p.fsm, clone |-> None, val |-> p.val]
  BY DEF HandleEvent
<1>6. "same" \notin Ends /\ "changed" \notin Ends /\ "same" # "changed"
  BY DEF Ends
<1>7. Through(f, i, m) <=>
        \/ Met(f, m) /\ m.ts <= f.max
        \/ t.event = TIMEOUT /\ m.ts <= f.max
        \/ /\ t.event # TIMEOUT
           /\ t.action # "create" /\ f.min <= m.ts /\ m.ts <= f.max => ~Guard(t.event, m, f.trace)
  BY DEF Through
<1>8. Timely(r, f, i, m) <=>
        /\ r.val = "same" => SameWindow(r.fsm, f) /\ Through(f, i, m)
        /\ r.val = "changed" =>
             IF Clones(t) THEN SameWindow(r.fsm, f) /\ JustNow(r.clone, m) ELSE JustNow(r.fsm, m)
  BY DEF Timely
<1> HIDE DEF r, g, t, out
<1>9. SUFFICES Timely(r, f, i, m)
  BY DEF r
<1>10. CASE TooEarly(f, m)
  <2>1. r.fsm = f /\ r.val = "same"
    BY <1>5, <1>10
  <2>2. m.ts < f.min
    BY <1>10 DEF TooEarly
  <2>3. Through(f, i, m)
    BY <2>2, <1>3, <1>4, <1>7
  <2> QED BY <2>1, <2>3, <1>6, <1>8 DEF SameWindow
<1>11. CASE ~TooEarly(f, m) /\ TimedOut(f, m)
  <2>1. out.event = TIMEOUT
    BY <1>11 DEF TimedOut, out
  <2> DEFINE p == Move(g, out, m)
  <2>2. r = [fsm |-> p.fsm, clone |-> None, val |-> p.val]
    BY <1>5, <1>11, <1>3, <2>1
  <2>3. g \in Fsms
    BY <1>4 DEF SameInstance, SameButState
  <2>4. p.val \in Ends
    BY <2>1, <2>3, <1>2, <1>3, MoveType
  <2> HIDE DEF p
  <2>5. r.val \in Ends
    BY <2>2, <2>4
  <2> QED BY <2>5, <1>6, <1>8
<1>12. CASE ~TooEarly(f, m) /\ ~TimedOut(f, m) /\ t.event = TIMEOUT
  <2>1. r.fsm = f /\ r.val = "same"
    BY <1>5, <1>12
  <2>2. out.event = TIMEOUT /\ f.state # Rule.init /\ ~Temporary(f.state)
    BY <1>1, <1>2, <1>3, <1>12
  <2>3. ~(m.ts > f.max)
    BY <1>12, <2>2 DEF TimedOut, out
  <2>4. Through(f, i, m)
    BY <2>3, <1>4, <1>7, <1>12
  <2> QED BY <2>1, <2>4, <1>6, <1>8 DEF SameWindow
<1>13. CASE ~TooEarly(f, m) /\ ~TimedOut(f, m) /\ t.event # TIMEOUT
  <2>1. CASE ~Guard(t.event, m, f.trace)
    <3>1. r.fsm = g /\ r.val = "same"
      BY <1>5, <1>13, <2>1
    <3>2. Through(f, i, m)
      BY <1>7, <1>13, <2>1
    <3> QED BY <3>1, <3>2, <1>4, <1>6, <1>8
  <2>2. CASE Guard(t.event, m, f.trace)
    <3> DEFINE p == Move(g, t, m)
    <3>1. r = IF Clones(t)
              THEN [fsm |-> g, clone |-> p.fsm, val |-> p.val]
              ELSE [fsm |-> p.fsm, clone |-> None, val |-> p.val]
      BY <1>5, <1>13, <2>2
    <3>2. g \in Fsms /\ g.state = f.state /\ g.min = f.min /\ g.max = f.max
      BY <1>4 DEF SameInstance, SameButState, SameWindow
    <3>3. CASE Final(t.target)
      <4>1. p.val \in Ends
        BY <3>2, <3>3, <1>2, <1>3, MoveType
      <4> HIDE DEF p
      <4>2. r.val \in Ends
        BY <3>1, <4>1
      <4> QED BY <4>2, <1>6, <1>8
    <3>4. CASE ~Final(t.target)
      <4>1. f.min <= m.ts
        BY <1>4, <1>13 DEF TooEarly
      <4>2. f.state # Rule.init /\ out.event = TIMEOUT => m.ts <= f.max
        BY <1>1, <1>3, <1>4, <1>13 DEF TimedOut, out
      <4>3. i \in DOMAIN Outgoing(g.state) /\ t = Outgoing(g.state)[i] /\ out = Outgoing(g.state)[1]
        BY <3>2 DEF t, out
      <4>4. p.val = "changed" /\ JustNow(p.fsm, m)
        BY <3>2, <3>4, <4>1, <4>2, <4>3, <1>4, <1>13, MoveTimely
      <4> HIDE DEF p
      <4>5. r.val = "changed"
        BY <3>1, <4>4
      <4>6. CASE Clones(t)
        <5>1. r.fsm = g /\ r.clone = p.fsm
          BY <3>1, <4>6
        <5> QED BY <5>1, <4>4, <4>5, <4>6, <1>4, <1>6, <1>8
      <4>7. CASE ~Clones(t)
        <5>1. r.fsm = p.fsm
          BY <3>1, <4>7
        <5> QED BY <5>1, <4>4, <4>5, <4>7, <1>6, <1>8
      <4> QED BY <4>6, <4>7
    <3> QED BY <3>3, <3>4
  <2> QED BY <2>1, <2>2
<1> QED BY <1>10, <1>11, <1>12, <1>13

-----------------------------------------------------------------------------
(* A clone always goes on in a further state. *)
LEMMA CloneGoesOn ==
  ASSUME StepByStep, InTime, NEW f \in Fsms, NEW i \in DOMAIN Outgoing(f.state), NEW m \in Messages,
         HandleEvent(f, i, m).clone # None
  PROVE  LET r == HandleEvent(f, i, m)
             t == Outgoing(f.state)[i]
         IN  r.val = "changed" /\ r.clone.state = t.target /\ ~Final(t.target)
<1> DEFINE r   == HandleEvent(f, i, m)
           t   == Outgoing(f.state)[i]
           out == Outgoing(f.state)[1]
           g   == [f EXCEPT !.event = t.event]
           p   == Move(g, t, m)
<1>1. f.state \in Rule.states /\ t.event \in Events /\ t.target \in Rule.states
  <2>1. f.state \in Rule.states
    BY DEF Fsms
  <2> QED BY <2>1, RuleTypes
<1>2. g \in Fsms
  BY <1>1, EventType DEF SameInstance, SameButState
<1>3. r = CASE TooEarly(f, m) -> [fsm |-> f, clone |-> None, val |-> "same"]
            [] ~TooEarly(f, m) /\ TimedOut(f, m) ->
                 LET q == Move(IF Final(out.target) THEN g ELSE f, out, m)
                 IN  [fsm |-> q.fsm, clone |-> None, val |-> q.val]
            [] ~TooEarly(f, m) /\ ~TimedOut(f, m) /\ t.event = TIMEOUT ->
                 [fsm |-> f, clone |-> None, val |-> "same"]
            [] OTHER ->
                 IF ~Guard(t.event, m, f.trace)
                 THEN [fsm |-> g, clone |-> None, val |-> "same"]
                 ELSE IF Clones(t)
                      THEN [fsm |-> g, clone |-> p.fsm, val |-> p.val]
                      ELSE [fsm |-> p.fsm, clone |-> None, val |-> p.val]
  BY DEF HandleEvent
<1>4. p.fsm.state = t.target /\ (p.val = "changed" <=> ~Final(t.target))
  <2>1. ~Temporary(t.target)
    BY DEF InTime, Temporary
  <2>2. PICK u, k : u = t /\ k = g
    OBVIOUS
  <2>3. k \in Fsms /\ u.target \in Rule.states /\ ~Temporary(u.target)
    BY <2>1, <2>2, <1>1, <1>2
  <2>4. Move(k, u, m).fsm.state = u.target /\ (Move(k, u, m).val = "changed" <=> ~Final(u.target))
    BY <2>3, MoveOnce
  <2> QED BY <2>2, <2>4
<1> HIDE DEF p, g, t, out
<1>5. Clones(t) /\ r = [fsm |-> g, clone |-> p.fsm, val |-> p.val]
  <2>1. r.clone # None
    OBVIOUS
  <2> HIDE DEF r
  <2> QED BY <2>1, <1>3
<1> HIDE DEF r
<1>6. r.val = "changed" /\ r.clone.state = t.target /\ ~Final(t.target)
  BY <1>4, <1>5 DEF Clones
<1> QED BY <1>6 DEF r, t

(* What a trial makes of the instance, when it goes on, and when it does not. *)
SameTimes(g, f) == g.state = f.state /\ g.trace = f.trace /\ SameWindow(g, f)
GoesOnWith(g, f, m) ==
  JustNow(g, m) /\ Open(g) /\ \A e \in Events : g.trace[e] = m \/ g.trace[e] = f.trace[e]

Trial(r, f, i, m) ==
  LET t == Outgoing(f.state)[i]
  IN  \/ /\ r.clone = None /\ r.val = "same"
         /\ SameInstance(r.fsm, f) /\ SameTimes(r.fsm, f) /\ Through(f, i, m)
      \/ /\ r.clone \in Fsms /\ r.val = "changed"
         /\ SameInstance(r.fsm, f) /\ SameTimes(r.fsm, f) /\ Through(f, i, m)
         /\ GoesOnWith(r.clone, f, m)
      \/ /\ r.clone = None /\ r.val = "changed" /\ SameButState(r.fsm, f)
         /\ MovesOn(t) /\ t.event # TIMEOUT /\ r.fsm.state = t.target /\ GoesOnWith(r.fsm, f, m)
      \/ r.clone = None /\ r.val \in Ends /\ f.state # Rule.init /\ SameButState(r.fsm, f)

LEMMA TrialIs ==
  ASSUME StepByStep, InTime, NEW f \in Fsms, NEW i \in DOMAIN Outgoing(f.state), NEW m \in Messages,
         f.state # Rule.init => f.min <= f.max
  PROVE  Trial(HandleEvent(f, i, m), f, i, m)
<1> DEFINE t == Outgoing(f.state)[i]
<1>1. PICK r : r = HandleEvent(f, i, m)
  OBVIOUS
<1>2. Timely(r, f, i, m)
  BY <1>1, HandleTimely
<1>3. Unmoved(r, f) \/ Cloned(r, f, t, m) \/ Moved(r, f, t, m) \/ Ended(r, f, t, m)
  BY <1>1, HandleType
<1>4. "same" # "changed"
  OBVIOUS
<1>5. CASE Unmoved(r, f)
  <2>1. r.clone = None /\ r.val = "same" /\ SameInstance(r.fsm, f)
    BY <1>5 DEF Unmoved
  <2>2. SameWindow(r.fsm, f) /\ Through(f, i, m)
    BY <2>1, <1>2 DEF Timely
  <2> QED BY <2>1, <2>2, <1>1 DEF Trial, SameTimes, SameInstance
<1>6. CASE Cloned(r, f, t, m)
  <2>1. Clones(t) /\ t.event # TIMEOUT /\ SameInstance(r.fsm, f) /\ r.clone \in Fsms
    BY <1>6 DEF Cloned
  <2>2. r.clone # None
    BY <2>1, NotNone
  <2>3. r.val = "changed" /\ r.clone.state = t.target /\ ~Final(t.target)
    BY <2>2, <1>1, CloneGoesOn
  <2>4. SameWindow(r.fsm, f) /\ JustNow(r.clone, m)
    BY <2>1, <2>3, <1>2 DEF Timely
  <2>5. Through(f, i, m)
    BY <2>1 DEF Through, Clones
  <2>6. \A e \in Events : r.clone.trace[e] = m \/ r.clone.trace[e] = f.trace[e]
    BY <1>6 DEF Cloned, Recorded
  <2>7. GoesOnWith(r.clone, f, m)
    BY <2>3, <2>4, <2>6 DEF GoesOnWith, Open, JustNow
  <2> QED BY <2>1, <2>3, <2>4, <2>5, <2>7, <1>1 DEF Trial, SameTimes, SameInstance
<1>7. CASE Moved(r, f, t, m)
  <2>1. /\ r.clone = None /\ r.val = "changed" /\ MovesOn(t) /\ t.event # TIMEOUT
        /\ SameButState(r.fsm, f) /\ r.fsm.state = t.target
        /\ \A e \in Events : r.fsm.trace[e] = m \/ r.fsm.trace[e] = f.trace[e]
    BY <1>7 DEF Moved, Recorded
  <2>2. ~Clones(t) /\ ~Final(t.target)
    BY <2>1 DEF MovesOn
  <2>3. JustNow(r.fsm, m)
    BY <2>1, <2>2, <1>2 DEF Timely
  <2>4. GoesOnWith(r.fsm, f, m)
    BY <2>1, <2>2, <2>3 DEF GoesOnWith, Open, JustNow
  <2> QED BY <2>1, <2>4, <1>1 DEF Trial
<1>8. CASE Ended(r, f, t, m)
  BY <1>8, <1>1 DEF Ended, Trial
<1> QED BY <1>3, <1>5, <1>6, <1>7, <1>8

(* The same of a node of the walk: what it makes of the instances and nodes. *)
Marked == [node EXCEPT ![next].counter = msg.n]
Goer(f) ==
  /\ f.h # Bootstrap /\ JustNow(f.inst[f.h], msg) /\ Open(f.inst[f.h])
  /\ \A e \in Events : f.inst[f.h].trace[e] = msg
                       \/ \E x \in DOMAIN inst : f.inst[f.h].trace[e] = inst[x].trace[e]
FiringTimes(f) ==
  LET x0 == node[next].fsm
      t == Outgoing(inst[x0].state)[node[next].index]
  IN  /\ DOMAIN f.inst = DOMAIN inst \cup {f.h}
      /\ \A x \in DOMAIN inst \ {f.h} : SameTimes(f.inst[x], inst[x])
      /\ \/ /\ f.val = "same" /\ f.h = x0 /\ SameTimes(f.inst[x0], inst[x0])
            /\ Through(inst[x0], node[next].index, msg)
            /\ f.node = Marked /\ f.expecting = expecting
         \/ /\ f.val = "changed" /\ f.new /\ f.h \notin DOMAIN inst /\ Goer(f)
            /\ Through(inst[x0], node[next].index, msg)
            /\ f.node = Marked /\ f.expecting = expecting
         \/ /\ f.val = "changed" /\ ~f.new /\ f.h = x0 /\ Goer(f)
            /\ MovesOn(t) /\ t.event # TIMEOUT /\ f.inst[x0].state = t.target
            /\ f.node = Without(Marked, {next}) /\ f.expecting = [expecting EXCEPT ![ev] = Erase(@, next)]
         \/ /\ f.val \in Ends /\ f.h = x0 /\ x0 # Bootstrap
            /\ f.node = Marked /\ f.expecting = expecting

LEMMA FiringTimed ==
  ASSUME StepByStep, InTime, Sound, Reached, AllOpen(inst), NEW f, f = Fired(Tried), ~f.left
  PROVE  FiringTimes(f)
<1> DEFINE x0 == node[next].fsm
           fsm == inst[x0]
           i == node[next].index
           t == Outgoing(fsm.state)[i]
<1>1. /\ next \in DOMAIN node /\ x0 \in DOMAIN inst /\ fsm \in Fsms
      /\ i \in DOMAIN Outgoing(fsm.state) /\ t.event = ev /\ next # NoNode
      /\ msg \in Messages
  BY Reaching DEF Reached, Sound
<1>2. IdsFit(inst, byId)
  BY DEF Sound
<1>3. fsm.state # Rule.init => fsm.min <= fsm.max
  <2>1. x0 = Bootstrap => fsm.state = Rule.init
    BY <1>2 DEF IdsFit
  <2> QED BY <2>1, <1>1 DEF AllOpen, Open
<1>4. PICK r : r = Tried
  OBVIOUS
<1>5. r = HandleEvent(fsm, i, msg) /\ f = Fired(r)
  BY <1>4 DEF Tried
<1>6. Trial(r, fsm, i, msg)
  <2> HIDE DEF fsm, i
  <2> QED BY <1>1, <1>3, <1>5, TrialIs
<1>7. Bootstrap \in DOMAIN inst /\ inst[Bootstrap].state = Rule.init /\ "same" \notin Ends /\ "changed" \notin Ends
  BY <1>2 DEF IdsFit, Ends
<1>8. ASSUME SameButState(r.fsm, fsm), r.clone = None, x0 = Bootstrap => SameInstance(r.fsm, fsm)
      PROVE  /\ f.val = r.val /\ f.h = x0 /\ ~f.new /\ f.inst[x0] = r.fsm
             /\ DOMAIN f.inst = DOMAIN inst \cup {f.h}
             /\ \A x \in DOMAIN inst \ {f.h} : SameTimes(f.inst[x], inst[x])
             /\ f.val # "changed" => f.node = Marked /\ f.expecting = expecting
             /\ f.val = "changed" => /\ f.node = Without(Marked, {next})
                                     /\ f.expecting = [expecting EXCEPT ![ev] = Erase(@, next)]
  <2>1. OldFiled(f, r)
    BY <1>5, <1>8, FiredOld
  <2>2. /\ f.val = r.val /\ f.h = x0 /\ ~f.new /\ f.inst[x0] = r.fsm
        /\ DOMAIN f.inst = DOMAIN inst
        /\ \A x \in DOMAIN inst \ {f.h} : f.inst[x] = inst[x]
    BY <2>1 DEF OldFiled
  <2>3. /\ f.val # "changed" => f.node = Marked /\ f.expecting = expecting
        /\ f.val = "changed" => /\ f.node = Without(Marked, {next})
                                /\ f.expecting = [expecting EXCEPT ![ev] = Erase(@, next)]
    BY <2>1 DEF OldFiled, Marked
  <2>4. \A x \in DOMAIN inst \ {f.h} : SameTimes(f.inst[x], inst[x])
    BY <2>2 DEF SameTimes, SameWindow
  <2>5. DOMAIN f.inst = DOMAIN inst \cup {f.h}
    BY <2>2, <1>1
  <2> QED BY <2>2, <2>3, <2>4, <2>5
<1>9. CASE r.clone = None /\ r.val = "same"
  <2>1. SameInstance(r.fsm, fsm) /\ SameTimes(r.fsm, fsm) /\ Through(fsm, i, msg)
    BY <1>6, <1>9, <1>7, NotNone DEF Trial
  <2>2. SameButState(r.fsm, fsm)
    BY <2>1 DEF SameInstance
  <2>3. /\ f.val = r.val /\ f.h = x0 /\ f.inst[x0] = r.fsm
        /\ DOMAIN f.inst = DOMAIN inst \cup {f.h}
        /\ \A x \in DOMAIN inst \ {f.h} : SameTimes(f.inst[x], inst[x])
        /\ f.node = Marked /\ f.expecting = expecting
    BY <2>1, <2>2, <1>8, <1>9
  <2> QED BY <2>1, <2>3, <1>9 DEF FiringTimes
<1>10. CASE r.clone = None /\ r.val = "changed"
  <2>1. SameButState(r.fsm, fsm) /\ MovesOn(t) /\ t.event # TIMEOUT /\ r.fsm.state = t.target
        /\ GoesOnWith(r.fsm, fsm, msg)
    BY <1>6, <1>10, <1>7, NotNone DEF Trial
  <2>2. x0 # Bootstrap
    BY <2>1, <1>1, <1>7 DEF StepByStep, MovesOn
  <2>3. /\ f.val = r.val /\ f.h = x0 /\ ~f.new /\ f.inst[x0] = r.fsm
        /\ DOMAIN f.inst = DOMAIN inst \cup {f.h}
        /\ \A x \in DOMAIN inst \ {f.h} : SameTimes(f.inst[x], inst[x])
        /\ f.node = Without(Marked, {next}) /\ f.expecting = [expecting EXCEPT ![ev] = Erase(@, next)]
    BY <2>1, <2>2, <1>8, <1>10
  <2>4. Goer(f)
    BY <2>1, <2>2, <2>3, <1>1 DEF Goer, GoesOnWith
  <2> QED BY <2>1, <2>3, <2>4, <1>10 DEF FiringTimes
<1>11. CASE r.clone = None /\ r.val \in Ends
  <2>1. fsm.state # Rule.init /\ SameButState(r.fsm, fsm)
    BY <1>6, <1>11, <1>7, NotNone DEF Trial
  <2>2. x0 # Bootstrap
    BY <2>1, <1>7
  <2>3. /\ f.val = r.val /\ f.h = x0
        /\ DOMAIN f.inst = DOMAIN inst \cup {f.h}
        /\ \A x \in DOMAIN inst \ {f.h} : SameTimes(f.inst[x], inst[x])
        /\ f.node = Marked /\ f.expecting = expecting
    BY <2>1, <2>2, <1>7, <1>8, <1>11
  <2> QED BY <2>2, <2>3, <1>11 DEF FiringTimes
<1>12. CASE r.clone \in Fsms
  <2>1. r.val = "changed" /\ SameInstance(r.fsm, fsm) /\ SameTimes(r.fsm, fsm) /\ Through(fsm, i, msg)
        /\ GoesOnWith(r.clone, fsm, msg)
    BY <1>6, <1>12, NotNone DEF Trial
  <2>2. NewFiled(f, r)
    BY <2>1, <1>5, <1>12, FiredNew
  <2>3. /\ f.val = "changed" /\ f.new /\ f.h \notin DOMAIN inst /\ DOMAIN f.inst = DOMAIN inst \cup {f.h}
        /\ f.node = Marked /\ f.expecting = expecting
        /\ f.inst[f.h] = [r.clone EXCEPT !.id = f.id]
    BY <2>1, <2>2 DEF NewFiled, Marked
  <2>4. \A x \in DOMAIN inst \ {f.h} : SameTimes(f.inst[x], inst[x])
    BY <2>1, <2>2, <1>1 DEF NewFiled, SameTimes, SameWindow
  <2>5. SameTimes(f.inst[f.h], r.clone)
    BY <2>3, <1>12 DEF SameTimes, SameWindow, Fsms
  <2>6. GoesOnWith(f.inst[f.h], fsm, msg)
    BY <2>1, <2>5 DEF GoesOnWith, JustNow, Open, SameTimes, SameWindow, Met
  <2>7. Goer(f)
    BY <2>3, <2>6, <1>1, <1>7 DEF Goer, GoesOnWith
  <2> QED BY <2>1, <2>3, <2>4, <2>7 DEF FiringTimes
<1> QED BY <1>6, <1>9, <1>10, <1>11, <1>12 DEF Trial

LEMMA ThroughSame ==
  ASSUME NEW f, NEW g, SameTimes(g, f), NEW i, NEW m, Through(f, i, m)
  PROVE  Through(g, i, m)
BY DEF Through, Met, SameTimes, SameWindow

(* What was waiting before is waiting, but for the instance that ends and for what a
   further state waits for. *)
Stays(f, x) == f.val \notin Ends \/ x # f.h
FiringNodes(f) ==
  /\ DOMAIN f.node \subseteq DOMAIN node /\ DOMAIN node \ {next} \subseteq DOMAIN f.node
  /\ \A a \in DOMAIN f.node :
       /\ f.node[a].fsm = node[a].fsm /\ f.node[a].index = node[a].index
       /\ f.node[a].counter = IF a = next THEN msg.n ELSE node[a].counter
  /\ \A e \in Events :
       /\ f.expecting[e] \in Seq(Nat) /\ ToSet(f.expecting[e]) \subseteq ToSet(expecting[e])
       /\ \A a, b : Precedes(f.expecting[e], a, b) => Precedes(expecting[e], a, b)
FiringWaits(f) ==
  /\ \A x \in DOMAIN f.inst : \A i \in DOMAIN Outgoing(f.inst[x].state) :
       \/ \E a \in DOMAIN f.node : f.node[a].fsm = x /\ f.node[a].index = i
       \/ ~Stays(f, x)
       \/ x = f.h /\ f.val = "changed" /\ i \in Wanted(f.inst[x].state, f.new)
  /\ \A x \in DOMAIN f.inst \ {Bootstrap} : Stays(f, x) => Open(f.inst[x])
  /\ \A x \in DOMAIN f.inst : \A e \in Events :
       Stays(f, x) /\ f.inst[x].trace[e] # NoMessage => f.inst[x].trace[e].n <= msg.n
  /\ \A a \in DOMAIN f.node :
       f.node[a].counter = msg.n /\ f.node[a].fsm # Bootstrap /\ Stays(f, f.node[a].fsm) =>
         Through(f.inst[f.node[a].fsm], f.node[a].index, msg)

LEMMA FiringNoded ==
  ASSUME Sound, Reached, NEW f, FiringTimes(f)
  PROVE  FiringNodes(f)
<1>1. /\ NodesFit(inst, node, expecting) /\ next \in DOMAIN node /\ ev \in Events /\ msg.n \in Nat
      /\ expecting \in [Events -> Seq(Nat)]
  BY Reaching DEF Reached, Sound, Messages, NodesFit
<1>2. node \in [DOMAIN node -> Nodes]
  BY <1>1 DEF NodesFit
<1>3. /\ DOMAIN Marked = DOMAIN node
      /\ \A a \in DOMAIN node : /\ Marked[a].fsm = node[a].fsm /\ Marked[a].index = node[a].index
                                /\ Marked[a].counter = IF a = next THEN msg.n ELSE node[a].counter
  BY <1>2 DEF Nodes, Marked
<1>4. f.node = Marked \/ f.node = Without(Marked, {next})
  BY DEF FiringTimes
<1>5. /\ DOMAIN f.node \subseteq DOMAIN node /\ DOMAIN node \ {next} \subseteq DOMAIN f.node
      /\ \A a \in DOMAIN f.node : f.node[a] = Marked[a]
  BY <1>3, <1>4 DEF Without
<1>6. f.expecting = expecting \/ f.expecting = [expecting EXCEPT ![ev] = Erase(@, next)]
  BY DEF FiringTimes
<1>7. ASSUME NEW e \in Events
      PROVE  /\ f.expecting[e] \in Seq(Nat) /\ ToSet(f.expecting[e]) \subseteq ToSet(expecting[e])
             /\ \A a, b : Precedes(f.expecting[e], a, b) => Precedes(expecting[e], a, b)
  <2>1. PICK list : list = expecting[e] /\ list \in Seq(Nat)
    BY <1>1
  <2>2. f.expecting[e] = list \/ f.expecting[e] = Erase(list, next)
    BY <1>1, <1>6, <2>1
  <2>3. Erase(list, next) \in Seq(Nat) /\ ToSet(Erase(list, next)) \subseteq ToSet(list)
    BY <2>1, EraseKeeps
  <2>4. \A a, b : Precedes(Erase(list, next), a, b) => Precedes(list, a, b)
    BY <2>1, EraseOrder
  <2> QED BY <2>1, <2>2, <2>3, <2>4
<1> QED BY <1>3, <1>5, <1>7 DEF FiringNodes

LEMMA FiringWaited ==
  ASSUME StepByStep, Sound, Reached, Waiting(inst, node, msg), NEW f, FiringTimes(f), FiringNodes(f)
  PROVE  FiringWaits(f)
<1> DEFINE x0 == node[next].fsm
           i0 == node[next].index
           t  == Outgoing(inst[x0].state)[i0]
<1>0. /\ next \in DOMAIN node /\ x0 \in DOMAIN inst /\ i0 \in DOMAIN Outgoing(inst[x0].state)
      /\ inst[x0].state \in Rule.states /\ node[next].counter # msg.n /\ msg.n \in Nat
      /\ \A a \in DOMAIN node : node[a].fsm \in DOMAIN inst
  BY Reaching DEF Reached, Fsms, Sound, Messages, NodesFit
<1>1. "same" \notin Ends /\ "changed" \notin Ends
  BY DEF Ends
<1>2. /\ AllFiled(inst, node) /\ AllOpen(inst) /\ Older(inst, node, msg) /\ CountersTell(inst, node, msg)
  BY DEF Waiting
<1>3. \A x \in DOMAIN f.inst : x = f.h \/ (x \in DOMAIN inst /\ x # f.h /\ SameTimes(f.inst[x], inst[x]))
  BY DEF FiringTimes
<1>4. f.h = x0 \/ f.h \notin DOMAIN inst
  BY DEF FiringTimes
<1>21. \/ f.val = "same" /\ f.h = x0 /\ SameTimes(f.inst[x0], inst[x0])
       \/ f.val \in Ends
       \/ f.val = "changed" /\ Goer(f)
  BY DEF FiringTimes
<1>5. ASSUME NEW x \in DOMAIN f.inst, NEW i \in DOMAIN Outgoing(f.inst[x].state)
      PROVE  \/ \E a \in DOMAIN f.node : f.node[a].fsm = x /\ f.node[a].index = i
             \/ ~Stays(f, x)
             \/ x = f.h /\ f.val = "changed" /\ i \in Wanted(f.inst[x].state, f.new)
  <2>1. CASE x # f.h \/ f.val = "same"
    <3>1. x \in DOMAIN inst /\ f.inst[x].state = inst[x].state
      BY <2>1, <1>0, <1>1, <1>3, <1>21 DEF SameTimes
    <3>2. PICK a \in DOMAIN node : node[a].fsm = x /\ node[a].index = i
      BY <3>1, <1>2, <1>5 DEF AllFiled
    <3>3. a \in DOMAIN f.node
      <4>1. CASE a = next
        <5>1. x = x0
          BY <3>2, <4>1
        <5>2. f.node = Marked \/ (f.val = "changed" /\ f.h = x0)
          BY DEF FiringTimes
        <5>3. f.node = Marked
          BY <5>1, <5>2, <2>1
        <5>4. DOMAIN Marked = DOMAIN node
          BY DEF Marked
        <5> QED BY <5>3, <5>4
      <4>2. CASE a # next
        BY <4>2 DEF FiringNodes
      <4> QED BY <4>1, <4>2
    <3>4. f.node[a].fsm = x /\ f.node[a].index = i
      BY <3>2, <3>3 DEF FiringNodes
    <3> QED BY <3>3, <3>4
  <2>2. CASE x = f.h /\ f.val \in Ends
    BY <2>2 DEF Stays
  <2>3. CASE x = f.h /\ f.val = "changed" /\ f.new
    BY <2>3, <1>5 DEF Wanted
  <2>4. CASE x = f.h /\ f.val = "changed" /\ ~f.new
    <3>1. f.h = x0 /\ MovesOn(t) /\ t.event # TIMEOUT /\ f.inst[x0].state = t.target
      BY SMTT(30), <2>4, <1>1 DEF FiringTimes
    <3>2. CASE Outgoing(t.target)[i].event # TIMEOUT
      BY <3>1, <3>2, <2>4, <1>5 DEF Wanted
    <3>3. CASE Outgoing(t.target)[i].event = TIMEOUT
      <4>1. t.target \in Rule.states
        BY SMTT(30), <1>0, RuleTypes
      <4>2. i = 1
        BY <3>1, <3>3, <4>1, <2>4, <1>5, RuleTypes
      <4>3. Outgoing(inst[x0].state)[1].event = TIMEOUT
        BY <3>1, <3>3, <4>2, <1>0 DEF StepByStep
      <4>4. 1 \in DOMAIN Outgoing(inst[x0].state)
        BY <1>0, RuleTypes
      <4>5. PICK a \in DOMAIN node : node[a].fsm = x0 /\ node[a].index = 1
        BY <4>4, <1>0, <1>2 DEF AllFiled
      <4>6. a # next
        BY <4>3, <4>5, <3>1
      <4>7. a \in DOMAIN f.node /\ f.node[a].fsm = x0 /\ f.node[a].index = 1
        BY <4>5, <4>6 DEF FiringNodes
      <4> QED BY <4>2, <4>7, <3>1, <2>4
    <3> QED BY <3>2, <3>3
  <2> QED BY <2>1, <2>2, <2>3, <2>4, <1>21
<1>6. ASSUME NEW x \in DOMAIN f.inst \ {Bootstrap}, Stays(f, x) PROVE Open(f.inst[x])
  <2>1. CASE x # f.h \/ f.val = "same"
    <3>1. x \in DOMAIN inst \ {Bootstrap} /\ SameTimes(f.inst[x], inst[x])
      BY <2>1, <1>0, <1>1, <1>3, <1>6, <1>21
    <3> QED BY <3>1, <1>2 DEF AllOpen, Open, SameTimes, SameWindow
  <2>2. CASE x = f.h /\ f.val = "changed"
    BY <2>2, <1>1, <1>21 DEF Goer
  <2> QED BY <2>1, <2>2, <1>6, <1>21 DEF Stays
<1>7. ASSUME NEW x \in DOMAIN f.inst, NEW e \in Events, Stays(f, x), f.inst[x].trace[e] # NoMessage
      PROVE  f.inst[x].trace[e].n <= msg.n
  <2>1. CASE x # f.h \/ f.val = "same"
    <3>1. x \in DOMAIN inst /\ f.inst[x].trace = inst[x].trace
      BY <2>1, <1>0, <1>1, <1>3, <1>21 DEF SameTimes
    <3> QED BY <3>1, <1>2, <1>7 DEF Older
  <2>2. CASE x = f.h /\ f.val = "changed"
    <3>1. f.inst[x].trace[e] = msg \/ \E y \in DOMAIN inst : f.inst[x].trace[e] = inst[y].trace[e]
      BY <2>2, <1>1, <1>21 DEF Goer
    <3> QED BY <3>1, <1>0, <1>2, <1>7 DEF Older
  <2> QED BY <2>1, <2>2, <1>7, <1>21 DEF Stays
<1>8. ASSUME NEW a \in DOMAIN f.node, f.node[a].counter = msg.n, f.node[a].fsm # Bootstrap, Stays(f, f.node[a].fsm)
      PROVE  Through(f.inst[f.node[a].fsm], f.node[a].index, msg)
  <2> DEFINE x == node[a].fsm
             i == node[a].index
  <2>1. /\ a \in DOMAIN node /\ f.node[a].fsm = x /\ f.node[a].index = i /\ x \in DOMAIN inst
        /\ a # next => node[a].counter = msg.n
    BY <1>0, <1>8 DEF FiringNodes
  <2>2. x # Bootstrap /\ Stays(f, x)
    BY <2>1, <1>8
  <2>3. CASE x = f.h /\ f.val = "changed"
    <3>1. Met(f.inst[x], msg) /\ msg.ts <= f.inst[x].max
      BY <2>3, <1>1, <1>21 DEF Goer, JustNow
    <3> QED BY <3>1, <2>1 DEF Through
  <2>4. CASE ~(x = f.h /\ f.val = "changed")
    <3>1. SameTimes(f.inst[x], inst[x])
      <4>1. x # f.h \/ f.val = "same"
        BY <2>2, <2>4, <1>21 DEF Stays
      <4>2. x \in DOMAIN f.inst
        BY <2>1 DEF FiringTimes
      <4> QED BY <4>1, <4>2, <1>1, <1>3, <1>21
    <3>2. Through(inst[x], i, msg)
      <4>1. CASE a = next
        <5>1. f.val = "same" \/ (f.val = "changed" /\ f.new)
          <6>1. ~(x0 = f.h /\ f.val = "changed") /\ Stays(f, x0)
            BY <4>1, <2>2, <2>4
          <6> QED BY <6>1 DEF FiringTimes, Stays
        <5>2. Through(inst[x0], i0, msg)
          BY <5>1, <1>1, <4>1, <2>4 DEF FiringTimes
        <5> QED BY <5>2, <4>1
      <4>2. CASE a # next
        BY <4>2, <2>1, <2>2, <1>2 DEF CountersTell
      <4> QED BY <4>1, <4>2
    <3>3. Through(f.inst[x], i, msg)
      BY <3>1, <3>2, ThroughSame
    <3> QED BY <3>3, <2>1
  <2> QED BY <2>3, <2>4
<1> QED BY <1>5, <1>6, <1>7, <1>8 DEF FiringWaits

-----------------------------------------------------------------------------
(* The instances and nodes that are left wait. *)
LEMMA LeftWaits ==
  ASSUME Sound, Waiting(inst, node, msg), Reached, NEW f, FiringTimes(f), FiringNodes(f), FiringWaits(f),
         NEW gone, f.val \in Ends => f.h \in gone, f.val # "changed",
         NEW J, DOMAIN J = DOMAIN f.inst \ gone, \A x \in DOMAIN J : J[x] = f.inst[x],
         NEW M, \A a : a \in DOMAIN M <=> a \in DOMAIN f.node /\ f.node[a].fsm \notin gone,
         \A a \in DOMAIN M : M[a] = f.node[a]
  PROVE  Waiting(J, M, msg)
<1>1. /\ msg.n \in Nat /\ Older(inst, node, msg)
      /\ \A a \in DOMAIN node : node[a].fsm \in DOMAIN inst
  BY DEF Sound, Messages, NodesFit, Waiting
<1>2. \A x \in DOMAIN J : Stays(f, x)
  BY DEF Stays
<1>3. AllFiled(J, M)
  <2> SUFFICES ASSUME NEW x \in DOMAIN J, NEW i \in DOMAIN Outgoing(J[x].state)
               PROVE  \E a \in DOMAIN M : M[a].fsm = x /\ M[a].index = i
    BY DEF AllFiled
  <2>1. PICK a \in DOMAIN f.node : f.node[a].fsm = x /\ f.node[a].index = i
    BY <1>2 DEF FiringWaits
  <2> QED BY <2>1
<1>4. AllOpen(J)
  BY <1>2 DEF AllOpen, FiringWaits
<1>5. Older(J, M, msg)
  <2>1. \A a \in DOMAIN M : M[a].counter <= msg.n
    BY <1>1 DEF Older, FiringNodes
  <2>2. \A x \in DOMAIN J : \A e \in Events : J[x].trace[e] # NoMessage => J[x].trace[e].n <= msg.n
    BY <1>2 DEF FiringWaits
  <2> QED BY <2>1, <2>2 DEF Older
<1>6. CountersTell(J, M, msg)
  <2> SUFFICES ASSUME NEW a \in DOMAIN M, M[a].counter = msg.n, M[a].fsm # Bootstrap
               PROVE  Through(J[M[a].fsm], M[a].index, msg)
    BY DEF CountersTell
  <2>1. a \in DOMAIN f.node /\ M[a] = f.node[a] /\ M[a].fsm \notin gone
    OBVIOUS
  <2>2. M[a].fsm \in DOMAIN J
    BY <2>1, <1>1 DEF FiringNodes, FiringTimes
  <2>3. Through(f.inst[f.node[a].fsm], f.node[a].index, msg)
    BY <2>1, <2>2, <1>2 DEF FiringWaits
  <2> QED BY <2>1, <2>2, <2>3
<1> QED BY <1>3, <1>4, <1>5, <1>6 DEF Waiting

(* An instance in a further state waits, with nodes for all it may do there. *)
LEMMA GrownWaits ==
  ASSUME Sound, Waiting(inst, node, msg), Reached, NEW f, FiringTimes(f), FiringNodes(f), FiringWaits(f),
         f.val = "changed", NEW M,
         DOMAIN f.node \subseteq DOMAIN M, \A a \in DOMAIN f.node : M[a] = f.node[a],
         \A a \in DOMAIN M \ DOMAIN f.node : M[a].fsm = f.h /\ M[a].counter = msg.n,
         \A i \in Wanted(f.inst[f.h].state, f.new) : \E a \in DOMAIN M : M[a].fsm = f.h /\ M[a].index = i
  PROVE  Waiting(f.inst, M, msg)
<1>1. /\ msg.n \in Nat /\ Older(inst, node, msg)
  BY DEF Sound, Messages, Waiting
<1>2. \A x : Stays(f, x)
  BY DEF Stays, Ends
<1>3. AllFiled(f.inst, M)
  <2> SUFFICES ASSUME NEW x \in DOMAIN f.inst, NEW i \in DOMAIN Outgoing(f.inst[x].state)
               PROVE  \E a \in DOMAIN M : M[a].fsm = x /\ M[a].index = i
    BY DEF AllFiled
  <2>1. \/ \E a \in DOMAIN f.node : f.node[a].fsm = x /\ f.node[a].index = i
        \/ x = f.h /\ i \in Wanted(f.inst[x].state, f.new)
    BY <1>2 DEF FiringWaits
  <2> QED BY <2>1
<1>4. AllOpen(f.inst)
  BY <1>2 DEF AllOpen, FiringWaits
<1>5. Older(f.inst, M, msg)
  <2>1. \A a \in DOMAIN f.node : f.node[a].counter <= msg.n
    BY <1>1 DEF Older, FiringNodes
  <2>2. \A a \in DOMAIN M : M[a].counter <= msg.n
    BY <2>1, <1>1
  <2>3. \A x \in DOMAIN f.inst : \A e \in Events :
          f.inst[x].trace[e] # NoMessage => f.inst[x].trace[e].n <= msg.n
    BY <1>2 DEF FiringWaits
  <2> QED BY <2>2, <2>3 DEF Older
<1>6. CountersTell(f.inst, M, msg)
  <2> SUFFICES ASSUME NEW a \in DOMAIN M, M[a].counter = msg.n, M[a].fsm # Bootstrap
               PROVE  Through(f.inst[M[a].fsm], M[a].index, msg)
    BY DEF CountersTell
  <2>1. CASE a \in DOMAIN f.node
    BY <2>1, <1>2 DEF FiringWaits
  <2>2. CASE a \notin DOMAIN f.node
    <3>1. M[a].fsm = f.h /\ Goer(f)
      BY <2>2 DEF FiringTimes, Ends
    <3> QED BY <3>1 DEF Goer, JustNow, Through
  <2> QED BY <2>1, <2>2
<1> QED BY <1>3, <1>4, <1>5, <1>6 DEF Waiting

(* The walk goes on with the next node: what is not reached yet stands behind it. *)
LEMMA WalkGoesOn ==
  ASSUME Sound, next # NoNode, Walked(node, expecting, msg, ev, next),
         NEW n, n = Following(expecting[ev], next), NEW M, NEW Y,
         \A e \in Events : \A a \in ToSet(Y[e]) :
           \/ M[a].counter = msg.n
           \/ /\ a \in ToSet(expecting[e]) /\ a # next /\ node[a].counter # msg.n
              /\ n \in ToSet(expecting[e]) /\ Precedes(Y[e], a, n) => Precedes(expecting[e], a, n)
  PROVE  Walked(M, Y, msg, ev, n)
<1>1. /\ NodesFit(inst, node, expecting) /\ ev \in Events /\ next \in ToSet(expecting[ev])
      /\ expecting[ev] \in Seq(Nat) /\ IsInjective(expecting[ev]) /\ 0 \notin ToSet(expecting[ev])
  BY DEF Sound, NodesFit
<1>2. ASSUME NEW e \in Events, e < ev, e = TIMEOUT \/ e \in Carries[msg.kind], NEW a \in ToSet(Y[e])
      PROVE  M[a].counter = msg.n
  <2>1. \A b \in ToSet(expecting[e]) : node[b].counter = msg.n
    BY <1>2 DEF Walked
  <2> QED BY <2>1
<1>3. ASSUME NEW a \in ToSet(Y[ev]), M[a].counter # msg.n
      PROVE  n # NoNode /\ ~Precedes(Y[ev], a, n)
  <2>1. /\ a \in ToSet(expecting[ev]) /\ a # next /\ node[a].counter # msg.n
        /\ n \in ToSet(expecting[ev]) /\ Precedes(Y[ev], a, n) => Precedes(expecting[ev], a, n)
    BY <1>1, <1>3
  <2>2. ~Precedes(expecting[ev], a, next)
    BY <2>1 DEF Walked
  <2>3. PICK list : list = expecting[ev]
    OBVIOUS
  <2>4. ~(n = NoNode) /\ ~Precedes(expecting[ev], a, n)
    <3>1. list \in Seq(Nat) /\ IsInjective(list) /\ next \in ToSet(list) /\ a \in ToSet(list) /\ 0 \notin ToSet(list)
          /\ n = Following(list, next) /\ ~Precedes(list, a, next) /\ a # next
      BY <1>1, <2>1, <2>2, <2>3
    <3>2. ~(\/ Following(list, next) = NoNode /\ 0 \notin ToSet(list)
            \/ Precedes(list, a, Following(list, next)))
      BY <3>1, FollowingOrder
    <3> QED BY <3>1, <3>2, <2>3
  <2>5. n \in ToSet(expecting[ev])
    BY <2>4, <1>1, GoesOn
  <2> QED BY <2>1, <2>4, <2>5
<1> QED BY <1>2, <1>3 DEF Walked

(* New nodes stand in front, and leave the old ones in their order. *)
LEMMA ExpectOrder ==
  ASSUME NEW N, NEW X, NEW h, NEW s \in Rule.states, NEW timeouts, NEW counter, NEW e \in Events,
         X[e] \in Seq(Nat), IsInjective(Expect(N, X, h, s, timeouts, counter).expecting[e]),
         NEW a \in ToSet(X[e]), NEW b \in ToSet(X[e]),
         Precedes(Expect(N, X, h, s, timeouts, counter).expecting[e], a, b)
  PROVE  Precedes(X[e], a, b)
<1> DEFINE size    == Len(Outgoing(s))
           wanted  == {i \in 1 .. size : timeouts \/ Outgoing(s)[i].event # TIMEOUT}
           free    == (1 .. Cardinality(DOMAIN N) + size) \ DOMAIN N
           new     == CHOOSE f \in [wanted -> free] : IsInjective(f)
           last    == [k \in 1 .. size |-> size + 1 - k]
           For(d)  == Only(last, {i \in wanted : Outgoing(s)[i].event = d})
           front   == [k \in DOMAIN For(e) |-> new[For(e)[k]]]
           S       == Nat \cup {new[i] : i \in Int}
<1>1. Expect(N, X, h, s, timeouts, counter).expecting[e] = front \o X[e]
  <2>1. Expect(N, X, h, s, timeouts, counter).expecting
          = [d \in Events |-> [k \in DOMAIN For(d) |-> new[For(d)[k]]] \o X[d]]
    BY DEF Expect
  <2> HIDE DEF new, For
  <2> QED BY <2>1
<1>2. size \in Nat
  BY RuleTypes
<1>3. last \in Seq(Int)
  BY <1>2
<1> HIDE DEF new, wanted
<1>4. For(e) \in Seq(Int)
  <2> HIDE DEF last
  <2> QED BY <1>3, OnlyKeeps
<1> HIDE DEF For
<1>5. PICK g : g = For(e) /\ g \in Seq(Int)
  BY <1>4
<1>6. front = [k \in 1 .. Len(g) |-> new[g[k]]] /\ Len(g) \in Nat /\ \A k \in 1 .. Len(g) : g[k] \in Int
  BY <1>5
<1>7. front \in Seq(S)
  BY <1>6
<1>8. X[e] \in Seq(S)
  OBVIOUS
<1> HIDE DEF front, S
<1>9. PICK f, y : f = front /\ y = X[e]
  OBVIOUS
<1>10. Precedes(f \o y, a, b) /\ IsInjective(f \o y) /\ f \in Seq(S) /\ y \in Seq(S) /\ a \in ToSet(y) /\ b \in ToSet(y)
  BY <1>1, <1>7, <1>8, <1>9
<1>11. Precedes(y, a, b)
  BY <1>10, ConcatOrder
<1> QED BY <1>9, <1>11

(* There is a new node for all that is wanted. *)
LEMMA ExpectMakes ==
  ASSUME NEW I, NEW N, NEW X, NodesFit(I, N, X),
         NEW h \in Nat \ {0}, h \in DOMAIN I, I[h].state \in Rule.states,
         NEW timeouts, NEW counter \in Nat,
         \A a \in DOMAIN N : N[a].fsm = h => N[a].index \notin Wanted(I[h].state, timeouts)
  PROVE  \A i \in Wanted(I[h].state, timeouts) :
           \E a \in DOMAIN Expect(N, X, h, I[h].state, timeouts, counter).node :
             Expect(N, X, h, I[h].state, timeouts, counter).node[a].fsm = h
             /\ Expect(N, X, h, I[h].state, timeouts, counter).node[a].index = i
<1> DEFINE r == Expect(N, X, h, I[h].state, timeouts, counter)
<1>1. N \in [DOMAIN N -> Nodes] /\ DOMAIN N \in SUBSET (Nat \ {0}) /\ IsFiniteSet(DOMAIN N) /\ X \in [Events -> Seq(Nat)]
  BY DEF NodesFit
<1>2. PICK new \in [Wanted(I[h].state, timeouts) -> (Nat \ {0}) \ DOMAIN N] :
        Filed(r, N, X, h, I[h].state, timeouts, counter, new)
  BY <1>1, ExpectFiles
<1> HIDE DEF r
<1>3. \A i \in Wanted(I[h].state, timeouts) : new[i] \in DOMAIN r.node /\ r.node[new[i]] = [fsm |-> h, index |-> i, counter |-> counter]
  BY <1>2 DEF Filed
<1> DEFINE W == Wanted(I[h].state, timeouts)
<1>4. ASSUME NEW i \in W PROVE \E a \in DOMAIN r.node : r.node[a].fsm = h /\ r.node[a].index = i
  <2>1. PICK a : a = new[i]
    OBVIOUS
  <2>2. a \in DOMAIN r.node /\ r.node[a] = [fsm |-> h, index |-> i, counter |-> counter]
    BY <1>3, <2>1
  <2>3. r.node[a].fsm = h /\ r.node[a].index = i
    BY <2>2
  <2> QED BY <2>2, <2>3
<1> QED BY <1>4 DEF r

-----------------------------------------------------------------------------
(* Every kind of step. *)
LEMMA StayWaits ==
  ASSUME StepByStep, InTime, Sound, Reached, Waiting(inst, node, msg), Walked(node, expecting, msg, ev, next),
         NEW f, FiringTimes(f), FiringNodes(f), FiringWaits(f), FiringFits(f), Stay(f)
  PROVE  Waiting(inst', node', msg') /\ Walked(node', expecting', msg', ev', next')
<1>1. /\ inst' = f.inst /\ node' = f.node /\ expecting' = f.expecting
      /\ next' = Following(expecting[ev], next) /\ msg' = msg /\ ev' = ev
      /\ f.val \notin Ends /\ f.val # "changed"
  BY DEF Stay, Ends
<1>2. PICK J, M, Y, n : J = f.inst /\ M = f.node /\ Y = f.expecting /\ n = Following(expecting[ev], next)
  OBVIOUS
<1>3. NodesFit(f.inst, f.node, f.expecting)
  BY <1>1 DEF FiringFits
<1>4. Waiting(J, M, msg)
  <2> DEFINE gone == {}
  <2>1. DOMAIN J = DOMAIN f.inst \ gone /\ \A a : a \in DOMAIN M <=> a \in DOMAIN f.node /\ f.node[a].fsm \notin gone
    BY <1>2
  <2> HIDE DEF gone
  <2> QED BY <2>1, <1>1, <1>2, LeftWaits
<1>5. Walked(M, Y, msg, ev, n)
  <2>1. \A e \in Events : \A a \in ToSet(Y[e]) :
          a \in DOMAIN f.node /\ a \in ToSet(expecting[e])
          /\ M[a].counter = (IF a = next THEN msg.n ELSE node[a].counter)
          /\ (Precedes(Y[e], a, n) => Precedes(expecting[e], a, n))
    BY <1>2, <1>3 DEF FiringNodes, NodesFit
  <2>2. \A e \in Events : \A a \in ToSet(Y[e]) :
           \/ M[a].counter = msg.n
           \/ /\ a \in ToSet(expecting[e]) /\ a # next /\ node[a].counter # msg.n
              /\ n \in ToSet(expecting[e]) /\ Precedes(Y[e], a, n) => Precedes(expecting[e], a, n)
    BY <2>1
  <2> QED BY <2>2, <1>2, WalkGoesOn DEF Reached
<1> QED BY <1>1, <1>2, <1>4, <1>5

LEMMA GoneWaits ==
  ASSUME StepByStep, InTime, Sound, Reached, Waiting(inst, node, msg), Walked(node, expecting, msg, ev, next),
         NEW f, FiringTimes(f), FiringNodes(f), FiringWaits(f), FiringFits(f), f.val \in Ends,
         NEW gone, f.h \in gone, NEW J, J = Without(f.inst, gone),
         NEW u, u = Unlink(f.node, f.expecting, gone), NEW n, n = Following(expecting[ev], next)
  PROVE  Waiting(J, u.node, msg) /\ Walked(u.node, u.expecting, msg, ev, n)
<1>1. f.val # "changed"
  BY DEF Ends
<1> DEFINE kept == {a \in DOMAIN f.node : f.node[a].fsm \notin gone}
           M == [a \in kept |-> f.node[a]]
           Y == [e \in Events |-> Only(f.expecting[e], kept)]
<1>2. u.node = M /\ u.expecting = Y
  BY DEF Unlink
<1>3. /\ \A a : a \in DOMAIN M <=> a \in DOMAIN f.node /\ f.node[a].fsm \notin gone
      /\ \A a \in DOMAIN M : M[a] = f.node[a]
  OBVIOUS
<1>4. DOMAIN J = DOMAIN f.inst \ gone /\ \A x \in DOMAIN J : J[x] = f.inst[x]
  BY DEF Without
<1>5. \A e \in Events : \A a \in ToSet(Y[e]) : a \in kept /\ a \in ToSet(f.expecting[e])
                         /\ (Precedes(Y[e], a, n) => Precedes(f.expecting[e], a, n))
  <2> SUFFICES ASSUME NEW e \in Events, NEW a \in ToSet(Y[e])
               PROVE  a \in kept /\ a \in ToSet(f.expecting[e])
                      /\ (Precedes(Y[e], a, n) => Precedes(f.expecting[e], a, n))
    OBVIOUS
  <2>1. PICK list : list = f.expecting[e] /\ list \in Seq(Nat)
    BY DEF FiringNodes
  <2>2. Y[e] = Only(list, kept)
    BY <2>1
  <2> HIDE DEF kept
  <2>3. a \in ToSet(list) /\ a \in kept
    BY <2>1, <2>2, OnlyKeeps
  <2>4. Precedes(Y[e], a, n) => Precedes(list, a, n)
    BY <2>1, <2>2, OnlyOrder
  <2> QED BY <2>1, <2>3, <2>4
<1> HIDE DEF M, Y
<1>6. Waiting(J, M, msg)
  BY <1>1, <1>3, <1>4, LeftWaits
<1>7. Walked(M, Y, msg, ev, n)
  <2>1. \A e \in Events : \A a \in ToSet(Y[e]) :
          a \in DOMAIN f.node /\ a \in ToSet(expecting[e])
          /\ M[a].counter = (IF a = next THEN msg.n ELSE node[a].counter)
          /\ (Precedes(Y[e], a, n) => Precedes(expecting[e], a, n))
    BY <1>3, <1>5 DEF FiringNodes
  <2>2. \A e \in Events : \A a \in ToSet(Y[e]) :
           \/ M[a].counter = msg.n
           \/ /\ a \in ToSet(expecting[e]) /\ a # next /\ node[a].counter # msg.n
              /\ n \in ToSet(expecting[e]) /\ Precedes(Y[e], a, n) => Precedes(expecting[e], a, n)
    BY <2>1
  <2> QED BY <2>2, WalkGoesOn DEF Reached
<1> QED BY <1>2, <1>6, <1>7

LEMMA AdvanceWaits ==
  ASSUME StepByStep, InTime, Sound, Reached, Waiting(inst, node, msg), Walked(node, expecting, msg, ev, next),
         NEW f, FiringTimes(f), FiringNodes(f), FiringWaits(f), FiringFits(f), Advance(f)
  PROVE  Waiting(inst', node', msg') /\ Walked(node', expecting', msg', ev', next')
<1> DEFINE r == Expect(f.node, f.expecting, f.h, f.inst[f.h].state, f.new, msg.n)
<1>1. /\ inst' = f.inst /\ node' = r.node /\ expecting' = r.expecting
      /\ next' = Following(expecting[ev], next) /\ msg' = msg /\ ev' = ev
      /\ f.val = "changed"
  BY DEF Advance
<1>2. f.val \notin Ends
  BY <1>1 DEF Ends
<1>3. NodesFit(f.inst, f.node, f.expecting) /\ IdsFit(f.inst, f.byId) /\ f.h \in DOMAIN f.inst
  BY <1>2 DEF FiringFits
<1>4. f.h \in Nat \ {0} /\ f.inst[f.h].state \in Rule.states /\ msg.n \in Nat
  BY SMTT(30), <1>3 DEF IdsFit, Fsms, Sound, Messages
<1>5. \A a \in DOMAIN f.node : f.node[a].fsm = f.h => f.node[a].index \notin Wanted(f.inst[f.h].state, f.new)
  BY <1>1 DEF FiringFits
<1>6. /\ NodesFit(f.inst, r.node, r.expecting)
      /\ \A e \in Events : ToSet(f.expecting[e]) \subseteq ToSet(r.expecting[e])
      /\ DOMAIN f.node \subseteq DOMAIN r.node /\ \A a \in DOMAIN f.node : r.node[a] = f.node[a]
      /\ \A a \in DOMAIN r.node \ DOMAIN f.node : r.node[a].fsm = f.h /\ r.node[a].counter = msg.n
      /\ \A i \in Wanted(f.inst[f.h].state, f.new) : \E a \in DOMAIN r.node : r.node[a].fsm = f.h /\ r.node[a].index = i
  <2>1. /\ NodesFit(f.inst, r.node, r.expecting)
        /\ \A e \in Events : ToSet(f.expecting[e]) \subseteq ToSet(r.expecting[e])
    BY <1>3, <1>4, <1>5, ExpectFits
  <2>2. /\ DOMAIN f.node \subseteq DOMAIN r.node /\ \A a \in DOMAIN f.node : r.node[a] = f.node[a]
        /\ \A a \in DOMAIN r.node \ DOMAIN f.node : r.node[a].fsm = f.h /\ r.node[a].counter = msg.n
    BY <1>3, <1>4, <1>5, ExpectFits
  <2>3. \A i \in Wanted(f.inst[f.h].state, f.new) : \E a \in DOMAIN r.node : r.node[a].fsm = f.h /\ r.node[a].index = i
    <3>1. PICK I, N, X, h, w, c, s :
            I = f.inst /\ N = f.node /\ X = f.expecting /\ h = f.h /\ w = f.new /\ c = msg.n /\ s = I[h].state
      OBVIOUS
    <3>2. /\ NodesFit(I, N, X) /\ h \in Nat \ {0} /\ h \in DOMAIN I /\ I[h].state \in Rule.states /\ c \in Nat
          /\ \A a \in DOMAIN N : N[a].fsm = h => N[a].index \notin Wanted(I[h].state, w)
      BY <3>1, <1>3, <1>4, <1>5
    <3>3. \A i \in Wanted(I[h].state, w) : \E a \in DOMAIN Expect(N, X, h, I[h].state, w, c).node :
            Expect(N, X, h, I[h].state, w, c).node[a].fsm = h /\ Expect(N, X, h, I[h].state, w, c).node[a].index = i
      BY <3>2, ExpectMakes
    <3> QED BY <3>1, <3>3
  <2> QED BY <2>1, <2>2, <2>3
<1>7. PICK n : n = Following(expecting[ev], next)
  OBVIOUS
<1>8. n # NoNode => n \in ToSet(expecting[ev]) \ {next}
  BY <1>7, GoesOn DEF Reached
<1>9. n # NoNode => n \in ToSet(f.expecting[ev])
  BY <1>8 DEF FiringFits
<1>10. ASSUME NEW e \in Events, NEW a \in ToSet(r.expecting[e]), a \in ToSet(f.expecting[e]), n \in ToSet(f.expecting[e]),
              Precedes(r.expecting[e], a, n)
       PROVE  Precedes(f.expecting[e], a, n)
  <2>1. f.expecting[e] \in Seq(Nat) /\ IsInjective(r.expecting[e])
    BY <1>6 DEF FiringNodes, NodesFit
  <2> QED BY <2>1, <1>4, <1>10, ExpectOrder
<1> HIDE DEF r
<1>11. PICK M, Y : M = r.node /\ Y = r.expecting
  OBVIOUS
<1>12. Waiting(f.inst, M, msg)
  BY <1>1, <1>6, <1>11, GrownWaits
<1>13. \A e \in Events : \A a : a \in ToSet(Y[e]) => a \in DOMAIN M /\ EventOf(f.inst, M, a) = e
  BY <1>6, <1>11 DEF NodesFit
<1>14. \A e \in Events : \A a : a \in ToSet(f.expecting[e]) <=> a \in DOMAIN f.node /\ EventOf(f.inst, f.node, a) = e
  BY <1>3 DEF NodesFit
<1>15. \A a \in DOMAIN f.node : EventOf(f.inst, M, a) = EventOf(f.inst, f.node, a) /\ M[a] = f.node[a]
  BY <1>6, <1>11 DEF EventOf
<1>16. Walked(M, Y, msg, ev, n)
  <2>1. ASSUME NEW e \in Events, NEW a \in ToSet(Y[e]), M[a].counter # msg.n
        PROVE  /\ a \in ToSet(expecting[e]) /\ a # next /\ node[a].counter # msg.n
               /\ n \in ToSet(expecting[e]) /\ Precedes(Y[e], a, n) => Precedes(expecting[e], a, n)
    <3>1. a \in DOMAIN f.node
      BY <1>6, <1>11, <1>13, <2>1
    <3>2. a \in ToSet(f.expecting[e]) /\ f.node[a].counter # msg.n
      BY <3>1, <1>13, <1>14, <1>15, <2>1
    <3>3. a \in ToSet(expecting[e]) /\ a # next /\ node[a].counter # msg.n
      BY <3>1, <3>2 DEF FiringNodes
    <3>4. ASSUME n \in ToSet(expecting[e]), Precedes(Y[e], a, n) PROVE Precedes(expecting[e], a, n)
      <4>1. NodesFit(inst, node, expecting) /\ ev \in Events
        BY DEF Sound
      <4>2. n # NoNode
        BY <3>4, <4>1 DEF NodesFit, NoNode
      <4>3. e = ev
        BY <4>1, <4>2, <3>4, <1>8 DEF NodesFit
      <4>4. Precedes(f.expecting[e], a, n)
        BY <4>2, <4>3, <3>2, <3>4, <1>9, <1>10, <1>11
      <4> QED BY <4>4 DEF FiringNodes
    <3> QED BY <3>3, <3>4
  <2> QED BY <2>1, <1>7, WalkGoesOn DEF Reached
<1> QED BY <1>1, <1>7, <1>11, <1>12, <1>16

LEMMA InitPatient == ASSUME StepByStep, Init PROVE Patient
<1> DEFINE N  == <<>>
           X  == [e \in Events |-> <<>>]
           e0 == Expect(N, X, Bootstrap, Rule.init, FALSE, 0)
           J  == [h \in {Bootstrap} |-> NewFsm]
<1>1. NodesFit(J, N, X) /\ Bootstrap \in Nat \ {0} /\ Rule.init \in Rule.states
  <2>1. DOMAIN N = {} /\ N = [a \in {} |-> N[a]] /\ IsFiniteSet({})
    BY FS_EmptySet
  <2>2. X \in [Events -> Seq(Nat)] /\ \A e \in Events : X[e] = <<>>
    OBVIOUS
  <2>3. IsInjective(<<>>) /\ ToSet(<<>>) = {}
    BY DEF IsInjective, ToSet
  <2>4. N \in [DOMAIN N -> Nodes] /\ DOMAIN N \in SUBSET (Nat \ {0}) /\ IsFiniteSet(DOMAIN N)
    BY <2>1
  <2>5. \A e \in Events : IsInjective(X[e]) /\ \A a : a \in ToSet(X[e]) <=> a \in DOMAIN N /\ EventOf(J, N, a) = e
    BY <2>1, <2>2, <2>3
  <2>6. Bootstrap \in Nat \ {0} /\ Rule.init \in Rule.states
    BY RuleTypes DEF Bootstrap
  <2> HIDE DEF N, X, J
  <2> QED BY <2>1, <2>2, <2>4, <2>5, <2>6 DEF NodesFit
<1>2. DOMAIN J = {Bootstrap} /\ J[Bootstrap].state = Rule.init /\ \A e \in Events : J[Bootstrap].trace[e] = NoMessage
  BY DEF NewFsm
<1>3. DOMAIN N = {}
  OBVIOUS
<1>4. inst = J /\ node = e0.node /\ pc = "idle" /\ msg.n = 0
  BY DEF Init
<1> HIDE DEF N, X, J
<1>5. PICK w, c, r : w = FALSE /\ c = 0 /\ r = Expect(N, X, Bootstrap, J[Bootstrap].state, w, c)
  OBVIOUS
<1>6. e0 = r /\ \A i \in DOMAIN Outgoing(Rule.init) : i \in Wanted(J[Bootstrap].state, w)
  BY <1>2, <1>5 DEF StepByStep, Wanted
<1> HIDE DEF e0
<1>21. /\ NodesFit(J, N, X) /\ Bootstrap \in Nat \ {0} /\ Bootstrap \in DOMAIN J /\ J[Bootstrap].state \in Rule.states
       /\ c \in Nat /\ \A a \in DOMAIN N : N[a].fsm = Bootstrap => N[a].index \notin Wanted(J[Bootstrap].state, w)
  BY <1>1, <1>2, <1>3, <1>5
<1>22. \A a \in DOMAIN e0.node : e0.node[a].fsm = Bootstrap /\ e0.node[a].counter = 0
  <2>1. \A a \in DOMAIN r.node \ DOMAIN N : r.node[a].fsm = Bootstrap /\ r.node[a].counter = c
    BY <1>5, <1>21, ExpectFits
  <2> QED BY <2>1, <1>3, <1>5, <1>6
<1>23. \A i \in DOMAIN Outgoing(Rule.init) : \E a \in DOMAIN e0.node : e0.node[a].fsm = Bootstrap /\ e0.node[a].index = i
  <2>1. \A i \in Wanted(J[Bootstrap].state, w) : \E a \in DOMAIN r.node : r.node[a].fsm = Bootstrap /\ r.node[a].index = i
    BY <1>5, <1>21, ExpectMakes
  <2> QED BY <2>1, <1>6
<1>7. AllFiled(inst, node) /\ AllOpen(inst) /\ Older(inst, node, msg) /\ CountersTell(inst, node, msg)
  BY <1>2, <1>4, <1>22, <1>23 DEF AllFiled, AllOpen, Older, CountersTell
<1> QED BY <1>4, <1>7 DEF Patient, Waiting, NothingMissed

(* A message that has walked all the lists left nothing undone. *)
LEMMA WalkEnds ==
  ASSUME Sound, Waiting(inst, node, msg), Walked(node, expecting, msg, ev, NoNode),
         \A e \in Rule.events : ~(e > ev /\ Concerns(e))
  PROVE  \A h \in Live : ~Overdue(h) /\ ~Missed(h)
<1> SUFFICES ASSUME NEW h \in DOMAIN inst \ {Bootstrap} PROVE ~Overdue(h) /\ ~Missed(h)
  BY DEF Live
<1> DEFINE s == inst[h].state
<1>1. inst[h] \in Fsms /\ s \in Rule.states /\ msg.ts \in Nat /\ ev \in Nat /\ TIMEOUT \in Events /\ Events \subseteq Nat
  <2>1. inst[h] \in Fsms /\ msg.ts \in Nat /\ ev \in Events
    BY DEF Sound, IdsFit, Messages
  <2> QED BY <2>1, RuleTypes DEF Fsms, Events
<1>2. ASSUME NEW e \in Events, e = TIMEOUT \/ Concerns(e), NEW a \in ToSet(expecting[e]) PROVE node[a].counter = msg.n
  <2>1. CASE e = ev
    BY <2>1 DEF Walked
  <2>2. CASE e < ev
    BY <2>2, <1>2 DEF Walked, Concerns
  <2>3. CASE e > ev
    <3>1. e # TIMEOUT
      BY <2>3, <1>1 DEF TIMEOUT
    <3> QED BY <3>1, <2>3, <1>2 DEF Events
  <2> QED BY <2>1, <2>2, <2>3, <1>1
<1>3. ASSUME NEW i \in DOMAIN Outgoing(s), Outgoing(s)[i].event = TIMEOUT \/ Concerns(Outgoing(s)[i].event)
      PROVE  Through(inst[h], i, msg)
  <2>1. PICK a \in DOMAIN node : node[a].fsm = h /\ node[a].index = i
    BY DEF Waiting, AllFiled
  <2>2. EventOf(inst, node, a) = Outgoing(s)[i].event /\ Outgoing(s)[i].event \in Events
    BY <2>1, <1>1, RuleTypes DEF EventOf
  <2>3. a \in ToSet(expecting[Outgoing(s)[i].event])
    BY <2>2 DEF Sound, NodesFit
  <2>4. node[a].counter = msg.n
    BY <2>2, <2>3, <1>2, <1>3
  <2> QED BY <2>1, <2>4 DEF Waiting, CountersTell
<1>4. ~Overdue(h)
  <2> SUFFICES ASSUME TimedOut(inst[h], msg) PROVE FALSE
    BY DEF Overdue
  <2>1. msg.ts > inst[h].max /\ Outgoing(s)[1].event = TIMEOUT /\ inst[h].max \in Int
    BY <1>1 DEF TimedOut, Fsms
  <2>2. 1 \in DOMAIN Outgoing(s)
    <3>1. Outgoing(s) # <<>>
      BY DEF Waiting, AllOpen, Open, Final
    <3> QED BY <3>1, <1>1, RuleTypes
  <2>3. Through(inst[h], 1, msg)
    BY <2>1, <2>2, <1>3
  <2> QED BY <2>1, <2>3, <1>1 DEF Through
<1>5. ~Missed(h)
  <2> SUFFICES ASSUME NEW i \in DOMAIN Outgoing(s), Outgoing(s)[i].event # TIMEOUT, Concerns(Outgoing(s)[i].event),
                      Outgoing(s)[i].action # "create", ~Met(inst[h], msg),
                      inst[h].min <= msg.ts, msg.ts <= inst[h].max,
                      Guard(Outgoing(s)[i].event, msg, inst[h].trace)
               PROVE  FALSE
    BY DEF Missed, State, Met
  <2>1. Through(inst[h], i, msg)
    BY <1>3
  <2> QED BY <2>1 DEF Through
<1> QED BY <1>4, <1>5

LEMMA ProcessWaits ==
  ASSUME StepByStep, InTime, Sound, Reached, Waiting(inst, node, msg), Walked(node, expecting, msg, ev, next),
         NEW f, f = Fired(Tried), Stay(f) \/ Advance(f) \/ Drop(f) \/ Conclude(f)
  PROVE  /\ Waiting(inst', node', msg')
         /\ pc' = "walk" => Walked(node', expecting', msg', ev', next')
         /\ pc' # "idle" \/ verdict' # "unknown"
<1>1. ~f.left
  BY DEF Stay, Advance, Drop, Conclude
<1>2. FiringFits(f)
  BY <1>1, FiringSound
<1>3. FiringTimes(f)
  BY <1>1, FiringTimed DEF Waiting
<1>4. FiringNodes(f)
  BY <1>3, FiringNoded
<1>5. FiringWaits(f)
  BY <1>3, <1>4, FiringWaited
<1>6. pc = "walk"
  BY DEF Reached
<1>7. CASE Stay(f)
  <2>1. pc' = pc
    BY <1>7 DEF Stay
  <2> QED BY <2>1, <1>2, <1>3, <1>4, <1>5, <1>6, <1>7, StayWaits
<1>8. CASE Advance(f)
  <2>1. pc' = pc
    BY <1>8 DEF Advance
  <2> QED BY <2>1, <1>2, <1>3, <1>4, <1>5, <1>6, <1>8, AdvanceWaits
<1>9. ASSUME NEW gone, f.h \in gone, f.val \in Ends,
             inst' = Without(f.inst, gone),
             node' = Unlink(f.node, f.expecting, gone).node,
             expecting' = Unlink(f.node, f.expecting, gone).expecting, msg' = msg, ev' = ev
      PROVE  /\ Waiting(inst', node', msg')
             /\ next' = Following(expecting[ev], next) => Walked(node', expecting', msg', ev', next')
  <2>1. PICK J, u, n : /\ J = Without(f.inst, gone) /\ u = Unlink(f.node, f.expecting, gone)
                       /\ n = Following(expecting[ev], next)
    OBVIOUS
  <2>2. Waiting(J, u.node, msg) /\ Walked(u.node, u.expecting, msg, ev, n)
    BY <2>1, <1>2, <1>3, <1>4, <1>5, <1>9, GoneWaits
  <2> QED BY <2>1, <2>2, <1>9
<1>10. CASE Drop(f)
  <2>1. /\ inst' = Without(f.inst, {f.h})
        /\ node' = Unlink(f.node, f.expecting, {f.h}).node
        /\ expecting' = Unlink(f.node, f.expecting, {f.h}).expecting
        /\ next' = Following(expecting[ev], next) /\ msg' = msg /\ ev' = ev /\ pc' = pc
        /\ f.val \in Ends
    BY <1>10 DEF Drop, Ends
  <2> QED BY <2>1, <1>6, <1>9
<1>11. CASE Conclude(f)
  <2> DEFINE family == {x \in DOMAIN f.inst : f.inst[x].id = f.id}
  <2>1. f.val \in Ends
    BY <1>2, <1>11, ConcludeSound
  <2>2. ToSet(f.byId[f.id]) = family /\ f.h \in family
    <3>1. IdsFit(f.inst, f.byId) /\ f.h \in DOMAIN f.inst /\ f.inst[f.h].id = f.id
      BY <1>2 DEF FiringFits
    <3>2. f.id \in Ids
      BY <3>1 DEF IdsFit, Fsms
    <3>3. \A x : x \in ToSet(f.byId[f.id]) <=> x \in family
      BY <3>1, <3>2 DEF IdsFit
    <3>4. f.h \in family
      BY <3>1
    <3> HIDE DEF family
    <3> QED BY <3>3, <3>4
  <2>3. /\ inst' = Without(f.inst, family)
        /\ node' = Unlink(f.node, f.expecting, family).node
        /\ expecting' = Unlink(f.node, f.expecting, family).expecting
        /\ msg' = msg /\ ev' = ev /\ pc' = "idle" /\ verdict' # "unknown"
    BY <1>11, <2>2 DEF Conclude
  <2> HIDE DEF family
  <2> QED BY <2>1, <2>2, <2>3, <1>9
<1> QED BY <1>7, <1>8, <1>10, <1>11

LEMMA StepPatient == ASSUME StepByStep, InTime, Sound, Patient, [Next]_vars PROVE Patient'
<1>0. /\ Waiting(inst, node, msg) /\ (pc = "walk" => Walked(node, expecting, msg, ev, next)) /\ NothingMissed
      /\ msg \in Messages /\ msg.n \in Nat /\ NodesFit(inst, node, expecting) /\ ev \in Events
      /\ Events \subseteq Nat /\ TIMEOUT \in Events
  BY RuleTypes DEF Patient, Sound, Messages, Events
<1>1. \A e \in Events : expecting[e] \in Seq(Nat) /\ IsInjective(expecting[e]) /\ 0 \notin ToSet(expecting[e])
  BY <1>0 DEF NodesFit
<1>2. ASSUME Waiting(inst', node', msg'), pc' = "walk" => Walked(node', expecting', msg', ev', next'),
             pc' # "idle" \/ verdict' # "unknown"
      PROVE  Patient'
  BY <1>2 DEF Patient, NothingMissed
<1>3. ASSUME NEW k \in Kinds, NEW d \in Delays, Receive(k, d) PROVE Patient'
  <2>1. PICK m, n : m = [n |-> msg.n + 1, ts |-> msg.ts + d, kind |-> k] /\ n = FirstOf(expecting[TIMEOUT])
    OBVIOUS
  <2>2. /\ msg' = m /\ pc' = "walk" /\ ev' = TIMEOUT /\ next' = n
        /\ inst' = inst /\ node' = node /\ expecting' = expecting /\ m.n = msg.n + 1
    BY <1>3, <2>1 DEF Receive, store
  <2>3. Waiting(inst, node, m)
    <3>1. AllFiled(inst, node) /\ AllOpen(inst) /\ Older(inst, node, msg)
      BY <1>0 DEF Waiting
    <3>2. \A a \in DOMAIN node : node[a].counter <= msg.n /\ node[a].counter \in Nat
      BY <3>1, <1>0 DEF Older, NodesFit, Nodes
    <3>3. \A h \in DOMAIN inst : \A e \in Events :
            inst[h].trace[e] # NoMessage => inst[h].trace[e].n <= msg.n /\ inst[h].trace[e].n \in Nat
      BY <3>1 DEF Older, Sound, IdsFit, Fsms, Messages
    <3>4. Older(inst, node, m)
      BY <3>2, <3>3, <2>2, <1>0 DEF Older
    <3>5. CountersTell(inst, node, m)
      BY <3>2, <2>2, <1>0 DEF CountersTell
    <3> QED BY <3>1, <3>4, <3>5 DEF Waiting
  <2>4. Walked(node, expecting, m, TIMEOUT, n)
    <3>1. \A e \in Events : ~(e < TIMEOUT)
      BY <1>0 DEF TIMEOUT
    <3>2. \A a \in ToSet(expecting[TIMEOUT]) : n # NoNode /\ ~Precedes(expecting[TIMEOUT], a, n)
      BY <1>0, <1>1, <2>1, FirstOrder
    <3> QED BY <3>1, <3>2 DEF Walked
  <2> QED BY <2>2, <2>3, <2>4, <1>2
<1>4. ASSUME NextList PROVE Patient'
  <2> DEFINE rest == {e \in Rule.events : e > ev /\ Concerns(e)}
  <2>1. UNCHANGED <<inst, node, expecting, msg, verdict>> /\ next = NoNode /\ pc = "walk"
    BY <1>4 DEF NextList, store
  <2>2. Walked(node, expecting, msg, ev, NoNode)
    BY <2>1, <1>0
  <2>3. CASE rest = {}
    <3>1. pc' = "idle" /\ UNCHANGED <<ev, next>>
      BY <1>4, <2>3 DEF NextList
    <3>2. \A h \in Live : ~Overdue(h) /\ ~Missed(h)
      BY <2>2, <2>3, <1>0, WalkEnds
    <3>3. \A h \in Live' : ~Overdue(h)' /\ ~Missed(h)'
      BY <3>2, <2>1 DEF Live, Overdue, Missed, State, Concerns
    <3>4. NothingMissed'
      BY <3>3 DEF NothingMissed
    <3>5. Waiting(inst', node', msg')
      BY <2>1, <1>0
    <3> QED BY <3>1, <3>4, <3>5 DEF Patient
  <2>4. CASE rest # {}
    <3>1. /\ ev' = CHOOSE e \in rest : \A k \in rest : e <= k
          /\ next' = FirstOf(expecting[ev']) /\ pc' = pc
      BY <1>4, <2>4 DEF NextList
    <3>2. rest \in SUBSET Nat /\ rest \subseteq Events
      BY RuleTypes DEF Events
    <3>3. \A e \in Rule.events : e > ev /\ e \in Carries[msg.kind] => e \in rest
      BY DEF Concerns
    <3>21. \A e \in rest : e > ev
      OBVIOUS
    <3> HIDE DEF rest
    <3>4. \E e \in rest : \A k \in rest : e <= k
      BY <3>2, <2>4, Least
    <3>5. PICK d \in rest : ev' = d /\ \A k \in rest : d <= k
      BY <3>1, <3>4
    <3>6. PICK n : n = FirstOf(expecting[d]) /\ next' = n
      BY <3>1, <3>5
    <3>7. Walked(node, expecting, msg, d, n)
      <4>1. ASSUME NEW e \in Events, e < d, e = TIMEOUT \/ e \in Carries[msg.kind], NEW a \in ToSet(expecting[e])
            PROVE  node[a].counter = msg.n
        <5>1. CASE e < ev
          BY <5>1, <4>1, <2>2 DEF Walked
        <5>2. CASE e = ev
          BY <5>2, <4>1, <2>2 DEF Walked
        <5>3. CASE e > ev
          <6>1. e \in Rule.events /\ e \in Carries[msg.kind]
            BY <5>3, <4>1, <1>0 DEF Events, TIMEOUT
          <6>2. d <= e
            BY <6>1, <5>3, <3>3, <3>5
          <6> QED BY <6>2, <4>1, <3>2, <1>0
        <5> QED BY <5>1, <5>2, <5>3, <1>0
      <4>2. \A a \in ToSet(expecting[d]) : n # NoNode /\ ~Precedes(expecting[d], a, n)
        BY <3>2, <3>6, <1>1, FirstOrder
      <4> QED BY <4>1, <4>2 DEF Walked
    <3>8. Waiting(inst', node', msg') /\ Walked(node', expecting', msg', ev', next')
      BY <3>5, <3>6, <3>7, <2>1, <1>0
    <3> QED BY <3>1, <3>8, <2>1, <1>2
  <2> QED BY <2>3, <2>4
<1>5. ASSUME Skip PROVE Patient'
  <2>1. PICK n : n = Following(expecting[ev], next)
    OBVIOUS
  <2>2. /\ pc = "walk" /\ next # NoNode /\ next' = n /\ node[next].counter = msg.n
        /\ UNCHANGED <<inst, node, expecting, pc, msg, ev, verdict>>
    BY <1>5, <2>1 DEF Skip, store
  <2>3. Walked(node, expecting, msg, ev, n)
    <3>1. \A e \in Events : \A a \in ToSet(expecting[e]) : node[a].counter = msg.n \/ (a # next /\ node[a].counter # msg.n)
      BY <2>2
    <3> QED BY <3>1, <2>1, <2>2, <1>0, WalkGoesOn
  <2>4. Waiting(inst', node', msg') /\ Walked(node', expecting', msg', ev', next')
    BY <2>2, <2>3, <1>0
  <2> QED BY <2>2, <2>4, <1>2
<1>6. CASE ProcessNode
  <2>1. PICK f : /\ f = Fired(Tried)
                 /\ Stay(f) \/ Advance(f) \/ Drop(f) \/ Conclude(f) \/ Halt(f)
    BY <1>6 DEF ProcessNode
  <2>2. Reached /\ pc = "walk"
    BY <1>6 DEF ProcessNode, Reached
  <2>3. CASE Halt(f)
    <3>1. pc' = "halted" /\ inst' = inst /\ node' = node /\ msg' = msg
      BY <2>3 DEF Halt, store
    <3>2. Waiting(inst', node', msg')
      BY <3>1, <1>0
    <3> QED BY <3>1, <3>2, <1>2
  <2>4. CASE Stay(f) \/ Advance(f) \/ Drop(f) \/ Conclude(f)
    BY <2>1, <2>2, <2>4, <1>0, <1>2, ProcessWaits
  <2> QED BY <2>1, <2>3, <2>4
<1>7. CASE UNCHANGED vars
  <2>1. UNCHANGED <<inst, node, expecting, msg, verdict, pc, ev, next>>
    BY <1>7 DEF vars, store
  <2>2. Waiting(inst', node', msg') /\ (pc' = "walk" => Walked(node', expecting', msg', ev', next'))
    BY <2>1, <1>0
  <2>3. NothingMissed'
    BY <2>1, <1>0 DEF NothingMissed, Live, Overdue, Missed, State, Concerns
  <2> QED BY <2>2, <2>3 DEF Patient
<1> QED BY <1>3, <1>4, <1>5, <1>6, <1>7 DEF Next

(* No instance is forgotten: between messages each is filed under all it can do next,
   and a message that _process_event_type has taken through the lists without a verdict
   left none that had timed out or could have moved on, although nodes are made,
   unlinked and passed over by their counters all the while. *)
THEOREM NothingIsForgotten == ASSUME StepByStep, InTime PROVE Spec => []NothingForgotten
<1>1. Init => Sound /\ Patient
  BY InitSound, InitPatient
<1>2. Sound /\ Patient /\ [Next]_vars => Sound' /\ Patient'
  BY StepSound, StepPatient
<1>3. Sound /\ Patient => NothingForgotten
  BY DEF Patient, Waiting, AllFiled, NothingForgotten, AllWait, Waits, State
<1> QED BY <1>1, <1>2, <1>3, PTL DEF Spec

-----------------------------------------------------------------------------
(* What the verdicts of a rule "a THEN b" mean, for any events a and b and any
   delay that leaves time. *)

Between == Outgoing(Rule.init)[1].target

(* An instance that has met the a of message k and waits for the b. *)
Begun(f, k) ==
  /\ f.state = Between /\ f.trace = OnlyA(k)
  /\ f.min = Window.min + k.ts /\ f.max = Window.max + k.ts
  /\ k \in Messages /\ Guard(1, k, NewFsm.trace)

(* Every instance but the first waits for a b; none of the messages shown was its b. *)
AllBegun(I, m) == \A h \in DOMAIN I \ {Bootstrap} : \E k \in Messages : Begun(I[h], k) /\ k.n <= m.n
Unanswered(I, S) == \A h \in DOMAIN I \ {Bootstrap} : \A m \in S : ~Answers(m, I[h].trace[1])

(* The nodes of an instance were reached, or made, with the message it began with. *)
CountedFrom(I, N) ==
  \A a \in DOMAIN N : N[a].fsm # Bootstrap => I[N[a].fsm].trace[1].n <= N[a].counter

Truth ==
  /\ AllBegun(inst, msg) /\ CountedFrom(inst, node) /\ Unanswered(inst, shown)
  /\ \A m \in shown : m \in Messages /\ m.n <= msg.n
  /\ pc # "idle" => verdict = "unknown"
  /\ pc = "walk" => ev = TIMEOUT \/ Concerns(ev)
  /\ VerdictTimes /\ FailureTrue

(* The machine, read off transition by transition. *)
LEMMA ThenShape ==
  ASSUME IsThen
  PROVE  /\ DOMAIN Outgoing(Rule.init) = {1} /\ DOMAIN Outgoing(Between) = {1, 2}
         /\ LET a == Outgoing(Rule.init)[1]
                o == Outgoing(Between)[1]
                b == Outgoing(Between)[2]
            IN  /\ a.event = 1 /\ a.action = "create" /\ a.target = Between /\ Clones(a)
                /\ o.event = TIMEOUT /\ o.target = Rule.error
                /\ b.event = 2 /\ b.action = "reset" /\ b.target = Rule.success
         /\ ~Final(Rule.init) /\ ~Final(Between) /\ Final(Rule.error) /\ Final(Rule.success) /\ Final(Rule.incl)
         /\ Rule.init # Between /\ 1 # TIMEOUT /\ 2 # TIMEOUT /\ Events = {0, 1, 2}
         /\ \A s \in Rule.states : ~Temporary(s)
<1> DEFINE w == Between
           a == [event |-> 1, action |-> "create", target |-> w]
           o == [event |-> TIMEOUT, action |-> "nothing", target |-> Rule.error]
           b == [event |-> 2, action |-> "reset", target |-> Rule.success]
<1>1. Outgoing(Rule.init) = <<a>> /\ Outgoing(w) = <<o, b>>
  BY DEF IsThen, Between
<1>2. DOMAIN Outgoing(Rule.init) = {1} /\ DOMAIN Outgoing(w) = {1, 2}
  BY <1>1
<1>3. Outgoing(Rule.init)[1] = a /\ Outgoing(w)[1] = o /\ Outgoing(w)[2] = b
  BY <1>1
<1>4. ~Final(Rule.init) /\ ~Final(w) /\ Final(Rule.error) /\ Final(Rule.success) /\ Final(Rule.incl)
  <2>1. <<a>> # <<>> /\ <<o, b>> # <<>>
    OBVIOUS
  <2>2. Final(Rule.error) /\ Final(Rule.success) /\ Final(Rule.incl)
    BY DEF IsThen
  <2> QED BY <2>1, <2>2, <1>1 DEF Final
<1>5. Rule.init # w
  <2>1. 2 \in DOMAIN Outgoing(w) /\ 2 \notin DOMAIN Outgoing(Rule.init)
    BY <1>2
  <2> QED BY <2>1
<1>6. Events = {0, 1, 2} /\ \A s \in Rule.states : ~Temporary(s)
  BY DEF IsThen, Events, TIMEOUT, Temporary
<1>7. a.event = 1 /\ a.action = "create" /\ a.target = w
  OBVIOUS
<1>8. o.event = TIMEOUT /\ o.target = Rule.error
  OBVIOUS
<1>9. b.event = 2 /\ b.action = "reset" /\ b.target = Rule.success
  OBVIOUS
<1> HIDE DEF a, o, b
<1>10. Clones(a)
  BY <1>4, <1>7 DEF Clones
<1> QED BY <1>2, <1>3, <1>4, <1>5, <1>6, <1>7, <1>8, <1>9, <1>10 DEF TIMEOUT

(* The rule is one the theorems about all rules hold of. *)
LEMMA ThenInClass == ASSUME IsThen PROVE StepByStep /\ InTime
<1> DEFINE w == Between
<1>1. /\ DOMAIN Outgoing(Rule.init) = {1} /\ DOMAIN Outgoing(w) = {1, 2}
      /\ ~Final(Rule.init) /\ ~Final(w) /\ Final(Rule.error) /\ Final(Rule.success) /\ Final(Rule.incl)
      /\ Rule.init # w /\ \A s \in Rule.states : ~Temporary(s)
  BY ThenShape
<1>2. /\ Outgoing(Rule.init)[1].event = 1 /\ Outgoing(Rule.init)[1].target = w /\ Clones(Outgoing(Rule.init)[1])
      /\ Outgoing(w)[1].event = 0 /\ Outgoing(w)[1].target = Rule.error
      /\ Outgoing(w)[2].event = 2 /\ Outgoing(w)[2].target = Rule.success
  BY ThenShape DEF TIMEOUT
<1>3. /\ Rule.states = {Rule.init, w, Rule.error, Rule.success, Rule.incl}
      /\ Rule.temporary = {} /\ Rule.delay[w].max >= 0
  BY DEF IsThen, Between
<1>4. ASSUME NEW s \in Rule.states, NEW i \in DOMAIN Outgoing(s)
      PROVE  (s = Rule.init /\ i = 1) \/ (s = w /\ i \in {1, 2})
  <2>1. s \notin {Rule.error, Rule.success, Rule.incl}
    BY <1>1, <1>4 DEF Final
  <2> QED BY <2>1, <1>1, <1>3, <1>4
<1>5. ASSUME NEW s \in Rule.states, NEW i \in DOMAIN Outgoing(s)
      PROVE  /\ ~MovesOn(Outgoing(s)[i])
             /\ Outgoing(s)[i].event = 0 => Final(Outgoing(s)[i].target)
             /\ \A j \in DOMAIN Outgoing(s) : Outgoing(s)[i].event = Outgoing(s)[j].event => i = j
             /\ ~Final(Outgoing(s)[i].target) => s = Rule.init /\ Outgoing(s)[i].target = w
  <2>1. CASE s = Rule.init
    BY <2>1, <1>1, <1>2, <1>5 DEF MovesOn
  <2>2. CASE s = w /\ i \in {1, 2}
    BY <2>2, <1>1, <1>2, <1>5 DEF MovesOn
  <2> QED BY <2>1, <2>2, <1>4
<1>6. StepByStep
  <2>1. \A i \in DOMAIN Outgoing(Rule.init) :
          Outgoing(Rule.init)[i].event # TIMEOUT /\ Clones(Outgoing(Rule.init)[i])
    BY <1>1, <1>2 DEF TIMEOUT
  <2>2. \A s \in Rule.states : Final(s) => s \in {Rule.error, Rule.success, Rule.incl} /\ ~Temporary(s)
    BY <1>1, <1>3
  <2> QED BY <2>1, <2>2, <1>5 DEF StepByStep, TIMEOUT
<1>7. InTime
  BY <1>3, <1>5 DEF InTime
<1> QED BY <1>6, <1>7

(* What a trial makes of an instance: it is left as it was; it makes one that begins;
   it is too late; or its b has come. *)
Same(r, f) == r.clone = None /\ r.val = "same" /\ SameTimes(r.fsm, f)
BeginsAnother(r, f, m) ==
  f.state = Rule.init /\ r.clone # None /\ r.val = "changed" /\ SameTimes(r.fsm, f) /\ Begun(r.clone, m)
ComesTooLate(r, f, m) ==
  /\ f.state = Between /\ r.clone = None /\ r.val = "error"
  /\ m.ts > f.max /\ r.fsm.trace[1] = f.trace[1]
Completes(r, f, i, m) ==
  /\ f.state = Between /\ i = 2 /\ r.clone = None /\ r.val = "final"
  /\ f.min <= m.ts /\ m.ts <= f.max /\ Guard(2, m, f.trace)
  /\ r.fsm.trace[1] = f.trace[1] /\ r.fsm.trace[2] = m

LEMMA FirstTried ==
  ASSUME IsThen, NEW f \in Fsms, f.state = Rule.init, f.trace = NewFsm.trace, NEW m \in Messages
  PROVE  LET r == HandleEvent(f, 1, m) IN Same(r, f) \/ BeginsAnother(r, f, m)
<1> DEFINE t == Outgoing(Rule.init)[1]
           g == [f EXCEPT !.event = t.event]
           r == HandleEvent(f, 1, m)
<1>1. /\ DOMAIN Outgoing(Rule.init) = {1} /\ t.event = 1 /\ t.action = "create" /\ t.target = Between /\ Clones(t)
      /\ t.event # TIMEOUT /\ ~Final(Between) /\ Events = {0, 1, 2} /\ ~Temporary(Between)
  <2>1. Between \in Rule.states
    BY DEF IsThen, Between
  <2> QED BY <2>1, ThenShape
<1>2. ~TimedOut(f, m)
  BY DEF TimedOut
<1>3. g.trace = f.trace /\ g.state = f.state /\ g.min = f.min /\ g.max = f.max /\ g.event = 1 /\ g \in Fsms
  BY <1>1 DEF Fsms
<1> DEFINE p == Move(g, t, m)
<1>4. r = IF TooEarly(f, m) THEN [fsm |-> f, clone |-> None, val |-> "same"]
          ELSE IF ~Guard(1, m, f.trace) THEN [fsm |-> g, clone |-> None, val |-> "same"]
          ELSE [fsm |-> g, clone |-> p.fsm, val |-> p.val]
  BY <1>1, <1>2 DEF HandleEvent
<1> HIDE DEF p, g, r
<1>5. SameTimes(f, f) /\ SameTimes(g, f)
  BY <1>3 DEF SameTimes, SameWindow
<1>6. CASE TooEarly(f, m) \/ ~Guard(1, m, f.trace)
  <2>1. PICK q \in {f, g} : r = [fsm |-> q, clone |-> None, val |-> "same"]
    BY <1>4, <1>6
  <2>2. r.clone = None /\ r.val = "same" /\ r.fsm = q
    BY <2>1
  <2> QED BY <2>2, <1>5 DEF Same, r
<1>7. CASE ~TooEarly(f, m) /\ Guard(1, m, f.trace)
  <2> DEFINE k == Enter(g, t, m)
             lo == Rule.delay[Between].min + m.ts
             hi == Rule.delay[Between].max + m.ts
             c == [k EXCEPT !.min = lo, !.max = hi]
  <2>1. k \in Fsms /\ k.state = Between /\ k.trace = [f.trace EXCEPT ![1] = m]
    <3>1. Between \in Rule.states
      BY DEF IsThen, Between
    <3>2. k.state = Between /\ k.trace = [f.trace EXCEPT ![1] = m]
      BY <1>1, <1>3 DEF Enter, Fsms
    <3>3. k \in Fsms
      BY <1>1, <1>3, <3>1 DEF Enter, Fsms
    <3> QED BY <3>2, <3>3
  <2>2. p = Settle(k, t, Rule.init, m)
    BY <2>1, <1>1, <1>3 DEF p, Move
  <2> HIDE DEF k
  <2>3. p = [fsm |-> c, val |-> "changed"]
    BY <2>1, <2>2, <1>1 DEF Settle, Restart
  <2>4. c.state = Between /\ c.trace = k.trace /\ c.min = lo /\ c.max = hi /\ c \in Fsms
    <3>1. lo \in Int /\ hi \in Int
      <4>1. Between \in Rule.states
        BY DEF IsThen, Between
      <4>2. Rule.delay[Between].min \in Int /\ Rule.delay[Between].max \in Int
        BY <4>1, RuleAssumption DEF RuleShape
      <4>3. m.ts \in Nat
        BY DEF Messages
      <4> QED BY <4>2, <4>3
    <3> HIDE DEF lo, hi
    <3> QED BY <3>1, <2>1 DEF Fsms
  <2> HIDE DEF c
  <2>5. k.trace = OnlyA(m)
    BY <2>1, <1>1 DEF NewFsm, OnlyA
  <2>6. Begun(c, m)
    <3>1. Guard(1, m, NewFsm.trace)
      BY <1>7
    <3>2. c.min = Window.min + m.ts /\ c.max = Window.max + m.ts
      BY <2>4 DEF Window, Between
    <3> QED BY <2>4, <2>5, <3>1, <3>2 DEF Begun
  <2>7. r = [fsm |-> g, clone |-> c, val |-> "changed"]
    BY <1>4, <1>7, <2>3
  <2>8. r.fsm = g /\ r.clone = c /\ r.val = "changed"
    BY <2>7
  <2>9. c # None
    BY <2>4, NotNone
  <2> QED BY <2>6, <2>8, <2>9, <1>5 DEF BeginsAnother, r
<1> QED BY <1>6, <1>7 DEF r

LEMMA WaitingTried ==
  ASSUME IsThen, NEW f \in Fsms, f.state = Between, NEW i \in {1, 2}, NEW m \in Messages
  PROVE  LET r == HandleEvent(f, i, m) IN Same(r, f) \/ ComesTooLate(r, f, m) \/ Completes(r, f, i, m)
<1> DEFINE t == Outgoing(Between)[i]
           out == Outgoing(Between)[1]
           g == [f EXCEPT !.event = t.event]
           r == HandleEvent(f, i, m)
<1>1. /\ DOMAIN Outgoing(Between) = {1, 2} /\ out.event = TIMEOUT /\ out.target = Rule.error
      /\ i = 1 => t.event = TIMEOUT
      /\ i = 2 => t.event = 2 /\ t.target = Rule.success
      /\ Final(Rule.error) /\ Final(Rule.success) /\ Events = {0, 1, 2} /\ 2 # TIMEOUT
      /\ Rule.init # Between /\ Rule.error # Rule.success /\ Rule.error # Rule.incl /\ Rule.success # Rule.incl
      /\ ~Temporary(Between) /\ ~Temporary(Rule.error) /\ ~Temporary(Rule.success)
      /\ t.event \in Events /\ m.ts \in Nat /\ f.min \in Int /\ f.max \in Int
  <2>1. Rule.error # Rule.success /\ Rule.error # Rule.incl /\ Rule.success # Rule.incl
        /\ {Between, Rule.error, Rule.success} \subseteq Rule.states
    BY DEF IsThen, Between
  <2>2. m.ts \in Nat /\ f.min \in Int /\ f.max \in Int
    BY DEF Messages, Fsms
  <2> QED BY <2>1, <2>2, ThenShape DEF TIMEOUT
<1>2. g.trace = f.trace /\ g.state = f.state /\ g.min = f.min /\ g.max = f.max /\ g.event = t.event /\ g \in Fsms
  BY <1>1 DEF Fsms
<1>3. TimedOut(f, m) <=> m.ts > f.max
  BY <1>1 DEF TimedOut
<1>4. Clones(t) => FALSE
  BY <1>1 DEF Clones
<1> DEFINE late == Move(g, out, m)
           done == Move(g, t, m)
<1>5. r = IF TooEarly(f, m) THEN [fsm |-> f, clone |-> None, val |-> "same"]
          ELSE IF m.ts > f.max THEN [fsm |-> late.fsm, clone |-> None, val |-> late.val]
          ELSE IF t.event = TIMEOUT THEN [fsm |-> f, clone |-> None, val |-> "same"]
          ELSE IF ~Guard(2, m, f.trace) THEN [fsm |-> g, clone |-> None, val |-> "same"]
          ELSE [fsm |-> done.fsm, clone |-> None, val |-> done.val]
  BY <1>1, <1>3, <1>4 DEF HandleEvent
<1> HIDE DEF late, done, g, r
<1>6. SameTimes(f, f) /\ SameTimes(g, f)
  BY <1>2 DEF SameTimes, SameWindow
<1>7. CASE TooEarly(f, m) \/ (~(m.ts > f.max) /\ (t.event = TIMEOUT \/ ~Guard(2, m, f.trace)))
  <2>1. PICK q \in {f, g} : r = [fsm |-> q, clone |-> None, val |-> "same"]
    BY <1>5, <1>7
  <2>2. r.clone = None /\ r.val = "same" /\ r.fsm = q
    BY <2>1
  <2> QED BY <2>2, <1>6 DEF Same, r
<1>8. ASSUME NEW u, u \in {out, t}, Final(u.target), ~Temporary(u.target)
      PROVE  LET p == Move(g, u, m) IN
             /\ p.val = Outcome(u.target)
             /\ p.fsm.trace = [f.trace EXCEPT ![t.event] = m]
  <2> DEFINE k == Enter(g, u, m)
  <2>1. k.state = u.target /\ k.trace = [f.trace EXCEPT ![t.event] = m]
    BY <1>2 DEF Enter, Fsms
  <2> HIDE DEF k
  <2>2. Move(g, u, m) = [fsm |-> k, val |-> Outcome(u.target)]
    BY <2>1, <1>8 DEF Move, Settle, k
  <2> QED BY <2>1, <2>2
<1>9. \A e \in Events : \A k : k = [f.trace EXCEPT ![e] = m] =>
        k[e] = m /\ \A d \in Events \ {e} : k[d] = f.trace[d]
  BY DEF Fsms
<1>10. CASE ~TooEarly(f, m) /\ m.ts > f.max
  <2>1. late.val = "error" /\ late.fsm.trace = [f.trace EXCEPT ![t.event] = m]
    BY <1>1, <1>8 DEF late, Outcome
  <2>2. r.clone = None /\ r.val = "error" /\ r.fsm = late.fsm
    BY <2>1, <1>5, <1>10
  <2>3. t.event \in Events /\ 1 \in Events \ {t.event}
    BY <1>1 DEF TIMEOUT
  <2>4. r.fsm.trace[1] = f.trace[1]
    <3>1. late.fsm.trace[1] = f.trace[1]
      BY <2>1, <2>3, <1>9
    <3> QED BY <3>1, <2>2
  <2> QED BY <2>2, <2>4, <1>10 DEF ComesTooLate, r
<1>11. CASE ~TooEarly(f, m) /\ ~(m.ts > f.max) /\ t.event # TIMEOUT /\ Guard(2, m, f.trace)
  <2>1. i = 2 /\ t.event = 2 /\ t.target = Rule.success
    BY <1>1, <1>11
  <2>2. Outcome(Rule.success) = "final"
    BY <1>1 DEF Outcome
  <2>3. done.val = "final" /\ done.fsm.trace = [f.trace EXCEPT ![2] = m]
    BY <2>1, <2>2, <1>1, <1>8 DEF done
  <2>4. r.clone = None /\ r.val = "final" /\ r.fsm = done.fsm
    BY <2>3, <1>5, <1>11
  <2>5. r.fsm.trace[1] = f.trace[1] /\ r.fsm.trace[2] = m
    <3>1. done.fsm.trace[1] = f.trace[1] /\ done.fsm.trace[2] = m
      <4>1. 2 \in Events /\ 1 \in Events \ {2}
        BY <1>1
      <4>2. PICK k : k = done.fsm.trace
        OBVIOUS
      <4>3. k = [f.trace EXCEPT ![2] = m]
        BY <2>3, <4>2
      <4>4. k[2] = m /\ k[1] = f.trace[1]
        BY <4>1, <4>3, <1>9
      <4> QED BY <4>2, <4>4
    <3> QED BY <3>1, <2>4
  <2>6. f.min <= m.ts /\ m.ts <= f.max
    BY <1>1, <1>11 DEF TooEarly
  <2> QED BY <2>1, <2>4, <2>5, <2>6, <1>11 DEF Completes, r
<1> QED BY <1>7, <1>10, <1>11 DEF r

(* The same of a node of the walk, and of the instances then. *)
Others(f) ==
  /\ DOMAIN f.inst = DOMAIN inst \cup {f.h}
  /\ \A x \in DOMAIN inst \ {f.h} : SameTimes(f.inst[x], inst[x])
AllSame(f) == f.val = "same" /\ f.h \in DOMAIN inst /\ SameTimes(f.inst[f.h], inst[f.h])
AnotherBegun(f) == f.val = "changed" /\ f.h \notin DOMAIN inst /\ Begun(f.inst[f.h], msg)
OneTooLate(f) ==
  /\ f.val = "error" /\ f.h \in DOMAIN inst \ {Bootstrap}
  /\ msg.ts > inst[f.h].max /\ f.inst[f.h].trace[1] = inst[f.h].trace[1]
OneComplete(f) ==
  /\ f.val = "final" /\ f.h \in DOMAIN inst \ {Bootstrap} /\ f.h = node[next].fsm /\ ev = 2
  /\ inst[f.h].min <= msg.ts /\ msg.ts <= inst[f.h].max /\ Guard(2, msg, inst[f.h].trace)
  /\ f.inst[f.h].trace[1] = inst[f.h].trace[1] /\ f.inst[f.h].trace[2] = msg
FiredThen(f) == Others(f) /\ (AllSame(f) \/ AnotherBegun(f) \/ OneTooLate(f) \/ OneComplete(f))

LEMMA FiredIs ==
  ASSUME IsThen, Sound, Reached, AllBegun(inst, msg), NEW f, f = Fired(Tried), ~f.left
  PROVE  FiredThen(f)
<1> DEFINE x0 == node[next].fsm
           fsm == inst[x0]
           i == node[next].index
           t == Outgoing(fsm.state)[i]
<1>1. /\ next \in DOMAIN node /\ x0 \in DOMAIN inst /\ fsm \in Fsms
      /\ i \in DOMAIN Outgoing(fsm.state) /\ t.event = ev /\ next # NoNode
      /\ msg \in Messages
  BY Reaching DEF Reached, Sound
<1>2. IdsFit(inst, byId)
  BY DEF Sound
<1>3. StepByStep
  BY ThenInClass
<1>4. PICK r : r = Tried
  OBVIOUS
<1>5. r = HandleEvent(fsm, i, msg) /\ f = Fired(r)
  BY <1>4 DEF Tried
<1>6. Unmoved(r, fsm) \/ Cloned(r, fsm, t, msg) \/ Moved(r, fsm, t, msg) \/ Ended(r, fsm, t, msg)
  <2> HIDE DEF fsm, i
  <2> QED BY <1>1, <1>3, <1>5, HandleType
<1>7. \/ x0 = Bootstrap /\ (Same(r, fsm) \/ BeginsAnother(r, fsm, msg))
      \/ x0 # Bootstrap /\ (Same(r, fsm) \/ ComesTooLate(r, fsm, msg) \/ (ev = 2 /\ Completes(r, fsm, i, msg)))
  <2>1. CASE x0 = Bootstrap
    <3>1. fsm.state = Rule.init /\ fsm.trace = NewFsm.trace
      BY <2>1, <1>2 DEF IdsFit
    <3>2. i = 1
      BY <3>1, <1>1, ThenShape
    <3> HIDE DEF fsm, i
    <3> QED BY <2>1, <3>1, <3>2, <1>1, <1>5, FirstTried
  <2>2. CASE x0 # Bootstrap
    <3>1. fsm.state = Between
      BY <2>2, <1>1 DEF AllBegun, Begun
    <3>2. i \in {1, 2} /\ (i = 2 => ev = 2)
      BY <3>1, <1>1, ThenShape
    <3> HIDE DEF fsm, i, x0
    <3>3. Same(r, fsm) \/ ComesTooLate(r, fsm, msg) \/ Completes(r, fsm, i, msg)
      BY <3>1, <3>2, <1>1, <1>5, WaitingTried
    <3> QED BY <3>2, <3>3, <2>2 DEF Completes
  <2> QED BY <2>1, <2>2
<1>8. ASSUME SameButState(r.fsm, fsm), r.clone = None, x0 = Bootstrap => SameInstance(r.fsm, fsm)
      PROVE  f.val = r.val /\ f.h = x0 /\ f.inst[x0] = r.fsm /\ Others(f)
  <2>1. OldFiled(f, r)
    BY <1>3, <1>5, <1>8, FiredOld
  <2>2. /\ f.val = r.val /\ f.h = x0 /\ f.inst[x0] = r.fsm
        /\ DOMAIN f.inst = DOMAIN inst
        /\ \A x \in DOMAIN inst \ {f.h} : f.inst[x] = inst[x]
    BY <2>1 DEF OldFiled
  <2>3. DOMAIN f.inst = DOMAIN inst \cup {f.h}
    BY <2>2, <1>1
  <2>4. \A x \in DOMAIN inst \ {f.h} : SameTimes(f.inst[x], inst[x])
    BY <2>2 DEF SameTimes, SameWindow
  <2> QED BY <2>2, <2>3, <2>4 DEF Others
<1>9. CASE Same(r, fsm)
  <2>1. r.clone = None /\ r.val = "same" /\ SameTimes(r.fsm, fsm)
    BY <1>9 DEF Same
  <2>2. SameInstance(r.fsm, fsm)
    BY <2>1, <1>6, NotNone DEF Unmoved, Cloned, Moved, Ended, Ends
  <2>3. SameButState(r.fsm, fsm)
    BY <2>2 DEF SameInstance
  <2>4. f.val = r.val /\ f.h = x0 /\ f.inst[x0] = r.fsm /\ Others(f)
    BY <2>1, <2>2, <2>3, <1>8
  <2>5. AllSame(f)
    BY <2>1, <2>4, <1>1 DEF AllSame
  <2> QED BY <2>4, <2>5 DEF FiredThen
<1>10. CASE BeginsAnother(r, fsm, msg)
  <2>1. r.clone # None /\ r.val = "changed" /\ SameTimes(r.fsm, fsm) /\ Begun(r.clone, msg)
    BY <1>10 DEF BeginsAnother
  <2>2. r.clone \in Fsms /\ SameInstance(r.fsm, fsm)
    BY <2>1, <1>6 DEF Unmoved, Cloned, Moved, Ended
  <2>3. NewFiled(f, r)
    BY <2>2, <1>3, <1>5, FiredNew
  <2>4. /\ f.val = "changed" /\ f.h \notin DOMAIN inst /\ DOMAIN f.inst = DOMAIN inst \cup {f.h}
        /\ f.inst[f.h] = [r.clone EXCEPT !.id = f.id]
    BY <2>1, <2>3 DEF NewFiled
  <2>5. Begun(f.inst[f.h], msg)
    BY <2>1, <2>2, <2>4 DEF Begun, Fsms
  <2>6. \A x \in DOMAIN inst \ {f.h} : SameTimes(f.inst[x], inst[x])
    BY <2>1, <2>3, <1>1 DEF NewFiled, SameTimes, SameWindow
  <2> QED BY <2>4, <2>5, <2>6 DEF FiredThen, Others, AnotherBegun
<1>11. ASSUME x0 # Bootstrap, r.clone = None, r.val \in {"error", "final"}
       PROVE  f.val = r.val /\ f.h = x0 /\ f.inst[x0] = r.fsm /\ Others(f)
  <2>1. SameButState(r.fsm, fsm)
    BY <1>6, <1>11, NotNone DEF Unmoved, Cloned, Moved, Ended
  <2> QED BY <2>1, <1>8, <1>11
<1>12. CASE x0 # Bootstrap /\ ComesTooLate(r, fsm, msg)
  <2>1. r.clone = None /\ r.val = "error" /\ msg.ts > fsm.max /\ r.fsm.trace[1] = fsm.trace[1]
    BY <1>12 DEF ComesTooLate
  <2>2. f.val = r.val /\ f.h = x0 /\ f.inst[x0] = r.fsm /\ Others(f)
    BY <2>1, <1>11, <1>12
  <2> HIDE DEF x0
  <2>3. OneTooLate(f)
    BY <2>1, <2>2, <1>1, <1>12 DEF OneTooLate
  <2> QED BY <2>2, <2>3 DEF FiredThen
<1>13. CASE x0 # Bootstrap /\ ev = 2 /\ Completes(r, fsm, i, msg)
  <2>1. /\ r.clone = None /\ r.val = "final"
        /\ fsm.min <= msg.ts /\ msg.ts <= fsm.max /\ Guard(2, msg, fsm.trace)
        /\ r.fsm.trace[1] = fsm.trace[1] /\ r.fsm.trace[2] = msg
    BY <1>13 DEF Completes
  <2>2. f.val = r.val /\ f.h = x0 /\ f.inst[x0] = r.fsm /\ Others(f)
    BY <2>1, <1>11, <1>13
  <2>3. OneComplete(f)
    BY <2>1, <2>2, <1>1, <1>13 DEF OneComplete
  <2> QED BY <2>2, <2>3 DEF FiredThen
<1> QED BY <1>7, <1>9, <1>10, <1>12, <1>13

(* What becomes of the nodes. *)
NodesLeft(M) ==
  \A a \in DOMAIN M :
    \/ a \in DOMAIN node /\ M[a].fsm = node[a].fsm /\ M[a].counter \in {node[a].counter, msg.n}
    \/ M[a].counter = msg.n

LEMMA FiredNodesLeft ==
  ASSUME Sound, Reached, NEW f, f = Fired(Tried)
  PROVE  NodesLeft(f.node)
<1>1. PICK r : f = Fired(r)
  OBVIOUS
<1> DEFINE n1 == [node EXCEPT ![next].counter = msg.n]
<1>2. f.node = n1 \/ f.node = Without(n1, {next})
  BY <1>1 DEF Fired
<1>3. node \in [DOMAIN node -> Nodes]
  BY DEF Sound, NodesFit
<1>4. /\ DOMAIN n1 = DOMAIN node
      /\ \A a \in DOMAIN node : n1[a].fsm = node[a].fsm /\ n1[a].counter \in {node[a].counter, msg.n}
  BY <1>3 DEF Nodes
<1> HIDE DEF n1
<1>5. DOMAIN f.node \subseteq DOMAIN n1 /\ \A a \in DOMAIN f.node : f.node[a] = n1[a]
  BY <1>2 DEF Without
<1> QED BY <1>4, <1>5 DEF NodesLeft

LEMMA ProcessNodesLeft ==
  ASSUME StepByStep, Sound, Reached, NEW f, f = Fired(Tried),
         Stay(f) \/ Advance(f) \/ Drop(f) \/ Conclude(f)
  PROVE  NodesLeft(node')
<1>1. NodesLeft(f.node)
  BY FiredNodesLeft
<1>2. ASSUME NEW M, \A a \in DOMAIN M : (a \in DOMAIN f.node /\ M[a] = f.node[a]) \/ M[a].counter = msg.n
      PROVE  NodesLeft(M)
  BY <1>1, <1>2 DEF NodesLeft
<1>3. FiringFits(f)
  BY FiringSound DEF Stay, Advance, Drop, Conclude
<1>4. CASE Stay(f)
  BY <1>1, <1>4 DEF Stay
<1>5. CASE Advance(f)
  <2> DEFINE e == Expect(f.node, f.expecting, f.h, f.inst[f.h].state, f.new, msg.n)
  <2>1. node' = e.node /\ f.val = "changed"
    BY <1>5 DEF Advance
  <2>2. f.val \notin Ends
    BY <2>1 DEF Ends
  <2>3. NodesFit(f.inst, f.node, f.expecting) /\ IdsFit(f.inst, f.byId) /\ f.h \in DOMAIN f.inst
    BY <2>2, <1>3 DEF FiringFits
  <2>4. f.h \in Nat \ {0} /\ f.inst[f.h] \in Fsms
    BY <2>3 DEF IdsFit
  <2>5. f.inst[f.h].state \in Rule.states /\ msg.n \in Nat
    <3>1. msg \in Messages
      BY DEF Sound
    <3> QED BY <3>1, <2>4 DEF Fsms, Messages
  <2>6. \A a \in DOMAIN f.node : f.node[a].fsm = f.h => f.node[a].index \notin Wanted(f.inst[f.h].state, f.new)
    BY <2>1, <1>3 DEF FiringFits
  <2> HIDE DEF e
  <2>7. Widened(e, f.inst, f.node, f.expecting, f.h, Wanted(f.inst[f.h].state, f.new), msg.n)
    <3>1. PICK I, N, X, h, late, c : /\ I = f.inst /\ N = f.node /\ X = f.expecting
                                     /\ h = f.h /\ late = f.new /\ c = msg.n
      OBVIOUS
    <3>2. e = Expect(N, X, h, I[h].state, late, c)
      BY <3>1 DEF e
    <3>3. /\ NodesFit(I, N, X) /\ h \in Nat \ {0} /\ h \in DOMAIN I
          /\ I[h].state \in Rule.states /\ c \in Nat
      BY ONLY <2>3, <2>4, <2>5, <3>1
    <3>4. \A a \in DOMAIN N : N[a].fsm = h => N[a].index \notin Wanted(I[h].state, late)
      BY ONLY <2>6, <3>1
    <3>5. Widened(Expect(N, X, h, I[h].state, late, c), I, N, X, h, Wanted(I[h].state, late), c)
      BY ONLY <3>3, <3>4, ExpectWidens
    <3> QED BY ONLY <3>1, <3>2, <3>5
  <2>8. NodesLeft(e.node)
    BY <2>7, <1>2 DEF Widened
  <2> QED BY <2>1, <2>8
<1>6. ASSUME NEW gone, node' = Unlink(f.node, f.expecting, gone).node PROVE NodesLeft(node')
  <2> DEFINE M == Unlink(f.node, f.expecting, gone).node
  <2>1. \A a \in DOMAIN M : a \in DOMAIN f.node /\ M[a] = f.node[a]
    BY DEF Unlink
  <2> HIDE DEF M
  <2>2. NodesLeft(M)
    BY <2>1, <1>2
  <2> QED BY <2>2, <1>6 DEF M
<1>7. CASE Drop(f)
  BY <1>6, <1>7 DEF Drop
<1>8. CASE Conclude(f)
  BY <1>6, <1>8 DEF Conclude
<1> QED BY <1>4, <1>5, <1>7, <1>8

LEMMA LeftBegun ==
  ASSUME IsThen, Sound, AllBegun(inst, msg), CountedFrom(inst, node), Unanswered(inst, shown),
         \A m \in shown : m \in Messages /\ m.n <= msg.n,
         NEW f, FiredThen(f), NEW J, LeftOf(J, f),
         NEW M, NodesLeft(M), \A a \in DOMAIN M : M[a].fsm \in DOMAIN J
  PROVE  AllBegun(J, msg) /\ Unanswered(J, shown) /\ CountedFrom(J, M)
<1>1. ASSUME NEW h \in DOMAIN J
      PROVE  (h \in DOMAIN inst /\ SameTimes(J[h], inst[h])) \/ (h \notin DOMAIN inst /\ Begun(J[h], msg))
  <2>1. h \in DOMAIN inst \cup {f.h} /\ J[h] = f.inst[h]
    BY DEF LeftOf, FiredThen, Others
  <2>2. CASE h # f.h
    <3>1. h \in DOMAIN inst \ {f.h}
      BY <2>1, <2>2
    <3>2. SameTimes(f.inst[h], inst[h])
      BY <3>1 DEF FiredThen, Others
    <3> QED BY <3>1, <3>2, <2>1 DEF SameTimes, SameWindow
  <2>3. CASE h = f.h
    <3>1. f.val \notin Ends
      BY <2>3 DEF LeftOf
    <3>2. AllSame(f) \/ AnotherBegun(f)
      BY <3>1 DEF FiredThen, OneTooLate, OneComplete, Ends
    <3>3. J[h] = f.inst[f.h]
      BY <2>1, <2>3
    <3>4. CASE AllSame(f)
      BY <3>3, <3>4, <2>3 DEF AllSame, SameTimes, SameWindow
    <3>5. CASE AnotherBegun(f)
      BY <3>3, <3>5, <2>3 DEF AnotherBegun
    <3> QED BY <3>2, <3>4, <3>5
  <2> QED BY <2>2, <2>3
<1>2. /\ msg \in Messages /\ msg.n \in Nat /\ 1 \in Events /\ Bootstrap \in DOMAIN inst
      /\ \A k \in Messages : k.n \in Nat /\ OnlyA(k)[1] = k
  <2>1. 1 \in Events
    BY ThenShape
  <2> QED BY <2>1 DEF Sound, Messages, OnlyA, IdsFit
<1>3. ASSUME NEW h \in DOMAIN J \ {Bootstrap}
      PROVE  /\ \E k \in Messages : Begun(J[h], k) /\ k.n <= msg.n
             /\ \A m \in shown : ~Answers(m, J[h].trace[1])
             /\ J[h].trace[1].n <= msg.n
             /\ h \in DOMAIN inst => J[h].trace = inst[h].trace
  <2>1. CASE h \in DOMAIN inst /\ SameTimes(J[h], inst[h])
    <3>1. J[h].trace = inst[h].trace
      BY <2>1 DEF SameTimes
    <3>2. PICK k \in Messages : Begun(inst[h], k) /\ k.n <= msg.n
      BY <2>1 DEF AllBegun
    <3>3. Begun(J[h], k)
      BY <2>1, <3>2 DEF Begun, SameTimes, SameWindow
    <3>4. J[h].trace[1] = k
      BY <3>3, <1>2 DEF Begun
    <3>5. \A m \in shown : ~Answers(m, J[h].trace[1])
      BY <2>1, <3>1 DEF Unanswered
    <3> QED BY <3>1, <3>2, <3>3, <3>4, <3>5
  <2>2. CASE h \notin DOMAIN inst /\ Begun(J[h], msg)
    <3>1. J[h].trace[1] = msg
      BY <2>2, <1>2 DEF Begun
    <3>2. \A m \in shown : ~(msg.n < m.n)
      <4> SUFFICES ASSUME NEW m \in shown PROVE ~(msg.n < m.n)
        OBVIOUS
      <4>1. m \in Messages /\ m.n <= msg.n
        OBVIOUS
      <4>2. m.n \in Nat
        BY <4>1, <1>2
      <4> QED BY <4>1, <4>2, <1>2
    <3>3. \A m \in shown : ~Answers(m, msg)
      BY <3>2 DEF Answers
    <3> QED BY <2>2, <3>1, <3>3, <1>2
  <2> QED BY <2>1, <2>2, <1>1
<1>4. AllBegun(J, msg)
  BY <1>3 DEF AllBegun
<1>5. Unanswered(J, shown)
  BY <1>3 DEF Unanswered
<1>6. ASSUME NEW a \in DOMAIN M, M[a].fsm # Bootstrap
      PROVE  J[M[a].fsm].trace[1].n <= M[a].counter
  <2>1. M[a].fsm \in DOMAIN J \ {Bootstrap}
    BY <1>6
  <2>2. CASE M[a].counter = msg.n
    BY <2>1, <2>2, <1>3
  <2>3. CASE a \in DOMAIN node /\ M[a].fsm = node[a].fsm /\ M[a].counter = node[a].counter
    <3>1. node[a].fsm \in DOMAIN inst
      BY <2>3 DEF Sound, NodesFit
    <3>2. J[M[a].fsm].trace = inst[node[a].fsm].trace
      BY <2>1, <2>3, <3>1, <1>3
    <3>3. inst[node[a].fsm].trace[1].n <= node[a].counter
      BY <2>3, <1>6 DEF CountedFrom
    <3> QED BY <2>3, <3>2, <3>3
  <2> QED BY <2>2, <2>3 DEF NodesLeft
<1>7. CountedFrom(J, M)
  BY <1>6 DEF CountedFrom
<1> QED BY <1>4, <1>5, <1>7

(* A verdict says what the instance it is about has been through. *)
LEMMA VerdictIs ==
  ASSUME IsThen, Sound, Reached, Waiting(inst, node, msg), AllBegun(inst, msg), CountedFrom(inst, node),
         Unanswered(inst, shown), ev = TIMEOUT \/ Concerns(ev),
         NEW f, FiredThen(f), NEW x, x = f.inst[f.h].trace
  PROVE  /\ Verdict(f.val) = "respected" => Guard(1, x[1], NewFsm.trace) /\ Answers(x[2], x[1])
         /\ Verdict(f.val) = "not_respected" =>
              /\ Guard(1, x[1], NewFsm.trace) /\ msg.ts > x[1].ts + Window.max
              /\ \A m \in shown : ~Answers(m, x[1])
<1>1. /\ msg \in Messages /\ 1 \in Events /\ Window.min \in Int /\ Window.max \in Int
      /\ \A k \in Messages : k.n \in Nat /\ k.ts \in Nat /\ OnlyA(k)[1] = k
  <2>1. 1 \in Events
    BY ThenShape
  <2>2. Between \in Rule.states
    BY DEF IsThen, Between
  <2>3. Window.min \in Int /\ Window.max \in Int
    BY <2>2, RuleAssumption DEF RuleShape, Window, Between
  <2> QED BY <2>1, <2>3 DEF Sound, Messages, OnlyA
<1>2. CASE AllSame(f) \/ AnotherBegun(f)
  BY <1>2 DEF AllSame, AnotherBegun, Verdict
<1>3. ASSUME f.h \in DOMAIN inst \ {Bootstrap}, f.inst[f.h].trace[1] = inst[f.h].trace[1]
      PROVE  \E k \in Messages :
               /\ x[1] = k /\ Begun(inst[f.h], k) /\ k.n <= msg.n
               /\ \A m \in shown : ~Answers(m, k)
  <2>1. PICK k \in Messages : Begun(inst[f.h], k) /\ k.n <= msg.n
    BY <1>3 DEF AllBegun
  <2>2. inst[f.h].trace[1] = k
    BY <2>1, <1>1 DEF Begun
  <2>3. \A m \in shown : ~Answers(m, k)
    BY <2>2, <1>3 DEF Unanswered
  <2> QED BY <2>1, <2>2, <2>3, <1>3
<1>4. CASE OneTooLate(f)
  <2>1. f.val = "error" /\ msg.ts > inst[f.h].max
    BY <1>4 DEF OneTooLate
  <2>2. PICK k \in Messages : /\ x[1] = k /\ Begun(inst[f.h], k)
                              /\ \A m \in shown : ~Answers(m, k)
    BY <1>3, <1>4 DEF OneTooLate
  <2>3. inst[f.h].max = Window.max + k.ts /\ Guard(1, k, NewFsm.trace)
    BY <2>2 DEF Begun
  <2>4. msg.ts > k.ts + Window.max
    BY <2>1, <2>3, <1>1
  <2>5. Verdict(f.val) # "respected"
    BY <2>1 DEF Verdict
  <2> QED BY <2>2, <2>3, <2>4, <2>5
<1>5. CASE OneComplete(f)
  <2>1. /\ f.val = "final" /\ f.h = node[next].fsm /\ f.h # Bootstrap /\ ev = 2
        /\ inst[f.h].min <= msg.ts /\ msg.ts <= inst[f.h].max /\ Guard(2, msg, inst[f.h].trace)
        /\ x[2] = msg
    BY <1>5 DEF OneComplete
  <2>2. PICK k \in Messages : x[1] = k /\ Begun(inst[f.h], k) /\ k.n <= msg.n
    BY <1>3, <1>5 DEF OneComplete
  <2>3. /\ inst[f.h].min = Window.min + k.ts /\ inst[f.h].max = Window.max + k.ts
        /\ inst[f.h].trace = OnlyA(k) /\ Guard(1, k, NewFsm.trace)
    BY <2>2 DEF Begun
  <2>4. k.ts + Window.min <= msg.ts /\ msg.ts <= k.ts + Window.max
    BY <2>1, <2>3, <1>1
  <2>5. 2 \in Carries[msg.kind]
    BY <2>1 DEF TIMEOUT, Concerns
  <2>6. k.n < msg.n
    <3>1. next \in DOMAIN node /\ node[next] \in Nodes /\ node[next].counter # msg.n
      BY Reaching DEF Reached
    <3>2. inst[f.h].trace[1] = k
      BY <2>3, <1>1
    <3>3. k.n <= node[next].counter
      BY <2>1, <3>1, <3>2 DEF CountedFrom
    <3>4. node[next].counter <= msg.n
      BY <3>1 DEF Waiting, Older
    <3>5. node[next].counter \in Nat
      BY <3>1 DEF Nodes
    <3> QED BY <3>1, <3>3, <3>4, <3>5, <1>1
  <2>7. Answers(msg, k)
    BY <2>1, <2>3, <2>4, <2>5, <2>6 DEF Answers
  <2>8. Verdict(f.val) # "not_respected"
    BY <2>1 DEF Verdict
  <2> QED BY <2>1, <2>2, <2>3, <2>7, <2>8
<1> QED BY <1>2, <1>4, <1>5 DEF FiredThen

-----------------------------------------------------------------------------
LEMMA InitTruth == ASSUME IsThen, HistoryInit, Sound PROVE Truth
<1>1. DOMAIN inst = {Bootstrap} /\ shown = {} /\ pc = "idle" /\ verdict = "unknown"
  BY DEF HistoryInit, Init
<1>2. \A a \in DOMAIN node : node[a].fsm = Bootstrap
  BY <1>1 DEF Sound, NodesFit
<1> QED BY <1>1, <1>2 DEF Truth, AllBegun, CountedFrom, Unanswered, VerdictTimes, FailureTrue

LEMMA ProcessTruth ==
  ASSUME IsThen, Sound, Patient, Truth, Reached, Sound',
         NEW f, f = Fired(Tried), Stay(f) \/ Advance(f) \/ Drop(f) \/ Conclude(f), HistoryNext
  PROVE  Truth'
<1>1. StepByStep /\ pc = "walk" /\ verdict = "unknown"
  BY ThenInClass DEF Reached, Truth
<1>2. ~f.left /\ msg' = msg /\ LeftOf(inst', f)
  BY <1>1, ProcessLeaves
<1>3. FiredThen(f)
  BY <1>2, FiredIs DEF Truth
<1>4. NodesLeft(node')
  BY <1>1, ProcessNodesLeft
<1>5. \/ pc' = "walk" /\ verdict' = "unknown" /\ ev' = ev
      \/ pc' = "idle" /\ verdict' # "unknown" /\ verdict' = Verdict(f.val) /\ validTrace' = f.inst[f.h].trace
  <2>1. CASE Stay(f) \/ Advance(f) \/ Drop(f)
    BY <2>1, <1>1 DEF Stay, Advance, Drop
  <2>2. CASE Conclude(f)
    BY <2>2 DEF Conclude
  <2> QED BY <2>1, <2>2
<1>6. shown' = shown
  BY <1>5 DEF HistoryNext
<1>7. PICK J, M : J = inst' /\ M = node'
  OBVIOUS
<1>8. \A a \in DOMAIN M : M[a].fsm \in DOMAIN J
  BY <1>7 DEF Sound, NodesFit
<1>9. AllBegun(J, msg) /\ Unanswered(J, shown) /\ CountedFrom(J, M)
  BY <1>2, <1>3, <1>4, <1>7, <1>8, LeftBegun DEF Truth
<1>10. AllBegun(inst', msg') /\ Unanswered(inst', shown') /\ CountedFrom(inst', node')
  BY <1>2, <1>6, <1>7, <1>9
<1>11. \A m \in shown' : m \in Messages /\ m.n <= msg'.n
  BY <1>2, <1>6 DEF Truth
<1>12. pc' = "walk" => ev' = TIMEOUT \/ ev' \in Carries[msg'.kind]
  BY <1>1, <1>2, <1>5 DEF Truth, Concerns
<1>13. VerdictTimes' /\ FailureTrue'
  <2>1. CASE verdict' = "unknown"
    BY <2>1 DEF VerdictTimes, FailureTrue
  <2>2. CASE verdict' = Verdict(f.val) /\ validTrace' = f.inst[f.h].trace
    <3>1. PICK x : x = f.inst[f.h].trace
      OBVIOUS
    <3>2. Waiting(inst, node, msg) /\ (ev = TIMEOUT \/ Concerns(ev))
      BY <1>1 DEF Patient, Truth
    <3>3. /\ Verdict(f.val) = "respected" => Guard(1, x[1], NewFsm.trace) /\ Answers(x[2], x[1])
          /\ Verdict(f.val) = "not_respected" =>
               /\ Guard(1, x[1], NewFsm.trace) /\ msg.ts > x[1].ts + Window.max
               /\ \A m \in shown : ~Answers(m, x[1])
      BY <3>1, <3>2, <1>3, VerdictIs DEF Truth
    <3>4. ShownA' = x[1] /\ ShownB' = x[2]
      BY <3>1, <2>2 DEF ShownA, ShownB
    <3> QED BY <3>3, <3>4, <2>2, <1>2, <1>6 DEF VerdictTimes, FailureTrue
  <2> QED BY <2>1, <2>2, <1>5
<1>14. pc' # "idle" => verdict' = "unknown"
  BY <1>5
<1> QED BY <1>10, <1>11, <1>12, <1>13, <1>14 DEF Truth, Concerns

(* A message that has walked all the lists was no answer to what is still waiting. *)
LEMMA NoAnswer ==
  ASSUME IsThen, Sound, AllBegun(inst, msg), \A h \in Live : ~Missed(h)
  PROVE  \A h \in DOMAIN inst \ {Bootstrap} : ~Answers(msg, inst[h].trace[1])
<1> SUFFICES ASSUME NEW h \in DOMAIN inst \ {Bootstrap}, Answers(msg, inst[h].trace[1]) PROVE Missed(h)
  BY DEF Live
<1>1. PICK k \in Messages : Begun(inst[h], k) /\ k.n <= msg.n
  BY DEF AllBegun
<1>2. /\ inst[h].state = Between /\ inst[h].trace = OnlyA(k)
      /\ inst[h].min = Window.min + k.ts /\ inst[h].max = Window.max + k.ts
  BY <1>1 DEF Begun
<1>3. Events = {0, 1, 2} /\ Rule.events = {1, 2}
  BY ThenShape DEF IsThen
<1>4. inst[h].trace[1] = k /\ inst[h].trace[2] = NoMessage
  BY <1>2, <1>3 DEF OnlyA
<1>5. /\ k.n < msg.n /\ k.ts + Window.min <= msg.ts /\ msg.ts <= k.ts + Window.max
      /\ 2 \in Carries[msg.kind] /\ Guard(2, msg, inst[h].trace)
  BY <1>2, <1>4 DEF Answers
<1>6. msg \in Messages /\ k.n \in Nat /\ k.ts \in Nat /\ Window.min \in Int /\ Window.max \in Int
  <2>1. Between \in Rule.states
    BY DEF IsThen, Between
  <2>2. Window.min \in Int /\ Window.max \in Int
    BY <2>1, RuleAssumption DEF RuleShape, Window, Between
  <2> QED BY <2>2 DEF Sound, Messages
<1>7. ~ \E e \in Rule.events : inst[h].trace[e] = msg
  <2>1. k # msg
    BY <1>5, <1>6
  <2>2. NoMessage # msg
    BY <1>6, NotEmpty
  <2> QED BY <2>1, <2>2, <1>3, <1>4
<1>8. inst[h].min <= msg.ts /\ msg.ts <= inst[h].max
  BY <1>2, <1>5, <1>6
<1>9. /\ 2 \in DOMAIN Outgoing(inst[h].state) /\ Outgoing(inst[h].state)[2].event = 2
      /\ Outgoing(inst[h].state)[2].action = "reset" /\ 2 # TIMEOUT
  BY <1>2, ThenShape
<1> QED BY <1>5, <1>7, <1>8, <1>9 DEF Missed, State, Concerns

LEMMA StepTruth ==
  ASSUME IsThen, Sound, Patient, Truth, [HistoryNext]_<<vars, shown>>, Sound' PROVE Truth'
<1>1. StepByStep
  BY ThenInClass
<1>2. /\ AllBegun(inst, msg) /\ CountedFrom(inst, node) /\ Unanswered(inst, shown)
      /\ \A m \in shown : m \in Messages /\ m.n <= msg.n
      /\ pc # "idle" => verdict = "unknown"
      /\ pc = "walk" => ev = TIMEOUT \/ Concerns(ev)
      /\ VerdictTimes /\ FailureTrue /\ msg \in Messages /\ msg.n \in Nat
  BY DEF Truth, Sound, Messages
<1>3. ASSUME verdict' = "unknown", inst' = inst, node' = node,
             AllBegun(inst', msg'), Unanswered(inst', shown'), \A m \in shown' : m \in Messages /\ m.n <= msg'.n,
             pc' = "walk" => ev' = TIMEOUT \/ ev' \in Carries[msg'.kind]
      PROVE  Truth'
  <2>1. VerdictTimes' /\ FailureTrue'
    BY <1>3 DEF VerdictTimes, FailureTrue
  <2>2. CountedFrom(inst', node')
    BY <1>2, <1>3
  <2> QED BY <2>1, <2>2, <1>3 DEF Truth, Concerns
<1>4. ASSUME NEW k \in Kinds, NEW d \in Delays, Receive(k, d), HistoryNext PROVE Truth'
  <2>1. PICK m : m = [n |-> msg.n + 1, ts |-> msg.ts + d, kind |-> k]
    OBVIOUS
  <2>2. /\ msg' = m /\ m.n = msg.n + 1 /\ pc' = "walk" /\ ev' = TIMEOUT /\ inst' = inst /\ node' = node
        /\ verdict' = "unknown"
    BY <1>4, <2>1 DEF Receive, store
  <2>3. shown' = shown
    BY <1>4, <2>2 DEF HistoryNext
  <2>4. \A x \in Messages : x.n <= msg.n => x.n <= m.n
    BY <2>2, <1>2 DEF Messages
  <2>5. AllBegun(inst, m)
    BY <2>4, <1>2 DEF AllBegun
  <2>6. \A x \in shown : x \in Messages /\ x.n <= m.n
    BY <2>4, <1>2
  <2> QED BY <2>2, <2>3, <2>5, <2>6, <1>2, <1>3
<1>5. ASSUME NextList, HistoryNext PROVE Truth'
  <2> DEFINE rest == {e \in Rule.events : e > ev /\ Concerns(e)}
  <2>1. UNCHANGED <<inst, node, expecting, msg, verdict>> /\ next = NoNode /\ pc = "walk"
    BY <1>5 DEF NextList, store
  <2>2. verdict = "unknown"
    BY <2>1, <1>2
  <2>3. CASE rest = {}
    <3>1. pc' = "idle"
      BY <1>5, <2>3 DEF NextList
    <3>2. \A h \in Live : ~Overdue(h) /\ ~Missed(h)
      BY <2>1, <2>3, WalkEnds DEF Patient
    <3>3. \A h \in DOMAIN inst \ {Bootstrap} : ~Answers(msg, inst[h].trace[1])
      BY <3>2, <1>2, NoAnswer
    <3>4. shown' = shown \cup {msg}
      BY <3>1, <2>1, <2>2, <1>5 DEF HistoryNext
    <3>5. PICK S : S = shown \cup {msg}
      OBVIOUS
    <3>6. Unanswered(inst, S)
      BY <3>3, <3>5, <1>2 DEF Unanswered
    <3>7. \A m \in S : m \in Messages /\ m.n <= msg.n
      BY <3>5, <1>2
    <3> QED BY <3>1, <3>4, <3>5, <3>6, <3>7, <2>1, <2>2, <1>2, <1>3
  <2>4. CASE rest # {}
    <3>1. pc' = "walk" /\ ev' = CHOOSE e \in rest : \A k \in rest : e <= k
      BY <1>5, <2>1, <2>4 DEF NextList
    <3>2. rest \in SUBSET Nat /\ \A e \in rest : e \in Carries[msg.kind]
      BY RuleTypes DEF Events, Concerns
    <3> HIDE DEF rest
    <3>3. ev' \in rest
      <4>1. \E e \in rest : \A k \in rest : e <= k
        BY <3>2, <2>4, Least
      <4> QED BY <4>1, <3>1
    <3>4. shown' = shown
      BY <3>1, <1>5 DEF HistoryNext
    <3> QED BY <3>1, <3>2, <3>3, <3>4, <2>1, <2>2, <1>2, <1>3
  <2> QED BY <2>3, <2>4
<1>6. ASSUME Skip, HistoryNext PROVE Truth'
  <2>1. pc = "walk" /\ UNCHANGED <<inst, node, pc, msg, ev, verdict>>
    BY <1>6 DEF Skip, store
  <2>2. shown' = shown
    BY <2>1, <1>6 DEF HistoryNext
  <2> QED BY <2>1, <2>2, <1>2, <1>3 DEF Concerns
<1>7. ASSUME ProcessNode, HistoryNext PROVE Truth'
  <2>1. PICK f : /\ f = Fired(Tried)
                 /\ Stay(f) \/ Advance(f) \/ Drop(f) \/ Conclude(f) \/ Halt(f)
    BY <1>7 DEF ProcessNode
  <2>2. Reached /\ pc = "walk"
    BY <1>7 DEF ProcessNode, Reached
  <2>3. CASE Halt(f)
    <3>1. pc' = "halted" /\ UNCHANGED <<inst, node, msg, ev, verdict>>
      BY <2>3 DEF Halt, store
    <3>2. shown' = shown
      BY <3>1, <1>7 DEF HistoryNext
    <3> QED BY <3>1, <3>2, <2>2, <1>2, <1>3
  <2>4. CASE Stay(f) \/ Advance(f) \/ Drop(f) \/ Conclude(f)
    BY <2>1, <2>2, <2>4, <1>7, ProcessTruth
  <2> QED BY <2>1, <2>3, <2>4
<1>8. CASE UNCHANGED <<vars, shown>>
  <2>1. UNCHANGED <<inst, node, msg, pc, ev, verdict, validTrace, shown>>
    BY <1>8 DEF vars, store
  <2> QED BY <2>1 DEF Truth, VerdictTimes, FailureTrue, ShownA, ShownB, Concerns
<1>9. HistoryNext => Next
  BY DEF HistoryNext
<1> QED BY <1>4, <1>5, <1>6, <1>7, <1>8, <1>9 DEF Next

(* What holds at every step of the engine with its messages remembered. *)
LEMMA HistoryTrue == ASSUME IsThen PROVE HistorySpec => [](Sound /\ Patient /\ Truth)
<1>1. StepByStep /\ InTime
  BY ThenInClass
<1>2. HistoryInit => Sound /\ Patient /\ Truth
  BY <1>1, InitSound, InitPatient, InitTruth DEF HistoryInit
<1>3. Sound /\ Patient /\ Truth /\ [HistoryNext]_<<vars, shown>> => Sound' /\ Patient' /\ Truth'
  <2>1. [HistoryNext]_<<vars, shown>> => [Next]_vars
    BY DEF HistoryNext
  <2> QED BY <2>1, <1>1, StepSound, StepPatient, StepTruth
<1> QED BY <1>2, <1>3, PTL DEF HistorySpec

(* "Respected" is said of an a and the b that answers it within the delay; "not
   respected" of an a when its delay is over, in whatever order the lists are walked
   and however many attempts are under way. *)
THEOREM VerdictsInTime == ASSUME IsThen PROVE HistorySpec => []VerdictTimes
<1>1. Truth => VerdictTimes
  BY DEF Truth
<1> QED BY <1>1, HistoryTrue, PTL

(* No a is reported without its b when a message that went through all the lists was
   its b: none is passed over, lost with another attempt's instance, or late. *)
THEOREM FailuresAreTrue == ASSUME IsThen PROVE HistorySpec => []FailureTrue
<1>1. Truth => FailureTrue
  BY DEF Truth
<1> QED BY <1>1, HistoryTrue, PTL
=============================================================================
