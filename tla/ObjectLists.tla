---------------------------- MODULE ObjectLists -----------------------------
(***************************************************************************)
(* Facts about the array of objects (src/src/db.c, move.c, create.c,       *)
(* utils.c), for a database of any size. First the lists: every object has *)
(* one field "next" for the one list it is on, the contents or the exits   *)
(* of a place, or the free list; and while send_contents runs the contents *)
(* it has taken out hang on a local variable. Then the array between two   *)
(* steps (World), and that each operator of ObjectGraph keeps it in order. *)
(* Last, that what the steps change closes no loop of parents.             *)
(***************************************************************************)
EXTENDS ObjectGraph, FiniteSetTheorems, WellFoundedInduction, TLAPS

-----------------------------------------------------------------------------
(* Lists in general: the members "on", the list lab[x] that x is on, the   *)
(* first member head[k] of list k, and the next of each member.            *)

Strung(on, lab, head, next) ==
  /\ \A x \in on : lab[x] \in DOMAIN head
  /\ \A k \in DOMAIN head : head[k] # NOTHING => head[k] \in on /\ lab[head[k]] = k
  /\ \A x \in on : next[x] # NOTHING =>
       /\ next[x] \in on /\ lab[next[x]] = lab[x] /\ next[x] # head[lab[x]]
  /\ \A x \in on : x # head[lab[x]] => \E y \in on : next[y] = x
  /\ \A x, y \in on : next[x] = next[y] /\ next[x] # NOTHING => x = y
  /\ \A S \in SUBSET on : S # {} => \E x \in S : next[x] \notin S

\* A new first member.
LEMMA StrungPush ==
  ASSUME NEW on, NEW lab, NEW head, NEW next, Strung(on, lab, head, next),
         NOTHING \notin on, NEW x, x \notin on, x # NOTHING, NEW k \in DOMAIN head,
         NEW lab2, NEW head2, NEW next2,
         lab2[x] = k, \A y \in on : lab2[y] = lab[y],
         DOMAIN head2 = DOMAIN head,
         \A l \in DOMAIN head : head2[l] = IF l = k THEN x ELSE head[l],
         next2[x] = head[k], \A y \in on : next2[y] = next[y]
  PROVE  Strung(on \union {x}, lab2, head2, next2)
<1> DEFINE on2 == on \union {x}
<1>1. \A y \in on2 : lab2[y] \in DOMAIN head2 BY DEF Strung
<1>2. \A l \in DOMAIN head2 : head2[l] # NOTHING => head2[l] \in on2 /\ lab2[head2[l]] = l
  BY DEF Strung
<1>3. \A y \in on2 : next2[y] # NOTHING =>
        /\ next2[y] \in on2 /\ lab2[next2[y]] = lab2[y] /\ next2[y] # head2[lab2[y]]
  BY DEF Strung
<1>4. ASSUME NEW y \in on2, y # head2[lab2[y]] PROVE \E z \in on2 : next2[z] = y
  <2>1. y \in on BY <1>4
  <2>2. CASE lab[y] = k /\ y = head[k] BY <2>2
  <2>3. CASE y # head[lab[y]]
    <3>1. PICK z \in on : next[z] = y BY <2>1, <2>3 DEF Strung
    <3> QED BY <3>1
  <2> QED BY <1>4, <2>1, <2>2, <2>3 DEF Strung
<1>5. \A y, z \in on2 : next2[y] = next2[z] /\ next2[y] # NOTHING => y = z
  BY DEF Strung
<1>6. ASSUME NEW S \in SUBSET on2, S # {} PROVE \E y \in S : next2[y] \notin S
  <2>1. CASE S \ {x} = {} BY <1>6, <2>1 DEF Strung
  <2>2. CASE S \ {x} # {}
    <3>1. S \ {x} \in SUBSET on OBVIOUS
    <3>2. PICK y \in S \ {x} : next[y] \notin S \ {x} BY <2>2, <3>1 DEF Strung
    <3>3. next2[y] = next[y] /\ next[y] # x BY <3>2 DEF Strung
    <3> QED BY <3>2, <3>3
  <2> QED BY <2>1, <2>2
<1> QED BY <1>1, <1>2, <1>3, <1>4, <1>5, <1>6 DEF Strung

\* A member is taken off: whatever led to it leads to the one after it.
LEMMA StrungTake ==
  ASSUME NEW on, NEW lab, NEW head, NEW next, Strung(on, lab, head, next),
         NOTHING \notin on, NEW x \in on,
         NEW lab2, NEW head2, NEW next2,
         \A y \in on \ {x} : lab2[y] = lab[y],
         DOMAIN head2 = DOMAIN head,
         \A l \in DOMAIN head : head2[l] = IF head[l] = x THEN next[x] ELSE head[l],
         \A y \in on \ {x} : next2[y] = IF next[y] = x THEN next[x] ELSE next[y]
  PROVE  Strung(on \ {x}, lab2, head2, next2)
<1> DEFINE on2 == on \ {x}
<1>0. next[x] # x
  <2>1. {x} \in SUBSET on OBVIOUS
  <2>2. \E y \in {x} : next[y] \notin {x} BY <2>1 DEF Strung
  <2> QED BY <2>2
<1>1. \A y \in on2 : lab2[y] \in DOMAIN head2 BY DEF Strung
<1>2. \A l \in DOMAIN head2 : head2[l] # NOTHING => head2[l] \in on2 /\ lab2[head2[l]] = l
  BY <1>0 DEF Strung
<1>3. ASSUME NEW y \in on2, next2[y] # NOTHING
      PROVE  /\ next2[y] \in on2 /\ lab2[next2[y]] = lab2[y] /\ next2[y] # head2[lab2[y]]
  <2>1. next2[y] \in on2 /\ lab2[next2[y]] = lab2[y] BY <1>0, <1>3 DEF Strung
  <2>2. CASE next[y] = x
    <3>1. x # head[lab[x]] /\ lab[x] = lab[y] BY <2>2 DEF Strung
    <3> QED BY <1>3, <2>1, <2>2, <3>1 DEF Strung
  <2>3. CASE next[y] # x
    <3>1. next[y] # head[lab[y]] BY <1>3, <2>3 DEF Strung
    <3>2. head[lab[y]] = x => next[y] # next[x] BY <1>3, <2>3 DEF Strung
    <3> QED BY <2>1, <2>3, <3>1, <3>2 DEF Strung
  <2> QED BY <2>2, <2>3
<1>4. ASSUME NEW y \in on2, y # head2[lab2[y]] PROVE \E z \in on2 : next2[z] = y
  <2>1. y # head[lab[y]] BY <1>4 DEF Strung
  <2>2. PICK z \in on : next[z] = y BY <2>1 DEF Strung
  <2>3. CASE z # x BY <2>2, <2>3
  <2>4. CASE z = x
    <3>1. lab[y] = lab[x] BY <2>2, <2>4, <1>4 DEF Strung
    <3>2. x # head[lab[x]] BY <1>4, <2>2, <2>4, <3>1 DEF Strung
    <3>3. PICK p \in on : next[p] = x BY <3>2 DEF Strung
    <3> QED BY <1>0, <2>2, <2>4, <3>3
  <2> QED BY <2>3, <2>4
<1>5. ASSUME NEW y \in on2, NEW z \in on2, next2[y] = next2[z], next2[y] # NOTHING
      PROVE  y = z
  BY <1>5 DEF Strung
<1>6. ASSUME NEW S \in SUBSET on2, S # {} PROVE \E y \in S : next2[y] \notin S
  <2>1. S \in SUBSET on /\ S \union {x} \in SUBSET on OBVIOUS
  <2>2. CASE \E p \in S : next[p] = x
    <3>1. PICK y \in S \union {x} : next[y] \notin S \union {x} BY <2>1 DEF Strung
    <3>2. PICK p \in S : next[p] = x BY <2>2
    <3> QED BY <3>1, <3>2
  <2>3. CASE ~ \E p \in S : next[p] = x
    <3>1. PICK y \in S : next[y] \notin S BY <1>6, <2>1 DEF Strung
    <3> QED BY <2>3, <3>1
  <2> QED BY <2>2, <2>3
<1> QED BY <1>1, <1>2, <1>3, <1>4, <1>5, <1>6 DEF Strung

\* What is on no list may change.
LEMMA StrungSame ==
  ASSUME NEW on, NEW lab, NEW head, NEW next, Strung(on, lab, head, next),
         NEW lab2, NEW head2, NEW next2,
         \A y \in on : lab2[y] = lab[y] /\ next2[y] = next[y],
         DOMAIN head2 = DOMAIN head,
         \A l \in DOMAIN head : head2[l] = head[l]
  PROVE  Strung(on, lab2, head2, next2)
<1>1. \A S \in SUBSET on : S # {} => \E x \in S : next2[x] \notin S
  BY DEF Strung
<1> QED BY <1>1 DEF Strung

-----------------------------------------------------------------------------
(* What DOLIST walks: Chain(d, s) is the least set that holds s and with   *)
(* every object the next one.                                              *)

\* A set of numbers that is not empty has a least one.
LEMMA LeastOne ==
  ASSUME NEW S, S \subseteq Nat, S # {}
  PROVE  \E i \in S : \A j \in S : i <= j
<1>1. IsWellFoundedOn(OpToRel(<, Nat), Nat) BY NatLessThanWellFounded
<1>2. PICK i \in S : \A j \in S : ~(<<j, i>> \in OpToRel(<, Nat))
  BY <1>1, WFMin
<1>3. \A j \in S : ~(j < i) BY <1>2 DEF OpToRel
<1>4. \A j \in S : i <= j BY <1>3, SMT
<1> QED BY <1>4

\* One more step of the walk.
Grown(d, S) == S \union ({d.next[y] : y \in S} \ {NOTHING})

Walks(d, s, m, w) ==
  w = [n \in 0 .. m |-> IF n = 0 THEN {s} \ {NOTHING} ELSE Grown(d, w[n - 1])]

\* The function by which Chain is defined exists.
LEMMA WalkExists ==
  ASSUME NEW d, NEW s, NEW m \in Nat
  PROVE  \E w : Walks(d, s, m, w)
<1> DEFINE T == {k \in Nat : ~ \E w : Walks(d, s, k, w)}
<1>1. SUFFICES ASSUME T # {} PROVE FALSE OBVIOUS
<1>2. PICK k \in T : \A j \in T : k <= j BY <1>1, LeastOne
<1>3. CASE k = 0
  <2> DEFINE w == [n \in 0 .. 0 |-> {s} \ {NOTHING}]
  <2>1. w = [n \in 0 .. 0 |-> IF n = 0 THEN {s} \ {NOTHING} ELSE Grown(d, w[n - 1])]
    OBVIOUS
  <2>2. Walks(d, s, 0, w) BY <2>1 DEF Walks
  <2> HIDE DEF w
  <2> QED BY <1>2, <1>3, <2>2
<1>4. CASE k # 0
  <2>1. k - 1 \in Nat /\ k - 1 \notin T BY <1>2, <1>4
  <2>2. PICK w : Walks(d, s, k - 1, w) BY <2>1
  <2> DEFINE v == [n \in 0 .. k |-> IF n = k THEN Grown(d, w[k - 1]) ELSE w[n]]
  <2>3. \A n \in 0 .. k - 1 :
          w[n] = IF n = 0 THEN {s} \ {NOTHING} ELSE Grown(d, w[n - 1])
    <3> DEFINE f(n) == IF n = 0 THEN {s} \ {NOTHING} ELSE Grown(d, w[n - 1])
    <3> HIDE DEF f
    <3>1. w = [n \in 0 .. k - 1 |-> f(n)] BY <2>2 DEF Walks, f
    <3>2. \A n \in 0 .. k - 1 : w[n] = f(n) BY <3>1
    <3> QED BY <3>2 DEF f
  <2>4. \A n \in 0 .. k : n # 0 => v[n - 1] = w[n - 1] BY <1>2, <1>4
  <2>5. \A n \in 0 .. k :
          v[n] = IF n = 0 THEN {s} \ {NOTHING} ELSE Grown(d, v[n - 1])
    <3> SUFFICES ASSUME NEW n \in 0 .. k
                 PROVE  v[n] = IF n = 0 THEN {s} \ {NOTHING} ELSE Grown(d, v[n - 1])
      OBVIOUS
    <3>1. CASE n = k BY <1>4, <2>4, <3>1
    <3>2. CASE n # k
      <4>1. n \in 0 .. k - 1 /\ v[n] = w[n] BY <1>2, <3>2
      <4>2. n # 0 => v[n - 1] = w[n - 1] BY <2>4
      <4> HIDE DEF v
      <4> QED BY <2>3, <4>1, <4>2
    <3> QED BY <3>1, <3>2
  <2>6. Walks(d, s, k, v)
    <3> DEFINE f(n) == IF n = 0 THEN {s} \ {NOTHING} ELSE Grown(d, v[n - 1])
    <3>1. \A n \in 0 .. k : v[n] = f(n) BY <2>5
    <3>2. v = [n \in 0 .. k |-> v[n]] OBVIOUS
    <3> HIDE DEF v, f
    <3>3. v = [n \in 0 .. k |-> f(n)] BY <3>1, <3>2
    <3> QED BY <3>3 DEF Walks, f
  <2> HIDE DEF v
  <2> QED BY <1>2, <2>6
<1> QED BY <1>3, <1>4

\* The steps of the walk.
Walked(d, s, w) ==
  /\ Chain(d, s) = w[MaxTop]
  /\ w[0] = {s} \ {NOTHING}
  /\ \A n \in Nat : n < MaxTop => w[n + 1] = Grown(d, w[n])

\* What DOLIST has met after n steps, as a function of n.
LEMMA ChainSteps ==
  ASSUME NEW d, NEW s
  PROVE  \E w : Walked(d, s, w)
<1> DEFINE w == CHOOSE v : Walks(d, s, MaxTop, v)
<1>1. Chain(d, s) = w[MaxTop] BY DEF Chain, Walks, Grown
<1>2. Walks(d, s, MaxTop, w) BY WalkExists, MaxTopAssumption
<1> HIDE DEF w
<1> DEFINE f(n) == IF n = 0 THEN {s} \ {NOTHING} ELSE Grown(d, w[n - 1])
<1>3. \A n \in 0 .. MaxTop : w[n] = f(n)
  <2> HIDE DEF f
  <2>1. w = [n \in 0 .. MaxTop |-> f(n)] BY <1>2 DEF Walks, f
  <2> QED BY <2>1
<1>4. w[0] = {s} \ {NOTHING} BY <1>3, MaxTopAssumption
<1>5. ASSUME NEW n \in Nat, n < MaxTop PROVE w[n + 1] = Grown(d, w[n])
  <2>1. n + 1 \in 0 .. MaxTop /\ n + 1 # 0 /\ (n + 1) - 1 = n BY <1>5, MaxTopAssumption
  <2> QED BY <1>3, <2>1
<1> QED BY <1>1, <1>4, <1>5 DEF Walked

\* It is in every set of objects that holds s and is closed under next.
LEMMA ChainLeast ==
  ASSUME NEW d, NEW s, NEW S, s \in S \union {NOTHING},
         \A y \in S : d.next[y] \in S \union {NOTHING}
  PROVE  Chain(d, s) \subseteq S
<1>1. PICK w : Walked(d, s, w) BY ChainSteps
<1> DEFINE T == {n \in Nat : n <= MaxTop /\ ~ w[n] \subseteq S}
<1>2. SUFFICES ASSUME T # {} PROVE FALSE BY <1>1, MaxTopAssumption DEF Walked
<1>3. PICK n \in T : \A j \in T : n <= j BY <1>2, LeastOne
<1>4. n # 0 BY <1>1, <1>3 DEF Walked
<1>5. n - 1 \in Nat /\ n - 1 < MaxTop /\ n - 1 <= MaxTop /\ n - 1 \notin T /\ (n - 1) + 1 = n
  BY <1>3, <1>4, MaxTopAssumption
<1>6. w[n - 1] \subseteq S BY <1>5, Zenon
<1>7. w[n] = Grown(d, w[n - 1]) BY <1>1, <1>5 DEF Walked
<1>8. Grown(d, w[n - 1]) \subseteq S BY <1>6 DEF Grown
<1> QED BY <1>3, <1>7, <1>8

\* It is such a set itself: a walk of MaxTop steps has seen every object that
\* can be reached.
LEMMA ChainClosed ==
  ASSUME NEW d, d.next \in [Obj -> Obj \union {NOTHING}], NEW s \in Obj \union {NOTHING}
  PROVE  /\ Chain(d, s) \subseteq Obj
         /\ s \in Chain(d, s) \union {NOTHING}
         /\ \A y \in Chain(d, s) : d.next[y] \in Chain(d, s) \union {NOTHING}
<1>0. NOTHING \notin Obj BY DEF NOTHING, Obj
<1>1. Chain(d, s) \subseteq Obj BY ChainLeast
<1>2. PICK w : Walked(d, s, w) BY ChainSteps
<1>3. ASSUME s = NOTHING PROVE Chain(d, s) = {}
  <2> DEFINE S == {}
  <2>1. s \in S \union {NOTHING} BY <1>3
  <2>2. \A y \in S : d.next[y] \in S \union {NOTHING} OBVIOUS
  <2>3. S = {} OBVIOUS
  <2> HIDE DEF S
  <2>4. Chain(d, s) \subseteq S BY <2>1, <2>2, ChainLeast
  <2> QED BY <2>3, <2>4
<1> DEFINE Good(n) == /\ w[n] \subseteq Obj /\ s \in w[n] \union {NOTHING}
                      /\ \/ Grown(d, w[n]) = w[n]
                         \/ Cardinality(w[n]) >= n + 1
           T == {n \in Nat : n <= MaxTop /\ ~ Good(n)}
<1>4. IsFiniteSet(Obj) /\ Cardinality(Obj) = MaxTop
  <2>1. 0 \in Int /\ MaxTop - 1 \in Int BY MaxTopAssumption
  <2>2. /\ IsFiniteSet(0 .. MaxTop - 1)
        /\ Cardinality(0 .. MaxTop - 1) =
             IF 0 > MaxTop - 1 THEN 0 ELSE (MaxTop - 1) - 0 + 1
    BY <2>1, FS_Interval
  <2> QED BY <2>2, MaxTopAssumption DEF Obj
<1>5. ASSUME s \in Obj, T # {} PROVE FALSE
  <2>1. PICK n \in T : \A j \in T : n <= j BY <1>5, LeastOne
  <2>2. CASE n = 0
    <3>1. w[0] = {s} BY <1>0, <1>2, <1>5 DEF Walked
    <3>2. Cardinality({s}) = 1 BY FS_Singleton
    <3> QED BY <1>5, <2>1, <2>2, <3>1, <3>2
  <2>3. CASE n # 0
    <3>1. /\ n - 1 \in Nat /\ n - 1 < MaxTop /\ n - 1 <= MaxTop
          /\ n - 1 \notin T /\ (n - 1) + 1 = n
      BY <2>1, <2>3, MaxTopAssumption
    <3>2. Good(n - 1) BY <3>1, Zenon
    <3>3. w[n] = Grown(d, w[n - 1]) BY <1>2, <3>1 DEF Walked
    <3>4. w[n] \subseteq Obj /\ s \in w[n] BY <1>5, <3>2, <3>3, <1>0 DEF Grown
    <3>5. CASE Grown(d, w[n - 1]) = w[n - 1] BY <2>1, <3>3, <3>4, <3>5
    <3>6. CASE w[n - 1] # w[n] /\ Cardinality(w[n - 1]) >= (n - 1) + 1
      <4>1. w[n - 1] \in SUBSET w[n] BY <3>3 DEF Grown
      <4>2. IsFiniteSet(w[n]) BY <1>4, <3>4, FS_Subset
      <4>3. /\ IsFiniteSet(w[n - 1]) /\ Cardinality(w[n - 1]) <= Cardinality(w[n])
            /\ Cardinality(w[n - 1]) = Cardinality(w[n]) => w[n - 1] = w[n]
        BY <4>1, <4>2, FS_Subset
      <4>4. Cardinality(w[n]) \in Nat /\ Cardinality(w[n - 1]) \in Nat
        BY <4>2, <4>3, FS_CardinalityType
      <4>5. Cardinality(w[n]) >= n + 1 BY <2>1, <3>6, <4>3, <4>4
      <4> QED BY <2>1, <3>4, <4>5
    <3> QED BY <3>2, <3>3, <3>5, <3>6
  <2> QED BY <2>2, <2>3
<1>6. ASSUME s \in Obj PROVE Good(MaxTop)
  BY <1>5, <1>6, MaxTopAssumption
<1>7. ASSUME s \in Obj PROVE Grown(d, w[MaxTop]) = w[MaxTop]
  <2>1. w[MaxTop] \in SUBSET Obj BY <1>6, <1>7
  <2>2. Cardinality(w[MaxTop]) <= MaxTop /\ Cardinality(w[MaxTop]) \in Nat
    <3>1. IsFiniteSet(w[MaxTop]) /\ Cardinality(w[MaxTop]) <= Cardinality(Obj)
      BY <1>4, <2>1, FS_Subset
    <3> QED BY <1>4, <3>1, FS_CardinalityType
  <2> QED BY <1>6, <1>7, <2>2, MaxTopAssumption
<1>8. ASSUME s \in Obj
      PROVE  /\ s \in Chain(d, s)
             /\ \A y \in Chain(d, s) : d.next[y] \in Chain(d, s) \union {NOTHING}
  BY <1>0, <1>2, <1>6, <1>7, <1>8 DEF Grown, Walked
<1> QED BY <1>1, <1>3, <1>8

\* From NOTHING there is no list to walk.
LEMMA NoChain ==
  ASSUME NEW d
  PROVE  Chain(d, NOTHING) = {}
<1> DEFINE S == {}
<1>1. S = {} OBVIOUS
<1> HIDE DEF S
<1>2. NOTHING \in S \union {NOTHING} /\ \A y \in S : d.next[y] \in S \union {NOTHING}
  BY <1>1
<1>3. Chain(d, NOTHING) \subseteq S BY <1>2, ChainLeast
<1> QED BY <1>1, <1>3

\* What the walk from the first member of a list meets are its members.
LEMMA StrungChain ==
  ASSUME NEW d, d.next \in [Obj -> Obj \union {NOTHING}], NEW on \in SUBSET Obj,
         NEW lab, NEW head, Strung(on, lab, head, d.next), NEW k \in DOMAIN head
  PROVE  /\ Chain(d, head[k]) = {x \in on : lab[x] = k}
         /\ Ends(d, head[k])
<1> DEFINE C == Chain(d, head[k])
           M == {x \in on : lab[x] = k}
           R == M \ C
<1>0. NOTHING \notin Obj BY DEF NOTHING, Obj
<1>1. head[k] \in M \union {NOTHING} /\ \A y \in M : d.next[y] \in M \union {NOTHING}
  BY DEF Strung
<1>2. C \subseteq M BY <1>1, ChainLeast
<1>3. head[k] \in Obj \union {NOTHING} BY <1>1
<1>4. /\ head[k] \in C \union {NOTHING}
      /\ \A y \in C : d.next[y] \in C \union {NOTHING}
  BY <1>3, ChainClosed
<1> HIDE DEF C
<1>5. \A x \in R : \E y \in R : d.next[y] = x
  <2> SUFFICES ASSUME NEW x \in R PROVE \E y \in R : d.next[y] = x OBVIOUS
  <2>1. x # head[k] BY <1>0, <1>4
  <2>2. PICK y \in on : d.next[y] = x BY <2>1 DEF Strung
  <2>3. lab[y] = lab[x] BY <1>0, <2>2 DEF Strung
  <2>4. y \notin C BY <1>0, <1>4, <2>2
  <2> QED BY <2>2, <2>3, <2>4
<1>6. R = {}
  <2> SUFFICES ASSUME R # {} PROVE FALSE OBVIOUS
  <2> DEFINE pred == [x \in R |-> CHOOSE y \in R : d.next[y] = x]
             P == {pred[x] : x \in R}
  <2>1. \A x \in R : pred[x] \in R /\ d.next[pred[x]] = x BY <1>5
  <2> HIDE DEF pred
  <2>2. P \in SUBSET R /\ R \in SUBSET on BY <2>1
  <2>3. PICK z \in R : d.next[z] \notin R BY <2>2 DEF Strung
  <2>4. z \notin P BY <2>1, <2>3
  <2>5. pred \in Injection(R, P)
    <3>1. pred \in [R -> P] BY DEF pred
    <3>2. \A x, y \in R : pred[x] = pred[y] => x = y BY <2>1
    <3> QED BY <3>1, <3>2 DEF Injection, IsInjective
  <2>6. IsFiniteSet(R)
    <3>1. IsFiniteSet(Obj) BY FS_Interval, MaxTopAssumption DEF Obj
    <3>2. R \in SUBSET Obj BY <2>2
    <3> QED BY <3>1, <3>2, FS_Subset
  <2>7. /\ IsFiniteSet(P) /\ Cardinality(P) <= Cardinality(R)
        /\ Cardinality(P) = Cardinality(R) => P = R
    BY <2>2, <2>6, FS_Subset
  <2>8. Cardinality(R) <= Cardinality(P) BY <2>5, <2>7, FS_Injection
  <2>9. Cardinality(P) \in Nat /\ Cardinality(R) \in Nat
    BY <2>6, <2>7, FS_CardinalityType
  <2>10. P = R BY <2>7, <2>8, <2>9
  <2> QED BY <2>4, <2>10
<1>7. C = M BY <1>2, <1>6
<1>8. head[k] # NOTHING => \E x \in M : d.next[x] = NOTHING
  <2> SUFFICES ASSUME head[k] # NOTHING PROVE \E x \in M : d.next[x] = NOTHING
    OBVIOUS
  <2>1. M \in SUBSET on /\ M # {} BY <1>1
  <2>2. PICK x \in M : d.next[x] \notin M BY <2>1 DEF Strung
  <2> QED BY <1>1, <2>2
<1> QED BY <1>7, <1>8 DEF C, Ends

-----------------------------------------------------------------------------
(* The lists of the array.                                                 *)

OrNone == Obj \union {NOTHING}
DB == [top : 2 .. MaxTop, recyclable : OrNone, typ : [Obj -> Types],
       loc : [Obj -> OrNone], contents : [Obj -> OrNone], exits : [Obj -> OrNone],
       next : [Obj -> OrNone], owner : [Obj -> OrNone],
       link : [Obj -> OrNone \union {HOME}],
       dests : [Obj -> SUBSET (Obj \union {HOME})]]

\* The free list, and the contents and the exits of each place. The contents
\* of NOTHING are what send_contents has taken out and not put back yet.
Label(list, at) == <<list, at>>
FREE   == Label("free", NOTHING)
Labels == ({"contents", "exits"} \X OrNone) \union {FREE}

Lab(d) == [x \in Obj |->
  IF d.typ[x] = "garbage" THEN FREE
  ELSE IF d.typ[x] = "exit" THEN Label("exits", d.loc[x])
  ELSE Label("contents", d.loc[x])]

\* c is the first object of those that are taken out.
Heads(d, c) == [k \in Labels |->
  IF k = FREE THEN d.recyclable
  ELSE IF k[2] = NOTHING THEN (IF k[1] = "contents" THEN c ELSE NOTHING)
  ELSE IF k[1] = "contents" THEN d.contents[k[2]] ELSE d.exits[k[2]]]

\* The objects that are on a list: all but #0 and those in D.
On(d, D) == {x \in Obj \ ({Root} \union D) : d.typ[x] # "none"}

Linked(d, D, c) == Strung(On(d, D), Lab(d), Heads(d, c), d.next)

\* The fields of an array and their types.
LEMMA DBFields ==
  ASSUME NEW d \in DB
  PROVE  /\ d.top \in 2 .. MaxTop /\ d.recyclable \in OrNone
         /\ d.typ \in [Obj -> Types] /\ d.loc \in [Obj -> OrNone]
         /\ d.contents \in [Obj -> OrNone] /\ d.exits \in [Obj -> OrNone]
         /\ d.next \in [Obj -> OrNone] /\ d.owner \in [Obj -> OrNone]
         /\ d.link \in [Obj -> OrNone \union {HOME}]
         /\ d.dests \in [Obj -> SUBSET (Obj \union {HOME})]
BY DEF DB

\* The numbers with a meaning differ, and #0 and #1 are objects.
LEMMA Numbers ==
  /\ NOTHING \notin Obj /\ HOME \notin Obj /\ NOTHING # HOME
  /\ Root \in Obj /\ Man \in Obj /\ Root # Man
  /\ NOTHING \in OrNone /\ Obj \subseteq OrNone
BY MaxTopAssumption DEF NOTHING, HOME, Obj, Root, Man, OrNone

\* Different lists have different labels.
LEMMA LabelsDiffer ==
  /\ \A at : Label("contents", at) # FREE /\ Label("exits", at) # FREE
  /\ \A at, b : /\ Label("exits", at) # Label("contents", b)
                /\ Label("contents", at) = Label("contents", b) => at = b
                /\ Label("exits", at) = Label("exits", b) => at = b
BY DEF FREE, Label

\* Where each list begins.
LEMMA HeadsAre ==
  ASSUME NEW d, NEW c
  PROVE  /\ DOMAIN Heads(d, c) = Labels
         /\ FREE \in Labels /\ Heads(d, c)[FREE] = d.recyclable
         /\ Label("contents", NOTHING) \in Labels
         /\ Heads(d, c)[Label("contents", NOTHING)] = c
         /\ Label("exits", NOTHING) \in Labels
         /\ Heads(d, c)[Label("exits", NOTHING)] = NOTHING
         /\ \A at \in Obj :
              /\ Label("contents", at) \in Labels /\ Label("exits", at) \in Labels
              /\ Heads(d, c)[Label("contents", at)] = d.contents[at]
              /\ Heads(d, c)[Label("exits", at)] = d.exits[at]
<1>1. DOMAIN Heads(d, c) = Labels BY DEF Heads
<1>2. /\ FREE \in Labels /\ Label("contents", NOTHING) \in Labels
      /\ Label("exits", NOTHING) \in Labels
      /\ \A at \in Obj : Label("contents", at) \in Labels /\ Label("exits", at) \in Labels
  BY Numbers DEF Labels, Label
<1>3. /\ Label("contents", NOTHING) # FREE /\ Label("exits", NOTHING) # FREE
      /\ \A at : Label("contents", at) # FREE /\ Label("exits", at) # FREE
  BY LabelsDiffer
<1>4. /\ Heads(d, c)[FREE] = d.recyclable
      /\ Heads(d, c)[Label("contents", NOTHING)] = c
      /\ Heads(d, c)[Label("exits", NOTHING)] = NOTHING
  BY <1>2, <1>3 DEF Heads, Label
<1>5. \A at \in Obj : /\ Heads(d, c)[Label("contents", at)] = d.contents[at]
                      /\ Heads(d, c)[Label("exits", at)] = d.exits[at]
  BY <1>2, <1>3, Numbers DEF Heads, Label
<1> QED BY <1>1, <1>2, <1>4, <1>5

\* The same, by the name of the field.
LEMMA HeadAt ==
  ASSUME NEW d, NEW c, NEW at \in Obj, NEW list \in {"contents", "exits"}
  PROVE  Label(list, at) \in Labels /\ Heads(d, c)[Label(list, at)] = d[list][at]
<1>1. /\ Label("contents", at) \in Labels /\ Label("exits", at) \in Labels
      /\ Heads(d, c)[Label("contents", at)] = d.contents[at]
      /\ Heads(d, c)[Label("exits", at)] = d.exits[at]
  BY HeadsAre
<1>2. CASE list = "contents"
  <2>1. Label(list, at) = Label("contents", at) BY <1>2
  <2>2. d[list] = d.contents BY <1>2
  <2> QED BY <1>1, <2>1, <2>2
<1>3. CASE list = "exits"
  <2>1. Label(list, at) = Label("exits", at) BY <1>3
  <2>2. d[list] = d.exits BY <1>3
  <2> QED BY <1>1, <2>1, <2>2
<1> QED BY <1>2, <1>3

\* A list that is not the free list nor that of the objects taken out is at
\* one place.
LEMMA LabelKinds ==
  ASSUME NEW k \in Labels
  PROVE  \/ k \in {FREE, Label("contents", NOTHING), Label("exits", NOTHING)}
         \/ \E at \in Obj : k \in {Label("contents", at), Label("exits", at)}
BY DEF Labels, OrNone, Label

\* What is on a list is an object; one more on no list is one less on a
\* list.
LEMMA OnFacts ==
  ASSUME NEW d, NEW D
  PROVE  /\ On(d, D) \in SUBSET Obj /\ NOTHING \notin On(d, D)
         /\ \A x : On(d, D \union {x}) = On(d, D) \ {x}
BY Numbers DEF On

\* x is taken off its list, wherever that is kept.
LEMMA TakenLinked ==
  ASSUME NEW d, NEW d2, NEW D, NEW c, NEW c2, NEW x \in On(d, D), Linked(d, D, c),
         \A y \in Obj \ {x} : d2.typ[y] = d.typ[y] /\ d2.loc[y] = d.loc[y],
         d2.recyclable = IF d.recyclable = x THEN d.next[x] ELSE d.recyclable,
         c2 = IF c = x THEN d.next[x] ELSE c,
         \A at \in Obj :
           /\ d2.contents[at] = IF d.contents[at] = x THEN d.next[x] ELSE d.contents[at]
           /\ d2.exits[at] = IF d.exits[at] = x THEN d.next[x] ELSE d.exits[at],
         \A y \in On(d, D) \ {x} :
           d2.next[y] = IF d.next[y] = x THEN d.next[x] ELSE d.next[y]
  PROVE  Linked(d2, D \union {x}, c2)
<1>1. On(d2, D \union {x}) = On(d, D) \ {x} BY DEF On
<1>2. \A y \in On(d, D) \ {x} : Lab(d2)[y] = Lab(d)[y] BY DEF Lab, On
<1>3. DOMAIN Heads(d2, c2) = DOMAIN Heads(d, c) BY HeadsAre
<1>4. ASSUME NEW l \in DOMAIN Heads(d, c)
      PROVE  Heads(d2, c2)[l] =
               IF Heads(d, c)[l] = x THEN d.next[x] ELSE Heads(d, c)[l]
  <2>1. l \in Labels BY HeadsAre
  <2>2. CASE l = FREE BY <2>2, HeadsAre
  <2>3. CASE l = Label("contents", NOTHING) BY <2>3, HeadsAre
  <2>4. CASE l = Label("exits", NOTHING)
    <3>1. NOTHING # x BY OnFacts
    <3> QED BY <2>4, <3>1, HeadsAre
  <2>5. ASSUME NEW at \in Obj
        PROVE  /\ Heads(d2, c2)[Label("contents", at)] =
                    IF Heads(d, c)[Label("contents", at)] = x THEN d.next[x]
                    ELSE Heads(d, c)[Label("contents", at)]
               /\ Heads(d2, c2)[Label("exits", at)] =
                    IF Heads(d, c)[Label("exits", at)] = x THEN d.next[x]
                    ELSE Heads(d, c)[Label("exits", at)]
    BY HeadsAre
  <2>6. CASE \E at \in Obj : l \in {Label("contents", at), Label("exits", at)}
    <3>1. PICK at \in Obj : l \in {Label("contents", at), Label("exits", at)} BY <2>6
    <3>2. CASE l = Label("contents", at) BY <2>5, <3>2
    <3>3. CASE l = Label("exits", at) BY <2>5, <3>3
    <3> QED BY <3>1, <3>2, <3>3
  <2> QED BY <2>1, <2>2, <2>3, <2>4, <2>6, LabelKinds
<1>5. NOTHING \notin On(d, D) BY OnFacts
<1> DEFINE on == On(d, D)
           lab == Lab(d)
           lab2 == Lab(d2)
           head == Heads(d, c)
           head2 == Heads(d2, c2)
<1>6. Strung(on, lab, head, d.next) BY DEF Linked
<1> HIDE DEF on, lab, lab2, head, head2
<1>7. Strung(on \ {x}, lab2, head2, d2.next)
  BY <1>2, <1>3, <1>4, <1>5, <1>6, StrungTake DEF on, lab, lab2, head, head2
<1> QED BY <1>1, <1>7 DEF Linked, on, lab2, head2

\* x is put first on the list of label k.
LEMMA PushedLinked ==
  ASSUME NEW d, NEW d2, NEW D, NEW c, NEW c2, NEW x \in Obj \ {Root},
         x \in D \/ d.typ[x] = "none", Linked(d, D, c),
         \A y \in Obj \ {x} : d2.typ[y] = d.typ[y] /\ d2.loc[y] = d.loc[y],
         d2.typ[x] # "none", NEW k \in Labels, Lab(d2)[x] = k,
         \A l \in Labels : Heads(d2, c2)[l] = IF l = k THEN x ELSE Heads(d, c)[l],
         d2.next[x] = Heads(d, c)[k],
         \A y \in On(d, D) \ {x} : d2.next[y] = d.next[y]
  PROVE  Linked(d2, D \ {x}, c2)
<1>1. x \notin On(d, D) /\ x # NOTHING BY Numbers DEF On
<1>2. On(d2, D \ {x}) = On(d, D) \union {x} BY <1>1 DEF On
<1>3. \A y \in On(d, D) : Lab(d2)[y] = Lab(d)[y] BY <1>1 DEF Lab, On
<1>4. DOMAIN Heads(d2, c2) = DOMAIN Heads(d, c) /\ DOMAIN Heads(d, c) = Labels
  BY HeadsAre
<1>5. NOTHING \notin On(d, D) BY OnFacts
<1> DEFINE on == On(d, D)
           lab == Lab(d)
           lab2 == Lab(d2)
           head == Heads(d, c)
           head2 == Heads(d2, c2)
<1>6. Strung(on, lab, head, d.next) BY DEF Linked
<1>7. \A y \in on : d2.next[y] = d.next[y] BY <1>1
<1> HIDE DEF on, lab, lab2, head, head2
<1>8. Strung(on \union {x}, lab2, head2, d2.next)
  BY SMTT(30), <1>1, <1>3, <1>4, <1>5, <1>6, <1>7, StrungPush DEF on, lab, lab2, head, head2
<1> QED BY <1>2, <1>8 DEF Linked, on, lab2, head2

\* Nothing changes that lists are made of.
LEMMA SameLinked ==
  ASSUME NEW d, NEW d2, NEW D, NEW E, NEW c, Linked(d, D, c),
         On(d2, E) = On(d, D),
         \A y \in On(d, D) : /\ (d2.typ[y] = "garbage" <=> d.typ[y] = "garbage")
                             /\ (d2.typ[y] = "exit" <=> d.typ[y] = "exit")
                             /\ d2.loc[y] = d.loc[y] /\ d2.next[y] = d.next[y],
         d2.recyclable = d.recyclable,
         \A at \in Obj : d2.contents[at] = d.contents[at] /\ d2.exits[at] = d.exits[at]
  PROVE  Linked(d2, E, c)
<1>2. \A y \in On(d, D) : Lab(d2)[y] = Lab(d)[y]
  <2> SUFFICES ASSUME NEW y \in On(d, D) PROVE Lab(d2)[y] = Lab(d)[y] OBVIOUS
  <2>1. y \in Obj \ {Root} BY DEF On
  <2>2. d2.loc[y] = d.loc[y] OBVIOUS
  <2> QED BY <2>1, <2>2 DEF Lab
<1>3. DOMAIN Heads(d2, c) = DOMAIN Heads(d, c) BY HeadsAre
<1>4. ASSUME NEW l \in DOMAIN Heads(d, c) PROVE Heads(d2, c)[l] = Heads(d, c)[l]
  <2>1. l \in Labels BY HeadsAre
  <2>2. CASE l \in {FREE, Label("contents", NOTHING), Label("exits", NOTHING)}
    BY <2>2, HeadsAre
  <2>3. ASSUME NEW at \in Obj
        PROVE  /\ Heads(d2, c)[Label("contents", at)] = Heads(d, c)[Label("contents", at)]
               /\ Heads(d2, c)[Label("exits", at)] = Heads(d, c)[Label("exits", at)]
    BY HeadsAre
  <2> QED BY <2>1, <2>2, <2>3, LabelKinds
<1> DEFINE on == On(d, D)
           lab == Lab(d)
           lab2 == Lab(d2)
           head == Heads(d, c)
           head2 == Heads(d2, c)
<1>5. Strung(on, lab, head, d.next) BY DEF Linked
<1> HIDE DEF on, lab, lab2, head, head2
<1>6. Strung(on, lab2, head2, d2.next)
  BY <1>2, <1>3, <1>4, <1>5, StrungSame DEF on, lab, lab2, head, head2
<1> QED BY <1>6 DEF Linked, on, lab2, head2

\* What is on a list, in terms of the fields of an array.
LEMMA LinkedFacts ==
  ASSUME NEW d \in DB, NEW D, NEW c, Linked(d, D, c), NEW y \in On(d, D)
  PROVE  /\ y \in Obj /\ y # Root /\ y \notin D /\ y # NOTHING
         /\ d.next[y] # NOTHING =>
              /\ d.next[y] \in On(d, D) /\ Lab(d)[d.next[y]] = Lab(d)[y]
              /\ d.next[y] # Heads(d, c)[Lab(d)[y]]
         /\ \A z \in On(d, D) : d.next[y] = d.next[z] /\ d.next[y] # NOTHING => y = z
         /\ Lab(d)[y] \in Labels
<1>1. Strung(On(d, D), Lab(d), Heads(d, c), d.next) BY DEF Linked
<1>2. DOMAIN Heads(d, c) = Labels BY HeadsAre
<1>3. y \in Obj /\ y # Root /\ y \notin D /\ y # NOTHING BY Numbers DEF On
<1> HIDE DEF Linked
<1> QED BY <1>1, <1>2, <1>3 DEF Strung

\* The label of an object tells its type and its location.
LEMMA LabelOf ==
  ASSUME NEW d, NEW D, NEW y \in On(d, D)
  PROVE  /\ Lab(d)[y] = FREE <=> d.typ[y] = "garbage"
         /\ \A at : /\ Lab(d)[y] = Label("contents", at) <=>
                         d.typ[y] \notin {"garbage", "exit"} /\ d.loc[y] = at
                    /\ Lab(d)[y] = Label("exits", at) <=>
                         d.typ[y] = "exit" /\ d.loc[y] = at
<1>1. Lab(d)[y] = IF d.typ[y] = "garbage" THEN FREE
                  ELSE IF d.typ[y] = "exit" THEN Label("exits", d.loc[y])
                  ELSE Label("contents", d.loc[y])
  BY OnFacts DEF Lab
<1>2. CASE d.typ[y] = "garbage" BY <1>1, <1>2, LabelsDiffer
<1>3. CASE d.typ[y] = "exit" BY <1>1, <1>3, LabelsDiffer
<1>4. CASE d.typ[y] \notin {"garbage", "exit"} BY <1>1, <1>4, LabelsDiffer
<1> QED BY <1>2, <1>3, <1>4

\* What the list heads are.
LEMMA LinkedHeads ==
  ASSUME NEW d \in DB, NEW D, NEW c, Linked(d, D, c)
  PROVE  /\ d.recyclable # NOTHING =>
              d.recyclable \in On(d, D) /\ d.typ[d.recyclable] = "garbage"
         /\ c # NOTHING => /\ c \in On(d, D) /\ d.loc[c] = NOTHING
                           /\ d.typ[c] \notin {"garbage", "exit"}
         /\ \A at \in Obj :
              /\ d.contents[at] # NOTHING =>
                   /\ d.contents[at] \in On(d, D) /\ d.loc[d.contents[at]] = at
                   /\ d.typ[d.contents[at]] \notin {"garbage", "exit"}
              /\ d.exits[at] # NOTHING =>
                   /\ d.exits[at] \in On(d, D) /\ d.loc[d.exits[at]] = at
                   /\ d.typ[d.exits[at]] = "exit"
<1>1. Strung(On(d, D), Lab(d), Heads(d, c), d.next) BY DEF Linked
<1>2. DOMAIN Heads(d, c) = Labels BY HeadsAre
<1>3. ASSUME NEW k \in Labels, Heads(d, c)[k] # NOTHING
      PROVE  Heads(d, c)[k] \in On(d, D) /\ Lab(d)[Heads(d, c)[k]] = k
  BY <1>1, <1>2, <1>3 DEF Strung
<1>4. ASSUME NEW y \in On(d, D)
      PROVE  /\ Lab(d)[y] = FREE => d.typ[y] = "garbage"
             /\ \A at : /\ Lab(d)[y] = Label("contents", at) =>
                             d.typ[y] \notin {"garbage", "exit"} /\ d.loc[y] = at
                        /\ Lab(d)[y] = Label("exits", at) =>
                             d.typ[y] = "exit" /\ d.loc[y] = at
  BY LabelOf
<1>7. d.recyclable # NOTHING =>
        d.recyclable \in On(d, D) /\ d.typ[d.recyclable] = "garbage"
  <2>1. FREE \in Labels /\ Heads(d, c)[FREE] = d.recyclable BY HeadsAre
  <2> QED BY <1>3, <1>4, <2>1
<1>8. c # NOTHING => /\ c \in On(d, D) /\ d.loc[c] = NOTHING
                     /\ d.typ[c] \notin {"garbage", "exit"}
  <2> DEFINE k == Label("contents", NOTHING)
  <2>1. k \in Labels /\ Heads(d, c)[k] = c BY HeadsAre
  <2>2. c # NOTHING => c \in On(d, D) /\ Lab(d)[c] = k BY <1>3, <2>1
  <2> QED BY <1>4, <2>2
<1>9. ASSUME NEW at \in Obj
      PROVE  /\ d.contents[at] # NOTHING =>
                   /\ d.contents[at] \in On(d, D) /\ d.loc[d.contents[at]] = at
                   /\ d.typ[d.contents[at]] \notin {"garbage", "exit"}
             /\ d.exits[at] # NOTHING =>
                   /\ d.exits[at] \in On(d, D) /\ d.loc[d.exits[at]] = at
                   /\ d.typ[d.exits[at]] = "exit"
  <2> DEFINE k == Label("contents", at)
             l == Label("exits", at)
  <2>1. /\ k \in Labels /\ Heads(d, c)[k] = d.contents[at]
        /\ l \in Labels /\ Heads(d, c)[l] = d.exits[at] BY HeadsAre
  <2>2. d.contents[at] # NOTHING =>
          d.contents[at] \in On(d, D) /\ Lab(d)[d.contents[at]] = k BY <1>3, <2>1
  <2>3. d.exits[at] # NOTHING =>
          d.exits[at] \in On(d, D) /\ Lab(d)[d.exits[at]] = l BY <1>3, <2>1
  <2> QED BY <1>4, <2>2, <2>3
<1> QED BY <1>7, <1>8, <1>9

\* What DOLIST walks is what says it is there.
LEMMA LinkedChains ==
  ASSUME NEW d \in DB, NEW D, NEW c, Linked(d, D, c)
  PROVE  /\ Ends(d, d.recyclable)
         /\ Chain(d, d.recyclable) = {x \in On(d, D) : d.typ[x] = "garbage"}
         /\ \A at \in Obj :
              /\ Ends(d, d.contents[at]) /\ Ends(d, d.exits[at])
              /\ Chain(d, d.contents[at]) =
                   {x \in On(d, D) : d.typ[x] \notin {"garbage", "exit"} /\ d.loc[x] = at}
              /\ Chain(d, d.exits[at]) =
                   {x \in On(d, D) : d.typ[x] = "exit" /\ d.loc[x] = at}
<1> DEFINE on == On(d, D)
           lab == Lab(d)
           head == Heads(d, c)
<1>1. Strung(on, lab, head, d.next) BY DEF Linked
<1>2. DOMAIN head = Labels BY HeadsAre
<1>3. on \in SUBSET Obj /\ d.next \in [Obj -> Obj \union {NOTHING}]
  BY OnFacts, DBFields DEF OrNone
<1>4. \A y \in on : /\ lab[y] = FREE <=> d.typ[y] = "garbage"
                    /\ \A at : /\ lab[y] = Label("contents", at) <=>
                                    d.typ[y] \notin {"garbage", "exit"} /\ d.loc[y] = at
                               /\ lab[y] = Label("exits", at) <=>
                                    d.typ[y] = "exit" /\ d.loc[y] = at
  BY LabelOf
<1> HIDE DEF on, lab, head
<1>5. ASSUME NEW k \in Labels
      PROVE  Chain(d, head[k]) = {x \in on : lab[x] = k} /\ Ends(d, head[k])
  BY <1>1, <1>2, <1>3, <1>5, StrungChain
<1>6. /\ Ends(d, d.recyclable)
      /\ Chain(d, d.recyclable) = {x \in on : d.typ[x] = "garbage"}
  <2>1. FREE \in Labels /\ head[FREE] = d.recyclable BY HeadsAre DEF head
  <2>2. {x \in on : lab[x] = FREE} = {x \in on : d.typ[x] = "garbage"} BY <1>4
  <2> QED BY <1>5, <2>1, <2>2
<1>7. ASSUME NEW at \in Obj
      PROVE  /\ Ends(d, d.contents[at]) /\ Ends(d, d.exits[at])
             /\ Chain(d, d.contents[at]) =
                  {x \in on : d.typ[x] \notin {"garbage", "exit"} /\ d.loc[x] = at}
             /\ Chain(d, d.exits[at]) =
                  {x \in on : d.typ[x] = "exit" /\ d.loc[x] = at}
  <2> DEFINE k == Label("contents", at)
             l == Label("exits", at)
  <2>1. /\ k \in Labels /\ head[k] = d.contents[at]
        /\ l \in Labels /\ head[l] = d.exits[at] BY HeadsAre DEF head
  <2>2. /\ {x \in on : lab[x] = k} =
             {x \in on : d.typ[x] \notin {"garbage", "exit"} /\ d.loc[x] = at}
        /\ {x \in on : lab[x] = l} = {x \in on : d.typ[x] = "exit" /\ d.loc[x] = at}
    BY <1>4
  <2> HIDE DEF k, l
  <2> QED BY <1>5, <2>1, <2>2
<1> QED BY <1>6, <1>7 DEF on

\* An empty list has no members.
LEMMA NoMembers ==
  ASSUME NEW d \in DB, NEW D, NEW c, Linked(d, D, c), NEW at \in Obj
  PROVE  /\ d.contents[at] = NOTHING =>
              \A x \in On(d, D) : d.typ[x] \notin {"garbage", "exit"} => d.loc[x] # at
         /\ d.exits[at] = NOTHING =>
              \A x \in On(d, D) : d.typ[x] = "exit" => d.loc[x] # at
<1> QED BY NoChain, LinkedChains

-----------------------------------------------------------------------------
(* What the operators of ObjectGraph do to the lists.                      *)

\* r is d, with x taken off (put on) the list of at: only the head of that list
\* and the next of objects differ.
Others(d, list, r) ==
  /\ r \in DB
  /\ r.top = d.top /\ r.recyclable = d.recyclable /\ r.typ = d.typ
  /\ r.loc = d.loc /\ r.owner = d.owner /\ r.link = d.link /\ r.dests = d.dests
  /\ list = "contents" => r.exits = d.exits
  /\ list = "exits" => r.contents = d.contents
Removed(d, list, at, x, r) ==
  /\ Others(d, list, r)
  /\ \A y \in Obj : r[list][y] =
       IF y = at /\ d[list][at] = x THEN d.next[x] ELSE d[list][y]
  /\ \A y \in Obj : r.next[y] =
       IF d[list][at] # x /\ y \in Chain(d, d[list][at]) /\ d.next[y] = x
       THEN d.next[x] ELSE d.next[y]
Pushed(d, list, at, x, r) ==
  /\ Others(d, list, r)
  /\ \A y \in Obj : r[list][y] = IF y = at THEN x ELSE d[list][y]
  /\ \A y \in Obj : r.next[y] = IF y = x THEN d[list][at] ELSE d.next[y]

\* remove_first
LEMMA RemoveFields ==
  ASSUME NEW d \in DB, NEW list \in {"contents", "exits"}, NEW at \in Obj,
         NEW x \in Obj
  PROVE  Removed(d, list, at, x, RemoveFrom(d, list, at, x))
<1> DEFINE c == RemoveFrom(d, list, at, x)
<1>0. /\ c \in DB
      /\ c.top = d.top /\ c.recyclable = d.recyclable /\ c.typ = d.typ
      /\ c.loc = d.loc /\ c.owner = d.owner /\ c.link = d.link /\ c.dests = d.dests
      /\ list = "contents" => c.exits = d.exits
      /\ list = "exits" => c.contents = d.contents
      /\ \A y \in Obj : c[list][y] =
           IF y = at /\ d[list][at] = x THEN d.next[x] ELSE d[list][y]
      /\ \A y \in Obj : c.next[y] =
           IF d[list][at] # x /\ y \in Chain(d, d[list][at]) /\ d.next[y] = x
           THEN d.next[x] ELSE d.next[y]
  <2>1. CASE list = "contents" /\ d[list][at] = x
    BY <2>1, DBFields DEF RemoveFrom, DB
  <2>2. CASE list = "exits" /\ d[list][at] = x
    BY <2>2, DBFields DEF RemoveFrom, DB
  <2>3. CASE d[list][at] # x
    <3> DEFINE n == [y \in Obj |-> IF y \in Chain(d, d[list][at]) /\ d.next[y] = x
                                   THEN d.next[x] ELSE d.next[y]]
    <3>1. n \in [Obj -> OrNone] BY DBFields
    <3>2. \A y \in Obj : n[y] = IF y \in Chain(d, d[list][at]) /\ d.next[y] = x
                                THEN d.next[x] ELSE d.next[y] OBVIOUS
    <3>3. c = [d EXCEPT !.next = n] BY <2>3 DEF RemoveFrom
    <3> HIDE DEF n, c
    <3> QED BY <2>3, <3>1, <3>2, <3>3, DBFields DEF DB
  <2> QED BY <2>1, <2>2, <2>3
<1> HIDE DEF c
<1>1. Removed(d, list, at, x, c) BY <1>0 DEF Removed, Others
<1> QED BY <1>1 DEF c

\* The label an object has.
LEMMA LabIs ==
  ASSUME NEW d, NEW x \in Obj, NEW at, NEW list,
         d.typ[x] # "garbage", list = IF d.typ[x] = "exit" THEN "exits" ELSE "contents",
         d.loc[x] = at
  PROVE  Lab(d)[x] = Label(list, at)
BY DEF Lab

\* remove_first takes an object off the list it is on.
LEMMA RemoveLinked ==
  ASSUME NEW d \in DB, NEW D, NEW c, Linked(d, D, c), NEW x \in On(d, D),
         NEW list, list = IF d.typ[x] = "exit" THEN "exits" ELSE "contents",
         d.typ[x] # "garbage", NEW at \in Obj, d.loc[x] = at
  PROVE  Linked(RemoveFrom(d, list, at, x), D \union {x}, c)
<1> SUFFICES ASSUME NEW r, r = RemoveFrom(d, list, at, x)
             PROVE  Linked(r, D \union {x}, c)
  OBVIOUS
<1>0. x \in Obj /\ list \in {"contents", "exits"} BY LinkedFacts
<1>1. /\ r \in DB /\ r.recyclable = d.recyclable /\ r.typ = d.typ /\ r.loc = d.loc
      /\ list = "contents" => r.exits = d.exits
      /\ list = "exits" => r.contents = d.contents
      /\ \A y \in Obj : r[list][y] =
           IF y = at /\ d[list][at] = x THEN d.next[x] ELSE d[list][y]
      /\ \A y \in Obj : r.next[y] =
           IF d[list][at] # x /\ y \in Chain(d, d[list][at]) /\ d.next[y] = x
           THEN d.next[x] ELSE d.next[y]
  <2>1. Removed(d, list, at, x, r) BY <1>0, RemoveFields
  <2> QED BY <2>1 DEF Removed, Others
<1>2. d.recyclable # x BY LinkedHeads, LinkedFacts
<1>3. c # x BY LinkedHeads, LinkedFacts, Numbers
<1>4. \A b \in Obj :
        /\ r.contents[b] = IF d.contents[b] = x THEN d.next[x] ELSE d.contents[b]
        /\ r.exits[b] = IF d.exits[b] = x THEN d.next[x] ELSE d.exits[b]
  <2> SUFFICES ASSUME NEW b \in Obj
               PROVE  /\ r.contents[b] = IF d.contents[b] = x THEN d.next[x] ELSE d.contents[b]
                      /\ r.exits[b] = IF d.exits[b] = x THEN d.next[x] ELSE d.exits[b]
    OBVIOUS
  <2>0. x # NOTHING BY LinkedFacts
  <2>1. /\ d.contents[b] = x => list = "contents" /\ b = at
        /\ d.exits[b] = x => list = "exits" /\ b = at
    BY <2>0, LinkedHeads
  <2>2. CASE list = "contents" BY <1>1, <2>1, <2>2
  <2>3. CASE list = "exits" BY <1>1, <2>1, <2>3
  <2> QED BY <1>0, <2>2, <2>3
<1>5. \A y \in On(d, D) \ {x} :
        r.next[y] = IF d.next[y] = x THEN d.next[x] ELSE d.next[y]
  <2> SUFFICES ASSUME NEW y \in On(d, D) \ {x}, d.next[y] = x
               PROVE  d[list][at] # x /\ y \in Chain(d, d[list][at])
    BY <1>1, LinkedFacts
  <2>0. y \in On(d, D) /\ x # NOTHING /\ d.next[y] # NOTHING BY LinkedFacts
  <2>1. Lab(d)[x] = Lab(d)[y] /\ x # Heads(d, c)[Lab(d)[y]] BY <2>0, LinkedFacts
  <2>2. Lab(d)[x] = Label(list, at) BY <1>0, LabIs
  <2>3. Heads(d, c)[Label(list, at)] = d[list][at]
    <3>1. \A l \in {"contents", "exits"} : Heads(d, c)[Label(l, at)] = d[l][at]
      BY HeadAt
    <3> QED BY <1>0, <3>1
  <2>4. d[list][at] # x BY <2>1, <2>2, <2>3
  <2>5. d.typ[y] # "garbage" /\ d.loc[y] = at /\ (d.typ[y] = "exit" <=> d.typ[x] = "exit")
    <3>1. y \in On(d, D) OBVIOUS
    <3>2. CASE list = "contents"
      <4>1. Lab(d)[y] = Label("contents", at) BY <2>1, <2>2, <3>2
      <4> QED BY <3>1, <3>2, <4>1, LabelOf
    <3>3. CASE list = "exits"
      <4>1. Lab(d)[y] = Label("exits", at) BY <2>1, <2>2, <3>3
      <4> QED BY <3>1, <3>3, <4>1, LabelOf
    <3> QED BY <1>0, <3>2, <3>3
  <2>6. y \in Chain(d, d[list][at])
    <3>1. CASE list = "contents" BY <2>5, <3>1, LinkedChains
    <3>2. CASE list = "exits" BY <2>5, <3>2, LinkedChains
    <3> QED BY <1>0, <3>1, <3>2
  <2> QED BY <2>4, <2>6
<1>6. /\ r.recyclable = IF d.recyclable = x THEN d.next[x] ELSE d.recyclable
      /\ c = IF c = x THEN d.next[x] ELSE c
      /\ \A y \in Obj \ {x} : r.typ[y] = d.typ[y] /\ r.loc[y] = d.loc[y]
  BY <1>1, <1>2, <1>3
<1> QED BY <1>4, <1>5, <1>6, TakenLinked

\* and leaves the lists alone when the object is on none.
LEMMA RemoveMissed ==
  ASSUME NEW d \in DB, NEW D, NEW c, Linked(d, D, c), NEW x \in Obj \ On(d, D),
         NEW list \in {"contents", "exits"}, NEW at \in Obj
  PROVE  Linked(RemoveFrom(d, list, at, x), D, c)
<1> SUFFICES ASSUME NEW r, r = RemoveFrom(d, list, at, x)
             PROVE  Linked(r, D, c)
  OBVIOUS
<1>1. /\ r \in DB /\ r.recyclable = d.recyclable /\ r.typ = d.typ /\ r.loc = d.loc
      /\ list = "contents" => r.exits = d.exits
      /\ list = "exits" => r.contents = d.contents
      /\ \A y \in Obj : r[list][y] =
           IF y = at /\ d[list][at] = x THEN d.next[x] ELSE d[list][y]
      /\ \A y \in Obj : r.next[y] =
           IF d[list][at] # x /\ y \in Chain(d, d[list][at]) /\ d.next[y] = x
           THEN d.next[x] ELSE d.next[y]
  <2>1. Removed(d, list, at, x, r) BY RemoveFields
  <2> QED BY <2>1 DEF Removed, Others
<1>2. x # NOTHING BY Numbers
<1>3. \A b \in Obj : d.contents[b] # x /\ d.exits[b] # x BY <1>2, LinkedHeads
<1>4. \A b \in Obj : r.contents[b] = d.contents[b] /\ r.exits[b] = d.exits[b]
  <2>1. CASE list = "contents" BY <1>1, <1>3, <2>1
  <2>2. CASE list = "exits" BY <1>1, <1>3, <2>2
  <2> QED BY <2>1, <2>2
<1>5. \A y \in On(d, D) : d.next[y] # x BY <1>2, LinkedFacts
<1>6. \A y \in On(d, D) : r.next[y] = d.next[y] BY <1>1, <1>5, LinkedFacts
<1>7. On(r, D) = On(d, D) BY <1>1 DEF On
<1>8. Linked(r, D, c) BY <1>1, <1>4, <1>6, <1>7, SameLinked
<1> QED BY <1>8

\* PUSH
LEMMA PushFields ==
  ASSUME NEW d \in DB, NEW list \in {"contents", "exits"}, NEW at \in Obj,
         NEW x \in Obj
  PROVE  Pushed(d, list, at, x, PushOn(d, list, at, x))
<1> DEFINE c == PushOn(d, list, at, x)
<1>0. /\ c \in DB
      /\ c.top = d.top /\ c.recyclable = d.recyclable /\ c.typ = d.typ
      /\ c.loc = d.loc /\ c.owner = d.owner /\ c.link = d.link /\ c.dests = d.dests
      /\ list = "contents" => c.exits = d.exits
      /\ list = "exits" => c.contents = d.contents
      /\ \A y \in Obj : c[list][y] = IF y = at THEN x ELSE d[list][y]
      /\ \A y \in Obj : c.next[y] = IF y = x THEN d[list][at] ELSE d.next[y]
  <2>0. x \in OrNone BY Numbers
  <2>1. CASE list = "contents" BY <2>0, <2>1, DBFields DEF PushOn, DB
  <2>2. CASE list = "exits" BY <2>0, <2>2, DBFields DEF PushOn, DB
  <2> QED BY <2>1, <2>2
<1> HIDE DEF c
<1>1. Pushed(d, list, at, x, c) BY <1>0 DEF Pushed, Others
<1> QED BY <1>1 DEF c

\* puts an object on a list.
LEMMA PushLinked ==
  ASSUME NEW d \in DB, NEW D, NEW c, Linked(d, D, c), NEW x \in Obj \ {Root}, x \in D,
         NEW list, list = IF d.typ[x] = "exit" THEN "exits" ELSE "contents",
         d.typ[x] \notin {"garbage", "none"}, NEW at \in Obj, d.loc[x] = at
  PROVE  Linked(PushOn(d, list, at, x), D \ {x}, c)
<1> SUFFICES ASSUME NEW r, r = PushOn(d, list, at, x),
                    NEW k, k = Label(list, at)
             PROVE  Linked(r, D \ {x}, c)
  OBVIOUS
<1>0. list \in {"contents", "exits"} OBVIOUS
<1>1. /\ r \in DB /\ r.recyclable = d.recyclable /\ r.typ = d.typ /\ r.loc = d.loc
      /\ list = "contents" => r.exits = d.exits
      /\ list = "exits" => r.contents = d.contents
      /\ \A y \in Obj : r[list][y] = IF y = at THEN x ELSE d[list][y]
      /\ \A y \in Obj : r.next[y] = IF y = x THEN d[list][at] ELSE d.next[y]
  <2>1. Pushed(d, list, at, x, r) BY <1>0, PushFields
  <2> QED BY <2>1 DEF Pushed, Others
<1>2. Lab(r)[x] = k
  <2> QED BY <1>1, LabIs
<1>3. k \in Labels /\ Heads(d, c)[k] = d[list][at]
  <2>1. \A l \in {"contents", "exits"} :
          Label(l, at) \in Labels /\ Heads(d, c)[Label(l, at)] = d[l][at]
    BY HeadAt
  <2> QED BY <1>0, <2>1
<1>4. ASSUME NEW l \in Labels
      PROVE  Heads(r, c)[l] = IF l = k THEN x ELSE Heads(d, c)[l]
  <2>0. /\ k # FREE
        /\ \A b : /\ k = Label("contents", b) <=> list = "contents" /\ b = at
                  /\ k = Label("exits", b) <=> list = "exits" /\ b = at
    <3>1. CASE list = "contents" BY <3>1, LabelsDiffer
    <3>2. CASE list = "exits" BY <3>2, LabelsDiffer
    <3> QED BY <1>0, <3>1, <3>2
  <2>1. CASE l = FREE
    <3>1. FREE # k BY <2>0
    <3> QED BY <1>1, <2>1, <3>1, HeadsAre
  <2>2. CASE l = Label("contents", NOTHING) BY <2>0, <2>2, HeadsAre, Numbers
  <2>3. CASE l = Label("exits", NOTHING) BY <2>0, <2>3, HeadsAre, Numbers
  <2>4. CASE \E b \in Obj : l \in {Label("contents", b), Label("exits", b)}
    <3>1. PICK b \in Obj : l \in {Label("contents", b), Label("exits", b)} BY <2>4
    <3>2. CASE l = Label("contents", b)
      <4>0. ASSUME NEW e PROVE Heads(e, c)[Label("contents", b)] = e.contents[b]
        BY HeadsAre
      <4>1. Heads(r, c)[l] = r.contents[b] /\ Heads(d, c)[l] = d.contents[b]
        BY <3>2, <4>0
      <4>2. CASE list = "contents" BY <1>1, <2>0, <3>2, <4>1, <4>2
      <4>3. CASE list = "exits" BY <1>1, <2>0, <3>2, <4>1, <4>3
      <4> QED BY <1>0, <4>2, <4>3
    <3>3. CASE l = Label("exits", b)
      <4>0. ASSUME NEW e PROVE Heads(e, c)[Label("exits", b)] = e.exits[b]
        BY HeadsAre
      <4>1. Heads(r, c)[l] = r.exits[b] /\ Heads(d, c)[l] = d.exits[b]
        BY <3>3, <4>0
      <4>2. CASE list = "contents" BY <1>1, <2>0, <3>3, <4>1, <4>2
      <4>3. CASE list = "exits" BY <1>1, <2>0, <3>3, <4>1, <4>3
      <4> QED BY <1>0, <4>2, <4>3
    <3> QED BY <3>1, <3>2, <3>3
  <2> QED BY <2>1, <2>2, <2>3, <2>4, LabelKinds
<1>5. r.next[x] = Heads(d, c)[k] BY <1>1, <1>3
<1>6. \A y \in On(d, D) \ {x} : r.next[y] = d.next[y] BY <1>1, LinkedFacts
<1>7. Linked(r, D \ {x}, c) BY SMTT(30), <1>1, <1>2, <1>3, <1>4, <1>5, <1>6, PushedLinked
<1> QED BY <1>7

\* The fields of every object but x are the same.
SameBut(d, r, x) ==
  /\ r \in DB
  /\ \A y \in Obj \ {x} :
       /\ r.typ[y] = d.typ[y] /\ r.loc[y] = d.loc[y]
       /\ r.contents[y] = d.contents[y] /\ r.exits[y] = d.exits[y]
       /\ r.next[y] = d.next[y] /\ r.owner[y] = d.owner[y]
       /\ r.link[y] = d.link[y] /\ r.dests[y] = d.dests[y]

\* new_object: r has the new object x.
Made(d, x, t, at, o, l, r) ==
  /\ SameBut(d, r, x)
  /\ r.top = NewTop(d)
  /\ r.recyclable = IF d.recyclable # NOTHING THEN d.next[x] ELSE NOTHING
  /\ r.typ[x] = t /\ r.loc[x] = at /\ r.link[x] = l
  /\ r.contents[x] = NOTHING /\ r.exits[x] = NOTHING
  /\ r.owner[x] = IF t = "player" THEN x ELSE o
  /\ r.dests[x] = {}

\* What new_object and its caller have filled in.
LEMMA NewFields ==
  ASSUME NEW d \in DB, NEW x \in Obj, x = NewRef(d), NewTop(d) \in 2 .. MaxTop,
         NEW t \in Types, NEW at \in OrNone, NEW o \in OrNone,
         NEW l \in OrNone \union {HOME}
  PROVE  Made(d, x, t, at, o, l, NewObject(d, t, at, o, l))
<1> DEFINE r == NewObject(d, t, at, o, l)
<1>1. NewObject(d, t, at, o, l) =
        [d EXCEPT !.recyclable = IF @ # NOTHING THEN d.next[x] ELSE @,
                  !.top        = NewTop(d),
                  !.typ        = [@ EXCEPT ![x] = t],
                  !.loc        = [@ EXCEPT ![x] = at],
                  !.contents   = [@ EXCEPT ![x] = NOTHING],
                  !.exits      = [@ EXCEPT ![x] = NOTHING],
                  !.next       = [@ EXCEPT ![x] = NOTHING],
                  !.owner      = [@ EXCEPT ![x] = IF t = "player" THEN x ELSE o],
                  !.link       = [@ EXCEPT ![x] = l],
                  !.dests      = [@ EXCEPT ![x] = {}]]
  BY DEF NewObject
<1>2. /\ r.recyclable = IF d.recyclable # NOTHING THEN d.next[x] ELSE NOTHING
      /\ r.top = NewTop(d)
      /\ r.typ = [d.typ EXCEPT ![x] = t] /\ r.loc = [d.loc EXCEPT ![x] = at]
      /\ r.contents = [d.contents EXCEPT ![x] = NOTHING]
      /\ r.exits = [d.exits EXCEPT ![x] = NOTHING]
      /\ r.next = [d.next EXCEPT ![x] = NOTHING]
      /\ r.owner = [d.owner EXCEPT ![x] = IF t = "player" THEN x ELSE o]
      /\ r.link = [d.link EXCEPT ![x] = l]
      /\ r.dests = [d.dests EXCEPT ![x] = {}]
  BY <1>1 DEF DB
<1>3. DOMAIN r = DOMAIN d BY <1>1
<1>4. r = [top |-> r.top, recyclable |-> r.recyclable, typ |-> r.typ, loc |-> r.loc,
           contents |-> r.contents, exits |-> r.exits, next |-> r.next,
           owner |-> r.owner, link |-> r.link, dests |-> r.dests]
  BY <1>1 DEF DB
<1> HIDE DEF r
<1>5. x \in OrNone /\ NOTHING \in OrNone BY Numbers
<1>6. r \in DB
  <2>1. /\ r.recyclable \in OrNone /\ r.top \in 2 .. MaxTop
        /\ r.typ \in [Obj -> Types] /\ r.loc \in [Obj -> OrNone]
    BY <1>2, <1>5, DBFields
  <2>2. r.contents \in [Obj -> OrNone] /\ r.exits \in [Obj -> OrNone]
        /\ r.next \in [Obj -> OrNone] /\ r.owner \in [Obj -> OrNone]
    BY <1>2, <1>5, DBFields
  <2>3. r.link \in [Obj -> OrNone \union {HOME}]
        /\ r.dests \in [Obj -> SUBSET (Obj \union {HOME})]
    BY <1>2, <1>5, DBFields
  <2> QED BY <1>4, <2>1, <2>2, <2>3 DEF DB
<1>7. Made(d, x, t, at, o, l, r) BY <1>2, <1>6, DBFields DEF Made, SameBut
<1> QED BY <1>7 DEF r

\* What new_object hands out is on no list.
LEMMA NewLinked ==
  ASSUME NEW d \in DB, NEW D, NEW c, Linked(d, D, c), NEW x \in Obj \ {Root},
         x = NewRef(d), x \notin D, d.contents[x] = NOTHING, d.exits[x] = NOTHING,
         d.recyclable = NOTHING => d.typ[x] = "none",
         NEW t, t # "none", NEW at, NEW o, NEW l, NEW r, Made(d, x, t, at, o, l, r)
  PROVE  Linked(r, D \union {x}, c)
<1>1. /\ \A y \in Obj \ {x} : /\ r.typ[y] = d.typ[y] /\ r.loc[y] = d.loc[y]
                              /\ r.next[y] = d.next[y]
      /\ r.recyclable = IF d.recyclable # NOTHING THEN d.next[x] ELSE NOTHING
      /\ \A y \in Obj : r.contents[y] = d.contents[y] /\ r.exits[y] = d.exits[y]
  BY DEF Made, SameBut
<1>2. CASE d.recyclable = NOTHING
  <2>1. On(r, D \union {x}) = On(d, D) /\ x \notin On(d, D) BY <1>1, <1>2 DEF On
  <2>2. \A y \in On(d, D) : y \in Obj \ {x} BY <2>1, OnFacts
  <2> QED BY <1>1, <1>2, <2>1, <2>2, SameLinked
<1>3. CASE d.recyclable # NOTHING
  <2>1. d.recyclable = x BY <1>3 DEF NewRef
  <2>2. x \in On(d, D) /\ d.typ[x] = "garbage" BY <1>3, <2>1, LinkedHeads
  <2>3. c # x BY <2>2, LinkedHeads, Numbers
  <2>4. \A y \in Obj : d.contents[y] # x /\ d.exits[y] # x
    BY <2>2, LinkedHeads, Numbers
  <2>5. \A y \in On(d, D) : d.next[y] # x
    <3>1. Lab(d)[x] = FREE BY <2>2, LabelOf
    <3>2. Heads(d, c)[FREE] = x BY <2>1, HeadsAre
    <3> QED BY <3>1, <3>2, LinkedFacts, Numbers
  <2>6. /\ r.recyclable = IF d.recyclable = x THEN d.next[x] ELSE d.recyclable
        /\ c = IF c = x THEN d.next[x] ELSE c
        /\ \A at2 \in Obj :
           /\ r.contents[at2] = IF d.contents[at2] = x THEN d.next[x] ELSE d.contents[at2]
           /\ r.exits[at2] = IF d.exits[at2] = x THEN d.next[x] ELSE d.exits[at2]
        /\ \A y \in On(d, D) \ {x} :
           r.next[y] = IF d.next[y] = x THEN d.next[x] ELSE d.next[y]
    BY <1>1, <1>3, <2>1, <2>3, <2>4, <2>5, OnFacts
  <2> QED BY <1>1, <2>2, <2>6, TakenLinked
<1> QED BY <1>2, <1>3

\* db_free_object: x is garbage in r.
Gone(d, x, r) ==
  /\ SameBut(d, r, x)
  /\ r.top = d.top /\ r.recyclable = x
  /\ r.typ[x] = "garbage" /\ r.loc[x] = NOTHING
  /\ r.contents[x] = NOTHING /\ r.exits[x] = NOTHING
  /\ r.next[x] = d.recyclable /\ r.dests[x] = {}

\* What db_free_object and db_clear_object leave.
LEMMA FreeFields ==
  ASSUME NEW d \in DB, NEW x \in Obj
  PROVE  Gone(d, x, FreeObject(d, x))
<1> DEFINE r == FreeObject(d, x)
<1>1. FreeObject(d, x) =
        [d EXCEPT !.recyclable = x,
                  !.typ        = [@ EXCEPT ![x] = "garbage"],
                  !.loc        = [@ EXCEPT ![x] = NOTHING],
                  !.contents   = [@ EXCEPT ![x] = NOTHING],
                  !.exits      = [@ EXCEPT ![x] = NOTHING],
                  !.next       = [@ EXCEPT ![x] = d.recyclable],
                  !.owner      = [@ EXCEPT ![x] = NOTHING],
                  !.link       = [@ EXCEPT ![x] = 0],
                  !.dests      = [@ EXCEPT ![x] = {}]]
  BY DEF FreeObject, Freed
<1>2. /\ r.recyclable = x /\ r.top = d.top
      /\ r.typ = [d.typ EXCEPT ![x] = "garbage"] /\ r.loc = [d.loc EXCEPT ![x] = NOTHING]
      /\ r.contents = [d.contents EXCEPT ![x] = NOTHING]
      /\ r.exits = [d.exits EXCEPT ![x] = NOTHING]
      /\ r.next = [d.next EXCEPT ![x] = d.recyclable]
      /\ r.owner = [d.owner EXCEPT ![x] = NOTHING]
      /\ r.link = [d.link EXCEPT ![x] = 0]
      /\ r.dests = [d.dests EXCEPT ![x] = {}]
  BY <1>1 DEF DB
<1>4. r = [top |-> r.top, recyclable |-> r.recyclable, typ |-> r.typ, loc |-> r.loc,
           contents |-> r.contents, exits |-> r.exits, next |-> r.next,
           owner |-> r.owner, link |-> r.link, dests |-> r.dests]
  BY <1>1 DEF DB
<1> HIDE DEF r
<1>5. x \in OrNone /\ NOTHING \in OrNone /\ 0 \in OrNone BY Numbers DEF Root
<1>6. r \in DB
  <2>1. /\ r.recyclable \in OrNone /\ r.top \in 2 .. MaxTop
        /\ r.typ \in [Obj -> Types] /\ r.loc \in [Obj -> OrNone]
    BY <1>2, <1>5, DBFields DEF Types
  <2>2. r.contents \in [Obj -> OrNone] /\ r.exits \in [Obj -> OrNone]
        /\ r.next \in [Obj -> OrNone] /\ r.owner \in [Obj -> OrNone]
    BY <1>2, <1>5, DBFields
  <2>3. r.link \in [Obj -> OrNone \union {HOME}]
        /\ r.dests \in [Obj -> SUBSET (Obj \union {HOME})]
    BY <1>2, <1>5, DBFields
  <2> QED BY <1>4, <2>1, <2>2, <2>3 DEF DB
<1>7. Gone(d, x, r) BY <1>2, <1>6, DBFields DEF Gone, SameBut
<1> QED BY <1>7 DEF r

\* An object that is on no list and heads none goes to the free list.
LEMMA FreeLinked ==
  ASSUME NEW d \in DB, NEW D, NEW c, Linked(d, D, c), NEW x \in Obj \ {Root}, x \in D,
         d.contents[x] = NOTHING, d.exits[x] = NOTHING, NEW r, Gone(d, x, r)
  PROVE  Linked(r, D \ {x}, c)
<1>1. /\ \A y \in Obj \ {x} : /\ r.typ[y] = d.typ[y] /\ r.loc[y] = d.loc[y]
                              /\ r.next[y] = d.next[y]
      /\ r.recyclable = x /\ r.next[x] = d.recyclable /\ r.typ[x] = "garbage"
      /\ \A y \in Obj : r.contents[y] = d.contents[y] /\ r.exits[y] = d.exits[y]
  BY DEF Gone, SameBut
<1>2. Lab(r)[x] = FREE BY <1>1 DEF Lab
<1>3. ASSUME NEW l \in Labels
      PROVE  Heads(r, c)[l] = IF l = FREE THEN x ELSE Heads(d, c)[l]
  <2>1. CASE l = FREE BY <1>1, <2>1, HeadsAre
  <2>2. CASE l = Label("contents", NOTHING) BY <2>2, HeadsAre, LabelsDiffer
  <2>3. CASE l = Label("exits", NOTHING) BY <2>3, HeadsAre, LabelsDiffer
  <2>4. CASE \E b \in Obj : l \in {Label("contents", b), Label("exits", b)}
    <3>1. PICK b \in Obj : l \in {Label("contents", b), Label("exits", b)} BY <2>4
    <3>2. CASE l = Label("contents", b) BY <1>1, <3>2, HeadsAre, LabelsDiffer
    <3>3. CASE l = Label("exits", b) BY <1>1, <3>3, HeadsAre, LabelsDiffer
    <3> QED BY <3>1, <3>2, <3>3
  <2> QED BY <2>1, <2>2, <2>3, <2>4, LabelKinds
<1>4. r.next[x] = Heads(d, c)[FREE] /\ FREE \in Labels BY <1>1, HeadsAre
<1>5. \A y \in On(d, D) \ {x} : r.next[y] = d.next[y] BY <1>1, OnFacts
<1> QED BY <1>1, <1>2, <1>3, <1>4, <1>5, PushedLinked

\* The pass of recycle over the database, field by field.
Scanned(d, x, r) ==
  /\ r \in DB
  /\ r.top = d.top /\ r.recyclable = d.recyclable /\ r.typ = d.typ /\ r.loc = d.loc
  /\ \A y \in Obj :
       /\ r.next[y] = IF d.typ[y] # "none" /\ d.next[y] = x THEN d.next[x] ELSE d.next[y]
       /\ r.contents[y] = IF d.typ[y] # "none" /\ d.contents[y] = x
                          THEN d.next[x] ELSE d.contents[y]
       /\ r.exits[y] = IF d.typ[y] \in {"room", "thing", "player"} /\ d.exits[y] = x
                       THEN d.next[x] ELSE d.exits[y]
       /\ r.owner[y] = IF d.typ[y] \in {"room", "thing", "exit", "program"} /\ d.owner[y] = x
                       THEN Man ELSE d.owner[y]
       /\ r.dests[y] = IF d.typ[y] = "exit" THEN d.dests[y] \ {x} ELSE d.dests[y]
       /\ d.link[y] # x => r.link[y] = d.link[y]
       /\ d.link[y] = x =>
            /\ d.typ[y] = "room" => r.link[y] = NOTHING
            /\ d.typ[y] = "player" => r.link[y] = Root
            /\ d.typ[y] = "thing" =>
                 r.link[y] = IF d.link[d.owner[y]] = x THEN Root ELSE d.link[d.owner[y]]

\* What the pass of recycle() over all objects has changed.
LEMMA ScanFields ==
  ASSUME NEW d \in DB, NEW x \in Obj, \A y \in Of(d, "thing") : d.owner[y] \in Obj
  PROVE  Scanned(d, x, Scan(d, x))
<1> DEFINE r == Scan(d, x)
           new(y) == IF d.link[y] # x THEN d.link[y]
                     ELSE CASE d.typ[y] = "room" -> NOTHING
                            [] d.typ[y] = "thing" ->
                                 IF d.link[d.owner[y]] = x THEN Root ELSE d.link[d.owner[y]]
                            [] d.typ[y] = "player" -> Root
                            [] OTHER -> d.link[y]
           lk == [y \in Obj |-> new(y)]
           ex == [y \in Obj |-> IF d.typ[y] \in {"room", "thing", "player"} /\ d.exits[y] = x
                                THEN d.next[x] ELSE d.exits[y]]
           de == [y \in Obj |-> IF d.typ[y] = "exit" THEN d.dests[y] \ {x} ELSE d.dests[y]]
           ow == [y \in Obj |-> IF d.typ[y] \in {"room", "thing", "exit", "program"} /\ d.owner[y] = x
                                THEN Man ELSE d.owner[y]]
           co == [y \in Obj |-> IF d.typ[y] # "none" /\ d.contents[y] = x
                                THEN d.next[x] ELSE d.contents[y]]
           ne == [y \in Obj |-> IF d.typ[y] # "none" /\ d.next[y] = x
                                THEN d.next[x] ELSE d.next[y]]
<1>1. r = [d EXCEPT !.link = lk, !.exits = ex, !.dests = de, !.owner = ow,
                    !.contents = co, !.next = ne]
  <2>1. Rehomed(d, x) = lk BY DEF Rehomed
  <2>2. ex = [y \in Obj |-> IF d.typ[y] \in {"room", "thing", "player"}
                            THEN IF d.typ[y] # "none" /\ d["exits"][y] = x
                                 THEN d.next[x] ELSE d["exits"][y]
                            ELSE d.exits[y]]
    OBVIOUS
  <2> HIDE DEF lk
  <2> QED BY <2>1, <2>2 DEF Scan
<1>2. \A y \in Obj : new(y) \in OrNone \union {HOME}
  <2> SUFFICES ASSUME NEW y \in Obj PROVE new(y) \in OrNone \union {HOME} OBVIOUS
  <2>1. d.typ[y] = "thing" => d.owner[y] \in Obj BY DEF Of
  <2>2. NOTHING \in OrNone /\ Root \in OrNone BY Numbers
  <2> QED BY <2>1, <2>2, DBFields
<1>3. \A y \in Obj :
        /\ d.link[y] # x => new(y) = d.link[y]
        /\ d.link[y] = x =>
            /\ d.typ[y] = "room" => new(y) = NOTHING
            /\ d.typ[y] = "player" => new(y) = Root
            /\ d.typ[y] = "thing" =>
                 new(y) = IF d.link[d.owner[y]] = x THEN Root ELSE d.link[d.owner[y]]
  OBVIOUS
<1> HIDE DEF new
<1>4. lk \in [Obj -> OrNone \union {HOME}] BY <1>2
<1>5. ex \in [Obj -> OrNone] /\ co \in [Obj -> OrNone] /\ ne \in [Obj -> OrNone]
  BY DBFields
<1>6. de \in [Obj -> SUBSET (Obj \union {HOME})]
  <2> SUFFICES ASSUME NEW y \in Obj PROVE de[y] \in SUBSET (Obj \union {HOME})
    OBVIOUS
  <2>1. d.dests[y] \in SUBSET (Obj \union {HOME}) BY DBFields
  <2> QED BY <2>1
<1>7. ow \in [Obj -> OrNone]
  <2>1. Man \in OrNone BY Numbers
  <2> QED BY <2>1, DBFields
<1>8. \A y \in Obj :
        /\ lk[y] = new(y)
        /\ ne[y] = IF d.typ[y] # "none" /\ d.next[y] = x THEN d.next[x] ELSE d.next[y]
        /\ co[y] = IF d.typ[y] # "none" /\ d.contents[y] = x
                   THEN d.next[x] ELSE d.contents[y]
        /\ ex[y] = IF d.typ[y] \in {"room", "thing", "player"} /\ d.exits[y] = x
                   THEN d.next[x] ELSE d.exits[y]
        /\ ow[y] = IF d.typ[y] \in {"room", "thing", "exit", "program"} /\ d.owner[y] = x
                   THEN Man ELSE d.owner[y]
        /\ de[y] = IF d.typ[y] = "exit" THEN d.dests[y] \ {x} ELSE d.dests[y]
  OBVIOUS
<1> HIDE DEF r, lk, ex, de, ow, co, ne
<1>9. /\ r.top = d.top /\ r.recyclable = d.recyclable /\ r.typ = d.typ /\ r.loc = d.loc
      /\ r.link = lk /\ r.exits = ex /\ r.dests = de /\ r.owner = ow
      /\ r.contents = co /\ r.next = ne
  BY <1>1 DEF DB
<1>10. r \in DB BY <1>1, <1>4, <1>5, <1>6, <1>7 DEF DB
<1>11. Scanned(d, x, r)
  <2>1. ASSUME NEW y \in Obj
        PROVE  /\ r.next[y] = IF d.typ[y] # "none" /\ d.next[y] = x THEN d.next[x] ELSE d.next[y]
               /\ r.contents[y] = IF d.typ[y] # "none" /\ d.contents[y] = x
                                  THEN d.next[x] ELSE d.contents[y]
               /\ r.exits[y] = IF d.typ[y] \in {"room", "thing", "player"} /\ d.exits[y] = x
                               THEN d.next[x] ELSE d.exits[y]
               /\ r.owner[y] = IF d.typ[y] \in {"room", "thing", "exit", "program"} /\ d.owner[y] = x
                               THEN Man ELSE d.owner[y]
               /\ r.dests[y] = IF d.typ[y] = "exit" THEN d.dests[y] \ {x} ELSE d.dests[y]
               /\ r.link[y] = new(y)
    BY <1>8, <1>9
  <2> QED BY <1>3, <1>9, <1>10, <2>1 DEF Scanned
<1> QED BY <1>11 DEF r

\* An object that is on a list leaves it in the pass, ...
LEMMA ScanTakes ==
  ASSUME NEW d \in DB, NEW D, Linked(d, D, NOTHING), NEW x \in On(d, D),
         d.typ[x] # "garbage", d.loc[x] \in Obj,
         d.typ[d.loc[x]] \in {"room", "thing", "player"},
         NEW r, Scanned(d, x, r)
  PROVE  Linked(r, D \union {x}, NOTHING)
<1>0. x \in Obj /\ x # NOTHING BY LinkedFacts
<1>1. /\ r.typ = d.typ /\ r.loc = d.loc /\ r.recyclable = d.recyclable
      /\ \A y \in Obj :
        /\ r.next[y] = IF d.typ[y] # "none" /\ d.next[y] = x THEN d.next[x] ELSE d.next[y]
        /\ r.contents[y] = IF d.typ[y] # "none" /\ d.contents[y] = x
                           THEN d.next[x] ELSE d.contents[y]
        /\ r.exits[y] = IF d.typ[y] \in {"room", "thing", "player"} /\ d.exits[y] = x
                        THEN d.next[x] ELSE d.exits[y]
  BY DEF Scanned
<1>2. d.recyclable # x BY <1>0, LinkedHeads
<1>3. \A at \in Obj : d.contents[at] = x \/ d.exits[at] = x => at = d.loc[x]
  BY <1>0, LinkedHeads
<1>4. \A at \in Obj :
        /\ r.contents[at] = IF d.contents[at] = x THEN d.next[x] ELSE d.contents[at]
        /\ r.exits[at] = IF d.exits[at] = x THEN d.next[x] ELSE d.exits[at]
  BY <1>1, <1>3
<1>5. \A y \in On(d, D) \ {x} :
        r.next[y] = IF d.next[y] = x THEN d.next[x] ELSE d.next[y]
  BY <1>1 DEF On
<1>6. /\ NOTHING = IF NOTHING = x THEN d.next[x] ELSE NOTHING
      /\ r.recyclable = IF d.recyclable = x THEN d.next[x] ELSE d.recyclable
      /\ \A y \in Obj \ {x} : r.typ[y] = d.typ[y] /\ r.loc[y] = d.loc[y]
  BY <1>0, <1>1, <1>2
<1> QED BY <1>4, <1>5, <1>6, TakenLinked

\* ... and one that is on none disturbs none.
LEMMA ScanMisses ==
  ASSUME NEW d \in DB, NEW D, NEW c, Linked(d, D, c), NEW x \in D, x \in Obj,
         NEW r, Scanned(d, x, r)
  PROVE  Linked(r, D, c)
<1>0. x \notin On(d, D) /\ x # NOTHING BY Numbers DEF On
<1>1. /\ r.typ = d.typ /\ r.loc = d.loc /\ r.recyclable = d.recyclable
      /\ \A y \in Obj :
        /\ r.next[y] = IF d.typ[y] # "none" /\ d.next[y] = x THEN d.next[x] ELSE d.next[y]
        /\ r.contents[y] = IF d.typ[y] # "none" /\ d.contents[y] = x
                           THEN d.next[x] ELSE d.contents[y]
        /\ r.exits[y] = IF d.typ[y] \in {"room", "thing", "player"} /\ d.exits[y] = x
                        THEN d.next[x] ELSE d.exits[y]
  BY DEF Scanned
<1>2. \A at \in Obj : d.contents[at] # x /\ d.exits[at] # x BY <1>0, LinkedHeads
<1>3. \A y \in On(d, D) : d.next[y] # x BY <1>0, LinkedFacts
<1>4. \A at \in Obj : r.contents[at] = d.contents[at] /\ r.exits[at] = d.exits[at]
  BY <1>1, <1>2
<1>5. \A y \in On(d, D) : r.next[y] = d.next[y] BY <1>1, <1>3, OnFacts
<1>6. On(r, D) = On(d, D) BY <1>1 DEF On
<1> QED BY <1>1, <1>4, <1>5, <1>6, SameLinked

\* r is d, with another location for x.
Relocated(d, x, at, r) ==
  /\ r \in DB
  /\ r.top = d.top /\ r.recyclable = d.recyclable /\ r.typ = d.typ
  /\ r.contents = d.contents /\ r.exits = d.exits /\ r.next = d.next
  /\ r.owner = d.owner /\ r.link = d.link /\ r.dests = d.dests
  /\ \A y \in Obj : r.loc[y] = IF y = x THEN at ELSE d.loc[y]

\* Only one location differs.
LEMMA LocFields ==
  ASSUME NEW d \in DB, NEW x \in Obj, NEW at \in OrNone
  PROVE  Relocated(d, x, at, [d EXCEPT !.loc = [@ EXCEPT ![x] = at]])
BY DBFields DEF DB, Relocated

\* An object that is on no list may have any location.
LEMMA LocLinked ==
  ASSUME NEW d \in DB, NEW D, NEW c, Linked(d, D, c), NEW x \in Obj, x \notin On(d, D),
         NEW at, NEW r, Relocated(d, x, at, r)
  PROVE  Linked(r, D, c)
<1>1. /\ r.recyclable = d.recyclable /\ r.typ = d.typ
      /\ r.contents = d.contents /\ r.exits = d.exits /\ r.next = d.next
      /\ \A y \in Obj : r.loc[y] = IF y = x THEN at ELSE d.loc[y]
  BY DEF Relocated
<1>2. \A y \in On(d, D) : r.loc[y] = d.loc[y] BY <1>1, OnFacts
<1>3. On(r, D) = On(d, D) BY <1>1 DEF On
<1> QED BY <1>1, <1>2, <1>3, SameLinked

-----------------------------------------------------------------------------
(* send_contents takes a whole list out, and reverses what it has put back. *)

\* A list is given another name.
LEMMA StrungRename ==
  ASSUME NEW on, NEW lab, NEW head, NEW next, Strung(on, lab, head, next),
         NOTHING \notin on, NEW k \in DOMAIN head, NEW m \in DOMAIN head, k # m,
         head[m] = NOTHING,
         NEW lab2, NEW head2, NEW next2,
         \A y \in on : lab2[y] = IF lab[y] = k THEN m ELSE lab[y],
         \A y \in on : next2[y] = next[y],
         DOMAIN head2 = DOMAIN head,
         \A l \in DOMAIN head : head2[l] = IF l = k THEN NOTHING
                                           ELSE IF l = m THEN head[k] ELSE head[l]
  PROVE  Strung(on, lab2, head2, next2)
<1>1. \A y \in on : lab2[y] \in DOMAIN head2 BY DEF Strung
<1>2. \A l \in DOMAIN head2 : head2[l] # NOTHING => head2[l] \in on /\ lab2[head2[l]] = l
  BY DEF Strung
<1>3. ASSUME NEW y \in on, next2[y] # NOTHING
      PROVE  /\ next2[y] \in on /\ lab2[next2[y]] = lab2[y]
             /\ next2[y] # head2[lab2[y]]
  <2>1. next[y] \in on /\ lab[next[y]] = lab[y] /\ next[y] # head[lab[y]]
    BY <1>3 DEF Strung
  <2>2. head[k] # NOTHING => lab[head[k]] = k BY DEF Strung
  <2>3. lab[y] \in DOMAIN head BY DEF Strung
  <2> QED BY <1>3, <2>1, <2>2, <2>3
<1>4. ASSUME NEW y \in on, y # head2[lab2[y]] PROVE \E z \in on : next2[z] = y
  <2>1. lab[y] \in DOMAIN head /\ y # NOTHING BY DEF Strung
  <2>2. y # head[lab[y]] BY <1>4, <2>1
  <2>3. PICK z \in on : next[z] = y BY <2>2 DEF Strung
  <2> QED BY <2>3
<1>5. \A y, z \in on : next2[y] = next2[z] /\ next2[y] # NOTHING => y = z
  BY DEF Strung
<1>6. ASSUME NEW S \in SUBSET on, S # {} PROVE \E y \in S : next2[y] \notin S
  <2>1. PICK y \in S : next[y] \notin S BY <1>6 DEF Strung
  <2> QED BY <2>1
<1> QED BY <1>1, <1>2, <1>3, <1>4, <1>5, <1>6 DEF Strung

\* A list has one last member.
LEMMA StrungLast ==
  ASSUME NEW d, d.next \in [Obj -> Obj \union {NOTHING}], NEW on \in SUBSET Obj,
         NEW lab, NEW head, Strung(on, lab, head, d.next), NEW k \in DOMAIN head
  PROVE  \A x, y \in on : /\ lab[x] = k /\ d.next[x] = NOTHING
                          /\ lab[y] = k /\ d.next[y] = NOTHING
                          => x = y
<1>0. Chain(d, head[k]) = {z \in on : lab[z] = k} /\ Ends(d, head[k])
  BY StrungChain
<1> SUFFICES ASSUME NEW x \in on, lab[x] = k, d.next[x] = NOTHING,
                    NEW y \in on, lab[y] = k, d.next[y] = NOTHING
             PROVE  x = y
  OBVIOUS
<1> DEFINE M == {z \in on : lab[z] = k}
           Back(S) == \A z \in S : \A w \in M : d.next[w] = z => w \in S
           I == {z \in M : \A S \in SUBSET M : x \in S /\ Back(S) => z \in S}
<1>1. x \in M /\ y \in M OBVIOUS
<1>2. Chain(d, head[k]) = M BY <1>0
<1>3. Back(I)
  <2> SUFFICES ASSUME NEW z \in I, NEW w \in M, d.next[w] = z,
                      NEW S \in SUBSET M, x \in S, Back(S)
               PROVE  w \in S
    OBVIOUS
  <2>1. z \in S OBVIOUS
  <2> QED BY <2>1
<1>4. x \in I BY <1>1
<1>5. ASSUME NEW z \in I, z # x PROVE d.next[z] \in I
  <2> SUFFICES ASSUME d.next[z] \notin I PROVE FALSE OBVIOUS
  <2> DEFINE S == I \ {z}
  <2>1. S \in SUBSET M /\ x \in S BY <1>4, <1>5
  <2>2. Back(S)
    <3> SUFFICES ASSUME NEW v \in S, NEW w \in M, d.next[w] = v PROVE w \in S
      OBVIOUS
    <3>1. w \in I BY <1>3
    <3>2. w # z OBVIOUS
    <3> QED BY <3>1, <3>2
  <2>3. z \in S BY <2>1, <2>2
  <2> QED BY <2>3
<1>6. head[k] \in I
  <2> SUFFICES ASSUME head[k] \notin I PROVE FALSE OBVIOUS
  <2> DEFINE R == M \ I
  <2>1. head[k] # NOTHING
    <3>1. head[k] = NOTHING => M = {} BY <1>2, NoChain
    <3> QED BY <1>1, <3>1
  <2>2. head[k] \in R BY <2>1 DEF Strung
  <2>3. ASSUME NEW z \in R PROVE d.next[z] \in R \union {NOTHING}
    <3>1. d.next[z] # NOTHING => d.next[z] \in M BY DEF Strung
    <3>2. d.next[z] \notin I BY <1>3
    <3> QED BY <3>1, <3>2
  <2>4. Chain(d, head[k]) \subseteq R
    <3>1. head[k] \in R \union {NOTHING} BY <2>2
    <3>2. \A z \in R : d.next[z] \in R \union {NOTHING} BY <2>3
    <3> HIDE DEF R
    <3> QED BY <3>1, <3>2, ChainLeast
  <2> QED BY <1>1, <1>2, <1>4, <2>4
<1>7. M \subseteq I
  <2>1. head[k] \in I \union {NOTHING} BY <1>6
  <2>2. \A z \in I : d.next[z] \in I \union {NOTHING} BY <1>5
  <2> HIDE DEF I
  <2>3. Chain(d, head[k]) \subseteq I BY <2>1, <2>2, ChainLeast
  <2> QED BY <1>2, <2>3
<1>8. NOTHING \notin I BY Numbers
<1>9. y \in I BY <1>1, <1>7
<1> HIDE DEF I
<1> QED BY <1>5, <1>8, <1>9

\* The members M of list k in the opposite order.
Backwards(d, on, M, k, head, head2, next2) ==
  /\ DOMAIN head2 = DOMAIN head
  /\ \A l \in DOMAIN head \ {k} : head2[l] = head[l]
  /\ \A x \in M : d.next[x] = NOTHING => head2[k] = x
  /\ M = {} => head2[k] = NOTHING
  /\ \A x \in on \ M : next2[x] = d.next[x]
  /\ \A x \in M : \A y \in M : d.next[y] = x => next2[x] = y
  /\ \A x \in M : (\A y \in M : d.next[y] # x) => next2[x] = NOTHING

\* reverse: one list the other way round, and the others as they were.
LEMMA StrungReverse ==
  ASSUME NEW d, d.next \in [Obj -> Obj \union {NOTHING}], NEW on \in SUBSET Obj,
         NEW lab, NEW head, Strung(on, lab, head, d.next), NEW k \in DOMAIN head,
         NEW M, M = {z \in on : lab[z] = k},
         NEW head2, NEW next2, Backwards(d, on, M, k, head, head2, next2)
  PROVE  Strung(on, lab, head2, next2)
<1> USE DEF Backwards
<1>0. NOTHING \notin on /\ M \subseteq on BY Numbers
<1>1. Chain(d, head[k]) = M /\ Ends(d, head[k])
  <2>1. Chain(d, head[k]) = {z \in on : lab[z] = k} /\ Ends(d, head[k])
    BY StrungChain
  <2> QED BY <2>1
<1>2. \A x \in M : d.next[x] # NOTHING => d.next[x] \in M BY DEF Strung
<1>3. \A x \in on : d.next[x] \in M => x \in M BY <1>0 DEF Strung
<1>4. M # {} => \E x \in M : d.next[x] = NOTHING
  <2>1. M # {} => head[k] # NOTHING BY <1>1, NoChain
  <2> QED BY <1>1, <2>1 DEF Ends
<1>5. head2[k] # NOTHING => head2[k] \in M /\ d.next[head2[k]] = NOTHING
  BY <1>4
<1>6. ASSUME NEW x \in M, next2[x] # NOTHING PROVE next2[x] \in M /\ d.next[next2[x]] = x
  <2>1. \E y \in M : d.next[y] = x BY <1>6
  <2> QED BY <2>1
<1>7. \A y \in on : lab[y] \in DOMAIN head2 BY DEF Strung
<1>8. \A l \in DOMAIN head2 : head2[l] # NOTHING => head2[l] \in on /\ lab[head2[l]] = l
  BY <1>0, <1>5 DEF Strung
<1>9. ASSUME NEW y \in on, next2[y] # NOTHING
      PROVE  /\ next2[y] \in on /\ lab[next2[y]] = lab[y]
             /\ next2[y] # head2[lab[y]]
  <2>1. CASE y \in M
    <3>1. next2[y] \in M /\ d.next[next2[y]] = y BY <1>6, <1>9, <2>1
    <3>2. y # NOTHING BY <1>0
    <3>3. lab[y] = k /\ lab[next2[y]] = k /\ next2[y] \in on BY <1>0, <2>1, <3>1
    <3>4. next2[y] # head2[k] BY <1>5, <1>9, <3>1, <3>2
    <3> QED BY <3>3, <3>4
  <2>2. CASE y \notin M
    <3>1. next2[y] = d.next[y] /\ lab[y] # k /\ lab[y] \in DOMAIN head
      BY <2>2 DEF Strung
    <3>2. d.next[y] \in on /\ lab[d.next[y]] = lab[y] /\ d.next[y] # head[lab[y]]
      BY <1>9, <3>1 DEF Strung
    <3>3. head2[lab[y]] = head[lab[y]] BY <3>1
    <3> QED BY <3>1, <3>2, <3>3
  <2> QED BY <2>1, <2>2
<1>10. ASSUME NEW y \in on, y # head2[lab[y]] PROVE \E z \in on : next2[z] = y
  <2>1. CASE y \in M
    <3>1. d.next[y] # NOTHING BY <1>10, <2>1
    <3>2. d.next[y] \in M BY <1>2, <2>1, <3>1
    <3>3. next2[d.next[y]] = y BY <2>1, <3>2
    <3> QED BY <1>0, <3>2, <3>3
  <2>2. CASE y \notin M
    <3>1. lab[y] # k /\ lab[y] \in DOMAIN head BY <2>2 DEF Strung
    <3>2. PICK z \in on : d.next[z] = y BY <1>10, <3>1 DEF Strung
    <3>3. z \notin M BY <1>0, <1>2, <2>2, <3>2
    <3> QED BY <3>2, <3>3
  <2> QED BY <2>1, <2>2
<1>11. ASSUME NEW y \in on, NEW z \in on, next2[y] = next2[z], next2[y] # NOTHING
       PROVE  y = z
  <2>1. CASE y \in M /\ z \in M BY <1>6, <1>11, <2>1
  <2>2. CASE y \notin M /\ z \notin M BY <1>11, <2>2 DEF Strung
  <2>3. CASE y \in M /\ z \notin M BY <1>3, <1>6, <1>11, <2>3
  <2>4. CASE y \notin M /\ z \in M BY <1>3, <1>6, <1>11, <2>4
  <2> QED BY <2>1, <2>2, <2>3, <2>4
<1>12. ASSUME NEW S \in SUBSET on, S # {} PROVE \E y \in S : next2[y] \notin S
  <2>1. CASE S \ M # {}
    <3>1. S \ M \in SUBSET on OBVIOUS
    <3>2. PICK y \in S \ M : d.next[y] \notin S \ M BY <2>1, <3>1 DEF Strung
    <3>3. d.next[y] \notin M BY <1>3, <3>2
    <3> QED BY <3>2, <3>3
  <2>2. CASE S \ M = {}
    <3> SUFFICES ASSUME \A y \in S : next2[y] \in S PROVE FALSE OBVIOUS
    <3> DEFINE R == M \ S
    <3>1. S \subseteq M BY <2>2
    <3>2. ASSUME NEW y \in S PROVE next2[y] \in S /\ d.next[next2[y]] = y
      <4>1. next2[y] # NOTHING BY <1>0
      <4> QED BY <1>6, <3>1, <4>1
    <3>3. ASSUME NEW z \in R PROVE d.next[z] \in R \union {NOTHING}
      <4>1. d.next[z] # NOTHING => d.next[z] \in M BY <1>2
      <4>2. d.next[z] \in S => FALSE
        <5> SUFFICES ASSUME d.next[z] \in S PROVE FALSE OBVIOUS
        <5>1. next2[d.next[z]] = z BY <3>1
        <5> QED BY <3>2, <5>1
      <4> QED BY <4>1, <4>2
    <3>4. head[k] \in R \union {NOTHING}
      <4> SUFFICES ASSUME head[k] # NOTHING PROVE head[k] \in R OBVIOUS
      <4>1. head[k] \in M BY DEF Strung
      <4>2. head[k] \in S => FALSE
        <5> SUFFICES ASSUME head[k] \in S PROVE FALSE OBVIOUS
        <5>1. next2[head[k]] \in on /\ d.next[next2[head[k]]] = head[k] BY <1>0, <3>1, <3>2
        <5> QED BY <4>1, <5>1 DEF Strung
      <4> QED BY <4>1, <4>2
    <3>5. \A z \in R : d.next[z] \in R \union {NOTHING} BY <3>3
    <3> HIDE DEF R
    <3>6. Chain(d, head[k]) \subseteq R BY <3>4, <3>5, ChainLeast
    <3> QED BY <1>1, <1>12, <3>1, <3>6 DEF R
  <2> QED BY <2>1, <2>2
<1> QED BY <1>7, <1>8, <1>9, <1>10, <1>11, <1>12 DEF Strung

\* The contents of at are taken out.
AllOut(d, at, r) ==
  /\ r \in DB
  /\ r.top = d.top /\ r.recyclable = d.recyclable /\ r.typ = d.typ
  /\ r.exits = d.exits /\ r.next = d.next
  /\ r.owner = d.owner /\ r.link = d.link /\ r.dests = d.dests
  /\ \A y \in Obj :
       /\ r.contents[y] = IF y = at THEN NOTHING ELSE d.contents[y]
       /\ r.loc[y] = IF y \in Chain(d, d.contents[at]) THEN NOTHING ELSE d.loc[y]

\* What send_contents does when it takes everything out of "at".
LEMMA OutFields ==
  ASSUME NEW d \in DB, NEW at \in Obj
  PROVE  AllOut(d, at,
           [d EXCEPT !.contents = [@ EXCEPT ![at] = NOTHING],
                     !.loc = [x \in Obj |-> IF x \in Chain(d, d.contents[at])
                                            THEN NOTHING ELSE d.loc[x]]])
<1> DEFINE lo == [x \in Obj |-> IF x \in Chain(d, d.contents[at])
                                THEN NOTHING ELSE d.loc[x]]
<1>1. lo \in [Obj -> OrNone] BY DBFields, Numbers
<1>2. \A y \in Obj : lo[y] = IF y \in Chain(d, d.contents[at]) THEN NOTHING ELSE d.loc[y]
  OBVIOUS
<1> HIDE DEF lo
<1>3. NOTHING \in OrNone BY Numbers
<1>4. AllOut(d, at, [d EXCEPT !.contents = [@ EXCEPT ![at] = NOTHING], !.loc = lo])
  BY <1>1, <1>2, <1>3, DBFields DEF DB, AllOut
<1> QED BY <1>4 DEF lo

\* It hangs on the local variable then, as the list of NOTHING.
LEMMA OutLinked ==
  ASSUME NEW d \in DB, NEW D, Linked(d, D, NOTHING), NEW at \in Obj,
         NEW r, AllOut(d, at, r)
  PROVE  Linked(r, D, d.contents[at])
<1>1. /\ r.typ = d.typ /\ r.recyclable = d.recyclable /\ r.next = d.next
      /\ r.exits = d.exits
      /\ \A y \in Obj :
           /\ r.contents[y] = IF y = at THEN NOTHING ELSE d.contents[y]
           /\ r.loc[y] = IF y \in Chain(d, d.contents[at]) THEN NOTHING ELSE d.loc[y]
  BY DEF AllOut
<1>2. Chain(d, d.contents[at]) =
        {x \in On(d, D) : d.typ[x] \notin {"garbage", "exit"} /\ d.loc[x] = at}
  BY LinkedChains
<1> DEFINE k == Label("contents", at)
           m == Label("contents", NOTHING)
           on == On(d, D)
           lab == Lab(d)
           lab2 == Lab(r)
           head == Heads(d, NOTHING)
           head2 == Heads(r, d.contents[at])
<1>3. On(r, D) = on BY <1>1 DEF On
<1>4. Strung(on, lab, head, d.next) BY DEF Linked
<1>5. NOTHING \notin on BY OnFacts
<1>6. /\ DOMAIN head = Labels /\ DOMAIN head2 = Labels
      /\ k \in Labels /\ m \in Labels /\ head[m] = NOTHING
  BY HeadsAre
<1>7. k # m BY Numbers, LabelsDiffer
<1>8. ASSUME NEW y \in on PROVE lab2[y] = IF lab[y] = k THEN m ELSE lab[y]
  <2>1. y \in Obj BY OnFacts
  <2>2. lab[y] = k <=> d.typ[y] \notin {"garbage", "exit"} /\ d.loc[y] = at
    BY LabelOf
  <2>3. CASE lab[y] = k
    <3>1. r.loc[y] = NOTHING /\ r.typ[y] \notin {"garbage", "exit"}
      BY <1>1, <1>2, <2>1, <2>2, <2>3
    <3> QED BY <2>1, <2>3, <3>1 DEF Lab
  <2>4. CASE lab[y] # k
    <3>1. r.loc[y] = d.loc[y] /\ r.typ[y] = d.typ[y] BY <1>1, <1>2, <2>1, <2>2, <2>4
    <3>2. lab2[y] = lab[y] BY <2>1, <3>1 DEF Lab
    <3> QED BY <2>4, <3>2
  <2> QED BY <2>3, <2>4
<1>9. ASSUME NEW l \in Labels
      PROVE  head2[l] = IF l = k THEN NOTHING ELSE IF l = m THEN head[k] ELSE head[l]
  <2>1. CASE l = FREE BY <1>1, <2>1, HeadsAre, LabelsDiffer
  <2>2. CASE l = m BY <1>7, <2>2, HeadsAre
  <2>3. CASE l = Label("exits", NOTHING) BY <2>3, HeadsAre, LabelsDiffer
  <2>4. CASE \E b \in Obj : l \in {Label("contents", b), Label("exits", b)}
    <3>1. PICK b \in Obj : l \in {Label("contents", b), Label("exits", b)} BY <2>4
    <3>2. CASE l = Label("contents", b)
      <4>1. l # m BY <3>2, Numbers, LabelsDiffer
      <4>2. l = k <=> b = at BY <3>2, LabelsDiffer
      <4>3. head2[l] = r.contents[b] /\ head[l] = d.contents[b]
        BY <3>2, HeadsAre
      <4> HIDE DEF k, m, head, head2
      <4> QED BY <1>1, <4>1, <4>2, <4>3
    <3>3. CASE l = Label("exits", b)
      <4>1. l # m /\ l # k BY <3>3, LabelsDiffer
      <4>2. head2[l] = r.exits[b] /\ head[l] = d.exits[b]
        BY <3>3, HeadsAre
      <4> HIDE DEF k, m, head, head2
      <4> QED BY <1>1, <4>1, <4>2
    <3> QED BY <3>1, <3>2, <3>3
  <2> QED BY <2>1, <2>2, <2>3, <2>4, LabelKinds
<1>10. \A y \in on : r.next[y] = d.next[y] BY <1>1
<1> HIDE DEF k, m, on, lab, lab2, head, head2
<1>11. Strung(on, lab2, head2, r.next)
  BY <1>4, <1>5, <1>6, <1>7, <1>8, <1>9, <1>10, StrungRename
<1> QED BY <1>3, <1>11 DEF Linked, on, lab2, head2

\* The contents of at, in the opposite order.
Turned(d, at, r) ==
  /\ r \in DB
  /\ r.top = d.top /\ r.recyclable = d.recyclable /\ r.typ = d.typ
  /\ r.loc = d.loc /\ r.exits = d.exits
  /\ r.owner = d.owner /\ r.link = d.link /\ r.dests = d.dests
  /\ LET M == Chain(d, d.contents[at]) IN
     /\ \A y \in Obj : r.contents[y] =
          IF y # at THEN d.contents[y]
          ELSE IF \E x \in M : d.next[x] = NOTHING
               THEN CHOOSE x \in M : d.next[x] = NOTHING ELSE NOTHING
     /\ \A y \in Obj : r.next[y] =
          IF y \notin M THEN d.next[y]
          ELSE IF \E x \in M : d.next[x] = y
               THEN CHOOSE x \in M : d.next[x] = y ELSE NOTHING

\* What reverse() does to the contents of "at".
LEMMA ReverseFields ==
  ASSUME NEW d \in DB, NEW at \in Obj
  PROVE  Turned(d, at, Reversed(d, at))
<1> DEFINE M == Chain(d, d.contents[at])
           ne == [y \in Obj |-> IF y \notin M THEN d.next[y]
                                ELSE IF \E x \in M : d.next[x] = y
                                     THEN CHOOSE x \in M : d.next[x] = y ELSE NOTHING]
           first == IF \E x \in M : d.next[x] = NOTHING
                    THEN CHOOSE x \in M : d.next[x] = NOTHING ELSE NOTHING
<1>1. M \subseteq Obj
  <2>1. d.next \in [Obj -> Obj \union {NOTHING}]
        /\ d.contents[at] \in Obj \union {NOTHING}
    BY DBFields DEF OrNone
  <2> QED BY <2>1, ChainClosed
<1>2. Reversed(d, at) =
        [d EXCEPT !.next = ne, !.contents = [@ EXCEPT ![at] = first]]
  BY DEF Reversed
<1> HIDE DEF M
<1>3. first \in OrNone BY <1>1, Numbers
<1>4. ASSUME NEW y \in Obj PROVE ne[y] \in OrNone
  <2>1. d.next[y] \in OrNone /\ NOTHING \in OrNone /\ M \subseteq OrNone
    BY <1>1, DBFields, Numbers
  <2>2. (\E x \in M : d.next[x] = y) => (CHOOSE x \in M : d.next[x] = y) \in M OBVIOUS
  <2> QED BY <2>1, <2>2
<1>5. ne \in [Obj -> OrNone] BY <1>4
<1>6. \A y \in Obj : ne[y] =
          IF y \notin M THEN d.next[y]
          ELSE IF \E x \in M : d.next[x] = y
               THEN CHOOSE x \in M : d.next[x] = y ELSE NOTHING
  OBVIOUS
<1> SUFFICES ASSUME NEW r, r = [d EXCEPT !.next = ne, !.contents = [@ EXCEPT ![at] = first]]
             PROVE  Turned(d, at, r)
  BY <1>2
<1> HIDE DEF ne
<1>7. /\ r.next = ne
      /\ \A y \in Obj : r.contents[y] = IF y # at THEN d.contents[y] ELSE first
  <2> HIDE DEF first
  <2> QED BY <1>3, DBFields DEF DB
<1>8. /\ r \in DB
      /\ r.top = d.top /\ r.recyclable = d.recyclable /\ r.typ = d.typ
      /\ r.loc = d.loc /\ r.exits = d.exits
      /\ r.owner = d.owner /\ r.link = d.link /\ r.dests = d.dests
  <2> HIDE DEF first
  <2> QED BY <1>3, <1>5, DBFields DEF DB
<1> QED BY <1>6, <1>7, <1>8 DEF Turned, M

\* After it the lists are lists.
LEMMA ReverseLinked ==
  ASSUME NEW d \in DB, NEW D, NEW c, Linked(d, D, c), NEW at \in Obj,
         NEW r, Turned(d, at, r)
  PROVE  Linked(r, D, c)
<1> DEFINE k == Label("contents", at)
           on == On(d, D)
           lab == Lab(d)
           head == Heads(d, c)
           head2 == Heads(r, c)
           M == Chain(d, d.contents[at])
<1>1. /\ r.typ = d.typ /\ r.recyclable = d.recyclable /\ r.loc = d.loc
      /\ r.exits = d.exits
      /\ \A y \in Obj : r.contents[y] =
          IF y # at THEN d.contents[y]
          ELSE IF \E x \in M : d.next[x] = NOTHING
               THEN CHOOSE x \in M : d.next[x] = NOTHING ELSE NOTHING
      /\ \A y \in Obj : r.next[y] =
          IF y \notin M THEN d.next[y]
          ELSE IF \E x \in M : d.next[x] = y
               THEN CHOOSE x \in M : d.next[x] = y ELSE NOTHING
  BY DEF Turned
<1>2. M = {x \in on : d.typ[x] \notin {"garbage", "exit"} /\ d.loc[x] = at}
  BY LinkedChains
<1>3. On(r, D) = on /\ Lab(r) = lab BY <1>1 DEF On, Lab
<1>4. Strung(on, lab, head, d.next) /\ on \in SUBSET Obj BY OnFacts DEF Linked
<1>5. DOMAIN head = Labels /\ DOMAIN head2 = Labels /\ k \in Labels
      /\ head[k] = d.contents[at] /\ head2[k] = r.contents[at]
  BY HeadsAre
<1>6. M = {x \in on : lab[x] = k}
  <2>1. \A x \in on : lab[x] = k <=> d.typ[x] \notin {"garbage", "exit"} /\ d.loc[x] = at
    BY LabelOf
  <2> QED BY <1>2, <2>1
<1>7. ASSUME NEW l \in Labels, l # k PROVE head2[l] = head[l]
  <2>1. CASE l = FREE BY <1>1, <2>1, HeadsAre
  <2>2. CASE l = Label("contents", NOTHING) BY <2>2, HeadsAre
  <2>3. CASE l = Label("exits", NOTHING) BY <2>3, HeadsAre
  <2>4. CASE \E b \in Obj : l \in {Label("contents", b), Label("exits", b)}
    <3>1. PICK b \in Obj : l \in {Label("contents", b), Label("exits", b)} BY <2>4
    <3>2. CASE l = Label("contents", b)
      <4>1. head2[l] = r.contents[b] /\ head[l] = d.contents[b] /\ b # at
        BY <1>7, <3>2, HeadsAre
      <4> HIDE DEF k, head, head2, M
      <4> QED BY <1>1, <4>1
    <3>3. CASE l = Label("exits", b)
      <4>2. head2[l] = r.exits[b] /\ head[l] = d.exits[b]
        BY <3>3, HeadsAre
      <4> HIDE DEF k, head, head2, M
      <4> QED BY <1>1, <4>2
    <3> QED BY <3>1, <3>2, <3>3
  <2> QED BY <2>1, <2>2, <2>3, <2>4, LabelKinds
<1>8. d.next \in [Obj -> Obj \union {NOTHING}] BY DBFields DEF OrNone
<1> HIDE DEF k, on, lab, head, head2, M
<1>0. k \in DOMAIN head /\ DOMAIN head2 = DOMAIN head BY <1>5
<1>9. \A x, y \in on : /\ lab[x] = k /\ d.next[x] = NOTHING
                       /\ lab[y] = k /\ d.next[y] = NOTHING
                       => x = y
  BY <1>0, <1>4, <1>8, StrungLast
<1>10. \A x, y \in on : d.next[x] = d.next[y] /\ d.next[x] # NOTHING => x = y
  BY <1>4 DEF Strung
<1>11. ASSUME NEW x \in M, d.next[x] = NOTHING PROVE head2[k] = x
  <2>1. head2[k] = CHOOSE z \in M : d.next[z] = NOTHING BY <1>1, <1>5, <1>11
  <2>2. head2[k] \in M /\ d.next[head2[k]] = NOTHING BY <1>11, <2>1
  <2> QED BY <1>6, <1>9, <1>11, <2>2
<1>12. M = {} => head2[k] = NOTHING BY <1>1, <1>5
<1>13. \A x \in on \ M : r.next[x] = d.next[x] BY <1>1, <1>4
<1>14. ASSUME NEW x \in M, NEW y \in M, d.next[y] = x PROVE r.next[x] = y
  <2>1. x \in Obj /\ x \in on /\ y \in on /\ x # NOTHING BY <1>4, <1>6, Numbers
  <2>2. r.next[x] = CHOOSE z \in M : d.next[z] = x BY <1>1, <1>14, <2>1
  <2>3. r.next[x] \in M /\ d.next[r.next[x]] = x BY <1>14, <2>2
  <2>4. r.next[x] \in on BY <1>6, <2>3
  <2> QED BY <1>10, <1>14, <2>1, <2>3, <2>4
<1>15. ASSUME NEW x \in M, \A y \in M : d.next[y] # x PROVE r.next[x] = NOTHING
  <2>1. x \in Obj BY <1>4, <1>6
  <2> QED BY <1>1, <1>15, <2>1
<1>16. Strung(on, lab, head2, r.next)
  <2>1. \A l \in DOMAIN head \ {k} : head2[l] = head[l] BY <1>5, <1>7
  <2>2. Backwards(d, on, M, k, head, head2, r.next)
    BY <1>0, <1>11, <1>12, <1>13, <1>14, <1>15, <2>1 DEF Backwards
  <2> QED BY <1>0, <1>4, <1>6, <1>8, <2>2, StrungReverse
<1> QED BY <1>3, <1>16 DEF Linked, on, lab, head2

-----------------------------------------------------------------------------
(* The array of objects between two steps.                                 *)

PlacesOf(d) == {x \in Obj : d.typ[x] \in {"room", "player", "thing"}}

\* Where x is; what send_contents has taken out of so still counts as there.
At(d, so, x) == IF d.loc[x] = NOTHING THEN so ELSE d.loc[x]

\* What x names is there, and of a type it may be.
RefOk(d, so, x) ==
  /\ d.owner[x] \in Of(d, "player")
  /\ x # Root => At(d, so, x) \in PlacesOf(d)
  /\ d.typ[x] = "exit" => d.loc[x] # NOTHING
  /\ d.typ[x] = "room" =>
       d.link[x] \in {NOTHING, HOME} \union Of(d, "room") \union Of(d, "thing")
  /\ d.typ[x] = "thing" => d.link[x] \in PlacesOf(d)
  /\ d.typ[x] = "player" => d.link[x] \in Of(d, "room")
  /\ d.dests[x] \subseteq Live(d) \union {HOME}
  /\ d.typ[x] # "exit" => d.dests[x] = {}
Refs(d, so) == \A x \in Live(d) : RefOk(d, so, x)

\* The numbers below top are in use, #0 is a room that is nowhere, #1 a player;
\* garbage and numbers not used yet are nowhere.
Base(d) ==
  /\ d \in DB
  /\ \A x \in Obj : d.typ[x] = "none" <=> x >= d.top
  /\ d.typ[Root] = "room" /\ d.loc[Root] = NOTHING /\ d.typ[Man] = "player"
  /\ \A x \in Obj : d.typ[x] \in {"none", "garbage"} => d.loc[x] = NOTHING

\* D are the objects that are being recycled and on no list any more, c the
\* first of those taken out of so.
World(d, D, c, so) ==
  /\ Base(d)
  /\ D \subseteq Live(d) \ {Root} /\ \A x \in D : d.loc[x] # NOTHING
  /\ Linked(d, D, c)
  /\ Refs(d, so)

-----------------------------------------------------------------------------

\* What exists, what may hold something, and the objects of a type.
LEMMA TypesAre ==
  ASSUME NEW d
  PROVE  /\ \A x : x \in Live(d) <=> x \in Obj /\ d.typ[x] \notin {"none", "garbage"}
         /\ \A x : x \in PlacesOf(d) <=> x \in Obj /\ d.typ[x] \in {"room", "player", "thing"}
         /\ \A x, t : x \in Of(d, t) <=> x \in Obj /\ d.typ[x] = t
         /\ PlacesOf(d) \subseteq Live(d) /\ Live(d) \subseteq Obj
         /\ \A t \in {"room", "player", "thing"} : Of(d, t) \subseteq PlacesOf(d)
         /\ \A t \in {"room", "player", "thing", "exit", "program"} :
              Of(d, t) \subseteq Live(d)
BY DEF Live, PlacesOf, Of

\* The parts of an array in order.
LEMMA WorldIs ==
  ASSUME NEW d, NEW D, NEW c, NEW so, World(d, D, c, so)
  PROVE  /\ Base(d) /\ d \in DB /\ Linked(d, D, c) /\ Refs(d, so)
         /\ D \subseteq Live(d) \ {Root} /\ \A x \in D : d.loc[x] # NOTHING
BY DEF World, Base

\* Only the lists differ.
LEMMA ListsWorld ==
  ASSUME NEW d, NEW D, NEW c, NEW so, World(d, D, c, so),
         NEW r \in DB, r.top = d.top, r.typ = d.typ, r.loc = d.loc,
         r.owner = d.owner, r.link = d.link, r.dests = d.dests,
         NEW E, E \subseteq Live(d) \ {Root}, \A x \in E : d.loc[x] # NOTHING,
         NEW b, Linked(r, E, b)
  PROVE  World(r, E, b, so)
<1>1. Live(r) = Live(d) /\ PlacesOf(r) = PlacesOf(d) /\ \A t : Of(r, t) = Of(d, t)
  BY DEF Live, PlacesOf, Of
<1>2. \A x : At(r, so, x) = At(d, so, x) BY DEF At
<1>3. \A x \in Live(d) : RefOk(r, so, x) BY <1>1, <1>2 DEF World, Refs, RefOk
<1>4. Base(r) BY DEF World, Base
<1> QED BY <1>1, <1>3, <1>4 DEF World, Refs

\* What is live stays so and of its type.
Stays(d, r) == \A z \in Live(d) : r.typ[z] = d.typ[z]

\* What exists goes on to exist when no type changes.
LEMMA StaysSets ==
  ASSUME NEW d, NEW r, Stays(d, r)
  PROVE  /\ Live(d) \subseteq Live(r) /\ PlacesOf(d) \subseteq PlacesOf(r)
         /\ \A t \in {"room", "player", "thing", "exit", "program"} :
              Of(d, t) \subseteq Of(r, t)
BY DEF Stays, Live, PlacesOf, Of

\* What y names stays in order when y names the same and no type changes.
LEMMA RefKept ==
  ASSUME NEW d, NEW so, NEW y \in Live(d), RefOk(d, so, y),
         NEW r, NEW so2, Stays(d, r),
         r.owner[y] = d.owner[y], r.link[y] = d.link[y], r.dests[y] = d.dests[y],
         y # Root => At(r, so2, y) = At(d, so, y),
         d.typ[y] = "exit" => r.loc[y] = d.loc[y]
  PROVE  RefOk(r, so2, y)
<1>1. r.typ[y] = d.typ[y] BY DEF Stays
<1>2. /\ Live(d) \subseteq Live(r) /\ PlacesOf(d) \subseteq PlacesOf(r)
      /\ Of(d, "player") \subseteq Of(r, "player") /\ Of(d, "room") \subseteq Of(r, "room")
      /\ Of(d, "thing") \subseteq Of(r, "thing")
  BY StaysSets
<1> QED BY <1>1, <1>2 DEF RefOk

\* An object whose number is handed out has no contents and no exits.
LEMMA NothingThere ==
  ASSUME NEW d, NEW D, NEW c, NEW so, World(d, D, c, so),
         NEW x \in Obj, x \notin PlacesOf(d)
  PROVE  d.contents[x] = NOTHING /\ d.exits[x] = NOTHING
<1>1. d \in DB /\ Linked(d, D, c) BY WorldIs
<1>2. ASSUME NEW y, y \in On(d, D), d.loc[y] = x, d.typ[y] # "garbage" PROVE FALSE
  <2>1. y \in Live(d) /\ y # Root BY <1>2 DEF On, Live
  <2>2. x # NOTHING BY Numbers
  <2>3. At(d, so, y) = x BY <1>2, <2>2 DEF At
  <2>4. x \in PlacesOf(d) BY <2>1, <2>3 DEF World, Refs, RefOk
  <2> QED BY <2>4
<1> QED BY <1>1, <1>2, LinkedHeads

-----------------------------------------------------------------------------
(* new_object, PUSH, remove_first and the assignment of a location.        *)

\* The number new_object hands out is of no object in use: the first
\* garbage, or the one after the last.
LEMMA NewRefIs ==
  ASSUME NEW d, NEW D, NEW c, NEW so, World(d, D, c, so), HasRoom(d),
         NEW x, x = NewRef(d)
  PROVE  /\ x \in Obj \ {Root, Man} /\ x \notin Live(d) /\ x \notin D
         /\ NewTop(d) \in 2 .. MaxTop /\ NewTop(d) >= d.top
         /\ d.recyclable = NOTHING => d.typ[x] = "none" /\ x = d.top /\ NewTop(d) = x + 1
         /\ d.recyclable # NOTHING => d.typ[x] = "garbage" /\ NewTop(d) = d.top
<1>1. Base(d) /\ d \in DB /\ Linked(d, D, c) /\ D \subseteq Live(d) BY WorldIs
<1>2. d.top \in 2 .. MaxTop BY <1>1, DBFields
<1>3. CASE d.recyclable = NOTHING
  <2>1. d.top < MaxTop /\ x = d.top BY <1>3 DEF HasRoom, NewRef
  <2>2. x \in Obj \ {Root, Man} BY <1>2, <2>1, MaxTopAssumption DEF Obj, Root, Man
  <2>3. d.typ[x] = "none" BY <1>1, <1>2, <2>1, <2>2, MaxTopAssumption DEF Base, Obj
  <2>4. NewTop(d) = d.top + 1 BY <1>3 DEF NewTop
  <2>5. NewTop(d) \in 2 .. MaxTop /\ NewTop(d) >= d.top BY <1>2, <2>1, <2>4, MaxTopAssumption
  <2> QED BY <1>1, <1>3, <2>1, <2>2, <2>3, <2>4, <2>5 DEF Live
<1>4. CASE d.recyclable # NOTHING
  <2>1. x = d.recyclable /\ NewTop(d) = d.top BY <1>4 DEF NewRef, NewTop
  <2>2. d.typ[x] = "garbage" /\ x \in Obj BY <1>1, <1>4, <2>1, LinkedHeads, LinkedFacts
  <2>3. x # Root /\ x # Man BY <1>1, <2>2 DEF Base
  <2>4. d.top >= d.top BY <1>2
  <2> QED BY <1>1, <1>2, <1>4, <2>1, <2>2, <2>3, <2>4 DEF Live
<1> QED BY <1>3, <1>4

\* What an object of type t may say of itself when it is made.
MayMake(d, t, at, o, l) ==
  /\ t \in {"room", "player", "thing", "exit", "program"}
  /\ at \in PlacesOf(d)
  /\ t # "player" => o \in Of(d, "player")
  /\ l \in OrNone \union {HOME}
  /\ t = "thing" => l \in PlacesOf(d)
  /\ t = "player" => l \in Of(d, "room")
  /\ t = "room" => l = NOTHING

\* The new object is where it says, but on no list yet.
LEMMA NewWorld ==
  ASSUME NEW d, NEW D, NEW so, World(d, D, NOTHING, so), HasRoom(d),
         NEW x, x = NewRef(d), NEW t, NEW at, NEW o, NEW l, MayMake(d, t, at, o, l),
         NEW r, Made(d, x, t, at, o, l, r)
  PROVE  /\ World(r, D \union {x}, NOTHING, so)
         /\ Stays(d, r) /\ Live(r) = Live(d) \union {x}
<1>0. /\ t \in {"room", "player", "thing", "exit", "program"}
      /\ at \in PlacesOf(d)
      /\ t # "player" => o \in Of(d, "player")
      /\ l \in OrNone \union {HOME}
      /\ t = "thing" => l \in PlacesOf(d)
      /\ t = "player" => l \in Of(d, "room")
      /\ t = "room" => l = NOTHING
  BY DEF MayMake
<1> USE <1>0
<1>1. /\ x \in Obj \ {Root, Man} /\ x \notin Live(d) /\ x \notin D
      /\ NewTop(d) \in 2 .. MaxTop /\ NewTop(d) >= d.top
      /\ d.recyclable = NOTHING => d.typ[x] = "none" /\ x = d.top /\ NewTop(d) = x + 1
      /\ d.recyclable # NOTHING => d.typ[x] = "garbage" /\ NewTop(d) = d.top
  BY NewRefIs
<1>2. Base(d) /\ d \in DB /\ Linked(d, D, NOTHING) /\ Refs(d, so)
      /\ D \subseteq Live(d) \ {Root} /\ \A y \in D : d.loc[y] # NOTHING
  BY WorldIs
<1>3. /\ r \in DB
      /\ \A y \in Obj \ {x} :
           /\ r.typ[y] = d.typ[y] /\ r.loc[y] = d.loc[y] /\ r.owner[y] = d.owner[y]
           /\ r.link[y] = d.link[y] /\ r.dests[y] = d.dests[y]
      /\ r.top = NewTop(d)
      /\ r.typ[x] = t /\ r.loc[x] = at /\ r.link[x] = l
      /\ r.owner[x] = IF t = "player" THEN x ELSE o
      /\ r.dests[x] = {}
  BY DEF Made, SameBut
<1>4. Live(r) = Live(d) \union {x} BY <1>1, <1>3 DEF Live
<1>5. Stays(d, r) BY <1>1, <1>3 DEF Stays, Live
<1>6. Base(r)
  <2>1. Root \in Obj /\ Man \in Obj BY Numbers
  <2>2. \A y \in Obj : r.typ[y] = "none" <=> y >= r.top
    <3> SUFFICES ASSUME NEW y \in Obj PROVE r.typ[y] = "none" <=> y >= r.top OBVIOUS
    <3>1. d.typ[y] = "none" <=> y >= d.top BY <1>2 DEF Base
    <3>2. y \in Nat /\ d.top \in Nat /\ x \in Nat
      BY <1>1, <1>2, DBFields, MaxTopAssumption DEF Obj
    <3>3. CASE y = x
      <4>1. d.top > x \/ (d.top = x /\ d.recyclable = NOTHING)
        BY <1>1, <1>2, <3>1, <3>2, <3>3 DEF Base
      <4> QED BY <1>1, <1>3, <3>2, <3>3, <4>1
    <3>4. CASE y # x
      <4>1. r.typ[y] = d.typ[y] BY <1>3, <3>4
      <4>2. CASE d.recyclable = NOTHING BY <1>1, <1>3, <3>1, <3>2, <3>4, <4>1, <4>2
      <4>3. CASE d.recyclable # NOTHING BY <1>1, <1>3, <3>1, <4>1, <4>3
      <4> QED BY <4>2, <4>3
    <3> QED BY <3>3, <3>4
  <2>3. \A y \in Obj : r.typ[y] \in {"none", "garbage"} => r.loc[y] = NOTHING
    BY <1>2, <1>3 DEF Base
  <2>4. r.typ[Root] = "room" /\ r.loc[Root] = NOTHING /\ r.typ[Man] = "player"
    BY <1>1, <1>2, <1>3, <2>1 DEF Base
  <2> QED BY <1>3, <2>2, <2>3, <2>4 DEF Base
<1>7. Linked(r, D \union {x}, NOTHING)
  <2>1. x \notin PlacesOf(d) BY <1>1, TypesAre
  <2>2. d.contents[x] = NOTHING /\ d.exits[x] = NOTHING BY <1>1, <2>1, NothingThere
  <2> QED BY <1>1, <1>2, <2>2, NewLinked
<1>8. Refs(r, so)
  <2>1. ASSUME NEW y \in Live(d) PROVE RefOk(r, so, y)
    <3>1. y \in Obj \ {x} BY <1>1, TypesAre
    <3>2. RefOk(d, so, y) BY <1>2 DEF Refs
    <3>3. At(r, so, y) = At(d, so, y) BY <1>3, <3>1 DEF At
    <3> QED BY <1>3, <1>5, <3>1, <3>2, <3>3, RefKept
  <2>2. RefOk(r, so, x)
    <3>1. /\ PlacesOf(d) \subseteq PlacesOf(r)
          /\ Of(d, "player") \subseteq Of(r, "player") /\ Of(d, "room") \subseteq Of(r, "room")
      BY <1>5, StaysSets
    <3>2. At(r, so, x) = at /\ at # NOTHING /\ at # x
      BY <1>1, <1>3, TypesAre, Numbers DEF At
    <3>3. r.typ[at] = d.typ[at] BY <1>3, <3>2, TypesAre
    <3>4. t = "player" => x \in Of(r, "player") BY <1>1, <1>3, TypesAre
    <3>5. r.owner[x] \in Of(r, "player") BY <1>3, <3>1, <3>4
    <3> QED BY <1>3, <3>1, <3>2, <3>3, <3>5 DEF RefOk
  <2> QED BY <1>4, <2>1, <2>2 DEF Refs
<1>9. D \union {x} \subseteq Live(r) \ {Root} /\ \A y \in D \union {x} : r.loc[y] # NOTHING
  <2>1. \A y \in D : y \in Obj \ {x} BY <1>1, <1>2, TypesAre
  <2>2. at # NOTHING BY TypesAre, Numbers
  <2> QED BY <1>1, <1>2, <1>3, <1>4, <2>1, <2>2
<1> QED BY <1>4, <1>5, <1>6, <1>7, <1>8, <1>9 DEF World

\* The list an object of its type is on.
ListOf(d, x) == IF d.typ[x] = "exit" THEN "exits" ELSE "contents"

\* PUSH puts an object that is on no list where its location says.
LEMMA PushWorld ==
  ASSUME NEW d, NEW D, NEW c, NEW so, World(d, D, c, so), NEW x \in D,
         NEW list, list = ListOf(d, x), NEW at \in Obj, d.loc[x] = at,
         NEW r, r = PushOn(d, list, at, x)
  PROVE  /\ World(r, D \ {x}, c, so) /\ Pushed(d, list, at, x, r)
<1>1. d \in DB /\ Linked(d, D, c) /\ D \subseteq Live(d) \ {Root}
      /\ \A y \in D : d.loc[y] # NOTHING
  BY WorldIs
<1>2. x \in Obj \ {Root} /\ d.typ[x] \notin {"garbage", "none"} BY <1>1, TypesAre
<1>3. list \in {"contents", "exits"} BY DEF ListOf
<1>4. Pushed(d, list, at, x, r) BY <1>1, <1>2, <1>3, PushFields
<1>5. Linked(r, D \ {x}, c) BY <1>1, <1>2, PushLinked DEF ListOf
<1>6. /\ r \in DB /\ r.top = d.top /\ r.typ = d.typ /\ r.loc = d.loc
      /\ r.owner = d.owner /\ r.link = d.link /\ r.dests = d.dests
  BY <1>4 DEF Pushed, Others
<1>7. D \ {x} \subseteq Live(d) \ {Root} /\ \A y \in D \ {x} : d.loc[y] # NOTHING
  BY <1>1
<1>8. World(r, D \ {x}, c, so) BY <1>5, <1>6, <1>7, ListsWorld
<1> QED BY <1>4, <1>8

\* remove_first takes an object off the list it is on.
LEMMA RemoveWorld ==
  ASSUME NEW d, NEW D, NEW c, NEW so, World(d, D, c, so),
         NEW x \in Live(d) \ (D \union {Root}),
         NEW list, list = ListOf(d, x), NEW at \in Obj, d.loc[x] = at,
         NEW r, r = RemoveFrom(d, list, at, x)
  PROVE  /\ World(r, D \union {x}, c, so) /\ Removed(d, list, at, x, r)
<1>1. d \in DB /\ Linked(d, D, c) /\ D \subseteq Live(d) \ {Root}
      /\ \A y \in D : d.loc[y] # NOTHING
  BY WorldIs
<1>2. x \in Obj \ {Root} /\ d.typ[x] \notin {"garbage", "none"} BY TypesAre
<1>3. list \in {"contents", "exits"} BY DEF ListOf
<1>4. Removed(d, list, at, x, r) BY <1>1, <1>2, <1>3, RemoveFields
<1>5. x \in On(d, D) BY <1>2 DEF On
<1>6. Linked(r, D \union {x}, c) BY <1>1, <1>2, <1>5, RemoveLinked DEF ListOf
<1>7. /\ r \in DB /\ r.top = d.top /\ r.typ = d.typ /\ r.loc = d.loc
      /\ r.owner = d.owner /\ r.link = d.link /\ r.dests = d.dests
  BY <1>4 DEF Removed, Others
<1>8. D \union {x} \subseteq Live(d) \ {Root} /\ \A y \in D \union {x} : d.loc[y] # NOTHING
  BY <1>1, Numbers
<1>9. World(r, D \union {x}, c, so) BY <1>6, <1>7, <1>8, ListsWorld
<1> QED BY <1>4, <1>9

\* An object on no list is given another location.
LEMMA LocWorld ==
  ASSUME NEW d, NEW D, NEW c, NEW so, Base(d), Refs(d, so), Linked(d, D, c),
         D \subseteq Live(d) \ {Root}, NEW x \in D, \A y \in D \ {x} : d.loc[y] # NOTHING,
         NEW at \in PlacesOf(d),
         NEW r, r = [d EXCEPT !.loc = [@ EXCEPT ![x] = at]]
  PROVE  /\ World(r, D, c, so) /\ Relocated(d, x, at, r)
<1>1. d \in DB BY DEF Base
<1>2. x \in Obj \ {Root} /\ x \in Live(d) BY <1>1, TypesAre
<1>3. at \in OrNone /\ at # NOTHING BY TypesAre, Numbers
<1>4. Relocated(d, x, at, r) BY <1>1, <1>2, <1>3, LocFields
<1>5. x \notin On(d, D) BY DEF On
<1>6. Linked(r, D, c) BY <1>1, <1>2, <1>4, <1>5, LocLinked
<1>7. /\ r \in DB /\ r.top = d.top /\ r.typ = d.typ
      /\ r.owner = d.owner /\ r.link = d.link /\ r.dests = d.dests
      /\ \A y \in Obj : r.loc[y] = IF y = x THEN at ELSE d.loc[y]
  BY <1>4 DEF Relocated
<1>8. Base(r) BY <1>2, <1>7, Numbers DEF Base, Live
<1>9. /\ Live(r) = Live(d) /\ PlacesOf(r) = PlacesOf(d) /\ \A t : Of(r, t) = Of(d, t)
      /\ Stays(d, r)
  BY <1>7 DEF Live, PlacesOf, Of, Stays
<1>10. Refs(r, so)
  <2>1. ASSUME NEW y \in Live(d) \ {x} PROVE RefOk(r, so, y)
    <3>1. y \in Obj BY TypesAre
    <3>2. At(r, so, y) = At(d, so, y) /\ r.loc[y] = d.loc[y] BY <1>7, <3>1 DEF At
    <3>3. RefOk(d, so, y) BY DEF Refs
    <3> QED BY <1>7, <1>9, <3>2, <3>3, RefKept
  <2>2. RefOk(r, so, x)
    <3>1. RefOk(d, so, x) BY <1>2 DEF Refs
    <3>2. At(r, so, x) = at /\ r.loc[x] = at BY <1>2, <1>3, <1>7 DEF At
    <3>3. r.typ[x] = d.typ[x] BY <1>7
    <3> QED BY <1>3, <1>7, <1>9, <3>1, <3>2, <3>3 DEF RefOk
  <2> QED BY <1>9, <2>1, <2>2 DEF Refs
<1>11. D \subseteq Live(r) \ {Root} /\ \A y \in D : r.loc[y] # NOTHING
  BY <1>3, <1>7, <1>9, TypesAre
<1>12. World(r, D, c, so) BY <1>6, <1>8, <1>10, <1>11 DEF World
<1> QED BY <1>4, <1>12

-----------------------------------------------------------------------------
(* moveto                                                                  *)

\* Where HOME is, for what has one: the owner's home when a thing is above its
\* own.
Homes(d, x) ==
  IF d.typ[x] = "room" THEN {Root}
  ELSE IF d.typ[x] = "player" THEN {d.link[x]}
  ELSE IF d.typ[x] = "program" THEN {d.owner[x]}
  ELSE IF ParentLoop(d, x, d.link[x]) THEN {d.link[d.owner[x]]}
  ELSE {d.link[x]}

\* The loop check reads types, homes and locations only.
LEMMA SameLoop ==
  ASSUME NEW d, NEW r, r.typ = d.typ, r.link = d.link, r.loc = d.loc, NEW x, NEW y
  PROVE  ParentLoop(r, x, y) = ParentLoop(d, x, y)
<1>1. \A z : Ups(r, z) = Ups(d, z) BY DEF Ups
<1> QED BY <1>1 DEF ParentLoop

\* r is d, with x moved to "to".
Moved(d, x, to, r) ==
  /\ r \in DB
  /\ r.top = d.top /\ r.typ = d.typ
  /\ r.owner = d.owner /\ r.link = d.link /\ r.dests = d.dests
  /\ \A y \in Obj : r.loc[y] = IF y = x THEN to ELSE d.loc[y]

\* The home moveto finds is a place.
LEMMA HomesAre ==
  ASSUME NEW d, NEW so, Base(d), Refs(d, so), NEW x \in Live(d), d.typ[x] # "exit",
         NEW r, r.typ = d.typ, r.link = d.link, r.owner = d.owner, r.loc = d.loc
  PROVE  /\ HomeOf(r, x) \in Homes(d, x)
         /\ Homes(d, x) \subseteq PlacesOf(d)
<1>1. RefOk(d, so, x) BY DEF Refs
<1>2. d.owner[x] \in Of(d, "player") BY <1>1 DEF RefOk
<1>3. d.owner[x] \in Live(d) /\ d.typ[d.owner[x]] = "player" BY <1>2, TypesAre
<1>4. RefOk(d, so, d.owner[x]) BY <1>3 DEF Refs
<1>5. d.link[d.owner[x]] \in Of(d, "room") BY <1>3, <1>4 DEF RefOk
<1>6. d.typ[x] \in {"room", "player", "thing", "program"}
  <2>1. d \in DB /\ x \in Obj /\ d.typ[x] \notin {"none", "garbage"} BY TypesAre DEF Base
  <2>2. d.typ[x] \in Types BY <2>1, DBFields
  <2> QED BY <2>1, <2>2 DEF Types
<1>7. Root \in PlacesOf(d) /\ d.typ[Root] = "room" BY Numbers, TypesAre DEF Base
<1>8. CASE d.typ[x] = "room" BY <1>7, <1>8 DEF HomeOf, Homes
<1>9. CASE d.typ[x] = "player"
  <2>1. HomeOf(r, x) = d.link[x] BY <1>9 DEF HomeOf
  <2>2. d.link[x] \in PlacesOf(d) BY <1>1, <1>9, TypesAre DEF RefOk
  <2> QED BY <1>9, <2>1, <2>2 DEF Homes
<1>10. CASE d.typ[x] = "thing"
  <2>1. HomeOf(r, x) = IF ParentLoop(r, x, d.link[x]) THEN d.link[d.owner[x]] ELSE d.link[x]
    BY <1>10 DEF HomeOf
  <2>4. ParentLoop(r, x, d.link[x]) = ParentLoop(d, x, d.link[x]) BY SameLoop
  <2>2. d.link[x] \in PlacesOf(d) BY <1>1, <1>10 DEF RefOk
  <2>3. d.link[d.owner[x]] \in PlacesOf(d) BY <1>5, TypesAre
  <2> QED BY <1>10, <2>1, <2>2, <2>3, <2>4 DEF Homes
<1>11. CASE d.typ[x] = "program"
  <2>1. HomeOf(r, x) = d.owner[x] BY <1>11 DEF HomeOf
  <2>2. d.owner[x] \in PlacesOf(d) BY <1>2, TypesAre
  <2> QED BY <1>11, <2>1, <2>2 DEF Homes
<1> QED BY <1>6, <1>8, <1>9, <1>10, <1>11

\* What moves is taken off the list of its location, unless it is nowhere.
LEMMA MoveWorld ==
  ASSUME NEW d, NEW D, NEW so, World(d, D, NOTHING, so),
         NEW x \in Live(d) \ (D \union {Root}), d.typ[x] # "exit", d.loc[x] # NOTHING,
         NEW where \in PlacesOf(d) \union {HOME},
         NEW r, r = Moveto(d, x, where)
  PROVE  /\ World(r, D, NOTHING, so)
         /\ \/ r = d /\ ParentLoop(d, x, where)
            \/ \E to \in PlacesOf(d) : /\ to = where \/ (where = HOME /\ to \in Homes(d, x))
                                       /\ Moved(d, x, to, r)
<1>1. Base(d) /\ d \in DB /\ Refs(d, so) /\ D \subseteq Live(d) \ {Root}
      /\ \A y \in D : d.loc[y] # NOTHING
  BY WorldIs
<1>0. d.typ[x] # "garbage" BY TypesAre
<1>2. CASE ParentLoop(d, x, where)
  BY <1>2 DEF Moveto
<1>3. CASE ~ParentLoop(d, x, where)
  <2> DEFINE out == RemoveFrom(d, "contents", d.loc[x], x)
             to == IF where = HOME THEN HomeOf(out, x) ELSE where
             there == [out EXCEPT !.loc = [@ EXCEPT ![x] = to]]
  <2>1. x \in Obj /\ d.loc[x] \in Obj BY <1>1, TypesAre, DBFields DEF OrNone
  <2>2. r = IF to = NOTHING THEN [out EXCEPT !.loc = [@ EXCEPT ![x] = NOTHING]]
            ELSE PushOn(there, "contents", to, x)
    BY <1>0, <1>3 DEF Moveto
  <2>3. ListOf(d, x) = "contents" BY DEF ListOf
  <2>4. World(out, D \union {x}, NOTHING, so) /\ Removed(d, "contents", d.loc[x], x, out)
    BY <2>1, <2>3, RemoveWorld
  <2> HIDE DEF out
  <2>5. /\ out \in DB /\ out.top = d.top /\ out.recyclable = d.recyclable
        /\ out.typ = d.typ /\ out.loc = d.loc
        /\ out.owner = d.owner /\ out.link = d.link /\ out.dests = d.dests
        /\ out.exits = d.exits
    BY <2>4 DEF Removed, Others
  <2>6. /\ to \in PlacesOf(d)
        /\ to = where \/ (where = HOME /\ to \in Homes(d, x))
    BY <1>1, <2>5, HomesAre
  <2>7. Base(out) /\ Refs(out, so) /\ Linked(out, D \union {x}, NOTHING)
        /\ D \union {x} \subseteq Live(out) \ {Root}
        /\ \A y \in D \union {x} : out.loc[y] # NOTHING
    BY <2>4, WorldIs
  <2>8. to \in PlacesOf(out)
    BY <2>5, <2>6 DEF PlacesOf
  <2> HIDE DEF to
  <2>9. World(there, D \union {x}, NOTHING, so) /\ Relocated(out, x, to, there)
    BY <2>7, <2>8, LocWorld
  <2> HIDE DEF there
  <2>10. /\ there.top = d.top /\ there.recyclable = d.recyclable /\ there.typ = d.typ
         /\ there.exits = d.exits
         /\ there.owner = d.owner /\ there.link = d.link /\ there.dests = d.dests
         /\ \A y \in Obj : there.loc[y] = IF y = x THEN to ELSE d.loc[y]
    BY <2>5, <2>9 DEF Relocated
  <2>11. to \in Obj /\ to # NOTHING BY <2>6, TypesAre, Numbers
  <2>12. r = PushOn(there, "contents", to, x) BY <2>2, <2>11
  <2>13. ListOf(there, x) = "contents" BY <2>10 DEF ListOf
  <2>14. there.loc[x] = to BY <2>1, <2>10
  <2>15. World(r, (D \union {x}) \ {x}, NOTHING, so) /\ Pushed(there, "contents", to, x, r)
    BY <2>9, <2>11, <2>12, <2>13, <2>14, PushWorld
  <2>16. (D \union {x}) \ {x} = D OBVIOUS
  <2>17. Moved(d, x, to, r) BY <2>10, <2>15 DEF Moved, Pushed, Others
  <2> QED BY <2>6, <2>15, <2>16, <2>17
<1> QED BY <1>2, <1>3

\* What send_contents has taken out first is put somewhere.
LEMMA SendWorld ==
  ASSUME NEW d, NEW D, NEW x, NEW so, World(d, D, x, so), x # NOTHING,
         NEW where \in PlacesOf(d) \union {HOME},
         ~ParentLoop(d, x, where),
         NEW r, r = Moveto(d, x, where)
  PROVE  /\ World(r, D, d.next[x], so)
         /\ x \in Live(d) \ (D \union {Root}) /\ d.typ[x] # "exit" /\ d.loc[x] = NOTHING
         /\ \E to \in PlacesOf(d) : /\ to = where \/ (where = HOME /\ to \in Homes(d, x))
                                    /\ Moved(d, x, to, r)
<1>1. Base(d) /\ d \in DB /\ Refs(d, so) /\ D \subseteq Live(d) \ {Root} /\ Linked(d, D, x)
      /\ \A y \in D : d.loc[y] # NOTHING
  BY WorldIs
<1>2. x \in On(d, D) /\ d.loc[x] = NOTHING /\ d.typ[x] \notin {"garbage", "exit"}
  BY <1>1, LinkedHeads
<1>3. x \in Live(d) \ (D \union {Root}) /\ x \in Obj BY <1>2 DEF On, Live
<1> DEFINE to == IF where = HOME THEN HomeOf(d, x) ELSE where
           there == [d EXCEPT !.loc = [@ EXCEPT ![x] = to]]
<1>4. r = IF to = NOTHING THEN [d EXCEPT !.loc = [@ EXCEPT ![x] = NOTHING]]
          ELSE PushOn(there, "contents", to, x)
  BY <1>2 DEF Moveto
<1>5. /\ to \in PlacesOf(d)
      /\ to = where \/ (where = HOME /\ to \in Homes(d, x))
  BY <1>1, <1>2, <1>3, HomesAre
<1>6. Linked(d, D \union {x}, d.next[x])
  <2>1. /\ d.recyclable # x
        /\ \A at \in Obj : d.contents[at] # x /\ d.exits[at] # x
    BY <1>1, <1>2, <1>3, LinkedHeads, Numbers
  <2>2. \A y \in On(d, D) : d.next[y] # x
    <3>1. Heads(d, x)[Label("contents", NOTHING)] = x BY HeadsAre
    <3>2. Lab(d)[x] = Label("contents", NOTHING) BY <1>2, LabelOf
    <3> QED BY <1>1, <3>1, <3>2, LinkedFacts
  <2>3. /\ d.recyclable = IF d.recyclable = x THEN d.next[x] ELSE d.recyclable
        /\ d.next[x] = IF x = x THEN d.next[x] ELSE x
        /\ \A at \in Obj :
           /\ d.contents[at] = IF d.contents[at] = x THEN d.next[x] ELSE d.contents[at]
           /\ d.exits[at] = IF d.exits[at] = x THEN d.next[x] ELSE d.exits[at]
        /\ \A y \in On(d, D) \ {x} :
           d.next[y] = IF d.next[y] = x THEN d.next[x] ELSE d.next[y]
    BY <2>1, <2>2
  <2>4. \A y \in Obj \ {x} : d.typ[y] = d.typ[y] /\ d.loc[y] = d.loc[y] OBVIOUS
  <2> QED BY <1>1, <1>2, <2>3, <2>4, TakenLinked
<1> HIDE DEF to
<1>7. D \union {x} \subseteq Live(d) \ {Root}
      /\ \A y \in (D \union {x}) \ {x} : d.loc[y] # NOTHING
  BY <1>1, <1>3
<1>8. World(there, D \union {x}, d.next[x], so) /\ Relocated(d, x, to, there)
  BY <1>1, <1>5, <1>6, <1>7, LocWorld
<1> HIDE DEF there
<1>9. /\ there.top = d.top /\ there.recyclable = d.recyclable /\ there.typ = d.typ
      /\ there.exits = d.exits
      /\ there.owner = d.owner /\ there.link = d.link /\ there.dests = d.dests
      /\ \A y \in Obj : there.loc[y] = IF y = x THEN to ELSE d.loc[y]
  BY <1>8 DEF Relocated
<1>10. to \in Obj /\ to # NOTHING BY <1>5, TypesAre, Numbers
<1>11. r = PushOn(there, "contents", to, x) BY <1>4, <1>10
<1>12. ListOf(there, x) = "contents" BY <1>2, <1>9 DEF ListOf
<1>13. there.loc[x] = to BY <1>3, <1>9
<1>14. World(r, (D \union {x}) \ {x}, d.next[x], so) /\ Pushed(there, "contents", to, x, r)
  BY <1>8, <1>10, <1>11, <1>12, <1>13, PushWorld
<1>15. (D \union {x}) \ {x} = D BY <1>3
<1>16. Moved(d, x, to, r) BY <1>9, <1>14 DEF Moved, Pushed, Others
<1> QED BY <1>2, <1>3, <1>5, <1>14, <1>15, <1>16

-----------------------------------------------------------------------------
(* The constructors.                                                       *)

\* Nothing is inside HOME, or nowhere.
LEMMA NotInHome ==
  ASSUME NEW d, NEW x \in Obj
  PROVE  ~ParentLoop(d, x, HOME) /\ ~ParentLoop(d, x, NOTHING) /\ ~ParentLoop(d, x, Root)
<1> DEFINE S == {}
<1>1. S \in SUBSET (Obj \ {Root}) OBVIOUS
<1>2. \A y \in S : Ups(d, y) \subseteq S \union {Root, NOTHING, HOME} OBVIOUS
<1>3. x \notin S OBVIOUS
<1> HIDE DEF S
<1> QED BY <1>1, <1>2, <1>3 DEF ParentLoop

\* r is d with the new object x.
Added(d, x, t, at, l, r) ==
  /\ x \in Obj \ {Root, Man} /\ x \notin Live(d) /\ Live(r) = Live(d) \union {x}
  /\ r.top \in 2 .. MaxTop /\ r.top >= d.top
  /\ \A y \in Live(d) :
       /\ r.typ[y] = d.typ[y] /\ r.loc[y] = d.loc[y] /\ r.owner[y] = d.owner[y]
       /\ r.link[y] = d.link[y] /\ r.dests[y] = d.dests[y]
  /\ r.typ[x] = t /\ r.loc[x] = at /\ r.link[x] = l /\ r.dests[x] = {}

\* The new object is put on the list of its place.
LEMMA MadeAdded ==
  ASSUME NEW d, NEW D, NEW so, World(d, D, NOTHING, so), HasRoom(d),
         NEW x, x = NewRef(d), NEW t, NEW at, NEW o, NEW l, MayMake(d, t, at, o, l),
         NEW n, Made(d, x, t, at, o, l, n),
         NEW list, list = IF t = "exit" THEN "exits" ELSE "contents",
         NEW r, r = PushOn(n, list, at, x)
  PROVE  World(r, D, NOTHING, so) /\ Added(d, x, t, at, l, r)
<1>0. /\ t \in {"room", "player", "thing", "exit", "program"}
      /\ at \in PlacesOf(d)
      /\ t # "player" => o \in Of(d, "player")
      /\ l \in OrNone \union {HOME}
      /\ t = "thing" => l \in PlacesOf(d)
      /\ t = "player" => l \in Of(d, "room")
      /\ t = "room" => l = NOTHING
  BY DEF MayMake
<1> USE <1>0
<1>1. /\ x \in Obj \ {Root, Man} /\ x \notin Live(d) /\ x \notin D
      /\ NewTop(d) \in 2 .. MaxTop /\ NewTop(d) >= d.top
  BY NewRefIs
<1>2. /\ World(n, D \union {x}, NOTHING, so)
      /\ Stays(d, n) /\ Live(n) = Live(d) \union {x}
  BY NewWorld
<1>3. /\ n.typ[x] = t /\ n.loc[x] = at /\ n.link[x] = l /\ n.dests[x] = {}
      /\ n.top = NewTop(d)
      /\ \A y \in Obj \ {x} :
           /\ n.typ[y] = d.typ[y] /\ n.loc[y] = d.loc[y] /\ n.owner[y] = d.owner[y]
           /\ n.link[y] = d.link[y] /\ n.dests[y] = d.dests[y]
  BY DEF Made, SameBut
<1>4. list = ListOf(n, x) BY <1>3 DEF ListOf
<1>5. at \in Obj BY TypesAre
<1>6. x \in D \union {x} OBVIOUS
<1>7. World(r, (D \union {x}) \ {x}, NOTHING, so) /\ Pushed(n, list, at, x, r)
  BY SMTT(30), <1>2, <1>3, <1>4, <1>5, <1>6, PushWorld
<1>8. (D \union {x}) \ {x} = D BY <1>1
<1>9. /\ r.top = n.top /\ r.typ = n.typ /\ r.loc = n.loc
      /\ r.owner = n.owner /\ r.link = n.link /\ r.dests = n.dests
  BY <1>7 DEF Pushed, Others
<1>10. Live(r) = Live(d) \union {x} BY <1>2, <1>9 DEF Live
<1>11. \A y \in Live(d) : y \in Obj \ {x} BY <1>1, TypesAre
<1>12. Added(d, x, t, at, l, r) BY <1>1, <1>3, <1>9, <1>10, <1>11 DEF Added
<1> QED BY <1>7, <1>8, <1>12

\* A constructor: a new object, first on the list of its location.
LEMMA AddWorld ==
  ASSUME NEW d, NEW D, NEW so, World(d, D, NOTHING, so), HasRoom(d),
         NEW x, x = NewRef(d), NEW t, NEW at, NEW o \in OrNone, NEW l,
         MayMake(d, t, at, o, l),
         NEW list, list = IF t = "exit" THEN "exits" ELSE "contents",
         NEW r, r = PushOn(NewObject(d, t, at, o, l), list, at, x)
  PROVE  World(r, D, NOTHING, so) /\ Added(d, x, t, at, l, r)
<1>0. /\ t \in {"room", "player", "thing", "exit", "program"}
      /\ at \in PlacesOf(d)
      /\ t # "player" => o \in Of(d, "player")
      /\ l \in OrNone \union {HOME}
      /\ t = "thing" => l \in PlacesOf(d)
      /\ t = "player" => l \in Of(d, "room")
      /\ t = "room" => l = NOTHING
  BY DEF MayMake
<1> USE <1>0
<1>1. x \in Obj /\ NewTop(d) \in 2 .. MaxTop BY NewRefIs
<1>2. d \in DB BY WorldIs
<1>3. t \in Types BY DEF Types
<1>4. at \in OrNone BY TypesAre, Numbers
<1>5. Made(d, x, t, at, o, l, NewObject(d, t, at, o, l))
  BY <1>1, <1>2, <1>3, <1>4, NewFields
<1> QED BY <1>5, MadeAdded

\* A copy is made nowhere and then moved to a; its number is nobody's parent,
\* since every name that is looked at is of a live object.
LEMMA CopyWorld ==
  ASSUME NEW d, NEW D, World(d, D, NOTHING, NOTHING), HasRoom(d),
         NEW x, x = NewRef(d), NEW a \in PlacesOf(d),
         NEW o \in Of(d, "player"), NEW l \in PlacesOf(d),
         NEW r, r = Moveto(NewObject(d, "thing", NOTHING, o, l), x, a)
  PROVE  World(r, D, NOTHING, NOTHING) /\ Added(d, x, "thing", a, l, r)
<1> DEFINE n == NewObject(d, "thing", NOTHING, o, l)
           there == [n EXCEPT !.loc = [@ EXCEPT ![x] = a]]
<1>1. /\ x \in Obj \ {Root, Man} /\ x \notin Live(d) /\ NewTop(d) \in 2 .. MaxTop
  BY NewRefIs
<1>2. d \in DB /\ Refs(d, NOTHING) BY WorldIs
<1>3. "thing" \in Types BY DEF Types
<1>4. /\ o \in OrNone /\ l \in OrNone \union {HOME} /\ NOTHING \in OrNone
      /\ a \in Obj /\ a \in OrNone /\ a # NOTHING /\ a # HOME /\ a \in Live(d)
  BY TypesAre, Numbers
<1>5. Made(d, x, "thing", NOTHING, o, l, n) BY <1>1, <1>2, <1>3, <1>4, NewFields
<1>6. r = Moveto(n, x, a) OBVIOUS
<1> HIDE DEF n
<1>7. /\ n \in DB /\ n.typ[x] = "thing" /\ n.loc[x] = NOTHING
      /\ \A y \in Obj \ {x} :
           /\ n.typ[y] = d.typ[y] /\ n.loc[y] = d.loc[y] /\ n.link[y] = d.link[y]
  BY <1>5 DEF Made, SameBut
<1>8. ~ParentLoop(n, x, a)
  <2> DEFINE S == Live(d) \ {Root}
  <2>1. S \in SUBSET (Obj \ {Root}) /\ x \notin S BY <1>1, TypesAre
  <2>2. a \in S \union {Root, NOTHING, HOME} BY <1>4
  <2>3. ASSUME NEW y \in S PROVE Ups(n, y) \subseteq S \union {Root, NOTHING, HOME}
    <3>1. y \in Obj \ {x} /\ y # Root /\ y \in Live(d) BY <2>1
    <3>2. RefOk(d, NOTHING, y) BY <1>2, <3>1 DEF Refs
    <3>3. At(d, NOTHING, y) = d.loc[y] BY DEF At
    <3>4. d.loc[y] \in Live(d) BY <3>1, <3>2, <3>3, TypesAre DEF RefOk
    <3>5. d.typ[y] = "thing" => d.link[y] \in Live(d) BY <3>2, TypesAre DEF RefOk
    <3>6. Ups(n, y) = Ups(d, y) BY <1>7, <3>1 DEF Ups
    <3> QED BY <3>4, <3>5, <3>6 DEF Ups
  <2> HIDE DEF S
  <2> QED BY <2>1, <2>2, <2>3 DEF ParentLoop
<1>9. r = PushOn(there, "contents", a, x)
  BY <1>4, <1>6, <1>7, <1>8 DEF Moveto
<1>10. Relocated(n, x, a, there) BY <1>1, <1>4, <1>7, LocFields
<1> HIDE DEF there
<1>11. Made(d, x, "thing", a, o, l, there)
  BY <1>1, <1>5, <1>10 DEF Made, SameBut, Relocated
<1>12. MayMake(d, "thing", a, o, l) BY <1>4 DEF MayMake
<1> QED BY <1>4, <1>9, <1>11, <1>12, MadeAdded

-----------------------------------------------------------------------------
(* send_contents                                                           *)

\* In r everything is where it was, or taken out of at.
TakenOut(d, D, at, r) ==
  /\ r.top = d.top /\ r.typ = d.typ
  /\ r.owner = d.owner /\ r.link = d.link /\ r.dests = d.dests
  /\ \A y \in Live(d) : y # Root => At(r, at, y) = d.loc[y]
  /\ \A y \in D : r.loc[y] = d.loc[y]
  /\ \A y \in Obj : r.loc[y] # d.loc[y] => y \in Live(d) \ {Root} /\ d.loc[y] = at
  /\ \A y \in Live(d) \ {Root} : r.loc[y] = NOTHING => d.loc[y] = at

\* send_contents has taken everything out of "at".
LEMMA OutWorld ==
  ASSUME NEW d, NEW D, World(d, D, NOTHING, NOTHING), NEW at \in PlacesOf(d),
         NEW r, AllOut(d, at, r)
  PROVE  World(r, D, d.contents[at], at) /\ TakenOut(d, D, at, r)
<1>1. Base(d) /\ d \in DB /\ Linked(d, D, NOTHING) /\ Refs(d, NOTHING)
      /\ D \subseteq Live(d) \ {Root} /\ \A x \in D : d.loc[x] # NOTHING
  BY WorldIs
<1>2. at \in Obj /\ at # NOTHING BY TypesAre, Numbers
<1> DEFINE M == Chain(d, d.contents[at])
<1>3. M = {x \in On(d, D) : d.typ[x] \notin {"garbage", "exit"} /\ d.loc[x] = at}
  BY <1>1, <1>2, LinkedChains
<1> HIDE DEF M
<1>4. /\ r \in DB
      /\ r.top = d.top /\ r.typ = d.typ
      /\ r.owner = d.owner /\ r.link = d.link /\ r.dests = d.dests
      /\ \A y \in Obj : r.loc[y] = IF y \in M THEN NOTHING ELSE d.loc[y]
  BY DEF AllOut, M
<1>5. \A y \in M : y \in Obj /\ y # Root /\ y \notin D /\ d.typ[y] # "exit" /\ d.loc[y] = at
  BY <1>3 DEF On
<1>6. \A y \in Obj : r.loc[y] # d.loc[y] => y \in M BY <1>4
<1>7. \A y \in Live(d) : y # Root => At(r, at, y) = d.loc[y] /\ At(d, NOTHING, y) = d.loc[y]
  <2> SUFFICES ASSUME NEW y \in Live(d), y # Root
               PROVE  At(r, at, y) = d.loc[y] /\ At(d, NOTHING, y) = d.loc[y]
    OBVIOUS
  <2>1. At(d, NOTHING, y) = d.loc[y] BY DEF At
  <2>2. RefOk(d, NOTHING, y) BY <1>1 DEF Refs
  <2>3. d.loc[y] \in PlacesOf(d) BY <2>1, <2>2 DEF RefOk
  <2>4. d.loc[y] # NOTHING BY <2>3, TypesAre, Numbers
  <2>5. y \in Obj BY TypesAre
  <2> QED BY <1>4, <1>5, <2>1, <2>4, <2>5 DEF At
<1>8. Linked(r, D, d.contents[at]) BY <1>1, <1>2, OutLinked
<1>9. /\ Live(r) = Live(d) /\ Stays(d, r) BY <1>4 DEF Live, Stays
<1>10. Base(r)
  <2>1. Root \in Obj BY Numbers
  <2>2. Root \notin M BY <1>5
  <2>3. \A x \in Obj : d.typ[x] = "garbage" => d.loc[x] = NOTHING BY <1>1 DEF Base
  <2>4. \A x \in Obj : r.typ[x] = "garbage" => r.loc[x] = NOTHING BY <1>4, <2>3
  <2>5. r.loc[Root] = NOTHING BY <1>1, <1>4, <2>1, <2>2 DEF Base
  <2> QED BY <1>1, <1>4, <2>4, <2>5 DEF Base
<1>11. Refs(r, at)
  <2>1. ASSUME NEW y \in Live(d) PROVE RefOk(r, at, y)
    <3>1. y \in Obj BY TypesAre
    <3>2. RefOk(d, NOTHING, y) BY <1>1 DEF Refs
    <3>3. y # Root => At(r, at, y) = At(d, NOTHING, y) BY <1>7
    <3>4. d.typ[y] = "exit" => r.loc[y] = d.loc[y] BY <1>5, <1>6, <3>1
    <3>5. r.owner[y] = d.owner[y] /\ r.link[y] = d.link[y] /\ r.dests[y] = d.dests[y]
      BY <1>4
    <3> QED BY <1>9, <3>2, <3>3, <3>4, <3>5, RefKept
  <2> QED BY <1>9, <2>1 DEF Refs
<1>12. \A y \in D : r.loc[y] = d.loc[y]
  BY <1>1, <1>5, <1>6, TypesAre
<1>13. D \subseteq Live(r) \ {Root} /\ \A x \in D : r.loc[x] # NOTHING
  BY <1>1, <1>9, <1>12
<1>14. World(r, D, d.contents[at], at) BY <1>8, <1>10, <1>11, <1>13 DEF World
<1>15. \A y \in Live(d) \ {Root} : r.loc[y] = NOTHING => d.loc[y] = at
  <2> SUFFICES ASSUME NEW y \in Live(d) \ {Root}, r.loc[y] = NOTHING
               PROVE  d.loc[y] = at
    OBVIOUS
  <2>1. y \in Obj BY TypesAre
  <2>2. At(r, at, y) = at BY DEF At
  <2> QED BY <1>7, <2>2
<1>16. \A y \in M : y \in Live(d) \ {Root} BY <1>3, <1>5 DEF On, Live
<1>17. TakenOut(d, D, at, r)
  BY <1>4, <1>5, <1>6, <1>7, <1>12, <1>15, <1>16 DEF TakenOut
<1> QED BY <1>14, <1>17

\* When all is put back nothing is nowhere.
LEMMA AllBack ==
  ASSUME NEW d, NEW D, NEW so, World(d, D, NOTHING, so)
  PROVE  /\ \A y \in Live(d) \ {Root} : d.loc[y] # NOTHING
         /\ World(d, D, NOTHING, NOTHING)
<1>1. Base(d) /\ d \in DB /\ Linked(d, D, NOTHING) /\ Refs(d, so)
      /\ D \subseteq Live(d) \ {Root} /\ \A x \in D : d.loc[x] # NOTHING
  BY WorldIs
<1>2. ASSUME NEW y \in Live(d) \ {Root}, d.loc[y] = NOTHING PROVE FALSE
  <2>1. y \in Obj /\ d.typ[y] \notin {"none", "garbage"} BY TypesAre
  <2>2. y \notin D BY <1>1, <1>2
  <2>3. y \in On(d, D) BY <2>1, <2>2 DEF On
  <2>4. d.typ[y] # "exit" BY <1>1, <1>2 DEF Refs, RefOk
  <2> DEFINE k == Label("contents", NOTHING)
  <2>5. Lab(d)[y] = k BY <1>2, <2>1, <2>3, <2>4, LabelOf
  <2>6. k \in DOMAIN Heads(d, NOTHING) /\ Heads(d, NOTHING)[k] = NOTHING BY HeadsAre
  <2> HIDE DEF k
  <2>7. d.next \in [Obj -> Obj \union {NOTHING}] BY <1>1, DBFields DEF OrNone
  <2>8. On(d, D) \in SUBSET Obj BY OnFacts
  <2>9. Strung(On(d, D), Lab(d), Heads(d, NOTHING), d.next) BY <1>1 DEF Linked
  <2>10. /\ Chain(d, Heads(d, NOTHING)[k]) = {x \in On(d, D) : Lab(d)[x] = k}
         /\ Ends(d, Heads(d, NOTHING)[k])
    BY <2>6, <2>7, <2>8, <2>9, StrungChain
  <2>11. Chain(d, NOTHING) = {} BY NoChain
  <2> QED BY <2>3, <2>5, <2>6, <2>10, <2>11
<1>3. \A y \in Live(d) : y # Root => At(d, NOTHING, y) = At(d, so, y) BY <1>2 DEF At
<1>4. ASSUME NEW y \in Live(d) PROVE RefOk(d, NOTHING, y)
  <2>1. RefOk(d, so, y) BY <1>1 DEF Refs
  <2>2. Stays(d, d) BY DEF Stays
  <2> QED BY <1>3, <2>1, <2>2, RefKept
<1>5. World(d, D, NOTHING, NOTHING) BY <1>1, <1>4 DEF World, Refs
<1> QED BY <1>2, <1>5

\* reverse changes only an order.
LEMMA TurnWorld ==
  ASSUME NEW d, NEW D, NEW c, NEW so, World(d, D, c, so), NEW at \in Obj,
         NEW r, Turned(d, at, r)
  PROVE  World(r, D, c, so)
<1>1. d \in DB /\ Linked(d, D, c) /\ D \subseteq Live(d) \ {Root}
      /\ \A x \in D : d.loc[x] # NOTHING
  BY WorldIs
<1>2. Linked(r, D, c) BY <1>1, ReverseLinked
<1>3. /\ r \in DB /\ r.top = d.top /\ r.typ = d.typ /\ r.loc = d.loc
      /\ r.owner = d.owner /\ r.link = d.link /\ r.dests = d.dests
  BY DEF Turned
<1> QED BY <1>1, <1>2, <1>3, ListsWorld

-----------------------------------------------------------------------------
(* Parents. What send_contents takes out of so is not above so.            *)

Clear(d, so) == \E U \in SUBSET (Obj \ {Root}) :
  /\ so \in U \union {Root}
  /\ \A y \in U : Ups(d, y) \subseteq U \union {Root, NOTHING, HOME}
  /\ \A y \in Live(d) \ {Root} : d.loc[y] = NOTHING => y \notin U


\* What the walk up from w meets.
LEMMA UpClosed ==
  ASSUME NEW d, NEW s
  PROVE  /\ s \in Obj \ {Root} => ParentLoop(d, s, s)
         /\ \A w \in Obj \ {Root} : \A v \in Ups(d, w) :
              ~ParentLoop(d, s, w) => ~ParentLoop(d, s, v)
<1>1. s \in Obj \ {Root} => ParentLoop(d, s, s) BY Numbers DEF ParentLoop
<1>2. ASSUME NEW w \in Obj \ {Root}, NEW v \in Ups(d, w), ~ParentLoop(d, s, w)
      PROVE  ~ParentLoop(d, s, v)
  <2>1. PICK T \in SUBSET (Obj \ {Root}) :
          /\ w \in T \union {Root, NOTHING, HOME}
          /\ \A y \in T : Ups(d, y) \subseteq T \union {Root, NOTHING, HOME}
          /\ s \notin T
    BY <1>2 DEF ParentLoop
  <2>2. w \in T BY <2>1, Numbers
  <2>3. v \in T \union {Root, NOTHING, HOME} BY <2>1, <2>2
  <2> QED BY <2>1, <2>3 DEF ParentLoop
<1> QED BY <1>1, <1>2

\* The walk up from w that meets s goes through a parent of w.
LEMMA UpOne ==
  ASSUME NEW d \in DB, NEW s, NEW w \in Obj \ {Root}, s # w, ParentLoop(d, s, w)
  PROVE  \E v \in Ups(d, w) \intersect (Obj \ {Root}) : ParentLoop(d, s, v)
<1> SUFFICES ASSUME \A v \in Ups(d, w) \intersect (Obj \ {Root}) : ~ParentLoop(d, s, v)
             PROVE  FALSE
  OBVIOUS
<1> DEFINE N == {z \in Obj \ {Root} : ~ParentLoop(d, s, z)}
           T == N \union {w}
<1>1. \A y \in Obj : Ups(d, y) \subseteq Obj \union {NOTHING, HOME}
  BY DBFields DEF Ups, OrNone
<1>2. T \in SUBSET (Obj \ {Root}) /\ w \in T OBVIOUS
<1>3. s \notin T BY UpClosed
<1>4. ASSUME NEW y \in T PROVE Ups(d, y) \subseteq T \union {Root, NOTHING, HOME}
  <2>1. CASE y \in N BY <1>1, <2>1, UpClosed
  <2>2. CASE y = w BY <1>1, <2>2
  <2> QED BY <2>1, <2>2
<1> HIDE DEF T
<1> QED BY <1>2, <1>3, <1>4 DEF ParentLoop

\* When the parents form no loop, nothing is above its parent.
LEMMA NotAbove ==
  ASSUME NEW d \in DB, Acyclic(d), NEW at \in Obj \ {Root}, NEW y \in Obj \ {Root},
         at \in Ups(d, y)
  PROVE  ~ParentLoop(d, y, at)
<1> SUFFICES ASSUME ParentLoop(d, y, at) PROVE FALSE OBVIOUS
<1> DEFINE U == {w \in Obj \ {Root} : ParentLoop(d, w, at)}
           S == {w \in U : ParentLoop(d, at, w)}
<1>1. at \in S BY UpClosed
<1>2. \A w \in U : \A v \in Ups(d, w) \intersect (Obj \ {Root}) : v \in U
  <2> SUFFICES ASSUME NEW w \in U, NEW v \in Ups(d, w) \intersect (Obj \ {Root}),
                      NEW T \in SUBSET (Obj \ {Root}),
                      at \in T \union {Root, NOTHING, HOME},
                      \A z \in T : Ups(d, z) \subseteq T \union {Root, NOTHING, HOME}
               PROVE  v \in T
    BY DEF ParentLoop
  <2>1. w \in T BY DEF ParentLoop
  <2> QED BY <2>1, Numbers
<1>3. ASSUME NEW w \in S PROVE Ups(d, w) \intersect S # {}
  <2>1. CASE w # at
    <3>1. PICK v \in Ups(d, w) \intersect (Obj \ {Root}) : ParentLoop(d, at, v)
      BY <2>1, UpOne
    <3> QED BY <1>2, <3>1
  <2>2. CASE w = at /\ y = at
    <3> QED BY <1>1, <2>2
  <2>3. CASE w = at /\ y # at
    <3>1. PICK v \in Ups(d, at) \intersect (Obj \ {Root}) : ParentLoop(d, y, v)
      BY <2>3, UpOne
    <3>2. v \in U BY <1>1, <1>2, <3>1
    <3>3. ParentLoop(d, at, v)
      <4> SUFFICES ASSUME NEW T \in SUBSET (Obj \ {Root}),
                          v \in T \union {Root, NOTHING, HOME},
                          \A z \in T : Ups(d, z) \subseteq T \union {Root, NOTHING, HOME}
                   PROVE  at \in T
        BY DEF ParentLoop
      <4>1. y \in T BY <3>1 DEF ParentLoop
      <4> QED BY <4>1, Numbers
    <3> QED BY <2>3, <3>1, <3>2, <3>3
  <2> QED BY <2>1, <2>2, <2>3
<1>4. S \in SUBSET (Obj \ {Root}) /\ S # {} BY <1>1
<1> HIDE DEF S
<1> QED BY <1>3, <1>4 DEF Acyclic

\* What it took out is not above "at", as the parents formed no loop.
LEMMA OutClear ==
  ASSUME NEW d \in DB, NEW D, Acyclic(d), NEW at \in Obj, NEW r, TakenOut(d, D, at, r)
  PROVE  Clear(r, at)
<1>1. /\ r.typ = d.typ /\ r.link = d.link
      /\ \A y \in Obj : r.loc[y] # d.loc[y] => y \in Live(d) \ {Root} /\ d.loc[y] = at
      /\ \A y \in Live(d) \ {Root} : r.loc[y] = NOTHING => d.loc[y] = at
  BY DEF TakenOut
<1>2. Live(r) = Live(d) BY <1>1 DEF Live
<1>3. CASE at = Root
  <2> DEFINE U == {}
  <2>1. U \in SUBSET (Obj \ {Root}) OBVIOUS
  <2>2. at \in U \union {Root} BY <1>3
  <2>3. /\ \A y \in U : Ups(r, y) \subseteq U \union {Root, NOTHING, HOME}
        /\ \A y \in Live(r) \ {Root} : r.loc[y] = NOTHING => y \notin U
    OBVIOUS
  <2> HIDE DEF U
  <2> QED BY <2>1, <2>2, <2>3 DEF Clear
<1>4. CASE at # Root
  <2> DEFINE U == {w \in Obj \ {Root} : ParentLoop(d, w, at)}
  <2>1. U \in SUBSET (Obj \ {Root}) OBVIOUS
  <2>2. at \in U BY <1>4, UpClosed
  <2>3. \A y \in Obj \ {Root} : d.loc[y] = at => y \notin U BY <1>4, NotAbove DEF Ups
  <2>4. \A y \in Live(r) \ {Root} : r.loc[y] = NOTHING => y \notin U
    BY <1>1, <1>2, <2>3, TypesAre
  <2>5. ASSUME NEW y \in U PROVE Ups(r, y) \subseteq U \union {Root, NOTHING, HOME}
    <3>1. r.loc[y] = d.loc[y] BY <1>1, <2>3
    <3>2. Ups(r, y) = Ups(d, y) BY <1>1, <3>1 DEF Ups
    <3>3. Ups(d, y) \subseteq Obj \union {NOTHING, HOME} BY DBFields DEF Ups, OrNone
    <3>4. ASSUME NEW v \in Ups(d, y), v \in Obj \ {Root} PROVE v \in U
      <4> SUFFICES ASSUME NEW T \in SUBSET (Obj \ {Root}),
                          at \in T \union {Root, NOTHING, HOME},
                          \A z \in T : Ups(d, z) \subseteq T \union {Root, NOTHING, HOME}
                   PROVE  v \in T
        BY <3>4 DEF ParentLoop
      <4>1. y \in T BY DEF ParentLoop
      <4> QED BY <3>4, <4>1, Numbers
    <3> QED BY <3>2, <3>3, <3>4
  <2> HIDE DEF U
  <2> QED BY <2>1, <2>2, <2>4, <2>5 DEF Clear
<1> QED BY <1>3, <1>4

-----------------------------------------------------------------------------
(* Links, and exits that change place.                                     *)

\* Only what x says of itself differs: its owner, home and destinations.
Edited(d, x, r) ==
  /\ r \in DB
  /\ r.top = d.top /\ r.recyclable = d.recyclable /\ r.typ = d.typ /\ r.loc = d.loc
  /\ r.contents = d.contents /\ r.exits = d.exits /\ r.next = d.next
  /\ \A y \in Obj \ {x} :
       r.owner[y] = d.owner[y] /\ r.link[y] = d.link[y] /\ r.dests[y] = d.dests[y]

\* A home, a dropto, destinations or an owner are set.
LEMMA EditWorld ==
  ASSUME NEW d, NEW D, NEW c, NEW so, World(d, D, c, so), NEW x \in Live(d),
         NEW r, Edited(d, x, r), RefOk(r, so, x)
  PROVE  World(r, D, c, so)
<1>1. Base(d) /\ d \in DB /\ Linked(d, D, c) /\ Refs(d, so)
      /\ D \subseteq Live(d) \ {Root} /\ \A y \in D : d.loc[y] # NOTHING
  BY WorldIs
<1>2. /\ r \in DB
      /\ r.top = d.top /\ r.recyclable = d.recyclable /\ r.typ = d.typ /\ r.loc = d.loc
      /\ r.contents = d.contents /\ r.exits = d.exits /\ r.next = d.next
      /\ \A y \in Obj \ {x} :
           r.owner[y] = d.owner[y] /\ r.link[y] = d.link[y] /\ r.dests[y] = d.dests[y]
  BY DEF Edited
<1>3. Live(r) = Live(d) /\ Stays(d, r) /\ On(r, D) = On(d, D)
  BY <1>2 DEF Live, Stays, On
<1>4. Linked(r, D, c) BY <1>1, <1>2, <1>3, SameLinked
<1>5. Base(r) BY <1>1, <1>2 DEF Base
<1>6. ASSUME NEW y \in Live(d) \ {x} PROVE RefOk(r, so, y)
  <2>1. RefOk(d, so, y) /\ y \in Obj BY <1>1, TypesAre DEF Refs
  <2>2. At(r, so, y) = At(d, so, y) BY <1>2 DEF At
  <2> QED BY <1>2, <1>3, <2>1, <2>2, RefKept
<1>7. Refs(r, so) BY <1>3, <1>6 DEF Refs
<1>8. D \subseteq Live(r) \ {Root} /\ \A y \in D : r.loc[y] # NOTHING BY <1>1, <1>2, <1>3
<1> QED BY <1>4, <1>5, <1>7, <1>8 DEF World

\* unset_source and set_source
LEMMA AttachWorld ==
  ASSUME NEW d, NEW D, World(d, D, NOTHING, NOTHING), NEW e \in Of(d, "exit"), e \notin D,
         NEW at \in PlacesOf(d),
         NEW r, r = PushOn([RemoveFrom(d, "exits", d.loc[e], e)
                              EXCEPT !.loc = [@ EXCEPT ![e] = at]], "exits", at, e)
  PROVE  World(r, D, NOTHING, NOTHING) /\ Moved(d, e, at, r)
<1>1. Base(d) /\ d \in DB /\ Refs(d, NOTHING) /\ D \subseteq Live(d) \ {Root}
      /\ \A y \in D : d.loc[y] # NOTHING
  BY WorldIs
<1> DEFINE out == RemoveFrom(d, "exits", d.loc[e], e)
           there == [out EXCEPT !.loc = [@ EXCEPT ![e] = at]]
<1>2. e \in Obj /\ d.typ[e] = "exit" /\ e \in Live(d) BY TypesAre
<1>3. e # Root BY <1>1, <1>2 DEF Base
<1>4. RefOk(d, NOTHING, e) BY <1>1, <1>2 DEF Refs
<1>5. d.loc[e] \in Obj /\ d.loc[e] # NOTHING BY <1>1, <1>2, <1>4, DBFields DEF RefOk, OrNone
<1>6. ListOf(d, e) = "exits" BY <1>2 DEF ListOf
<1>7. World(out, D \union {e}, NOTHING, NOTHING) /\ Removed(d, "exits", d.loc[e], e, out)
  BY <1>2, <1>3, <1>5, <1>6, RemoveWorld
<1>8. r = PushOn(there, "exits", at, e) OBVIOUS
<1> HIDE DEF out
<1>9. /\ out.top = d.top /\ out.typ = d.typ /\ out.loc = d.loc
      /\ out.owner = d.owner /\ out.link = d.link /\ out.dests = d.dests
  BY <1>7 DEF Removed, Others
<1>10. Base(out) /\ Refs(out, NOTHING) /\ Linked(out, D \union {e}, NOTHING)
       /\ D \union {e} \subseteq Live(out) \ {Root}
       /\ \A y \in D \union {e} : out.loc[y] # NOTHING
  BY <1>7, WorldIs
<1>11. at \in PlacesOf(out) BY <1>9 DEF PlacesOf
<1>12. World(there, D \union {e}, NOTHING, NOTHING) /\ Relocated(out, e, at, there)
  BY <1>10, <1>11, LocWorld
<1> HIDE DEF there
<1>13. /\ there.top = d.top /\ there.typ = d.typ
       /\ there.owner = d.owner /\ there.link = d.link /\ there.dests = d.dests
       /\ \A y \in Obj : there.loc[y] = IF y = e THEN at ELSE d.loc[y]
  BY <1>9, <1>12 DEF Relocated
<1>14. ListOf(there, e) = "exits" /\ there.loc[e] = at /\ at \in Obj /\ e \in D \union {e}
  BY <1>2, <1>13, TypesAre DEF ListOf
<1>15. World(r, (D \union {e}) \ {e}, NOTHING, NOTHING) /\ Pushed(there, "exits", at, e, r)
  BY <1>8, <1>12, <1>14, PushWorld
<1>16. (D \union {e}) \ {e} = D OBVIOUS
<1>17. Moved(d, e, at, r) BY <1>13, <1>15 DEF Moved, Pushed, Others
<1> QED BY <1>15, <1>16, <1>17

-----------------------------------------------------------------------------
(* recycle                                                                 *)

\* Nothing that is there names x as its home, dropto or destination.
Unnamed(d, x) == \A y \in Live(d) :
  /\ d.typ[y] \in {"room", "thing", "player"} => d.link[y] # x
  /\ x \notin d.dests[y]

\* Nothing that is there is in x.
NoneIn(d, x) == \A y \in Live(d) : d.loc[y] # x

\* The pass of recycle: r is d, but nothing names x any more, nor anything else
\* but the root room that was not named before.
Passed(d, x, r) ==
  /\ r \in DB
  /\ r.top = d.top /\ r.typ = d.typ /\ r.loc = d.loc
  /\ \A y \in Live(d) : r.owner[y] = d.owner[y]
  /\ \A y \in Of(d, "thing") : d.link[y] # x => r.link[y] = d.link[y]
  /\ Unnamed(r, x)
  /\ \A z \in Obj \ {Root} : Unnamed(d, z) => Unnamed(r, z)
  /\ \A p \in PlacesOf(d) : r.exits[p] = IF d.exits[p] = x THEN d.next[x] ELSE d.exits[p]

\* After the pass of recycle() x is on no list and nothing names it.
LEMMA ScanWorld ==
  ASSUME NEW d, NEW D, World(d, D, NOTHING, NOTHING),
         NEW x \in Live(d) \ {Root}, d.typ[x] # "player",
         NEW r, r = Scan(d, x)
  PROVE  World(r, D \union {x}, NOTHING, NOTHING) /\ Passed(d, x, r)
<1>1. Base(d) /\ d \in DB /\ Linked(d, D, NOTHING) /\ Refs(d, NOTHING)
      /\ D \subseteq Live(d) \ {Root} /\ \A y \in D : d.loc[y] # NOTHING
  BY WorldIs
<1>2. x \in Obj /\ d.typ[x] \notin {"none", "garbage"} BY TypesAre
<1>3. \A y \in Live(d) : /\ d.owner[y] \in Of(d, "player") /\ d.owner[y] \in Live(d)
                         /\ d.owner[y] \in Obj /\ d.owner[y] # x
  BY <1>1, TypesAre DEF Refs, RefOk
<1>4. Scanned(d, x, r)
  <2>1. \A y \in Of(d, "thing") : d.owner[y] \in Obj BY <1>3, TypesAre
  <2> QED BY <1>1, <1>2, <2>1, ScanFields
<1>5. RefOk(d, NOTHING, x) BY <1>1 DEF Refs
<1>6. d.loc[x] \in PlacesOf(d)
  BY <1>5 DEF RefOk, At
<1>7. Linked(r, D \union {x}, NOTHING)
  <2>1. CASE x \in D
    <3>1. D \union {x} = D BY <2>1
    <3> QED BY <1>1, <1>2, <1>4, <2>1, <3>1, ScanMisses
  <2>2. CASE x \notin D
    <3>1. x \in On(d, D) BY <1>2, <2>2 DEF On
    <3>2. d.loc[x] \in Obj /\ d.typ[d.loc[x]] \in {"room", "thing", "player"}
      BY <1>6, TypesAre
    <3> QED BY <1>1, <1>2, <1>4, <3>1, <3>2, ScanTakes
  <2> QED BY <2>1, <2>2
<1>8. /\ r \in DB /\ r.top = d.top /\ r.typ = d.typ /\ r.loc = d.loc
      /\ \A y \in Obj :
           /\ r.exits[y] = IF d.typ[y] \in {"room", "thing", "player"} /\ d.exits[y] = x
                           THEN d.next[x] ELSE d.exits[y]
           /\ r.owner[y] = IF d.typ[y] \in {"room", "thing", "exit", "program"}
                              /\ d.owner[y] = x
                           THEN Man ELSE d.owner[y]
           /\ r.dests[y] = IF d.typ[y] = "exit" THEN d.dests[y] \ {x} ELSE d.dests[y]
           /\ d.link[y] # x => r.link[y] = d.link[y]
           /\ d.link[y] = x =>
                /\ d.typ[y] = "room" => r.link[y] = NOTHING
                /\ d.typ[y] = "player" => r.link[y] = Root
                /\ d.typ[y] = "thing" =>
                     r.link[y] = IF d.link[d.owner[y]] = x THEN Root ELSE d.link[d.owner[y]]
  BY <1>4 DEF Scanned
<1>9. Live(r) = Live(d) /\ PlacesOf(r) = PlacesOf(d) /\ \A t : Of(r, t) = Of(d, t)
  BY <1>8 DEF Live, PlacesOf, Of
<1>10. \A y \in Live(d) : y \in Obj /\ r.owner[y] = d.owner[y] BY <1>3, <1>8, TypesAre
<1>11. \A y \in Live(d) : r.dests[y] = d.dests[y] \ {x}
  <2> SUFFICES ASSUME NEW y \in Live(d) PROVE r.dests[y] = d.dests[y] \ {x} OBVIOUS
  <2>1. RefOk(d, NOTHING, y) BY <1>1 DEF Refs
  <2>2. d.typ[y] # "exit" => d.dests[y] = {} BY <2>1 DEF RefOk
  <2> QED BY <1>8, <1>10, <2>2
<1>12. \A y \in Live(d) : d.typ[y] = "thing" => d.link[d.owner[y]] \in Of(d, "room")
  <2> SUFFICES ASSUME NEW y \in Live(d) PROVE d.link[d.owner[y]] \in Of(d, "room") OBVIOUS
  <2>1. d.owner[y] \in Live(d) /\ d.typ[d.owner[y]] = "player" BY <1>3, TypesAre
  <2>2. RefOk(d, NOTHING, d.owner[y]) BY <1>1, <2>1 DEF Refs
  <2> QED BY <2>1, <2>2 DEF RefOk
<1>13. Root \in Of(d, "room") /\ Root \in PlacesOf(d) BY <1>1, Numbers, TypesAre DEF Base
<1>14. ASSUME NEW y \in Live(d) PROVE RefOk(r, NOTHING, y)
  <2>1. RefOk(d, NOTHING, y) BY <1>1 DEF Refs
  <2>2. At(r, NOTHING, y) = At(d, NOTHING, y) BY <1>8 DEF At
  <2>3. r.link[y] = d.link[y] \/ d.link[y] = x BY <1>8, <1>10
  <2>4. d.typ[y] = "room" =>
          r.link[y] \in {NOTHING, HOME} \union Of(d, "room") \union Of(d, "thing")
    BY <1>8, <1>10, <2>1, <2>3 DEF RefOk
  <2>5. d.typ[y] = "player" => r.link[y] \in Of(d, "room")
    BY <1>8, <1>10, <1>13, <2>1, <2>3 DEF RefOk
  <2>6. d.typ[y] = "thing" => r.link[y] \in PlacesOf(d)
    <3>1. Of(d, "room") \subseteq PlacesOf(d) BY TypesAre
    <3> QED BY <1>8, <1>10, <1>12, <1>13, <2>1, <2>3, <3>1 DEF RefOk
  <2>7. /\ d.owner[y] \in Of(d, "player")
        /\ y # Root => At(d, NOTHING, y) \in PlacesOf(d)
        /\ d.typ[y] = "exit" => d.loc[y] # NOTHING
        /\ d.dests[y] \subseteq Live(d) \union {HOME}
        /\ d.typ[y] # "exit" => d.dests[y] = {}
    BY <2>1 DEF RefOk
  <2>8. r.dests[y] \subseteq Live(d) \union {HOME} /\ (d.typ[y] # "exit" => r.dests[y] = {})
    BY <1>11, <2>7
  <2> QED BY <1>8, <1>9, <1>10, <2>2, <2>4, <2>5, <2>6, <2>7, <2>8 DEF RefOk
<1>15. Unnamed(r, x)
  <2> SUFFICES ASSUME NEW y \in Live(d)
               PROVE  /\ d.typ[y] \in {"room", "thing", "player"} => r.link[y] # x
                      /\ x \notin r.dests[y]
    BY <1>8, <1>9 DEF Unnamed
  <2>1. x # NOTHING /\ x # Root BY <1>2, Numbers
  <2>2. y \in Obj /\ x \notin r.dests[y] BY <1>10, <1>11
  <2>3. /\ d.link[y] # x => r.link[y] = d.link[y]
        /\ d.link[y] = x =>
             /\ d.typ[y] = "room" => r.link[y] = NOTHING
             /\ d.typ[y] = "player" => r.link[y] = Root
             /\ d.typ[y] = "thing" =>
                  r.link[y] = IF d.link[d.owner[y]] = x THEN Root ELSE d.link[d.owner[y]]
    BY <1>8, <2>2
  <2> QED BY <2>1, <2>2, <2>3
<1>16. ASSUME NEW z \in Obj \ {Root}, Unnamed(d, z) PROVE Unnamed(r, z)
  <2> SUFFICES ASSUME NEW y \in Live(d)
               PROVE  /\ d.typ[y] \in {"room", "thing", "player"} => r.link[y] # z
                      /\ z \notin r.dests[y]
    BY <1>8, <1>9 DEF Unnamed
  <2>1. z # NOTHING /\ z # Root BY Numbers
  <2>2. /\ d.typ[y] \in {"room", "thing", "player"} => d.link[y] # z
        /\ z \notin d.dests[y]
    BY <1>16 DEF Unnamed
  <2>3. d.link[d.owner[y]] # z BY <1>3, <1>16, TypesAre DEF Unnamed
  <2> QED BY <1>8, <1>10, <1>11, <2>1, <2>2, <2>3
<1>17. \A p \in PlacesOf(d) : r.exits[p] = IF d.exits[p] = x THEN d.next[x] ELSE d.exits[p]
  BY <1>8, TypesAre
<1>18. Passed(d, x, r)
  <2>1. \A y \in Of(d, "thing") : d.link[y] # x => r.link[y] = d.link[y]
    BY <1>8, TypesAre
  <2> QED BY <1>8, <1>10, <1>15, <1>16, <1>17, <2>1 DEF Passed
<1>19. Base(r) BY <1>1, <1>8 DEF Base
<1>20. D \union {x} \subseteq Live(r) \ {Root} /\ \A y \in D \union {x} : r.loc[y] # NOTHING
  BY <1>1, <1>6, <1>8, <1>9, TypesAre, Numbers
<1>21. World(r, D \union {x}, NOTHING, NOTHING)
  BY <1>7, <1>9, <1>14, <1>19, <1>20 DEF World, Refs
<1> QED BY <1>18, <1>21

\* r is d without x.
Buried(d, x, r) ==
  /\ r \in DB /\ r.top = d.top
  /\ x \in Live(d) /\ Live(r) = Live(d) \ {x}
  /\ \A y \in Obj \ {x} :
       /\ r.typ[y] = d.typ[y] /\ r.loc[y] = d.loc[y] /\ r.exits[y] = d.exits[y]
       /\ r.owner[y] = d.owner[y] /\ r.link[y] = d.link[y] /\ r.dests[y] = d.dests[y]

\* What is on no list, named by nothing and empty can be freed.
LEMMA BuryWorld ==
  ASSUME NEW d, NEW D, World(d, D, NOTHING, NOTHING), NEW x \in D, d.typ[x] # "player",
         Unnamed(d, x), NoneIn(d, x), NEW r, r = Bury(d, x)
  PROVE  World(r, D \ {x}, NOTHING, NOTHING) /\ Buried(d, x, r)
<1>1. Base(d) /\ d \in DB /\ Linked(d, D, NOTHING) /\ Refs(d, NOTHING)
      /\ D \subseteq Live(d) \ {Root} /\ \A y \in D : d.loc[y] # NOTHING
  BY WorldIs
<1>2. x \in Obj \ {Root} /\ x \in Live(d) /\ d.typ[x] \notin {"none", "garbage"}
  BY <1>1, TypesAre
<1>3. d.loc[x] \in Obj /\ d.loc[x] # NOTHING BY <1>1, <1>2, DBFields DEF OrNone
<1> DEFINE out == RemoveFrom(d, "contents", d.loc[x], x)
           n == [out EXCEPT !.loc = [@ EXCEPT ![x] = NOTHING]]
<1>4. Moveto(d, x, NOTHING) = n
  BY <1>2, <1>3, NotInHome, Numbers DEF Moveto
<1>5. r = FreeObject(n, x) BY <1>4 DEF Bury
<1>6. x \in Obj \ On(d, D) BY <1>2 DEF On
<1>7. Linked(out, D, NOTHING) BY <1>1, <1>3, <1>6, RemoveMissed
<1>8. Removed(d, "contents", d.loc[x], x, out) BY <1>1, <1>2, <1>3, RemoveFields
<1> HIDE DEF out
<1>9. /\ out \in DB /\ out.top = d.top /\ out.recyclable = d.recyclable
      /\ out.typ = d.typ /\ out.loc = d.loc /\ out.owner = d.owner
      /\ out.link = d.link /\ out.dests = d.dests /\ out.exits = d.exits
      /\ \A y \in Obj : out.contents[y] =
           IF y = d.loc[x] /\ d.contents[d.loc[x]] = x THEN d.next[x] ELSE d.contents[y]
  BY <1>8 DEF Removed, Others
<1>10. Relocated(out, x, NOTHING, n) BY <1>2, <1>9, LocFields, Numbers
<1>11. x \notin On(out, D) BY <1>2 DEF On
<1>12. Linked(n, D, NOTHING) BY <1>2, <1>7, <1>9, <1>10, <1>11, LocLinked
<1> HIDE DEF n
<1>13. /\ n \in DB /\ n.top = d.top /\ n.typ = d.typ /\ n.owner = d.owner
       /\ n.link = d.link /\ n.dests = d.dests /\ n.exits = d.exits
       /\ n.contents = out.contents
       /\ \A y \in Obj : n.loc[y] = IF y = x THEN NOTHING ELSE d.loc[y]
  BY <1>9, <1>10 DEF Relocated
<1>14. d.contents[x] = NOTHING /\ d.exits[x] = NOTHING
  <2>1. ASSUME NEW y, y \in On(d, D), d.loc[y] = x, d.typ[y] # "garbage" PROVE FALSE
    <3>1. y \in Live(d) BY <2>1 DEF On, Live
    <3> QED BY <2>1, <3>1 DEF NoneIn
  <2> QED BY <1>1, <1>2, <2>1, LinkedHeads
<1>15. n.contents[x] = NOTHING /\ n.exits[x] = NOTHING
  <2>1. d.loc[x] # x BY <1>2 DEF NoneIn
  <2> QED BY <1>2, <1>9, <1>13, <1>14, <2>1
<1>16. Gone(n, x, r) BY <1>2, <1>5, <1>13, FreeFields
<1>17. Linked(r, D \ {x}, NOTHING) BY <1>2, <1>12, <1>13, <1>15, <1>16, FreeLinked
<1>18. /\ r \in DB /\ r.top = d.top /\ r.typ[x] = "garbage" /\ r.loc[x] = NOTHING
       /\ \A y \in Obj \ {x} :
            /\ r.typ[y] = d.typ[y] /\ r.loc[y] = d.loc[y] /\ r.exits[y] = d.exits[y]
            /\ r.owner[y] = d.owner[y] /\ r.link[y] = d.link[y] /\ r.dests[y] = d.dests[y]
  BY <1>13, <1>16 DEF Gone, SameBut
<1>19. Live(r) = Live(d) \ {x} BY <1>2, <1>18 DEF Live
<1>20. Buried(d, x, r) BY <1>2, <1>18, <1>19 DEF Buried
<1>21. Base(r)
  <2>1. x # Root /\ x # Man /\ Root \in Obj /\ Man \in Obj BY <1>1, <1>2, Numbers DEF Base
  <2>2. ASSUME NEW y \in Obj PROVE r.typ[y] = "none" <=> y >= r.top
    <3>1. d.typ[y] = "none" <=> y >= d.top BY <1>1 DEF Base
    <3>2. CASE y = x BY <1>2, <1>18, <3>1, <3>2
    <3>3. CASE y # x BY <1>18, <3>1, <3>3
    <3> QED BY <3>2, <3>3
  <2>3. \A y \in Obj : r.typ[y] \in {"none", "garbage"} => r.loc[y] = NOTHING
    BY <1>1, <1>18 DEF Base
  <2>4. r.typ[Root] = "room" /\ r.loc[Root] = NOTHING /\ r.typ[Man] = "player"
    BY <1>1, <1>18, <2>1 DEF Base
  <2> QED BY <1>18, <2>2, <2>3, <2>4 DEF Base
<1>22. ASSUME NEW y \in Live(r) PROVE RefOk(r, NOTHING, y)
  <2>1. y \in Live(d) /\ y # x /\ y \in Obj BY <1>19, TypesAre
  <2>2. RefOk(d, NOTHING, y) BY <1>1, <2>1 DEF Refs
  <2>3. /\ d.owner[y] \in Of(d, "player")
        /\ y # Root => d.loc[y] \in PlacesOf(d)
        /\ d.typ[y] = "exit" => d.loc[y] # NOTHING
        /\ d.typ[y] = "room" =>
             d.link[y] \in {NOTHING, HOME} \union Of(d, "room") \union Of(d, "thing")
        /\ d.typ[y] = "thing" => d.link[y] \in PlacesOf(d)
        /\ d.typ[y] = "player" => d.link[y] \in Of(d, "room")
        /\ d.dests[y] \subseteq Live(d) \union {HOME}
        /\ d.typ[y] # "exit" => d.dests[y] = {}
    BY <2>2 DEF RefOk, At
  <2>4. \A z \in Obj : z # x =>
          /\ z \in PlacesOf(d) => z \in PlacesOf(r)
          /\ \A t : z \in Of(d, t) => z \in Of(r, t)
          /\ z \in Live(d) => z \in Live(r)
          /\ r.typ[z] = d.typ[z]
    BY <1>18 DEF PlacesOf, Of, Live
  <2>5. d.loc[y] # x BY <2>1 DEF NoneIn
  <2>6. d.typ[y] \in {"room", "thing", "player"} => d.link[y] # x
    BY <2>1 DEF Unnamed
  <2>7. x \notin d.dests[y] BY <2>1 DEF Unnamed
  <2>8. d.owner[y] \in Of(r, "player")
    <3>1. d.owner[y] \in Obj /\ d.owner[y] # x BY <2>3, TypesAre
    <3> QED BY <2>3, <2>4, <3>1
  <2>9. At(r, NOTHING, y) = d.loc[y] BY <1>18, <2>1 DEF At
  <2>10. y # Root => d.loc[y] \in PlacesOf(r)
    BY <2>3, <2>4, <2>5, TypesAre
  <2>11. d.typ[y] = "room" =>
           d.link[y] \in {NOTHING, HOME} \union Of(r, "room") \union Of(r, "thing")
    BY <2>3, <2>4, <2>6, TypesAre
  <2>12. d.typ[y] = "thing" => d.link[y] \in PlacesOf(r)
    BY <2>3, <2>4, <2>6, TypesAre
  <2>13. d.typ[y] = "player" => d.link[y] \in Of(r, "room")
    BY <2>3, <2>4, <2>6, TypesAre
  <2>14. d.dests[y] \subseteq Live(r) \union {HOME} BY <1>19, <2>3, <2>7
  <2>15. /\ r.typ[y] = d.typ[y] /\ r.loc[y] = d.loc[y] /\ r.owner[y] = d.owner[y]
         /\ r.link[y] = d.link[y] /\ r.dests[y] = d.dests[y]
    BY <1>18, <2>1
  <2> QED BY <2>3, <2>8, <2>9, <2>10, <2>11, <2>12, <2>13, <2>14, <2>15 DEF RefOk
<1>23. D \ {x} \subseteq Live(r) \ {Root} /\ \A y \in D \ {x} : r.loc[y] # NOTHING
  <2>1. \A y \in D \ {x} : y \in Obj \ {x} BY <1>1, TypesAre
  <2> QED BY <1>1, <1>18, <1>19, <2>1
<1>24. World(r, D \ {x}, NOTHING, NOTHING) BY <1>17, <1>21, <1>22, <1>23 DEF World, Refs
<1> QED BY <1>20, <1>24

\* r is d without x, and what was named by nothing still is.
Without(d, x, r) ==
  /\ r \in DB /\ r.top = d.top /\ Live(r) = Live(d) \ {x}
  /\ \A y \in Live(d) \ {x} :
       r.typ[y] = d.typ[y] /\ r.loc[y] = d.loc[y] /\ r.owner[y] = d.owner[y]
  /\ \A y \in Of(d, "thing") \ {x} : r.link[y] = d.link[y]
  /\ \A z \in Obj \ {Root} : Unnamed(d, z) => Unnamed(r, z)

\* What the end of recycle() leaves of the others.
LEMMA BuriedWithout ==
  ASSUME NEW d, NEW x \in Obj, NEW r, Buried(d, x, r)
  PROVE  Without(d, x, r)
<1>1. \A y \in Live(d) \ {x} : y \in Obj \ {x} BY TypesAre
<1>2. \A z : Unnamed(d, z) => Unnamed(r, z)
  BY <1>1 DEF Buried, Unnamed
<1>3. \A y \in Of(d, "thing") \ {x} : r.link[y] = d.link[y]
  BY TypesAre DEF Buried
<1> QED BY <1>1, <1>2, <1>3 DEF Buried, Without

\* recycle of an exit, which nothing is in.
LEMMA ExitWorld ==
  ASSUME NEW d, NEW D, World(d, D, NOTHING, NOTHING), NEW e \in Of(d, "exit"),
         NEW r, r = RecycleExit(d, e)
  PROVE  /\ World(r, D \ {e}, NOTHING, NOTHING) /\ Without(d, e, r)
         /\ \A p \in PlacesOf(d) : r.exits[p] = IF d.exits[p] = e THEN d.next[e] ELSE d.exits[p]
<1> DEFINE s == Scan(d, e)
<1>1. Base(d) /\ d \in DB /\ Refs(d, NOTHING) BY WorldIs
<1>2. e \in Obj /\ d.typ[e] = "exit" /\ e \in Live(d) BY TypesAre
<1>3. e # Root BY <1>1, <1>2 DEF Base
<1>4. World(s, D \union {e}, NOTHING, NOTHING) /\ Passed(d, e, s)
  BY <1>2, <1>3, ScanWorld
<1>5. r = Bury(s, e) BY DEF RecycleExit
<1> HIDE DEF s
<1>6. /\ s.top = d.top /\ s.typ = d.typ /\ s.loc = d.loc
      /\ \A y \in Live(d) : s.owner[y] = d.owner[y]
      /\ Unnamed(s, e)
      /\ \A z \in Obj \ {Root} : Unnamed(d, z) => Unnamed(s, z)
      /\ \A p \in PlacesOf(d) : s.exits[p] = IF d.exits[p] = e THEN d.next[e] ELSE d.exits[p]
  BY <1>4 DEF Passed
<1>7. Live(s) = Live(d) BY <1>6 DEF Live
<1>8. NoneIn(s, e)
  <2> SUFFICES ASSUME NEW y \in Live(d) PROVE d.loc[y] # e BY <1>6, <1>7 DEF NoneIn
  <2>1. CASE y = Root BY <1>1, <1>2, <2>1, Numbers DEF Base
  <2>2. CASE y # Root
    <3>1. At(d, NOTHING, y) \in PlacesOf(d) BY <1>1, <2>2 DEF Refs, RefOk
    <3>2. d.loc[y] \in PlacesOf(d) BY <3>1 DEF At
    <3> QED BY <1>2, <3>2, TypesAre
  <2> QED BY <2>1, <2>2
<1>9. e \in D \union {e} /\ s.typ[e] # "player" BY <1>2, <1>6
<1>10. World(r, (D \union {e}) \ {e}, NOTHING, NOTHING) /\ Buried(s, e, r)
  BY <1>4, <1>5, <1>6, <1>8, <1>9, BuryWorld
<1>11. (D \union {e}) \ {e} = D \ {e} OBVIOUS
<1>12. Without(s, e, r) BY <1>2, <1>10, BuriedWithout
<1>13. Without(d, e, r)
  <2>1. Of(s, "thing") = Of(d, "thing") BY <1>6 DEF Of
  <2>2. \A y \in Of(d, "thing") : d.link[y] # e
    <3> SUFFICES ASSUME NEW y \in Of(d, "thing") PROVE d.link[y] # e OBVIOUS
    <3>1. y \in Live(d) /\ d.typ[y] = "thing" BY TypesAre
    <3>2. d.link[y] \in PlacesOf(d) BY <1>1, <3>1 DEF Refs, RefOk
    <3> QED BY <1>2, <3>2, TypesAre
  <2>3. \A y \in Of(d, "thing") \ {e} : r.link[y] = d.link[y]
    BY <1>4, <1>12, <2>1, <2>2 DEF Passed, Without
  <2> QED BY <1>6, <1>7, <1>12, <2>3 DEF Without
<1>14. \A p \in PlacesOf(d) : r.exits[p] = IF d.exits[p] = e THEN d.next[e] ELSE d.exits[p]
  <2>1. \A p \in PlacesOf(d) : p \in Obj \ {e} BY <1>2, TypesAre
  <2>2. \A p \in Obj \ {e} : r.exits[p] = s.exits[p] BY <1>10 DEF Buried
  <2> QED BY <1>6, <2>1, <2>2
<1> QED BY <1>10, <1>11, <1>13, <1>14

\* ... after it was taken off the list of its source.
LEMMA TakenExitWorld ==
  ASSUME NEW d, NEW D, World(d, D, NOTHING, NOTHING), NEW e \in Of(d, "exit"), e \notin D,
         NEW r, r = RecycleExit(RemoveFrom(d, "exits", d.loc[e], e), e)
  PROVE  World(r, D, NOTHING, NOTHING) /\ Without(d, e, r)
<1> DEFINE out == RemoveFrom(d, "exits", d.loc[e], e)
<1>1. Base(d) /\ d \in DB /\ Refs(d, NOTHING) BY WorldIs
<1>2. e \in Obj /\ d.typ[e] = "exit" /\ e \in Live(d) BY TypesAre
<1>3. e # Root BY <1>1, <1>2 DEF Base
<1>4. RefOk(d, NOTHING, e) BY <1>1, <1>2 DEF Refs
<1>5. d.loc[e] \in Obj BY <1>1, <1>2, <1>4, DBFields DEF RefOk, OrNone
<1>6. ListOf(d, e) = "exits" BY <1>2 DEF ListOf
<1>7. World(out, D \union {e}, NOTHING, NOTHING) /\ Removed(d, "exits", d.loc[e], e, out)
  BY <1>2, <1>3, <1>5, <1>6, RemoveWorld
<1>8. r = RecycleExit(out, e) OBVIOUS
<1> HIDE DEF out
<1>9. /\ out.top = d.top /\ out.typ = d.typ /\ out.loc = d.loc
      /\ out.owner = d.owner /\ out.link = d.link /\ out.dests = d.dests
  BY <1>7 DEF Removed, Others
<1>10. e \in Of(out, "exit") BY <1>2, <1>9, TypesAre
<1>11. World(r, (D \union {e}) \ {e}, NOTHING, NOTHING) /\ Without(out, e, r)
  BY <1>7, <1>8, <1>10, ExitWorld
<1>12. (D \union {e}) \ {e} = D OBVIOUS
<1>13. Live(out) = Live(d) /\ \A z : Unnamed(out, z) <=> Unnamed(d, z)
  BY <1>9 DEF Live, Unnamed
<1>14. Without(d, e, r)
  <2>1. Of(out, "thing") = Of(d, "thing") BY <1>9 DEF Of
  <2> QED BY <1>9, <1>11, <1>13, <2>1 DEF Without
<1> QED BY <1>11, <1>12, <1>14

\* do_frob: v is a thing of the Man, what v owned is p's.
Toaded(d, v, p, r) ==
  /\ r \in DB
  /\ r.top = d.top /\ r.recyclable = d.recyclable /\ r.loc = d.loc
  /\ r.contents = d.contents /\ r.exits = d.exits /\ r.next = d.next /\ r.dests = d.dests
  /\ \A y \in Obj :
       /\ r.typ[y] = IF y = v THEN "thing" ELSE d.typ[y]
       /\ r.owner[y] = IF y = v THEN Man ELSE IF d.owner[y] = v THEN p ELSE d.owner[y]
       /\ r.link[y] = IF d.typ[y] = "thing" /\ d.link[y] = v THEN Root ELSE d.link[y]

\* A player becomes a thing, and what he owned the recipient's.
LEMMA FrobWorld ==
  ASSUME NEW d, NEW D, World(d, D, NOTHING, NOTHING), NEW v \in Of(d, "player") \ {Man},
         NEW p \in Of(d, "player") \ {v}, NEW r, Toaded(d, v, p, r)
  PROVE  World(r, D, NOTHING, NOTHING)
<1>1. Base(d) /\ d \in DB /\ Linked(d, D, NOTHING) /\ Refs(d, NOTHING)
      /\ D \subseteq Live(d) \ {Root} /\ \A y \in D : d.loc[y] # NOTHING
  BY WorldIs
<1>2. v \in Obj /\ d.typ[v] = "player" /\ v \in Live(d) BY TypesAre
<1>3. /\ r \in DB
      /\ r.top = d.top /\ r.recyclable = d.recyclable /\ r.loc = d.loc
      /\ r.contents = d.contents /\ r.exits = d.exits /\ r.next = d.next
      /\ r.dests = d.dests
      /\ \A y \in Obj :
           /\ r.typ[y] = IF y = v THEN "thing" ELSE d.typ[y]
           /\ r.owner[y] = IF y = v THEN Man ELSE IF d.owner[y] = v THEN p ELSE d.owner[y]
           /\ r.link[y] = IF d.typ[y] = "thing" /\ d.link[y] = v THEN Root ELSE d.link[y]
  BY DEF Toaded
<1>4. Live(r) = Live(d) /\ PlacesOf(r) = PlacesOf(d) BY <1>2, <1>3 DEF Live, PlacesOf
<1>5. On(r, D) = On(d, D)
  <2>1. \A y \in Obj : r.typ[y] = "none" <=> d.typ[y] = "none" BY <1>2, <1>3
  <2> QED BY <2>1 DEF On
<1>6. \A y \in On(d, D) : /\ (r.typ[y] = "garbage" <=> d.typ[y] = "garbage")
                          /\ (r.typ[y] = "exit" <=> d.typ[y] = "exit")
                          /\ r.loc[y] = d.loc[y] /\ r.next[y] = d.next[y]
  BY <1>2, <1>3 DEF On
<1>7. Linked(r, D, NOTHING) BY <1>1, <1>3, <1>5, <1>6, SameLinked
<1>8. Root \in Obj /\ Man \in Obj /\ d.typ[Root] = "room" /\ d.typ[Man] = "player"
  BY <1>1, Numbers DEF Base
<1>9. Base(r) BY <1>1, <1>2, <1>3, <1>8 DEF Base
<1>10. \A y : /\ y \in Of(d, "room") => y \in Of(r, "room")
              /\ y \in Of(d, "thing") => y \in Of(r, "thing")
              /\ y \in Of(d, "player") /\ y # v => y \in Of(r, "player")
  BY <1>2, <1>3 DEF Of
<1>11. Man \in Of(r, "player") /\ Root \in PlacesOf(d)
  BY <1>3, <1>8, TypesAre
<1>12. ASSUME NEW y \in Live(d) PROVE RefOk(r, NOTHING, y)
  <2>1. RefOk(d, NOTHING, y) /\ y \in Obj BY <1>1, TypesAre DEF Refs
  <2>2. /\ d.owner[y] \in Of(d, "player")
        /\ y # Root => d.loc[y] \in PlacesOf(d)
        /\ d.typ[y] = "exit" => d.loc[y] # NOTHING
        /\ d.typ[y] = "room" =>
             d.link[y] \in {NOTHING, HOME} \union Of(d, "room") \union Of(d, "thing")
        /\ d.typ[y] = "thing" => d.link[y] \in PlacesOf(d)
        /\ d.typ[y] = "player" => d.link[y] \in Of(d, "room")
        /\ d.dests[y] \subseteq Live(d) \union {HOME}
        /\ d.typ[y] # "exit" => d.dests[y] = {}
    BY <2>1 DEF RefOk, At
  <2>3. r.owner[y] \in Of(r, "player")
    BY <1>3, <1>10, <1>11, <2>1, <2>2
  <2>4. At(r, NOTHING, y) = d.loc[y] BY <1>3 DEF At
  <2>5. r.typ[y] = "room" =>
          r.link[y] \in {NOTHING, HOME} \union Of(r, "room") \union Of(r, "thing")
    <3> SUFFICES ASSUME r.typ[y] = "room"
                 PROVE  r.link[y] \in {NOTHING, HOME} \union Of(r, "room") \union Of(r, "thing")
      OBVIOUS
    <3>1. d.typ[y] = "room" /\ r.link[y] = d.link[y] BY <1>3, <2>1
    <3> QED BY <1>10, <2>2, <3>1
  <2>6. r.typ[y] = "thing" => r.link[y] \in PlacesOf(d)
    <3>1. CASE y = v
      <4>1. r.link[y] = d.link[y] /\ d.link[y] \in Of(d, "room")
        BY <1>2, <1>3, <2>1, <2>2, <3>1
      <4> QED BY <4>1, TypesAre
    <3>2. CASE y # v BY <1>3, <1>11, <2>1, <2>2, <3>2
    <3> QED BY <3>1, <3>2
  <2>7. r.typ[y] = "player" => r.link[y] \in Of(r, "room")
    <3> SUFFICES ASSUME r.typ[y] = "player" PROVE r.link[y] \in Of(r, "room") OBVIOUS
    <3>1. d.typ[y] = "player" /\ r.link[y] = d.link[y] BY <1>3, <2>1
    <3> QED BY <1>10, <2>2, <3>1
  <2>8. r.dests[y] = d.dests[y] /\ r.loc[y] = d.loc[y] BY <1>3
  <2>9. r.typ[y] = "exit" <=> d.typ[y] = "exit" BY <1>2, <1>3, <2>1
  <2> QED BY <1>4, <2>2, <2>3, <2>4, <2>5, <2>6, <2>7, <2>8, <2>9 DEF RefOk
<1>13. D \subseteq Live(r) \ {Root} /\ \A y \in D : r.loc[y] # NOTHING
  BY <1>1, <1>3, <1>4
<1> QED BY <1>4, <1>7, <1>9, <1>12, <1>13 DEF World, Refs

-----------------------------------------------------------------------------
(* Parents: what a step may do to them without closing a loop.             *)

\* What parent_loop_check meets one step up from an object is a place, or
\* nothing.
LEMMA UpsAre ==
  ASSUME NEW d, NEW D, NEW c, NEW so, World(d, D, c, so), NEW y \in Obj \ {Root}
  PROVE  /\ y \notin Live(d) => Ups(d, y) = {NOTHING}
         /\ Ups(d, y) \subseteq PlacesOf(d) \union {NOTHING}
<1>1. Base(d) /\ d \in DB /\ Refs(d, so) BY WorldIs
<1>2. CASE y \notin Live(d)
  <2>1. d.typ[y] \in {"none", "garbage"} BY <1>2, TypesAre
  <2>2. d.loc[y] = NOTHING BY <1>1, <2>1 DEF Base
  <2> QED BY <1>2, <2>1, <2>2 DEF Ups
<1>3. CASE y \in Live(d)
  <2>1. RefOk(d, so, y) BY <1>1, <1>3 DEF Refs
  <2>2. d.loc[y] = NOTHING \/ d.loc[y] \in PlacesOf(d) BY <2>1 DEF RefOk, At
  <2>3. d.typ[y] = "thing" => d.link[y] \in PlacesOf(d) BY <2>1 DEF RefOk
  <2> QED BY <1>3, <2>2, <2>3 DEF Ups
<1> QED BY <1>2, <1>3

\* A loop is one of what exists.
LEMMA LoopLives ==
  ASSUME NEW d, NEW D, NEW c, NEW so, World(d, D, c, so), NEW S \in SUBSET (Obj \ {Root}),
         \A x \in S : Ups(d, x) \intersect S # {}
  PROVE  S \subseteq Live(d)
<1> SUFFICES ASSUME NEW x \in S, x \notin Live(d) PROVE FALSE OBVIOUS
<1>1. x \in Obj \ {Root} BY DEF Obj
<1>2. Ups(d, x) = {NOTHING} BY <1>1, UpsAre
<1>3. NOTHING \notin S BY Numbers
<1> QED BY <1>2, <1>3

\* A new parent of x from which parent_loop_check does not come to x closes no
\* loop.
LEMMA JoinedAcyclic ==
  ASSUME NEW d, Acyclic(d), NEW x, NEW to, ~ParentLoop(d, x, to), NEW r,
         \A y \in Obj \ {Root} :
           Ups(r, y) \subseteq Ups(d, y) \union (IF y = x THEN {to, NOTHING} ELSE {})
  PROVE  Acyclic(r)
<1> SUFFICES ASSUME NEW S \in SUBSET (Obj \ {Root}), S # {},
                    \A y \in S : Ups(r, y) \intersect S # {}
             PROVE  FALSE
  BY DEF Acyclic
<1>1. PICK U \in SUBSET (Obj \ {Root}) :
        /\ to \in U \union {Root, NOTHING, HOME}
        /\ \A y \in U : Ups(d, y) \subseteq U \union {Root, NOTHING, HOME}
        /\ x \notin U
  BY DEF ParentLoop
<1> DEFINE T == S \intersect U
<1>2. /\ Root \notin S /\ NOTHING \notin S /\ HOME \notin S
      /\ \A y \in S : y \in Obj \ {Root}
  BY Numbers
<1>3. ASSUME NEW y \in T PROVE Ups(d, y) \intersect T # {}
  <2>1. PICK p \in S : p \in Ups(r, y) OBVIOUS
  <2>2. p \in Ups(d, y) BY <1>1, <1>2, <2>1
  <2>3. p \in U BY <1>1, <1>2, <2>1, <2>2
  <2> QED BY <2>1, <2>2, <2>3
<1>4. CASE to \in S
  <2>1. to \in T BY <1>1, <1>2, <1>4
  <2>2. T \in SUBSET (Obj \ {Root}) OBVIOUS
  <2> QED BY <1>3, <2>1, <2>2 DEF Acyclic
<1>5. CASE to \notin S
  <2>1. ASSUME NEW y \in S PROVE Ups(d, y) \intersect S # {}
    <3>1. PICK p \in S : p \in Ups(r, y) OBVIOUS
    <3>2. p # to /\ p # NOTHING BY <1>2, <1>5, <3>1
    <3>3. p \in Ups(d, y) BY <1>2, <3>1, <3>2
    <3> QED BY <3>1, <3>3
  <2> QED BY <2>1 DEF Acyclic
<1> QED BY <1>4, <1>5

\* Nor does a new object that is not in itself: nothing names it yet.
LEMMA AddedAcyclic ==
  ASSUME NEW d, NEW D, NEW c, NEW so, World(d, D, c, so), Acyclic(d), NEW x \in Obj, x \notin Live(d),
         NEW r, NEW E, NEW b, NEW so2, World(r, E, b, so2), Live(r) \subseteq Live(d) \union {x},
         \A y \in Live(d) : Ups(r, y) = Ups(d, y),
         x \notin Ups(r, x)
  PROVE  Acyclic(r)
<1> SUFFICES ASSUME NEW S \in SUBSET (Obj \ {Root}), S # {},
                    \A y \in S : Ups(r, y) \intersect S # {}
             PROVE  FALSE
  BY DEF Acyclic
<1> DEFINE T == S \ {x}
<1>1. S \subseteq Live(r) BY LoopLives
<1>2. \A y \in T : y \in Obj \ {Root} /\ y \in Live(d) BY <1>1
<1>3. \A y \in T : x \notin Ups(r, y)
  <2> SUFFICES ASSUME NEW y \in T PROVE x \notin Ups(r, y) OBVIOUS
  <2>1. Ups(d, y) \subseteq PlacesOf(d) \union {NOTHING} BY <1>2, UpsAre
  <2>2. x \notin PlacesOf(d) BY TypesAre
  <2>3. x # NOTHING BY Numbers
  <2> QED BY <1>2, <2>1, <2>2, <2>3
<1>4. ASSUME NEW y \in T PROVE Ups(d, y) \intersect T # {}
  <2>1. PICK p \in S : p \in Ups(r, y) OBVIOUS
  <2>2. p \in T BY <1>3, <2>1
  <2> QED BY <1>2, <2>1, <2>2
<1>5. T # {}
  <2>1. CASE T = {}
    <3>1. S = {x} BY <2>1
    <3> QED BY <3>1
  <2> QED BY <2>1
<1>6. T \in SUBSET (Obj \ {Root}) OBVIOUS
<1> QED BY <1>4, <1>5, <1>6 DEF Acyclic

\* Nor does a step after which what an object says has no other parents.
LEMMA FewerAcyclic ==
  ASSUME NEW d, Acyclic(d), NEW r,
         \A y \in Obj \ {Root} : Ups(r, y) \subseteq Ups(d, y) \union {NOTHING}
  PROVE  Acyclic(r)
<1> SUFFICES ASSUME NEW S \in SUBSET (Obj \ {Root}), S # {},
                    \A y \in S : Ups(r, y) \intersect S # {}
             PROVE  FALSE
  BY DEF Acyclic
<1>1. NOTHING \notin S BY Numbers
<1>2. \A y \in S : Ups(d, y) \intersect S # {} BY <1>1
<1> QED BY <1>2 DEF Acyclic

\* What may hold nothing is above nothing.
LEMMA NotUnder ==
  ASSUME NEW d, NEW D, NEW c, NEW so, World(d, D, c, so), NEW x \in Obj, x \notin PlacesOf(d),
         NEW to \in PlacesOf(d)
  PROVE  ~ParentLoop(d, x, to)
<1> DEFINE U == PlacesOf(d) \ {Root}
<1>1. U \in SUBSET (Obj \ {Root}) BY TypesAre
<1>2. to \in U \union {Root} OBVIOUS
<1>3. ASSUME NEW y \in U PROVE Ups(d, y) \subseteq U \union {Root, NOTHING}
  <2>1. Ups(d, y) \subseteq PlacesOf(d) \union {NOTHING} BY <1>1, UpsAre
  <2> QED BY <2>1
<1>4. x \notin U OBVIOUS
<1> HIDE DEF U
<1> QED BY <1>1, <1>2, <1>3, <1>4 DEF ParentLoop

\* A step closes no loop of parents.
StaysAcyclic(d, r) == Acyclic(d) => Acyclic(r)

\* moveto, for which parent_loop_check is asked about "where" only, not about
\* what HOME stands for. The home of a thing is above it already, and a room's
\* is the root; a player's is no parent of his, and may be inside him.
LEMMA MovedAcyclic ==
  ASSUME NEW d, NEW D, NEW c, NEW so, World(d, D, c, so),
         NEW x \in Live(d) \ {Root}, d.typ[x] # "exit", NEW where,
         NEW to \in PlacesOf(d), to = where \/ (where = HOME /\ to \in Homes(d, x)),
         to = where => ~ParentLoop(d, x, where),
         d.typ[x] = "player" => where # HOME,
         NEW r, Moved(d, x, to, r)
  PROVE  StaysAcyclic(d, r)
<1> SUFFICES ASSUME Acyclic(d) PROVE Acyclic(r) BY DEF StaysAcyclic
<1>1. Base(d) /\ d \in DB /\ Refs(d, so) BY WorldIs
<1>2. x \in Obj /\ x \in Live(d) BY TypesAre
<1>3. r.typ = d.typ /\ r.owner = d.owner /\ r.link = d.link
      /\ \A y \in Obj : r.loc[y] = IF y = x THEN to ELSE d.loc[y]
  BY DEF Moved
<1>4. \A y \in Obj \ {x} : Ups(r, y) = Ups(d, y) BY <1>3 DEF Ups
<1>5. Ups(r, x) \subseteq Ups(d, x) \union {to} BY <1>2, <1>3 DEF Ups
<1>6. CASE ~ParentLoop(d, x, to)
  <2>1. \A y \in Obj \ {Root} :
          Ups(r, y) \subseteq Ups(d, y) \union (IF y = x THEN {to, NOTHING} ELSE {})
    BY <1>4, <1>5
  <2> QED BY <1>6, <2>1, JoinedAcyclic
<1>7. CASE where = HOME /\ to \in Homes(d, x)
  <2>1. RefOk(d, so, x) BY <1>1, <1>2 DEF Refs
  <2>2. CASE d.typ[x] = "room"
    <3>1. to = Root BY <1>7, <2>2 DEF Homes
    <3> QED BY <1>2, <1>6, <3>1, NotInHome
  <2>3. CASE d.typ[x] = "thing"
    <3>1. d.link[x] \in PlacesOf(d) /\ d.link[x] \in Ups(d, x)
      BY <2>1, <2>3 DEF RefOk, Ups
    <3>2. ~ParentLoop(d, x, d.link[x])
      BY <1>1, <1>2, <3>1, NotInHome, NotAbove, TypesAre
    <3>3. to = d.link[x] BY <1>7, <2>3, <3>2 DEF Homes
    <3> QED BY <1>6, <3>2, <3>3
  <2>4. CASE d.typ[x] = "program"
    <3>1. x \notin PlacesOf(d) BY <2>4, TypesAre
    <3> QED BY <1>2, <1>6, <3>1, NotUnder
  <2>5. d.typ[x] \in Types BY <1>1, <1>2, DBFields
  <2> QED BY <1>2, <1>7, <2>2, <2>3, <2>4, <2>5, TypesAre DEF Types
<1> QED BY <1>6, <1>7

\* A constructor.
LEMMA NewAcyclic ==
  ASSUME NEW d, NEW D, NEW c, NEW so, World(d, D, c, so), NEW x, NEW t, NEW at \in PlacesOf(d), NEW l,
         t = "thing" => l \in PlacesOf(d), NEW r, Added(d, x, t, at, l, r),
         NEW E, NEW b, NEW so2, World(r, E, b, so2)
  PROVE  StaysAcyclic(d, r)
<1> SUFFICES ASSUME Acyclic(d) PROVE Acyclic(r) BY DEF StaysAcyclic
<1>1. /\ x \in Obj /\ x \notin Live(d) /\ Live(r) = Live(d) \union {x}
      /\ \A y \in Live(d) : r.typ[y] = d.typ[y] /\ r.loc[y] = d.loc[y] /\ r.link[y] = d.link[y]
      /\ r.typ[x] = t /\ r.loc[x] = at /\ r.link[x] = l
  BY DEF Added
<1>2. \A y \in Live(d) : Ups(r, y) = Ups(d, y) BY <1>1 DEF Ups
<1>3. x \notin Ups(r, x)
  <2>1. x \notin PlacesOf(d) BY <1>1, TypesAre
  <2> QED BY <1>1, <2>1 DEF Ups
<1> QED BY <1>1, <1>2, <1>3, AddedAcyclic

\* An exit gets another source.
LEMMA AttachAcyclic ==
  ASSUME NEW d, NEW D, NEW c, NEW so, World(d, D, c, so), NEW e \in Of(d, "exit"),
         NEW at \in PlacesOf(d), NEW r, Moved(d, e, at, r)
  PROVE  StaysAcyclic(d, r)
<1> SUFFICES ASSUME Acyclic(d) PROVE Acyclic(r) BY DEF StaysAcyclic
<1>1. e \in Obj /\ e \notin PlacesOf(d) BY TypesAre
<1>2. ~ParentLoop(d, e, at) BY <1>1, NotUnder
<1>3. \A y \in Obj : Ups(r, y) \subseteq Ups(d, y) \union (IF y = e THEN {at, NOTHING} ELSE {})
  BY DEF Moved, Ups
<1> QED BY <1>2, <1>3, JoinedAcyclic

\* A home that is not inside x, or is nothing new, or what is no home.
LEMMA EditedAcyclic ==
  ASSUME NEW d, NEW x \in Obj, NEW r, Edited(d, x, r),
         \/ d.typ[x] # "thing"
         \/ r.link[x] = d.link[x]
         \/ ~ParentLoop(d, x, r.link[x])
  PROVE  StaysAcyclic(d, r)
<1> SUFFICES ASSUME Acyclic(d) PROVE Acyclic(r) BY DEF StaysAcyclic
<1>1. r.typ = d.typ /\ r.loc = d.loc /\ \A y \in Obj \ {x} : r.link[y] = d.link[y]
  BY DEF Edited
<1>2. \A y \in Obj \ {x} : Ups(r, y) = Ups(d, y) BY <1>1 DEF Ups
<1>3. CASE d.typ[x] # "thing" \/ r.link[x] = d.link[x]
  <2>1. Ups(r, x) = Ups(d, x) BY <1>1, <1>3 DEF Ups
  <2> QED BY <1>2, <2>1, FewerAcyclic
<1>4. CASE ~ParentLoop(d, x, r.link[x])
  <2>1. Ups(r, x) \subseteq Ups(d, x) \union {r.link[x]} BY <1>1 DEF Ups
  <2>2. \A y \in Obj \ {Root} :
          Ups(r, y) \subseteq Ups(d, y) \union (IF y = x THEN {r.link[x], NOTHING} ELSE {})
    BY <1>2, <2>1
  <2> QED BY <1>4, <2>2, JoinedAcyclic
<1> QED BY <1>3, <1>4

\* send_contents takes things out, and turns a list round.
LEMMA OutAcyclic ==
  ASSUME NEW d, NEW at, NEW r, AllOut(d, at, r) \/ Turned(d, at, r)
  PROVE  StaysAcyclic(d, r)
<1>1. /\ r.typ = d.typ /\ r.link = d.link
      /\ \A y \in Obj : r.loc[y] = d.loc[y] \/ r.loc[y] = NOTHING
  BY DEF AllOut, Turned
<1>2. \A y \in Obj \ {Root} : Ups(r, y) \subseteq Ups(d, y) \union {NOTHING}
  BY <1>1 DEF Ups
<1> QED BY <1>2, FewerAcyclic DEF StaysAcyclic

\* Nor the recycling of an exit, or the end of recycle(): the others keep their
\* parents, and what is gone has none.
LEMMA WithoutAcyclic ==
  ASSUME NEW d, NEW D, NEW c, NEW so, World(d, D, c, so), NEW x, NEW r, Without(d, x, r),
         NEW E, NEW b, NEW so2, World(r, E, b, so2)
  PROVE  StaysAcyclic(d, r)
<1> SUFFICES ASSUME Acyclic(d) PROVE Acyclic(r) BY DEF StaysAcyclic
<1>1. /\ Live(r) = Live(d) \ {x}
      /\ \A y \in Live(d) \ {x} : r.typ[y] = d.typ[y] /\ r.loc[y] = d.loc[y]
      /\ \A y \in Of(d, "thing") \ {x} : r.link[y] = d.link[y]
  BY DEF Without
<1>2. ASSUME NEW y \in Obj \ {Root} PROVE Ups(r, y) \subseteq Ups(d, y) \union {NOTHING}
  <2>1. CASE y \in Live(r)
    <3>1. r.typ[y] = d.typ[y] /\ r.loc[y] = d.loc[y] BY <1>1, <2>1
    <3>2. d.typ[y] = "thing" => r.link[y] = d.link[y] BY <1>1, <2>1, TypesAre
    <3> QED BY <3>1, <3>2 DEF Ups
  <2>2. CASE y \notin Live(r)
    <3>1. Ups(r, y) = {NOTHING} BY <2>2, UpsAre
    <3> QED BY <3>1
  <2> QED BY <2>1, <2>2
<1> QED BY <1>2, FewerAcyclic
=============================================================================
