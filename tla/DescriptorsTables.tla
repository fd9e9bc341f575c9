-------------------------- MODULE DescriptorsTables --------------------------
(***************************************************************************)
(* Proofs about the tables interface.c keeps beside the descriptor list:   *)
(* the array of connections that have a player, each player's own array of *)
(* slots, and the limit on the connections of one player that it decides.  *)
(***************************************************************************)
EXTENDS DescriptorsProofs, FiniteSetTheorems

-----------------------------------------------------------------------------
(* Selecting entries of a sequence. *)

\* f numbers the positions P, in increasing order.
Numbering(f, n, P) ==
  /\ f \in [1..n -> P]
  /\ \A i, j \in 1..n : i < j => f[i] < f[j]
  /\ \A x \in P : \E i \in 1..n : f[i] = x

\* There is one way to do so.
LEMMA NumberingUnique ==
  ASSUME NEW P \in SUBSET Nat, NEW n \in Nat, NEW f, NEW g,
         Numbering(f, n, P), Numbering(g, n, P)
  PROVE  f = g
<1> DEFINE S == {i \in 1..n : f[i] # g[i]}
<1> SUFFICES ASSUME S # {} PROVE FALSE
  BY DEF Numbering
<1>1. PICK i \in S : \A j \in S : i <= j
  <2>1. S \subseteq Nat OBVIOUS
  <2> HIDE DEF S
  <2> QED BY <2>1, LeastOne
<1>2. /\ i \in 1..n /\ f[i] \in P /\ g[i] \in P /\ f[i] # g[i]
      /\ f[i] \in Nat /\ g[i] \in Nat
  BY <1>1 DEF Numbering
<1>3. \A j \in 1..n : j < i => f[j] = g[j]
  BY <1>1, <1>2
<1>4. CASE f[i] < g[i]
  <2>1. PICK j \in 1..n : g[j] = f[i] BY <1>2 DEF Numbering
  <2>2. CASE j < i
    <3>1. f[j] = f[i] /\ f[j] < f[i] BY <1>2, <1>3, <2>1, <2>2 DEF Numbering
    <3> QED BY <1>2, <3>1
  <2>3. CASE i < j
    <3>1. g[i] < g[j] BY <1>2, <2>3 DEF Numbering
    <3> QED BY <1>2, <1>4, <2>1, <3>1
  <2> QED BY <1>2, <2>1, <2>2, <2>3
<1>5. CASE g[i] < f[i]
  <2>1. PICK j \in 1..n : f[j] = g[i] BY <1>2 DEF Numbering
  <2>2. CASE j < i
    <3>1. g[j] = g[i] /\ g[j] < g[i] BY <1>2, <1>3, <2>1, <2>2 DEF Numbering
    <3> QED BY <1>2, <3>1
  <2>3. CASE i < j
    <3>1. f[i] < f[j] BY <1>2, <2>3 DEF Numbering
    <3> QED BY <1>2, <1>5, <2>1, <3>1
  <2> QED BY <1>2, <2>1, <2>2, <2>3
<1> QED BY <1>2, <1>4, <1>5

\* ... and it numbers as many positions as there are.
LEMMA NumberingCount ==
  ASSUME NEW P \in SUBSET Nat, NEW n \in Nat, NEW f, Numbering(f, n, P)
  PROVE  IsFiniteSet(P) /\ Cardinality(P) = n
<1>1. f \in Bijection(1..n, P)
  <2>1. f \in [1..n -> P] BY DEF Numbering
  <2>2. \A i, j \in 1..n : f[i] = f[j] => i = j
    <3> SUFFICES ASSUME NEW i \in 1..n, NEW j \in 1..n, f[i] = f[j]
                 PROVE  i = j
      OBVIOUS
    <3>1. f[i] \in Nat /\ f[j] \in Nat BY <2>1
    <3>2. ~(i < j) /\ ~(j < i) BY <3>1 DEF Numbering
    <3> QED BY <3>2
  <2>3. f \in Injection(1..n, P) BY <2>1, <2>2 DEF Injection, IsInjective
  <2>4. f \in Surjection(1..n, P) BY <2>1 DEF Numbering, Surjection
  <2> QED BY <2>3, <2>4 DEF Bijection
<1>2. ExistsBijection(1..n, P) BY <1>1 DEF ExistsBijection
<1>3. IsFiniteSet(1..n) /\ Cardinality(1..n) = n BY FS_Interval
<1> QED BY <1>2, <1>3, FS_Bijection

\* Any positions up to a last one can be numbered.
LEMMA NumberingExists ==
  ASSUME NEW m \in Nat, NEW P \in SUBSET (1..m)
  PROVE  \E n \in Nat : \E f : Numbering(f, n, P)
<1> DEFINE Able(k) == \A Q \in SUBSET (1..k) : \E n \in Nat : \E f : Numbering(f, n, Q)
           S == {k \in Nat : ~Able(k)}
<1> SUFFICES ASSUME S # {} PROVE FALSE
  OBVIOUS
<1>1. PICK k \in S : \A j \in S : k <= j
  <2>1. S \subseteq Nat OBVIOUS
  <2> HIDE DEF S
  <2> QED BY <2>1, LeastOne
<1>2. k \in Nat /\ ~Able(k) OBVIOUS
<1>3. PICK Q \in SUBSET (1..k) : ~\E n \in Nat : \E f : Numbering(f, n, Q)
  BY <1>2
<1>4. Q # {}
  <2>1. Numbering([i \in 1..0 |-> 0], 0, {})
    BY DEF Numbering
  <2> QED BY <1>3, <2>1
<1>5. k # 0
  <2>1. PICK x \in Q : TRUE BY <1>4
  <2>2. x \in 1..k OBVIOUS
  <2> QED BY <1>2, <2>2
<1>6. Able(k - 1)
  <2>1. k - 1 \in Nat /\ ~(k <= k - 1) BY <1>2, <1>5
  <2>2. k - 1 \notin S BY <1>1, <2>1
  <2> QED BY <2>1, <2>2
<1> HIDE DEF S
<1>7. Q \ {k} \in SUBSET (1..(k - 1)) BY <1>2, <1>5
<1>8. PICK n \in Nat : \E f : Numbering(f, n, Q \ {k})
  BY <1>6, <1>7
<1>9. PICK f : Numbering(f, n, Q \ {k}) BY <1>8
<1>10. k \in Q
  <2>1. CASE k \notin Q
    <3>1. Q \ {k} = Q BY <2>1
    <3> QED BY <1>3, <1>9, <3>1
  <2> QED BY <2>1
<1> DEFINE h == [i \in 1..(n + 1) |-> IF i <= n THEN f[i] ELSE k]
<1>11. Numbering(h, n + 1, Q)
  <2>1. /\ f \in [1..n -> Q \ {k}]
        /\ \A i, j \in 1..n : i < j => f[i] < f[j]
        /\ \A x \in Q \ {k} : \E i \in 1..n : f[i] = x
    BY <1>9 DEF Numbering
  <2>2. \A i \in 1..n : f[i] \in Q /\ f[i] < k
    <3>1. \A x \in Q \ {k} : x \in Q /\ x \in 1..(k - 1) BY <1>7
    <3>2. \A x \in Q \ {k} : x \in Q /\ x < k BY <1>2, <3>1
    <3> QED BY <2>1, <3>2
  <2>3. h \in [1..(n + 1) -> Q] BY <1>10, <2>2
  <2>4. \A i, j \in 1..(n + 1) : i < j => h[i] < h[j]
    BY <2>1, <2>2
  <2>5. \A x \in Q : \E i \in 1..(n + 1) : h[i] = x
    <3> SUFFICES ASSUME NEW x \in Q PROVE \E i \in 1..(n + 1) : h[i] = x
      OBVIOUS
    <3>1. CASE x = k
      <4>1. n + 1 \in 1..(n + 1) /\ h[n + 1] = k OBVIOUS
      <4> QED BY <3>1, <4>1
    <3>2. CASE x # k
      <4>1. PICK i \in 1..n : f[i] = x BY <2>1, <3>2
      <4>2. i \in 1..(n + 1) /\ h[i] = x BY <4>1
      <4> QED BY <4>2
    <3> QED BY <3>1, <3>2
  <2> HIDE DEF h
  <2> QED BY <2>3, <2>4, <2>5 DEF Numbering
<1> HIDE DEF h
<1> QED BY <1>3, <1>11

\* What Selected gives, by any numbering of the entries it selects.
LEMMA SelectedBy ==
  ASSUME NEW X, NEW s \in Seq(X), NEW S, NEW n \in Nat, NEW f,
         Numbering(f, n, {i \in DOMAIN s : s[i] \in S})
  PROVE  Selected(s, S) = [k \in 1..n |-> s[f[k]]]
<1> DEFINE P == {i \in DOMAIN s : s[i] \in S}
<1>1. P \in SUBSET Nat OBVIOUS
<1> HIDE DEF P
<1>2. Numbering(f, n, P) BY DEF P
<1>3. Cardinality(P) = n BY <1>1, <1>2, NumberingCount
<1>4. \A g : g \in Increasing(P) <=> Numbering(g, n, P)
  BY <1>3 DEF Increasing, Numbering
<1>5. \A g \in Increasing(P) : g = f
  BY <1>1, <1>2, <1>4, NumberingUnique
<1> DEFINE c == CHOOSE g \in Increasing(P) : TRUE
<1>6. c = f
  <2>1. c \in Increasing(P) BY <1>2, <1>4
  <2> HIDE DEF c
  <2> QED BY <1>5, <2>1
<1>7. Selected(s, S) = [k \in DOMAIN c |-> s[c[k]]] BY DEF Selected, P
<1> HIDE DEF c
<1>8. DOMAIN f = 1..n BY <1>2 DEF Numbering
<1> QED BY <1>6, <1>7, <1>8

\* Selected gives the entries that are in S, each as often as it was.
LEMMA SelectedSeq ==
  ASSUME NEW X, NEW s \in Seq(X), NEW S
  PROVE  /\ Selected(s, S) \in Seq(X)
         /\ Range(Selected(s, S)) = Range(s) \cap S
         /\ IsInjective(s) => IsInjective(Selected(s, S))
         /\ Len(Selected(s, S)) <= Len(s)
<1> DEFINE P == {i \in DOMAIN s : s[i] \in S}
           t == Selected(s, S)
<1>1. Len(s) \in Nat /\ P \in SUBSET (1..Len(s)) OBVIOUS
<1> HIDE DEF P
<1>2. PICK n \in Nat : \E f : Numbering(f, n, P)
  BY <1>1, NumberingExists
<1>3. PICK f : Numbering(f, n, P) BY <1>2
<1>4. t = [k \in 1..n |-> s[f[k]]] BY <1>3, SelectedBy DEF P
<1>5. /\ f \in [1..n -> P]
      /\ \A i, j \in 1..n : i < j => f[i] < f[j]
      /\ \A x \in P : \E i \in 1..n : f[i] = x
  BY <1>3 DEF Numbering
<1>6. \A i \in 1..n : f[i] \in DOMAIN s /\ s[f[i]] \in X /\ s[f[i]] \in S
  BY <1>5 DEF P
<1> HIDE DEF t
<1>7. t \in Seq(X) /\ DOMAIN t = 1..n BY <1>4, <1>6
<1>8. Range(t) = Range(s) \cap S
  <2>1. Range(t) \subseteq Range(s) \cap S BY <1>4, <1>6, <1>7 DEF Range
  <2>2. Range(s) \cap S \subseteq Range(t)
    <3> SUFFICES ASSUME NEW i \in DOMAIN s, s[i] \in S PROVE s[i] \in Range(t)
      BY DEF Range
    <3>1. i \in P BY DEF P
    <3>2. PICK k \in 1..n : f[k] = i BY <1>5, <3>1
    <3>3. t[k] = s[i] BY <1>4, <3>2
    <3> QED BY <1>7, <3>3 DEF Range
  <2> QED BY <2>1, <2>2
<1>9. ASSUME IsInjective(s) PROVE IsInjective(t)
  <2> SUFFICES ASSUME NEW i \in 1..n, NEW j \in 1..n, t[i] = t[j]
               PROVE  i = j
    BY <1>7 DEF IsInjective
  <2>1. f[i] = f[j] BY <1>4, <1>6, <1>9 DEF IsInjective
  <2>2. f[i] \in Nat /\ f[j] \in Nat BY <1>6
  <2>3. ~(i < j) /\ ~(j < i) BY <1>5, <2>1, <2>2
  <2> QED BY <2>3
<1>10. Len(t) <= Len(s)
  <2>1. IsFiniteSet(P) /\ Cardinality(P) = n
    <3>1. P \in SUBSET Nat BY <1>1
    <3> QED BY <1>3, <3>1, NumberingCount
  <2>2. \A m \in Nat : IsFiniteSet(1..m) /\ Cardinality(1..m) = m
    BY FS_Interval
  <2>3. n <= Len(s)
    <3>1. Cardinality(P) <= Cardinality(1..Len(s))
      BY <1>1, <2>2, FS_Subset
    <3> QED BY <1>1, <2>1, <2>2, <3>1
  <2>4. Len(t) = n
    <3>1. Len(t) \in Nat /\ DOMAIN t = 1..Len(t) BY <1>7
    <3> QED BY <1>7, <3>1
  <2> QED BY <2>3, <2>4
<1> QED BY <1>7, <1>8, <1>9, <1>10 DEF t

-----------------------------------------------------------------------------
(* What the tables hold. *)

\* The types PointersLive does not need.
Rest ==
  /\ descrs \in [Players -> Seq(Slots)]
  /\ frobbed \subseteq Players /\ fresh \subseteq Descr /\ quota \subseteq Descr
  /\ again \in BOOLEAN /\ Len(stack) <= MaxDepth

\* A connection that is a player's says which player's, and is in the list.
Owned == \A d \in Descr : /\ conn[d].connected <=> conn[d].player # NONE
                          /\ conn[d].connected => d \in Listed

\* The table is what update_desc_count_table would make it.
Counted == table = CountTable(conn)

TInv == Rest /\ Owned /\ Counted /\ PlayerDescrs

\* The fields c give every connection to the player it has.
SameOwners(c) == \A d \in Descr : /\ c[d].connected = conn[d].connected
                                  /\ c[d].player = conn[d].player

\* The slot of the lookup table l that holds d.
SlotIn(l, d) ==
  IF \E i \in Slots : l[i] = d THEN CHOOSE i \in Slots : l[i] = d ELSE 0

LEMMA SlotIns ==
  ASSUME NEW l, NEW d, d # NONE,
         \A i, j \in Slots : l[i] = l[j] /\ l[i] # NONE => i = j
  PROVE  /\ SlotIn(l, d) \in Slots \cup {0}
         /\ \A i \in Slots : l[i] = d <=> SlotIn(l, d) = i
         /\ 0 \notin Slots
<1>1. 0 \notin Slots BY DEF Slots
<1>2. CASE \E i \in Slots : l[i] = d
  <2> DEFINE k == CHOOSE i \in Slots : l[i] = d
  <2>1. k \in Slots /\ l[k] = d BY <1>2
  <2>2. SlotIn(l, d) = k BY <1>2 DEF SlotIn
  <2> HIDE DEF k
  <2> QED BY <1>1, <2>1, <2>2
<1>3. CASE ~\E i \in Slots : l[i] = d
  BY <1>1, <1>3 DEF SlotIn
<1> QED BY <1>1, <1>2, <1>3

\* A descriptor's slot is the one that holds it.
LEMMA SlotOfs ==
  ASSUME LookupInv, NEW d \in Descr
  PROVE  /\ SlotOf(d) \in Slots \cup {0}
         /\ \A i \in Slots : lookup[i] = d <=> SlotOf(d) = i
         /\ 0 \notin Slots
<1>1. SlotOf(d) = SlotIn(lookup, d) BY DEF SlotOf, SlotIn
<1>2. d # NONE BY ConstantAssumption DEF Descr
<1>3. \A i, j \in Slots : lookup[i] = lookup[j] /\ lookup[i] # NONE => i = j
  BY DEF LookupInv
<1> QED BY <1>1, <1>2, <1>3, SlotIns

\* A change of the lookup table leaves the slots of the others alone.
LEMMA SameSlots ==
  ASSUME LookupInv, LookupInv', NEW d \in Descr,
         \A e \in Descr \ {d}, i \in Slots : lookup'[i] = e <=> lookup[i] = e
  PROVE  \A e \in Descr \ {d} : SlotOf(e)' = SlotOf(e)
<1> SUFFICES ASSUME NEW e \in Descr \ {d} PROVE SlotOf(e)' = SlotOf(e)
  OBVIOUS
<1>1. SlotOf(e) = SlotIn(lookup, e) /\ SlotOf(e)' = SlotIn(lookup', e)
  BY DEF SlotOf, SlotIn
<1>2. e # NONE BY ConstantAssumption DEF Descr
<1>3. /\ \A i, j \in Slots : lookup[i] = lookup[j] /\ lookup[i] # NONE => i = j
      /\ \A i, j \in Slots : lookup'[i] = lookup'[j] /\ lookup'[i] # NONE => i = j
  BY DEF LookupInv
<1>4. /\ SlotIn(lookup, e) \in Slots \cup {0}
      /\ \A i \in Slots : lookup[i] = e <=> SlotIn(lookup, e) = i
      /\ 0 \notin Slots
  BY <1>2, <1>3, SlotIns
<1>5. /\ SlotIn(lookup', e) \in Slots \cup {0}
      /\ \A i \in Slots : lookup'[i] = e <=> SlotIn(lookup', e) = i
  BY <1>2, <1>3, SlotIns
<1> QED BY <1>1, <1>4, <1>5

\* forget_player_descr takes one slot out of an array that holds it once.
LEMMA ForgottenSlot ==
  ASSUME NEW a \in Seq(Slots), IsInjective(a), NEW x \in Range(a), NEW b,
         b = IF Len(a) > 1 THEN Selected(a, Slots \ {x}) ELSE <<>>
  PROVE  b \in Seq(Slots) /\ IsInjective(b) /\ Range(b) = Range(a) \ {x}
<1>1. CASE Len(a) > 1
  <2>1. /\ b \in Seq(Slots) /\ IsInjective(b)
        /\ Range(b) = Range(a) \cap (Slots \ {x})
    BY <1>1, SelectedSeq
  <2>2. Range(a) \subseteq Slots BY DEF Range
  <2> QED BY <2>1, <2>2
<1>2. CASE ~(Len(a) > 1)
  <2>1. PICK i \in DOMAIN a : a[i] = x BY DEF Range
  <2>2. DOMAIN a = {1} BY <1>2, <2>1
  <2>3. Range(a) = {x} BY <2>1, <2>2 DEF Range
  <2>4. b = <<>> BY <1>2
  <2>5. b \in Seq(Slots) /\ DOMAIN b = {}
    <3>1. b \in Seq(Slots) /\ Len(b) = 0 BY <2>4, EmptySeq
    <3>2. DOMAIN b = 1..0 BY <3>1
    <3>3. 1..0 = {} OBVIOUS
    <3> QED BY <3>1, <3>2, <3>3
  <2> QED BY <2>3, <2>5 DEF IsInjective, Range
<1> QED BY <1>1, <1>2

\* A new slot is put behind the others.
LEMMA RememberedSlot ==
  ASSUME NEW a \in Seq(Slots), IsInjective(a), NEW x \in Slots \ Range(a)
  PROVE  /\ Append(a, x) \in Seq(Slots) /\ IsInjective(Append(a, x))
         /\ Range(Append(a, x)) = Range(a) \cup {x}
<1> DEFINE b == Append(a, x)
           n == Len(a)
<1>1. /\ b \in Seq(Slots) /\ DOMAIN b = 1..(n + 1) /\ DOMAIN a = 1..n
      /\ n \in Nat /\ b[n + 1] = x /\ \A i \in 1..n : b[i] = a[i]
  OBVIOUS
<1> HIDE DEF b, n
<1>2. \A i \in 1..(n + 1) : i \in 1..n \/ i = n + 1 BY <1>1
<1>3. \A i \in 1..n : a[i] # x BY <1>1 DEF Range
<1>4. IsInjective(b) BY <1>1, <1>2, <1>3 DEF IsInjective
<1>5. Range(b) = Range(a) \cup {x}
  <2>1. Range(b) \subseteq Range(a) \cup {x} BY <1>1, <1>2 DEF Range
  <2>2. Range(a) \subseteq Range(b)
    <3>1. \A i \in 1..n : i \in 1..(n + 1) BY <1>1
    <3> QED BY <1>1, <3>1 DEF Range
  <2>3. n + 1 \in 1..(n + 1) BY <1>1
  <2>4. x \in Range(b) BY <1>1, <2>3 DEF Range
  <2> QED BY <2>1, <2>2, <2>4
<1> QED BY <1>1, <1>4, <1>5 DEF b

\* A step that gives no connection to anybody else.
LEMMA QuietTables ==
  ASSUME IInv, TInv, SameOwners(conn'), conn' \in [Descr -> Conn],
         UNCHANGED <<list, lookup, table, descrs, frobbed>>
  PROVE  Owned' /\ Counted' /\ PlayerDescrs'
<1>1. Connected(conn') = Connected(conn) BY DEF Connected, SameOwners
<1>2. Listed' = Listed BY DEF Listed
<1>3. Counted' BY <1>1 DEF TInv, Counted, CountTable
<1>4. Owned' BY <1>2 DEF TInv, Owned, SameOwners
<1>5. \A p : ConnsOf(p)' = ConnsOf(p)
  <2>1. Listed \subseteq Descr BY DEF IInv, ListInv, Listed, Range
  <2> QED BY <1>2, <2>1 DEF ConnsOf, SameOwners
<1>6. \A d : SlotOf(d)' = SlotOf(d) BY DEF SlotOf
<1>7. PlayerDescrs' BY <1>5, <1>6 DEF TInv, PlayerDescrs
<1> QED BY <1>3, <1>4, <1>7

\* A descriptor becomes a player's connection.
LEMMA AttachedTables ==
  ASSUME IInv, TInv, NEW c \in [Descr -> Conn], SameOwners(c),
         NEW d \in Listed, ~conn[d].connected, NEW p \in Players,
         Attach(d, p, c, descrs), UNCHANGED <<list, lookup, frobbed>>
  PROVE  Owned' /\ Counted' /\ PlayerDescrs' /\ descrs' \in [Players -> Seq(Slots)]
<1>1. /\ Listed' = Listed /\ Listed \subseteq Descr /\ LookupInv
      /\ \A e : SlotOf(e)' = SlotOf(e)
  BY DEF IInv, ListInv, Listed, Range, SlotOf
<1>2. /\ \A e \in Descr : /\ conn'[e].connected = (conn[e].connected \/ e = d)
                          /\ conn'[e].player =
                               IF e = d THEN p ELSE conn[e].player
      /\ descrs' = Remember(p, d, descrs)
  BY <1>1 DEF Attach, SameOwners, Conn
<1>3. Counted' BY DEF Attach, Counted, CountTable
<1>4. Owned'
  <2>1. p # NONE BY ConstantAssumption
  <2>2. \A e \in Descr : /\ conn[e].connected <=> conn[e].player # NONE
                         /\ conn[e].connected => e \in Listed
    BY DEF TInv, Owned
  <2> QED BY <1>1, <1>2, <2>1, <2>2 DEF Owned
<1>5. \A q : ConnsOf(q)' = ConnsOf(q) \cup IF q = p THEN {d} ELSE {}
  BY <1>1, <1>2 DEF ConnsOf
<1>6. d \notin ConnsOf(p) BY DEF ConnsOf
<1>7. /\ descrs \in [Players -> Seq(Slots)]
      /\ \A q \in Players \ frobbed :
           /\ IsInjective(descrs[q])
           /\ Range(descrs[q]) = {SlotOf(e) : e \in ConnsOf(q)} \ {0}
  BY DEF TInv, Rest, PlayerDescrs
<1>8. /\ SlotOf(d) \in Slots \cup {0} /\ 0 \notin Slots
      /\ \A e \in ConnsOf(p) : SlotOf(e) # 0 => SlotOf(e) # SlotOf(d)
  <2>1. \A e \in ConnsOf(p) : e \in Descr /\ e # d
    BY <1>1, <1>6 DEF ConnsOf
  <2> QED BY <1>1, <2>1, SlotOfs
<1>9. descrs' \in [Players -> Seq(Slots)]
  <2>1. SlotOf(d) # 0 => Append(descrs[p], SlotOf(d)) \in Seq(Slots)
    BY <1>7, <1>8
  <2> QED BY <1>2, <1>7, <2>1 DEF Remember
<1>10. ASSUME NEW q \in Players \ frobbed
       PROVE  /\ IsInjective(descrs'[q])
              /\ Range(descrs'[q]) = {SlotOf(e) : e \in ConnsOf(q)'} \ {0}
  <2>1. CASE q # p \/ SlotOf(d) = 0
    <3>1. descrs'[q] = descrs[q] BY <1>2, <1>7, <2>1 DEF Remember
    <3>2. {SlotOf(e) : e \in ConnsOf(q)'} \ {0} =
            {SlotOf(e) : e \in ConnsOf(q)} \ {0}
      BY <1>5, <2>1
    <3> QED BY <1>7, <3>1, <3>2
  <2>2. CASE q = p /\ SlotOf(d) # 0
    <3> DEFINE x == SlotOf(d)
    <3>1. descrs'[p] = Append(descrs[p], x) BY <1>2, <1>7, <2>2 DEF Remember
    <3>2. x \in Slots \ Range(descrs[p]) BY <1>7, <1>8, <2>2
    <3>3. descrs[p] \in Seq(Slots) /\ IsInjective(descrs[p]) BY <1>7, <2>2
    <3>4. /\ IsInjective(Append(descrs[p], x))
          /\ Range(Append(descrs[p], x)) = Range(descrs[p]) \cup {x}
      BY <3>2, <3>3, RememberedSlot
    <3>5. {SlotOf(e) : e \in ConnsOf(p)'} \ {0} =
            ({SlotOf(e) : e \in ConnsOf(p)} \ {0}) \cup {x}
      BY <1>5, <2>2
    <3> QED BY <1>7, <2>2, <3>1, <3>4, <3>5
  <2> QED BY <2>1, <2>2
<1>11. PlayerDescrs' BY <1>1, <1>10 DEF PlayerDescrs
<1> QED BY <1>3, <1>4, <1>9, <1>11

\* The player of a connection forgets it.
LEMMA Forgotten ==
  ASSUME IInv, TInv, NEW d \in Descr, UNCHANGED frobbed,
         descrs' = Forget(conn[d].player, d, descrs),
         \A q : ConnsOf(q)' = ConnsOf(q) \ {d},
         \A e \in Descr \ {d} : SlotOf(e)' = SlotOf(e)
  PROVE  PlayerDescrs' /\ descrs' \in [Players -> Seq(Slots)]
<1> DEFINE o == conn[d].player
<1>1. Listed \subseteq Descr /\ LookupInv
  BY DEF IInv, ListInv, Listed, Range
<1>2. descrs' = Forget(o, d, descrs) OBVIOUS
<1>3. \A e \in Descr : /\ conn[e].connected <=> conn[e].player # NONE
                       /\ conn[e].connected => e \in Listed
  BY DEF TInv, Owned
<1>4. \A q : ConnsOf(q)' = ConnsOf(q) \ {d} /\ ConnsOf(q) \subseteq Descr
  BY <1>1 DEF ConnsOf
<1>5. /\ descrs \in [Players -> Seq(Slots)]
      /\ \A q \in Players \ frobbed :
           /\ IsInjective(descrs[q])
           /\ Range(descrs[q]) = {SlotOf(e) : e \in ConnsOf(q)} \ {0}
  BY DEF TInv, Rest, PlayerDescrs
<1>6. /\ SlotOf(d) \in Slots \cup {0} /\ 0 \notin Slots
      /\ \A e \in Descr : SlotOf(e) # 0 /\ e # d => SlotOf(e) # SlotOf(d)
  BY <1>1, SlotOfs
<1> HIDE DEF o
<1>7. descrs' \in [Players -> Seq(Slots)]
  <2>1. \A a \in Seq(Slots) : Selected(a, Slots \ {SlotOf(d)}) \in Seq(Slots)
    BY SelectedSeq
  <2>2. CASE o = NONE \/ SlotOf(d) = 0
    BY <1>2, <1>5, <2>2 DEF Forget
  <2>3. CASE ~(o = NONE \/ SlotOf(d) = 0)
    <3> DEFINE b == IF Len(descrs[o]) > 1
                    THEN Selected(descrs[o], Slots \ {SlotOf(d)}) ELSE <<>>
    <3>1. descrs' = [descrs EXCEPT ![o] = b] BY <1>2, <2>3 DEF Forget
    <3>2. ASSUME o \in Players PROVE b \in Seq(Slots)
      <4>1. descrs[o] \in Seq(Slots) BY <1>5, <3>2
      <4>2. Selected(descrs[o], Slots \ {SlotOf(d)}) \in Seq(Slots)
        BY <2>1, <4>1
      <4>3. b \in {Selected(descrs[o], Slots \ {SlotOf(d)}), <<>>}
        OBVIOUS
      <4> HIDE DEF b
      <4> QED BY <2>1, <4>2, <4>3, EmptySeq
    <3> HIDE DEF b
    <3> QED BY <1>5, <3>1, <3>2
  <2> QED BY <2>2, <2>3
<1>8. ASSUME NEW q \in Players \ frobbed
      PROVE  /\ IsInjective(descrs'[q])
             /\ Range(descrs'[q]) = {SlotOf(e)' : e \in ConnsOf(q)'} \ {0}
  <2> DEFINE R == {SlotOf(e) : e \in ConnsOf(q)} \ {0}
             T == {SlotOf(e)' : e \in ConnsOf(q)'} \ {0}
  <2>1. T = {SlotOf(e) : e \in ConnsOf(q) \ {d}} \ {0} BY <1>4
  <2>2. CASE q # o \/ SlotOf(d) = 0
    <3>1. descrs'[q] = descrs[q] BY <1>2, <1>5, <2>2 DEF Forget
    <3>2. d \in ConnsOf(q) => SlotOf(d) = 0 BY <2>2 DEF ConnsOf, o
    <3>3. T = R BY <2>1, <3>2
    <3> QED BY <1>5, <3>1, <3>3
  <2>3. CASE q = o /\ SlotOf(d) # 0
    <3> DEFINE x == SlotOf(d)
               a == descrs[q]
               b == IF Len(a) > 1 THEN Selected(a, Slots \ {x}) ELSE <<>>
    <3>1. q # NONE BY ConstantAssumption
    <3>2. d \in ConnsOf(q)
      <4>1. conn[d].player = q BY <2>3 DEF o
      <4> QED BY <1>3, <3>1, <4>1 DEF ConnsOf
    <3>3. x \in Range(a) BY <1>5, <2>3, <3>2
    <3>4. a \in Seq(Slots) /\ IsInjective(a) BY <1>5
    <3>5. descrs'[q] = b BY <1>2, <1>5, <2>3, <3>1 DEF Forget
    <3>6. Range(a) = R BY <1>5
    <3>7. T = R \ {x}
      <4>1. \A e \in ConnsOf(q) : SlotOf(e) # 0 /\ e # d => SlotOf(e) # x
        BY <1>4, <1>6
      <4> QED BY <2>1, <4>1
    <3> HIDE DEF a, x, R, T
    <3>8. IsInjective(b) /\ Range(b) = Range(a) \ {x}
      BY <3>3, <3>4, ForgottenSlot
    <3> HIDE DEF b
    <3> QED BY <3>5, <3>6, <3>7, <3>8 DEF T
  <2> QED BY <2>2, <2>3
<1>9. PlayerDescrs' BY <1>8 DEF PlayerDescrs
<1> QED BY <1>7, <1>9

\* A descriptor is taken from its player, if it has one.
LEMMA DetachedTables ==
  ASSUME IInv, TInv, NEW c \in [Descr -> Conn], SameOwners(c),
         NEW d \in Descr, Detach(d, c), UNCHANGED <<list, lookup, frobbed>>
  PROVE  Owned' /\ Counted' /\ PlayerDescrs' /\ descrs' \in [Players -> Seq(Slots)]
<1>1. /\ Listed' = Listed /\ Listed \subseteq Descr
      /\ \A e : SlotOf(e)' = SlotOf(e)
  BY DEF IInv, ListInv, Listed, Range, SlotOf
<1>2. \A e \in Descr : /\ conn'[e].connected = (conn[e].connected /\ e # d)
                       /\ conn'[e].player =
                            IF e = d THEN NONE ELSE conn[e].player
  BY ZenonT(30) DEF Detach, SameOwners, Conn
<1>3. Counted' BY DEF Detach, Counted, CountTable
<1>4. \A e \in Descr : /\ conn[e].connected <=> conn[e].player # NONE
                       /\ conn[e].connected => e \in Listed
  BY DEF TInv, Owned
<1>5. Owned' BY <1>1, <1>2, <1>4 DEF Owned
<1>6. \A q : ConnsOf(q)' = ConnsOf(q) \ {d}
  BY <1>1, <1>2 DEF ConnsOf
<1>7. descrs' = Forget(conn[d].player, d, descrs) BY DEF Detach
<1> QED BY <1>1, <1>3, <1>5, <1>6, <1>7, Forgotten

\* Unlinking what is not selected does not change what is.
LEMMA SelectedUnlinked ==
  ASSUME NEW l \in Seq(Descr), IsInjective(l), NEW d \in Range(l),
         NEW S, d \notin S
  PROVE  Selected(Unlinked(l, d), S) = Selected(l, S)
<1> DEFINE n == Len(l)
           u == Unlinked(l, d)
           P == {i \in DOMAIN l : l[i] \in S}
           Q == {i \in DOMAIN u : u[i] \in S}
<1>1. u \in Seq(Descr) BY UnlinkedList
<1>2. PICK k \in 1..n :
        /\ l[k] = d /\ DOMAIN u = 1..(n - 1)
        /\ \A i \in 1..(n - 1) : u[i] = IF i < k THEN l[i] ELSE l[i + 1]
  BY UnlinkedList
<1> HIDE DEF u
<1>3. n \in Nat /\ DOMAIN l = 1..n /\ P \in SUBSET (1..n) OBVIOUS
<1> HIDE DEF P, Q
<1>4. PICK m \in Nat : \E f : Numbering(f, m, P) BY <1>3, NumberingExists
<1>5. PICK f : Numbering(f, m, P) BY <1>4
<1> DEFINE g == [i \in 1..m |-> IF f[i] < k THEN f[i] ELSE f[i] - 1]
<1>6. /\ f \in [1..m -> P]
      /\ \A i, j \in 1..m : i < j => f[i] < f[j]
      /\ \A x \in P : \E i \in 1..m : f[i] = x
  BY <1>5 DEF Numbering
<1>7. \A i \in 1..m : f[i] \in 1..n /\ l[f[i]] \in S /\ f[i] # k
  BY <1>2, <1>3, <1>6 DEF P
<1>8. \A i \in 1..m : g[i] \in 1..(n - 1) /\ u[g[i]] = l[f[i]]
  BY <1>2, <1>3, <1>7
<1>9. Numbering(g, m, Q)
  <2>1. g \in [1..m -> Q] BY <1>2, <1>7, <1>8 DEF Q
  <2>2. \A i, j \in 1..m : i < j => g[i] < g[j]
    BY <1>2, <1>6, <1>7
  <2>3. ASSUME NEW x \in Q PROVE \E i \in 1..m : g[i] = x
    <3> DEFINE y == IF x < k THEN x ELSE x + 1
    <3>1. x \in 1..(n - 1) /\ u[x] \in S BY <1>2 DEF Q
    <3>2. y \in 1..n /\ l[y] = u[x] /\ (y < k <=> x < k) BY <1>2, <1>3, <3>1
    <3>3. y \in P BY <1>3, <3>1, <3>2 DEF P
    <3>4. PICK i \in 1..m : f[i] = y BY <1>6, <3>3
    <3>5. g[i] = x BY <3>1, <3>2, <3>4
    <3> QED BY <3>5
  <2> HIDE DEF g
  <2> QED BY <2>1, <2>2, <2>3 DEF Numbering
<1>10. Selected(l, S) = [i \in 1..m |-> l[f[i]]] BY <1>5, SelectedBy DEF P
<1> HIDE DEF g
<1>11. Selected(u, S) = [i \in 1..m |-> u[g[i]]]
  BY <1>1, <1>9, SelectedBy DEF Q
<1> QED BY <1>8, <1>10, <1>11 DEF u

\* ... nor does putting something in front of the rest.
LEMMA SelectedBehind ==
  ASSUME NEW l \in Seq(Descr), NEW d \in Descr, NEW S, d \notin S
  PROVE  Selected(<<d>> \o l, S) = Selected(l, S)
<1> DEFINE n == Len(l)
           u == <<d>> \o l
           P == {i \in DOMAIN l : l[i] \in S}
           Q == {i \in DOMAIN u : u[i] \in S}
<1>1. /\ u \in Seq(Descr) /\ DOMAIN u = 1..(n + 1) /\ u[1] = d
      /\ \A i \in 1..n : u[i + 1] = l[i]
  <2>1. /\ u \in Seq(Descr) /\ Len(u) = n + 1
        /\ \A i \in 1..(n + 1) : u[i] = IF i <= 1 THEN d ELSE l[i - 1]
    BY ConcatProperties
  <2> HIDE DEF u
  <2> QED BY <2>1
<1>2. n \in Nat /\ DOMAIN l = 1..n /\ P \in SUBSET (1..n) OBVIOUS
<1> HIDE DEF P, Q, u
<1>3. PICK m \in Nat : \E f : Numbering(f, m, P) BY <1>2, NumberingExists
<1>4. PICK f : Numbering(f, m, P) BY <1>3
<1> DEFINE g == [i \in 1..m |-> f[i] + 1]
<1>5. /\ f \in [1..m -> P]
      /\ \A i, j \in 1..m : i < j => f[i] < f[j]
      /\ \A x \in P : \E i \in 1..m : f[i] = x
  BY <1>4 DEF Numbering
<1>6. \A i \in 1..m : f[i] \in 1..n /\ l[f[i]] \in S
  BY <1>2, <1>5 DEF P
<1>7. \A i \in 1..m : g[i] \in 1..(n + 1) /\ u[g[i]] = l[f[i]]
  BY <1>1, <1>6
<1>8. Numbering(g, m, Q)
  <2>1. g \in [1..m -> Q] BY <1>1, <1>6, <1>7 DEF Q
  <2>2. \A i, j \in 1..m : i < j => g[i] < g[j]
    BY <1>5, <1>6
  <2>3. ASSUME NEW x \in Q PROVE \E i \in 1..m : g[i] = x
    <3>1. x \in 1..(n + 1) /\ u[x] \in S /\ x # 1 BY <1>1 DEF Q
    <3>2. x - 1 \in 1..n /\ l[x - 1] = u[x] BY <1>1, <1>2, <3>1
    <3>3. x - 1 \in P BY <1>2, <3>1, <3>2 DEF P
    <3>4. PICK i \in 1..m : f[i] = x - 1 BY <1>5, <3>3
    <3>5. g[i] = x BY <3>1, <3>4
    <3> QED BY <3>5
  <2> HIDE DEF g
  <2> QED BY <2>1, <2>2, <2>3 DEF Numbering
<1>9. Selected(l, S) = [i \in 1..m |-> l[f[i]]] BY <1>4, SelectedBy DEF P
<1> HIDE DEF g
<1>10. Selected(u, S) = [i \in 1..m |-> u[g[i]]]
  BY <1>1, <1>8, SelectedBy DEF Q
<1> QED BY <1>7, <1>9, <1>10 DEF u

\* A descriptor is freed: shutdownsock takes it from its player, if it still
\* has one, out of the lookup table and out of the list.
LEMMA GoneTables ==
  ASSUME IInv, TInv, NEW d \in Listed, Freed(d), UNCHANGED frobbed
  PROVE  /\ Owned' /\ Counted' /\ PlayerDescrs'
         /\ descrs' \in [Players -> Seq(Slots)]
         /\ Listed' = Listed \ {d}
         /\ \A e \in Descr \ {d} : SlotOf(e)' = SlotOf(e)
<1>1. /\ ListInv' /\ LookupInv' /\ Listed' = Listed \ {d}
      /\ d \in Descr /\ Listed \subseteq Descr
      /\ list \in Seq(Descr) /\ IsInjective(list) /\ LookupInv
  <2>1. Listed \subseteq Descr BY DEF IInv, ListInv, Listed, Range
  <2> QED BY <2>1, FreedTables DEF IInv, ListInv
<1>2. \A e \in Descr : /\ conn'[e].connected = (conn[e].connected /\ e # d)
                       /\ conn'[e].player =
                            IF e = d THEN NONE ELSE conn[e].player
  BY DEF Freed, Closed, IInv, ConnInv, Conn
<1>3. \A e \in Descr : /\ conn[e].connected <=> conn[e].player # NONE
                       /\ conn[e].connected => e \in Listed
  BY DEF TInv, Owned
<1>4. Owned' BY <1>1, <1>2, <1>3 DEF Owned
<1>5. \A q : ConnsOf(q)' = ConnsOf(q) \ {d}
  BY <1>1, <1>2 DEF ConnsOf
<1>6. \A e \in Descr \ {d} : SlotOf(e)' = SlotOf(e)
  <2>1. \A e \in Descr \ {d}, i \in Slots : lookup'[i] = e <=> lookup[i] = e
    <3>1. NONE \notin Descr BY ConstantAssumption DEF Descr
    <3> QED BY <1>1, <3>1 DEF Freed, LookupInv
  <2> QED BY <1>1, <2>1, SameSlots
<1>7. descrs' = Forget(conn[d].player, d, descrs)
  <2>1. CASE conn[d].connected BY <2>1 DEF Freed
  <2>2. CASE ~conn[d].connected
    <3>1. conn[d].player = NONE BY <1>1, <1>3, <2>2
    <3> QED BY <2>2, <3>1 DEF Freed, Forget
  <2> QED BY <2>1, <2>2
<1>8. PlayerDescrs' /\ descrs' \in [Players -> Seq(Slots)]
  BY <1>1, <1>5, <1>6, <1>7, Forgotten
<1>9. Counted'
  <2>1. /\ Connected(conn') = Connected(conn) \ {d}
        /\ Connected([conn EXCEPT ![d].connected = FALSE]) =
             Connected(conn) \ {d}
    BY <1>2 DEF Connected, IInv, ConnInv, Conn
  <2>2. table' = Selected(list, Connected(conn) \ {d})
    <3>1. CASE conn[d].connected
      BY <2>1, <3>1 DEF Freed, CountTable
    <3>2. CASE ~conn[d].connected
      <4>1. Connected(conn) \ {d} = Connected(conn) BY <3>2 DEF Connected
      <4> QED BY <3>2, <4>1 DEF Freed, TInv, Counted, CountTable
    <3> QED BY <3>1, <3>2
  <2> DEFINE S == Connected(conn) \ {d}
  <2>3. d \notin S OBVIOUS
  <2> HIDE DEF S
  <2>4. Selected(Unlinked(list, d), S) = Selected(list, S)
    BY <1>1, <2>3, SelectedUnlinked DEF Listed
  <2>5. Selected(list', Connected(conn')) = table'
    BY <2>1, <2>2, <2>4 DEF Freed, S
  <2> QED BY <2>5 DEF Counted, CountTable
<1> QED BY <1>1, <1>4, <1>6, <1>8, <1>9

\* A new connection is nobody's, and takes no slot but a free one.
LEMMA AddedTables ==
  ASSUME IInv, TInv, NEW d \in Descr, Accept(d)
  PROVE  /\ Owned' /\ Counted' /\ PlayerDescrs'
         /\ SameOwners(conn') /\ Listed' = Listed \cup {d}
         /\ \A e \in Descr \ {d} : /\ SlotOf(e)' = SlotOf(e)
                                   /\ conn[e].booted # 0 => conn'[e].booted # 0
         /\ SlotOf(d)' = 0 => conn'[d].booted # 0
<1> DEFINE slot == CHOOSE i \in FreeSlots : \A j \in FreeSlots : i <= j
           new == [Closed EXCEPT !.booted = IF FreeSlots = {} THEN 1 ELSE 0]
<1>1. /\ d \notin Listed /\ list' = <<d>> \o list
      /\ lookup' = IF FreeSlots = {} THEN lookup ELSE [lookup EXCEPT ![slot] = d]
      /\ UNCHANGED <<table, descrs, frobbed>>
  BY DEF Accept
<1>2. /\ ListInv' /\ LookupInv' /\ LookupInv /\ list \in Seq(Descr)
      /\ Listed \subseteq Descr /\ IInv'
  <2>1. IInv' BY AcceptStep
  <2>2. Listed \subseteq Descr BY DEF IInv, ListInv, Listed, Range
  <2> QED BY <2>1, <2>2 DEF IInv, ListInv
<1>3. Listed' = Listed \cup {d}
  <2>1. /\ DOMAIN list' = 1..(Len(list) + 1) /\ list'[1] = d
        /\ \A i \in 1..Len(list) : list'[i + 1] = list[i]
        /\ Len(list) \in Nat /\ DOMAIN list = 1..Len(list)
    <3>1. <<d>> \in Seq(Descr) /\ Len(<<d>>) = 1 /\ <<d>>[1] = d OBVIOUS
    <3>2. /\ list' \in Seq(Descr) /\ Len(list') = Len(list) + 1
          /\ \A i \in 1..(1 + Len(list)) :
               list'[i] = IF i <= 1 THEN <<d>>[i] ELSE list[i - 1]
      BY <1>1, <1>2, <3>1, ConcatProperties
    <3> QED BY <1>2, <3>1, <3>2
  <2>2. \A i \in DOMAIN list' : i = 1 \/ (i - 1 \in DOMAIN list
                                          /\ list'[i] = list[i - 1])
    BY <2>1
  <2>3. Listed' \subseteq Listed \cup {d}
    BY <2>1, <2>2 DEF Listed, Range
  <2>4. Listed \subseteq Listed'
    <3> SUFFICES ASSUME NEW i \in DOMAIN list PROVE list[i] \in Listed'
      BY DEF Listed, Range
    <3>1. i + 1 \in DOMAIN list' /\ list'[i + 1] = list[i] BY <2>1
    <3> QED BY <3>1 DEF Listed, Range
  <2>5. d \in Listed'
    <3>1. 1 \in DOMAIN list' BY <2>1
    <3> QED BY <2>1, <3>1 DEF Listed, Range
  <2> QED BY <2>3, <2>4, <2>5
<1>4. ~conn[d].connected /\ conn[d].player = NONE
  BY <1>1 DEF TInv, Owned
<1>5. /\ SameOwners(conn')
      /\ \A e \in Descr \ {d} : conn[e].booted # 0 => conn'[e].booted # 0
      /\ FreeSlots = {} => conn'[d].booted # 0
  <2>1. conn' = [conn EXCEPT ![d] = new]
        \/ \E e \in Listed : conn' = [conn EXCEPT ![d] = new, ![e].booted = 1]
    BY DEF Accept
  <2>2. /\ new.connected = FALSE /\ new.player = NONE
        /\ FreeSlots = {} => new.booted # 0
    BY DEF Closed
  <2>3. \A e \in Descr : conn[e] \in Conn BY DEF IInv, ConnInv
  <2> HIDE DEF new
  <2>4. CASE conn' = [conn EXCEPT ![d] = new]
    BY <1>4, <2>2, <2>3, <2>4 DEF SameOwners, Conn, IInv, ConnInv
  <2>5. ASSUME NEW e \in Listed,
               conn' = [conn EXCEPT ![d] = new, ![e].booted = 1]
        PROVE  /\ SameOwners(conn')
               /\ \A f \in Descr \ {d} : conn[f].booted # 0 => conn'[f].booted # 0
               /\ FreeSlots = {} => conn'[d].booted # 0
    <3>1. e # d /\ e \in Descr BY <1>1, <1>2
    <3>2. /\ conn'[d] = new /\ conn'[e] = [conn[e] EXCEPT !.booted = 1]
          /\ \A f \in Descr \ {d, e} : conn'[f] = conn[f]
      BY <2>5, <3>1 DEF IInv, ConnInv
    <3>3. /\ conn'[e].connected = conn[e].connected
          /\ conn'[e].player = conn[e].player /\ conn'[e].booted = 1
      BY <2>3, <3>1, <3>2 DEF Conn
    <3>4. ASSUME NEW f \in Descr
          PROVE  /\ conn'[f].connected = conn[f].connected
                 /\ conn'[f].player = conn[f].player
                 /\ f # d /\ conn[f].booted # 0 => conn'[f].booted # 0
      <4>1. CASE f = d
        <5>1. conn'[f] = new BY <3>2, <4>1
        <5> QED BY <1>4, <2>2, <2>3, <4>1, <5>1 DEF Conn
      <4>2. CASE f = e BY <3>3, <4>2
      <4>3. CASE f \in Descr \ {d, e}
        <5>1. conn'[f] = conn[f] BY <3>2, <4>3
        <5> QED BY <5>1
      <4> QED BY <4>1, <4>2, <4>3
    <3>5. SameOwners(conn') BY <3>4 DEF SameOwners
    <3> QED BY <2>2, <3>2, <3>4, <3>5
  <2> QED BY <2>1, <2>4, <2>5
<1>6. FreeSlots # {} => slot \in FreeSlots
  <2> SUFFICES ASSUME FreeSlots # {} PROVE slot \in FreeSlots
    OBVIOUS
  <2>1. FreeSlots \subseteq Nat BY DEF FreeSlots, Slots
  <2>2. \E i \in FreeSlots : \A j \in FreeSlots : i <= j
    BY <2>1, LeastOne
  <2> QED BY <2>2
<1> HIDE DEF slot, new
<1>7. /\ \A e \in Descr \ {d}, i \in Slots : lookup'[i] = e <=> lookup[i] = e
      /\ FreeSlots # {} => slot \in Slots /\ lookup'[slot] = d
  <2>1. CASE FreeSlots = {} BY <1>1, <2>1
  <2>2. CASE FreeSlots # {}
    <3>1. slot \in Slots /\ lookup[slot] = NONE BY <1>6, <2>2 DEF FreeSlots
    <3>2. \A i \in Slots : lookup'[i] = IF i = slot THEN d ELSE lookup[i]
      BY <1>1, <1>2, <2>2 DEF LookupInv
    <3>3. NONE \notin Descr BY ConstantAssumption DEF Descr
    <3> QED BY <3>1, <3>2, <3>3
  <2> QED BY <2>1, <2>2
<1>8. \A e \in Descr \ {d} : SlotOf(e)' = SlotOf(e)
  BY <1>2, <1>7, SameSlots
<1>9. SlotOf(d)' = 0 => FreeSlots = {}
  <2> SUFFICES ASSUME FreeSlots # {} PROVE SlotOf(d)' # 0
    OBVIOUS
  <2>1. SlotOf(d)' = SlotIn(lookup', d) BY DEF SlotOf, SlotIn
  <2>2. d # NONE BY ConstantAssumption DEF Descr
  <2>3. /\ \A i \in Slots : lookup'[i] = d <=> SlotIn(lookup', d) = i
        /\ 0 \notin Slots
    BY <1>2, <2>2, SlotIns DEF LookupInv
  <2> QED BY <1>7, <2>1, <2>3
<1>10. Owned' BY <1>3, <1>5 DEF TInv, Owned, SameOwners
<1>11. \A q \in Players : ConnsOf(q)' = ConnsOf(q)
  <2>1. NONE \notin Players BY ConstantAssumption
  <2> QED BY <1>2, <1>3, <1>4, <1>5, <2>1 DEF ConnsOf, SameOwners
<1>12. PlayerDescrs'
  <2>1. \A q \in Players : \A e \in ConnsOf(q) : SlotOf(e)' = SlotOf(e)
    BY <1>1, <1>2, <1>8 DEF ConnsOf
  <2>2. \A q \in Players :
          {SlotOf(e)' : e \in ConnsOf(q)'} = {SlotOf(e) : e \in ConnsOf(q)}
    BY <1>11, <2>1
  <2>3. \A q \in Players \ frobbed :
          /\ IsInjective(descrs[q])
          /\ Range(descrs[q]) = {SlotOf(e) : e \in ConnsOf(q)} \ {0}
    BY DEF TInv, PlayerDescrs
  <2>4. \A q \in Players' \ frobbed' :
          /\ IsInjective(descrs'[q])
          /\ Range(descrs'[q]) = {SlotOf(e)' : e \in ConnsOf(q)'} \ {0}
    BY <1>1, <2>2, <2>3
  <2> QED BY <2>4 DEF PlayerDescrs
<1>13. Counted'
  <2>1. Connected(conn') = Connected(conn) BY <1>5 DEF Connected, SameOwners
  <2>2. d \notin Connected(conn) BY <1>4 DEF Connected
  <2>3. Selected(list', Connected(conn)) = Selected(list, Connected(conn))
    BY <1>1, <1>2, <2>2, SelectedBehind
  <2> QED BY <1>1, <2>1, <2>3 DEF TInv, Counted, CountTable
<1> QED BY <1>3, <1>5, <1>8, <1>9, <1>10, <1>12, <1>13

-----------------------------------------------------------------------------
(* boot_player_off. *)

\* g is what m turns of the loop make of s0, one turn after the other.
Turns(g, m, s0) ==
  g = [i \in 0..m |-> IF i = 0 THEN s0 ELSE BootCell(g[i - 1], i)]

\* The loop can make any number of turns.
LEMMA TurnsExist ==
  ASSUME NEW s0, NEW m \in Nat
  PROVE  \E g : Turns(g, m, s0)
<1> DEFINE S == {k \in Nat : ~\E g : Turns(g, k, s0)}
<1> SUFFICES ASSUME S # {} PROVE FALSE
  OBVIOUS
<1>1. PICK k \in S : \A j \in S : k <= j
  <2>1. S \subseteq Nat OBVIOUS
  <2> HIDE DEF S
  <2> QED BY <2>1, LeastOne
<1>2. k \in Nat /\ ~\E g : Turns(g, k, s0) OBVIOUS
<1>3. k # 0
  <2> DEFINE z == [i \in {0} |-> s0]
  <2>1. 0..0 = {0} OBVIOUS
  <2>2. z = [i \in 0..0 |-> IF i = 0 THEN s0 ELSE BootCell(z[i - 1], i)]
    BY <2>1
  <2> HIDE DEF z
  <2>3. Turns(z, 0, s0) BY <2>2 DEF Turns
  <2> QED BY <1>2, <2>3
<1>4. PICK g : Turns(g, k - 1, s0)
  <2>1. k - 1 \in Nat /\ ~(k <= k - 1) BY <1>2, <1>3
  <2>2. k - 1 \notin S BY <1>1, <2>1
  <2> QED BY <2>1, <2>2
<1> HIDE DEF S
<1> DEFINE h == [i \in 0..k |-> IF i < k THEN g[i] ELSE BootCell(g[k - 1], k)]
<1>5. \A i \in 0..(k - 1) :
        g[i] = IF i = 0 THEN s0 ELSE BootCell(g[i - 1], i)
  <2>1. g = [i \in 0..(k - 1) |->
               IF i = 0 THEN s0 ELSE BootCell(g[i - 1], i)]
    BY <1>4 DEF Turns
  <2> QED BY <2>1
<1>6. ASSUME NEW i \in 0..k
      PROVE  h[i] = IF i = 0 THEN s0 ELSE BootCell(h[i - 1], i)
  <2>1. CASE i = 0
    <3>1. 0 \in 0..(k - 1) /\ 0 < k BY <1>2, <1>3
    <3> QED BY <1>5, <2>1, <3>1
  <2>2. CASE i # 0 /\ i < k
    <3>1. i \in 0..(k - 1) /\ i - 1 \in 0..k /\ i - 1 < k BY <1>2, <2>2
    <3>2. h[i - 1] = g[i - 1] /\ h[i] = g[i] BY <2>2, <3>1
    <3> QED BY <1>5, <2>2, <3>1, <3>2
  <2>3. CASE i = k
    <3>1. k - 1 \in 0..k /\ k - 1 < k BY <1>2, <1>3
    <3>2. h[k - 1] = g[k - 1] /\ h[k] = BootCell(g[k - 1], k)
      BY <1>2, <3>1
    <3> QED BY <1>3, <2>3, <3>2
  <2>4. i = k \/ i < k BY <1>2
  <2> QED BY <2>1, <2>2, <2>3, <2>4
<1>7. h = [i \in 0..k |-> IF i = 0 THEN s0 ELSE BootCell(h[i - 1], i)]
  <2>1. h = [i \in 0..k |-> h[i]] OBVIOUS
  <2> HIDE DEF h
  <2> QED BY <1>6, <2>1
<1> HIDE DEF h
<1>8. Turns(h, k, s0) BY <1>7 DEF Turns
<1> QED BY <1>2, <1>8

\* What the loop has in hand when the array was a: the memory of the array,
\* of the same length and with no slot it had not, and the descriptors whose
\* slots it had.
InHand(s, a) ==
  /\ s.cells \in Seq(Slots) /\ Len(s.cells) = Len(a)
  /\ Range(s.cells) \subseteq Range(a)
  /\ s.n \in 0..Len(a)
  /\ s.cut \subseteq {lookup[x] : x \in Range(a)} \ {NONE}

\* One turn keeps it so.
LEMMA TurnInHand ==
  ASSUME NEW a \in Seq(Slots), NEW s, InHand(s, a), NEW i \in 1..Len(a)
  PROVE  InHand(BootCell(s, i), a)
<1> DEFINE x == s.cells[i]
           d == lookup[x]
           t == SubSeq(s.cells, 1, s.n)
           kept == Selected(t, Slots \ {x})
           k == Len(kept)
           n == Len(a)
           rest == SubSeq(s.cells, k + 1, n)
           cells == kept \o rest
<1>1. /\ s.cells \in Seq(Slots) /\ Len(s.cells) = n /\ n \in Nat
      /\ DOMAIN s.cells = 1..n /\ \A j \in 1..n : s.cells[j] \in Slots
      /\ Range(s.cells) \subseteq Range(a) /\ s.n \in Nat /\ s.n <= n
      /\ x \in Range(a)
  <2>1. s.cells \in Seq(Slots) /\ Len(s.cells) = n BY DEF InHand
  <2>2. DOMAIN s.cells = 1..n /\ \A j \in 1..n : s.cells[j] \in Slots
    BY <2>1
  <2>3. x \in Range(s.cells) BY <2>2 DEF Range
  <2> QED BY <2>1, <2>2, <2>3 DEF InHand
<1>2. t \in Seq(Slots) /\ Len(t) = s.n /\ Range(t) \subseteq Range(a)
  <2>1. \A j \in 1..s.n : s.cells[j] \in Slots BY <1>1
  <2>2. /\ t \in Seq(Slots)
        /\ Len(t) = IF 1 <= s.n THEN s.n - 1 + 1 ELSE 0
        /\ \A j \in 1..(s.n - 1 + 1) : t[j] = s.cells[1 + j - 1]
    BY <1>1, <2>1, SubSeqProperties
  <2> HIDE DEF t
  <2>3. t \in Seq(Slots) /\ Len(t) = s.n /\ DOMAIN t = 1..s.n
    BY <1>1, <2>2
  <2>4. \A j \in 1..s.n : t[j] = s.cells[j] /\ j \in DOMAIN s.cells
    BY <1>1, <2>2
  <2>5. Range(t) \subseteq Range(s.cells) BY <2>3, <2>4 DEF Range
  <2> QED BY <1>1, <2>3, <2>5
<1> HIDE DEF t
<1>3. /\ kept \in Seq(Slots) /\ Range(kept) \subseteq Range(a)
      /\ k \in Nat /\ k <= s.n
  BY <1>2, SelectedSeq
<1> HIDE DEF kept
<1>4. /\ rest \in Seq(Slots) /\ Len(rest) = n - k
      /\ Range(rest) \subseteq Range(a)
  <2>1. k \in Nat /\ k <= n BY <1>1, <1>3
  <2> HIDE DEF k
  <2>2. \A j \in (k + 1)..n : s.cells[j] \in Slots BY <1>1, <2>1
  <2>3. /\ rest \in Seq(Slots)
        /\ Len(rest) = IF k + 1 <= n THEN n - (k + 1) + 1 ELSE 0
        /\ \A j \in 1..(n - (k + 1) + 1) : rest[j] = s.cells[k + 1 + j - 1]
    BY <1>1, <2>1, <2>2, SubSeqProperties
  <2> HIDE DEF rest
  <2>4. rest \in Seq(Slots) /\ Len(rest) = n - k /\ DOMAIN rest = 1..(n - k)
    BY <1>1, <2>1, <2>3
  <2>5. \A j \in 1..(n - k) : rest[j] = s.cells[k + j] /\ k + j \in 1..n
    BY <1>1, <2>1, <2>3
  <2>6. Range(rest) \subseteq Range(s.cells)
    BY <1>1, <2>4, <2>5 DEF Range
  <2> QED BY <1>1, <2>4, <2>6
<1> HIDE DEF rest
<1>5. cells \in Seq(Slots) /\ Len(cells) = n /\ Range(cells) \subseteq Range(a)
  <2>1. /\ cells \in Seq(Slots) /\ Len(cells) = k + Len(rest)
        /\ \A j \in 1..(k + Len(rest)) :
             cells[j] = IF j <= k THEN kept[j] ELSE rest[j - k]
    BY <1>3, <1>4, ConcatProperties
  <2> HIDE DEF cells
  <2>2. k \in Nat /\ k <= n /\ Len(cells) = n /\ DOMAIN cells = 1..n
        /\ DOMAIN kept = 1..k /\ DOMAIN rest = 1..(n - k)
    BY <1>1, <1>3, <1>4, <2>1
  <2> SUFFICES ASSUME NEW j \in 1..n PROVE cells[j] \in Range(a)
    BY <2>1, <2>2 DEF Range
  <2>3. cells[j] = IF j <= k THEN kept[j] ELSE rest[j - k]
    BY <1>1, <1>4, <2>1, <2>2
  <2> HIDE DEF k
  <2>4. CASE j <= k
    <3>1. j \in DOMAIN kept BY <2>2, <2>4
    <3> QED BY <1>3, <2>3, <2>4, <3>1 DEF Range
  <2>5. CASE ~(j <= k)
    <3>1. j - k \in DOMAIN rest BY <1>1, <2>2, <2>5
    <3> QED BY <1>4, <2>3, <2>5, <3>1 DEF Range
  <2> QED BY <2>4, <2>5
<1>6. BootCell(s, i) =
        IF d = NONE \/ d \in s.cut THEN s
        ELSE [cells |-> cells, n |-> IF s.n > 1 THEN k ELSE 0,
              cut |-> s.cut \cup {d}]
  BY <1>1 DEF BootCell, kept, t, rest
<1>7. CASE d = NONE \/ d \in s.cut BY <1>6, <1>7
<1>8. CASE ~(d = NONE \/ d \in s.cut)
  <2> DEFINE b == [cells |-> cells, n |-> IF s.n > 1 THEN k ELSE 0,
                   cut |-> s.cut \cup {d}]
  <2>1. b.cells = cells /\ b.n \in {k, 0} /\ b.cut = s.cut \cup {d}
    OBVIOUS
  <2>2. d \in {lookup[y] : y \in Range(a)} \ {NONE} BY <1>1, <1>8
  <2>3. s.cut \subseteq {lookup[y] : y \in Range(a)} \ {NONE} BY DEF InHand
  <2>4. k \in 0..n /\ 0 \in 0..n BY <1>1, <1>3
  <2>5. BootCell(s, i) = b BY <1>6, <1>8
  <2> HIDE DEF b, cells, k, d
  <2>6. InHand(b, a) BY <1>5, <2>1, <2>2, <2>3, <2>4 DEF InHand
  <2> QED BY <2>5, <2>6
<1> QED BY <1>7, <1>8

\* ... and so it is when the loop has ended.
LEMMA CellsInHand ==
  ASSUME NEW p \in Players, descrs[p] \in Seq(Slots)
  PROVE  InHand(BootCells(p), descrs[p])
<1> DEFINE a == descrs[p]
           n == Len(a)
           s0 == [cells |-> a, n |-> n, cut |-> {}]
           g == CHOOSE g : g = [i \in 0..n |->
                                  IF i = 0 THEN s0 ELSE BootCell(g[i - 1], i)]
<1>1. BootCells(p) = g[n] BY DEF BootCells
<1>2. n \in Nat OBVIOUS
<1>3. InHand(s0, a) BY DEF InHand
<1> HIDE DEF s0
<1>4. \A i \in 0..n : g[i] = IF i = 0 THEN s0 ELSE BootCell(g[i - 1], i)
  <2>1. \E h : Turns(h, n, s0) BY <1>2, TurnsExist
  <2>2. \E h : h = [i \in 0..n |->
                      IF i = 0 THEN s0 ELSE BootCell(h[i - 1], i)]
    BY <2>1 DEF Turns
  <2>3. g = [i \in 0..n |-> IF i = 0 THEN s0 ELSE BootCell(g[i - 1], i)]
    BY <2>2
  <2> HIDE DEF g
  <2> QED BY <2>3
<1> HIDE DEF g, n
<1> DEFINE S == {i \in 0..n : ~InHand(g[i], a)}
<1>5. S = {}
  <2> SUFFICES ASSUME S # {} PROVE FALSE
    OBVIOUS
  <2>1. PICK k \in S : \A j \in S : k <= j
    <3>1. S \subseteq Nat OBVIOUS
    <3> HIDE DEF S
    <3> QED BY <3>1, LeastOne
  <2>2. k \in 0..n /\ ~InHand(g[k], a) OBVIOUS
  <2>3. CASE k = 0 BY <1>2, <1>3, <1>4, <2>2, <2>3
  <2>4. CASE k # 0
    <3>1. k - 1 \in 0..n /\ ~(k <= k - 1) /\ k \in 1..n BY <1>2, <2>2, <2>4
    <3>2. k - 1 \notin S BY <2>1, <3>1
    <3>3. InHand(g[k - 1], a) BY <3>1, <3>2
    <3>4. InHand(BootCell(g[k - 1], k), a)
      BY <3>1, <3>3, TurnInHand DEF n
    <3> QED BY <1>4, <2>2, <2>4, <3>4
  <2> QED BY <2>3, <2>4
<1>6. n \in 0..n BY <1>2
<1> QED BY <1>1, <1>5, <1>6

\* The player is a thing: the connections with a slot are nobody's, and are
\* booted.
LEMMA FrobTables ==
  ASSUME IInv, TInv, NEW p \in Players, Frob(p)
  PROVE  /\ Owned' /\ Counted' /\ PlayerDescrs'
         /\ descrs' \in [Players -> Seq(Slots)]
         /\ \A e \in Descr :
              /\ conn'[e].connected => conn[e].connected
              /\ \/ conn'[e].player = conn[e].player
                 \/ conn'[e].player = NONE /\ conn'[e].booted # 0
              /\ conn[e].booted # 0 => conn'[e].booted # 0
              /\ conn'[e].booted = 0 => conn[e].booted = 0
<1> DEFINE s == BootCells(p)
           a == descrs[p]
           c == [d \in Descr |->
                   IF d \in s.cut
                   THEN [conn[d] EXCEPT !.connected = FALSE, !.player = NONE,
                                        !.booted = IF @ = 0 THEN 1 ELSE @]
                   ELSE conn[d]]
<1>1. /\ conn' = c /\ table' = CountTable(c)
      /\ descrs' = [descrs EXCEPT ![p] = SubSeq(s.cells, 1, s.n)]
      /\ frobbed' = frobbed \cup {p} /\ UNCHANGED <<list, lookup>>
      /\ p \notin frobbed
  BY DEF Frob
<1>2. /\ descrs \in [Players -> Seq(Slots)] /\ a \in Seq(Slots)
      /\ \A q \in Players \ frobbed :
           /\ IsInjective(descrs[q])
           /\ Range(descrs[q]) = {SlotOf(e) : e \in ConnsOf(q)} \ {0}
  BY DEF TInv, Rest, PlayerDescrs
<1>3. InHand(s, a) BY <1>2, CellsInHand
<1> HIDE DEF s
<1>4. s.cut \subseteq ConnsOf(p)
  <2> SUFFICES ASSUME NEW x \in Range(a), lookup[x] # NONE
               PROVE  lookup[x] \in ConnsOf(p)
    BY <1>3 DEF InHand
  <2>1. PICK e \in ConnsOf(p) : x = SlotOf(e) /\ x # 0
    <3>1. Range(a) = {SlotOf(e) : e \in ConnsOf(p)} \ {0} BY <1>1, <1>2
    <3> QED BY <3>1
  <2>2. e \in Descr /\ LookupInv
    BY DEF ConnsOf, IInv, ListInv, Listed, Range
  <2>3. SlotOf(e) \in Slots
    <3>1. SlotOf(e) \in Slots \cup {0} BY <2>2, SlotOfs
    <3> QED BY <2>1, <3>1
  <2>4. lookup[SlotOf(e)] = e BY <2>2, <2>3, SlotOfs
  <2> QED BY <2>1, <2>4
<1>5. Listed \subseteq Descr /\ Listed' = Listed
      /\ \A e : SlotOf(e)' = SlotOf(e)
  <2>1. list' = list /\ lookup' = lookup BY <1>1
  <2> QED BY <2>1 DEF IInv, ListInv, Listed, Range, SlotOf
<1>6. \A e \in Descr :
        IF e \in s.cut
        THEN /\ conn'[e].connected = FALSE /\ conn'[e].player = NONE
             /\ conn'[e].booted # 0
        ELSE conn'[e] = conn[e]
  <2>1. \A e \in Descr : conn[e] \in Conn BY DEF IInv, ConnInv
  <2> SUFFICES ASSUME NEW e \in Descr
               PROVE  IF e \in s.cut
                      THEN /\ conn'[e].connected = FALSE
                           /\ conn'[e].player = NONE /\ conn'[e].booted # 0
                      ELSE conn'[e] = conn[e]
    OBVIOUS
  <2>2. conn'[e] = IF e \in s.cut
                   THEN [conn[e] EXCEPT !.connected = FALSE, !.player = NONE,
                                        !.booted = IF @ = 0 THEN 1 ELSE @]
                   ELSE conn[e]
    BY <1>1
  <2> QED BY <2>1, <2>2 DEF Conn
<1> HIDE DEF c
<1>7. \A e \in Descr :
        /\ conn'[e].connected = (conn[e].connected /\ e \notin s.cut)
        /\ conn'[e].player = IF e \in s.cut THEN NONE ELSE conn[e].player
  <2>1. \A e \in Descr : conn[e] \in Conn BY DEF IInv, ConnInv
  <2> QED BY <1>6, <2>1 DEF Conn
<1>8. Owned' BY <1>5, <1>7 DEF TInv, Owned
<1>9. Counted'
  BY <1>1 DEF Counted, CountTable
<1>10. \A q \in Players \ {p} : ConnsOf(q)' = ConnsOf(q)
  <2>1. \A q \in Players \ {p} : ConnsOf(p) \cap ConnsOf(q) = {}
    BY DEF ConnsOf
  <2>2. NONE \notin Players BY ConstantAssumption
  <2> SUFFICES ASSUME NEW q \in Players \ {p}
               PROVE  ConnsOf(q)' = ConnsOf(q)
    OBVIOUS
  <2>3. q # NONE /\ s.cut \cap ConnsOf(q) = {} BY <1>4, <2>1, <2>2
  <2>4. ASSUME NEW e \in Listed PROVE e \in ConnsOf(q)' <=> e \in ConnsOf(q)
    <3>1. CASE e \in s.cut
      <4>1. conn'[e].player = NONE BY <1>5, <1>7, <3>1
      <4> QED BY <2>3, <3>1, <4>1 DEF ConnsOf
    <3>2. CASE e \notin s.cut
      <4>1. conn'[e] = conn[e] BY <1>5, <1>6, <3>2
      <4> QED BY <1>5, <4>1 DEF ConnsOf
    <3> QED BY <3>1, <3>2
  <2>5. ConnsOf(q) \subseteq Listed /\ ConnsOf(q)' \subseteq Listed
    BY <1>5 DEF ConnsOf
  <2> QED BY <2>4, <2>5
<1>11. PlayerDescrs'
  <2>1. \A q \in Players \ {p} : descrs'[q] = descrs[q] BY <1>1, <1>2
  <2>2. \A q \in Players \ {p} :
          {SlotOf(e)' : e \in ConnsOf(q)'} = {SlotOf(e) : e \in ConnsOf(q)}
    BY <1>5, <1>10
  <2>3. \A q \in Players \ frobbed' :
          /\ IsInjective(descrs'[q])
          /\ Range(descrs'[q]) = {SlotOf(e)' : e \in ConnsOf(q)'} \ {0}
    <3> SUFFICES ASSUME NEW q \in Players \ frobbed'
                 PROVE  /\ IsInjective(descrs'[q])
                        /\ Range(descrs'[q]) =
                             {SlotOf(e)' : e \in ConnsOf(q)'} \ {0}
      OBVIOUS
    <3>1. q \in Players \ frobbed /\ q \in Players \ {p} BY <1>1
    <3>2. /\ IsInjective(descrs[q])
          /\ Range(descrs[q]) = {SlotOf(e) : e \in ConnsOf(q)} \ {0}
      BY <1>2, <3>1
    <3>3. /\ descrs'[q] = descrs[q]
          /\ {SlotOf(e)' : e \in ConnsOf(q)'} = {SlotOf(e) : e \in ConnsOf(q)}
      BY <2>1, <2>2, <3>1
    <3> QED BY <3>2, <3>3
  <2> QED BY <2>3 DEF PlayerDescrs
<1>12. descrs' \in [Players -> Seq(Slots)]
  <2> DEFINE b == SubSeq(s.cells, 1, s.n)
  <2>1. b \in Seq(Slots)
    <3>1. /\ s.cells \in Seq(Slots) /\ s.n \in Nat /\ s.n <= Len(s.cells)
      BY <1>2, <1>3 DEF InHand
    <3>2. \A j \in 1..s.n : s.cells[j] \in Slots BY <3>1
    <3> QED BY <3>1, <3>2, SubSeqProperties
  <2> HIDE DEF b
  <2>2. descrs' = [descrs EXCEPT ![p] = b] BY <1>1 DEF b
  <2> QED BY <1>2, <2>1, <2>2
<1>13. \A e \in Descr :
         /\ conn'[e].connected => conn[e].connected
         /\ \/ conn'[e].player = conn[e].player
            \/ conn'[e].player = NONE /\ conn'[e].booted # 0
         /\ conn[e].booted # 0 => conn'[e].booted # 0
         /\ conn'[e].booted = 0 => conn[e].booted = 0
  BY <1>6, <1>7
<1> QED BY <1>8, <1>9, <1>11, <1>12, <1>13

-----------------------------------------------------------------------------
(* The calls in progress. *)

Closing(d) == \E i \in DOMAIN stack : stack[i].fn = "close" /\ stack[i].d = d

\* Between announce_disconnect and what follows it a descriptor is nobody's,
\* and one call only is about to give or close it.
Pending ==
  \A i \in DOMAIN stack :
    /\ stack[i].fn \in {"set", "close", "web"} => stack[i].d # NONE
    /\ stack[i].fn \in {"set", "close"} => ~conn[stack[i].d].connected
    /\ stack[i].fn = "set" => stack[i].who \in MovedTo \cup {NONE}
    /\ stack[i].fn = "login" => stack[i].who \in Players \ frobbed
    /\ stack[i].fn \in {"set", "close"} =>
         \A j \in DOMAIN stack :
           stack[j].fn \in {"set", "close"} /\ stack[j].d = stack[i].d => j = i

\* A connection without a slot is booted, or being closed.
Slotted ==
  \A d \in Listed : SlotOf(d) = 0 => conn[d].booted # 0 \/ Closing(d)

Full == IInv /\ TInv /\ Pending /\ Slotted /\ LoginLimit

\* A call is put on the others.
LEMMA PushFacts ==
  ASSUME stack \in Seq(Calls), NEW c \in Calls, Push(c)
  PROVE  /\ stack' \in Seq(Calls) /\ Len(stack') <= MaxDepth
         /\ \A i \in DOMAIN stack : i \in DOMAIN stack' /\ stack'[i] = stack[i]
         /\ \A i \in DOMAIN stack' : \/ i \in DOMAIN stack
                                     \/ i = Len(stack') /\ stack'[i] = c
         /\ Len(stack') \in DOMAIN stack' /\ stack'[Len(stack')] = c
         /\ Len(stack') \notin DOMAIN stack
<1>1. /\ stack' \in Seq(Calls) /\ Len(stack') = Len(stack) + 1
      /\ DOMAIN stack' = 1..(Len(stack) + 1) /\ DOMAIN stack = 1..Len(stack)
      /\ \A i \in 1..Len(stack) : stack'[i] = stack[i]
      /\ stack'[Len(stack) + 1] = c /\ Len(stack) \in Nat
  BY DEF Push
<1>2. MaxDepth \in Nat /\ Len(stack) < MaxDepth
  BY ConstantAssumption DEF Push
<1> QED BY <1>1, <1>2

\* The last call returns.
LEMMA PopFacts ==
  ASSUME stack \in Seq(Calls), Running, Pop
  PROVE  /\ stack' \in Seq(Calls) /\ Len(stack') <= Len(stack)
         /\ \A i \in DOMAIN stack' : i \in DOMAIN stack /\ stack'[i] = stack[i]
         /\ DOMAIN stack = DOMAIN stack' \cup {Len(stack)}
         /\ Len(stack) \notin DOMAIN stack' /\ stack[Len(stack)] = Top
<1>1. /\ stack' \in Seq(Calls) /\ Len(stack') = Len(stack) - 1
      /\ DOMAIN stack' \subseteq DOMAIN stack
      /\ \A i \in DOMAIN stack' : stack'[i] = stack[i]
  BY FrontCalls DEF Running, Pop
<1>2. /\ DOMAIN stack' = 1..(Len(stack) - 1) /\ DOMAIN stack = 1..Len(stack)
      /\ Len(stack) \in Nat /\ Len(stack) > 0
  BY <1>1 DEF Running
<1>3. DOMAIN stack = DOMAIN stack' \cup {Len(stack)} BY <1>2
<1> QED BY <1>1, <1>2, <1>3 DEF Top, Last

\* A step that changes the top of the stack only, and gives none of the
\* descriptors the calls below wait with.
LEMMA PendingStep ==
  ASSUME Pending, NEW c,
         \A i \in DOMAIN stack' :
           \/ i \in DOMAIN stack /\ stack'[i] = stack[i]
           \/ i = Len(stack') /\ stack'[i] = c,
         \A i \in DOMAIN stack \cap DOMAIN stack' :
           stack'[i] = stack[i] =>
             /\ stack[i].fn \in {"set", "close"} => ~conn'[stack[i].d].connected
             /\ stack[i].fn = "login" => stack[i].who \notin frobbed',
         c.fn \in {"set", "close", "web"} => c.d # NONE,
         c.fn \in {"set", "close"} =>
           conn[c.d].connected /\ ~conn'[c.d].connected,
         c.fn = "set" => c.who \in MovedTo \cup {NONE},
         c.fn = "login" => c.who \in Players \ frobbed'
  PROVE  Pending'
<1> DEFINE Old(i) == i \in DOMAIN stack /\ stack'[i] = stack[i]
           New(i) == i = Len(stack') /\ stack'[i] = c
<1>1. \A i \in DOMAIN stack' : Old(i) \/ New(i) OBVIOUS
<1>2. ASSUME NEW i \in DOMAIN stack'
      PROVE  /\ stack'[i].fn \in {"set", "close", "web"} => stack'[i].d # NONE
             /\ stack'[i].fn \in {"set", "close"} =>
                  ~conn'[stack'[i].d].connected
             /\ stack'[i].fn = "set" => stack'[i].who \in MovedTo \cup {NONE}
             /\ stack'[i].fn = "login" => stack'[i].who \in Players \ frobbed'
  <2>1. CASE Old(i) BY <2>1 DEF Pending
  <2>2. CASE New(i) BY <2>2
  <2> QED BY <1>1, <2>1, <2>2
<1>3. ASSUME NEW i \in DOMAIN stack', stack'[i].fn \in {"set", "close"},
             NEW j \in DOMAIN stack', stack'[j].fn \in {"set", "close"},
             stack'[j].d = stack'[i].d
      PROVE  j = i
  <2>1. CASE Old(i) /\ Old(j) BY <1>3, <2>1 DEF Pending
  <2>2. CASE Old(i) /\ New(j) BY <1>3, <2>2 DEF Pending
  <2>3. CASE New(i) /\ Old(j) BY <1>3, <2>3 DEF Pending
  <2>4. CASE New(i) /\ New(j) BY <2>4
  <2> QED BY <1>1, <2>1, <2>2, <2>3, <2>4
<1> QED BY <1>2, <1>3 DEF Pending

\* A step that takes no slot, keeps what is booted booted, and ends the
\* closing of no descriptor.
LEMMA SlottedStep ==
  ASSUME Slotted, UNCHANGED <<list, lookup>>, NEW x,
         \A d \in Listed : conn[d].booted # 0 /\ d # x => conn'[d].booted # 0,
         \A d \in Listed : Closing(d) => Closing(d)',
         x \in Listed => conn'[x].booted # 0 \/ Closing(x)' \/ conn[x].booted = 0
  PROVE  Slotted'
<1>1. Listed' = Listed /\ \A d : SlotOf(d)' = SlotOf(d)
  BY DEF Listed, SlotOf
<1> QED BY <1>1 DEF Slotted

\* Closing goes on while the calls below the top do.
LEMMA ClosingStays ==
  ASSUME \A i \in DOMAIN stack :
           \/ i \in DOMAIN stack' /\ stack'[i] = stack[i]
           \/ stack[i].fn # "close",
         NEW d, Closing(d)
  PROVE  Closing(d)'
BY DEF Closing

-----------------------------------------------------------------------------
(* The limit. *)

Logins(p) == {i \in DOMAIN stack : stack[i].fn = "login" /\ stack[i].who = p}

\* The players the limit is for.
Limited == Players \ (MovedTo \cup {WwwUser})

Finite ==
  \A p : /\ IsFiniteSet(Unbooted(p)) /\ Cardinality(Unbooted(p)) \in Nat
         /\ IsFiniteSet(Logins(p)) /\ Cardinality(Logins(p)) \in Nat

\* What the limit compares can be counted.
LEMMA FiniteParts == IInv => Finite
<1> SUFFICES ASSUME IInv, NEW p
             PROVE  /\ IsFiniteSet(Unbooted(p))
                    /\ Cardinality(Unbooted(p)) \in Nat
                    /\ IsFiniteSet(Logins(p)) /\ Cardinality(Logins(p)) \in Nat
  BY DEF Finite
<1>1. IsFiniteSet(Descr) BY ConstantAssumption
<1>2. Unbooted(p) \subseteq Descr
  BY DEF Unbooted, ConnsOf, Listed, Range, IInv, ListInv
<1>3. IsFiniteSet(Unbooted(p)) BY <1>1, <1>2, FS_Subset
<1>4. Len(stack) \in Nat /\ DOMAIN stack = 1..Len(stack) BY DEF IInv, StackInv
<1>5. \A m \in Nat : IsFiniteSet(1..m) BY FS_Interval
<1>6. IsFiniteSet(DOMAIN stack) BY <1>4, <1>5
<1>7. Logins(p) \subseteq DOMAIN stack BY DEF Logins
<1>8. IsFiniteSet(Logins(p)) BY <1>6, <1>7, FS_Subset
<1> QED BY <1>3, <1>8, FS_CardinalityType

Limit(p) == Cardinality(Unbooted(p)) <= MaxLogins + Cardinality(Logins(p))

\* The limit holds for every player it is for.
LEMMA LimitAll ==
  LoginLimit <=> (MaxLogins > 0 => \A p \in Limited : Limit(p))
BY DEF LoginLimit, Limited, Limit, Logins

\* A step that gives the player no connection, and ends no login.
LEMMA LimitStep ==
  ASSUME IInv, IInv', NEW p, Limit(p),
         Unbooted(p)' \subseteq Unbooted(p), Logins(p) \subseteq Logins(p)'
  PROVE  Limit(p)'
<1>1. Cardinality(Unbooted(p)) <= MaxLogins + Cardinality(Logins(p))
  BY DEF Limit
<1>2. /\ IsFiniteSet(Unbooted(p)) /\ Cardinality(Unbooted(p)) \in Nat
      /\ Cardinality(Logins(p)) \in Nat /\ MaxLogins \in Nat
  BY FiniteParts, ConstantAssumption DEF Finite
<1>3. /\ Cardinality(Unbooted(p)') \in Nat
      /\ IsFiniteSet(Logins(p)') /\ Cardinality(Logins(p)') \in Nat
  <2>1. IInv' => Finite' BY FiniteParts, PTL
  <2> QED BY <2>1 DEF Finite
<1>4. Cardinality(Unbooted(p)') <= Cardinality(Unbooted(p))
  BY <1>2, FS_Subset
<1>5. Cardinality(Logins(p)) <= Cardinality(Logins(p)')
  BY <1>3, FS_Subset
<1> QED BY <1>1, <1>2, <1>3, <1>4, <1>5 DEF Limit

\* The same for all of them.
LEMMA LimitSteps ==
  ASSUME IInv, IInv', LoginLimit,
         \A p \in Limited : /\ Unbooted(p)' \subseteq Unbooted(p)
                            /\ Logins(p) \subseteq Logins(p)'
  PROVE  LoginLimit'
<1> SUFFICES ASSUME MaxLogins > 0, NEW p \in Limited PROVE Limit(p)'
  <2>1. LoginLimit' <=> (MaxLogins > 0 => \A p \in Limited : Limit(p)')
    BY DEF LoginLimit, Limited, Limit, Logins
  <2> QED BY <2>1
<1>1. Limit(p) BY LimitAll
<1> QED BY <1>1, LimitStep

-----------------------------------------------------------------------------
(* Steps that give and take no connection. *)

\* The fields c boot no fewer than there are, and are nobody else's.
Keeps(c) ==
  /\ SameOwners(c)
  /\ \A d \in Descr : conn[d].booted # 0 => c[d].booted # 0

Quiet ==
  /\ UNCHANGED <<list, lookup, table, descrs, frobbed>> /\ Keeps(conn')
  /\ fresh' \subseteq Descr /\ quota' \subseteq Descr /\ again' \in BOOLEAN

QuietStack ==
  \/ stack' = stack
  \/ \E c \in Calls : c.fn \in {"event", "command", "idle"} /\ Push(c)
  \/ Running /\ Pop /\ Top.fn # "close"

\* What such a step keeps.
LEMMA QuietStep ==
  ASSUME Full, IInv', Quiet, QuietStack
  PROVE  /\ TInv' /\ Pending' /\ Slotted'
         /\ \A p : Unbooted(p)' \subseteq Unbooted(p)
         /\ \/ \A p : Logins(p) \subseteq Logins(p)'
            \/ Running /\ Pop /\ Top.fn = "login"
<1>1. /\ stack \in Seq(Calls) /\ Len(stack) <= MaxDepth /\ Len(stack) \in Nat
      /\ Listed \subseteq Descr /\ Listed' = Listed
  <2>1. list' = list BY DEF Quiet
  <2> QED BY <2>1 DEF Full, IInv, StackInv, TInv, Rest, ListInv, Listed, Range
<1>2. \A d \in Descr : /\ conn'[d].connected = conn[d].connected
                       /\ conn'[d].player = conn[d].player
                       /\ conn[d].booted # 0 => conn'[d].booted # 0
  BY DEF Quiet, Keeps, SameOwners
<1>3. Owned' /\ Counted' /\ PlayerDescrs'
  <2>1. conn' \in [Descr -> Conn] BY DEF IInv, ConnInv
  <2> QED BY <2>1, QuietTables DEF Quiet, Keeps, Full
<1>4. \A p : Unbooted(p)' \subseteq Unbooted(p)
  BY <1>1, <1>2 DEF Unbooted, ConnsOf
<1>5. PICK c : /\ c.fn \notin {"set", "close", "web", "login"}
               /\ Len(stack') <= MaxDepth
               /\ \A i \in DOMAIN stack' :
                    \/ i \in DOMAIN stack /\ stack'[i] = stack[i]
                    \/ i = Len(stack') /\ stack'[i] = c
  <2> DEFINE e == Call("event", NONE, NONE)
  <2>0. e.fn \notin {"set", "close", "web", "login"} BY DEF Call
  <2> HIDE DEF e
  <2>1. CASE stack' = stack BY <1>1, <2>0, <2>1
  <2>2. ASSUME NEW c \in Calls, c.fn \in {"event", "command", "idle"}, Push(c)
        PROVE  /\ c.fn \notin {"set", "close", "web", "login"}
               /\ Len(stack') <= MaxDepth
               /\ \A i \in DOMAIN stack' :
                    \/ i \in DOMAIN stack /\ stack'[i] = stack[i]
                    \/ i = Len(stack') /\ stack'[i] = c
    BY <1>1, <2>2, PushFacts
  <2>3. CASE Running /\ Pop /\ Top.fn # "close"
    <3>1. /\ stack' \in Seq(Calls) /\ Len(stack') <= Len(stack)
          /\ \A i \in DOMAIN stack' : i \in DOMAIN stack /\ stack'[i] = stack[i]
      BY <1>1, <2>3, PopFacts
    <3>2. Len(stack') <= MaxDepth
      <4>1. Len(stack') \in Nat /\ MaxDepth \in Nat
        BY <3>1, ConstantAssumption
      <4> QED BY <1>1, <3>1, <4>1
    <3> QED BY <2>0, <3>1, <3>2
  <2> QED BY <2>1, <2>2, <2>3 DEF QuietStack
<1>6. TInv'
  BY <1>3, <1>5 DEF Quiet, TInv, Rest, Full
<1>7. Pending'
  <2>1. \A j \in DOMAIN stack \cap DOMAIN stack' :
          stack'[j] = stack[j] =>
            /\ stack[j].fn \in {"set", "close"} => ~conn'[stack[j].d].connected
            /\ stack[j].fn = "login" => stack[j].who \notin frobbed'
    <3> SUFFICES ASSUME NEW j \in DOMAIN stack
                 PROVE  /\ stack[j].fn \in {"set", "close"} =>
                             ~conn'[stack[j].d].connected
                        /\ stack[j].fn = "login" => stack[j].who \notin frobbed'
      OBVIOUS
    <3>1. /\ stack[j].fn \in {"set", "close", "web"} => stack[j].d # NONE
          /\ stack[j].fn \in {"set", "close"} => ~conn[stack[j].d].connected
          /\ stack[j].fn = "login" => stack[j].who \in Players \ frobbed
      BY DEF Full, Pending
    <3>2. stack[j].d \in Descr \cup {NONE}
      <4>1. stack[j] \in Calls BY <1>1
      <4> QED BY <4>1 DEF Calls
    <3>3. frobbed' = frobbed BY DEF Quiet
    <3> QED BY <1>2, <3>1, <3>2, <3>3
  <2>2. Pending BY DEF Full
  <2> QED BY <1>5, <2>1, <2>2, PendingStep
<1>8. /\ \/ \A i \in DOMAIN stack : i \in DOMAIN stack' /\ stack'[i] = stack[i]
         \/ /\ Running /\ Pop /\ Top.fn # "close"
            /\ \A i \in DOMAIN stack :
                 \/ i \in DOMAIN stack' /\ stack'[i] = stack[i]
                 \/ stack[i].fn = Top.fn
  <2>1. CASE stack' = stack BY <2>1
  <2>2. ASSUME NEW call \in Calls, Push(call)
        PROVE  \A i \in DOMAIN stack : i \in DOMAIN stack' /\ stack'[i] = stack[i]
    BY <1>1, <2>2, PushFacts
  <2>3. CASE Running /\ Pop /\ Top.fn # "close"
    BY <1>1, <2>3, PopFacts
  <2> QED BY <2>1, <2>2, <2>3 DEF QuietStack
<1>9. Slotted'
  <2>1. \A d : Closing(d) => Closing(d)' BY <1>8, ClosingStays
  <2>2. Slotted /\ UNCHANGED <<list, lookup>> BY DEF Full, Quiet
  <2>3. NONE \notin Listed
    BY <1>1, ConstantAssumption DEF Descr
  <2> QED BY <1>1, <1>2, <2>1, <2>2, <2>3, SlottedStep
<1>10. \/ \A p : Logins(p) \subseteq Logins(p)'
       \/ Running /\ Pop /\ Top.fn = "login"
  BY <1>8 DEF Logins
<1> QED BY <1>4, <1>6, <1>7, <1>9, <1>10

\* The changes of one field that are made to a descriptor.
LEMMA KeepingFields ==
  ASSUME conn \in [Descr -> Conn]
  PROVE  /\ Keeps(conn)
         /\ \A d : Keeps([conn EXCEPT ![d].booted = 1])
         /\ \A d, n : Keeps([conn EXCEPT ![d].lines = n])
         /\ \A d, n : \A b \in {0, 1, 3} :
              (d \in Descr => (b # 0 \/ conn[d].booted = 0)) =>
                Keeps([[conn EXCEPT ![d].lines = n] EXCEPT ![d].booted = b])
<1>1. Keeps(conn) BY DEF Keeps, SameOwners
<1>2. ASSUME NEW d PROVE Keeps([conn EXCEPT ![d].booted = 1])
  BY DEF Keeps, SameOwners, Conn
<1>3. ASSUME NEW d, NEW n
      PROVE  Keeps([conn EXCEPT ![d].lines = n])
  BY DEF Keeps, SameOwners, Conn
<1>4. ASSUME NEW d, NEW n, NEW b \in {0, 1, 3},
             d \in Descr => (b # 0 \/ conn[d].booted = 0)
      PROVE  Keeps([[conn EXCEPT ![d].lines = n] EXCEPT ![d].booted = b])
  <2> DEFINE c == [conn EXCEPT ![d].lines = n]
             e == [c EXCEPT ![d].booted = b]
  <2>1. \A f \in Descr : /\ e[f].connected = conn[f].connected
                         /\ e[f].player = conn[f].player
                         /\ e[f].booted = IF f = d THEN b ELSE conn[f].booted
    <3> SUFFICES ASSUME NEW f \in Descr
                 PROVE  /\ e[f].connected = conn[f].connected
                        /\ e[f].player = conn[f].player
                        /\ e[f].booted = IF f = d THEN b ELSE conn[f].booted
      OBVIOUS
    <3>1. DOMAIN c = Descr /\ conn[f] \in Conn OBVIOUS
    <3>2. /\ c[f].connected = conn[f].connected /\ c[f].player = conn[f].player
          /\ c[f].booted = conn[f].booted
          /\ DOMAIN c[f] = {"connected", "player", "booted", "lines"}
      BY <3>1 DEF Conn
    <3> HIDE DEF c
    <3> QED BY <3>1, <3>2
  <2> HIDE DEF e
  <2>2. Keeps(e) BY <1>4, <2>1 DEF Keeps, SameOwners
  <2> QED BY <2>2 DEF e, c
<1> QED BY <1>1, <1>2, <1>3, <1>4

\* The steps of the main loop that close nothing, the lines that log nobody
\* in, what the network does to a connection that is there, and what programs
\* do to one without taking its player away.
QuietAction ==
  \/ Commands \/ NextCommand \/ CommandsDone \/ NextBoot \/ Select \/ Read
  \/ NextRead \/ ReadDone \/ Event
  \/ \E d \in Descr : \/ PlainLine(d) \/ PlayerLine(d) \/ HearLine(d) \/ Drop(d)
                      \/ Announce(d) \/ DescrBoot(d) \/ DescrForce(d)
  \/ \E i \in DOMAIN table : CountBoot(i)
  \/ \E p \in Players : BootOff(p) \/ KeepOne(p)
  \/ Return \/ LoginDone
  \/ SetUserDone /\ Top.who = NONE

LEMMA QuietActions ==
  ASSUME Full, QuietAction
  PROVE  Quiet /\ QuietStack
<1> DEFINE Loop == fresh' \subseteq Descr /\ quota' \subseteq Descr
                   /\ again' \in BOOLEAN
           Same == UNCHANGED <<list, lookup, table, descrs, frobbed>>
<1>1. /\ Listed \subseteq Descr /\ fresh \subseteq Descr /\ quota \subseteq Descr
      /\ again \in BOOLEAN /\ conn \in [Descr -> Conn]
      /\ Keeps(conn)
  BY KeepingFields
     DEF Full, IInv, ConnInv, TInv, Rest, ListInv, Listed, Range
<1>2. CASE Commands \/ NextCommand \/ CommandsDone \/ NextBoot \/ Select \/ Read
           \/ NextRead \/ ReadDone
  <2>1. Same /\ conn' = conn /\ stack' = stack
    BY <1>2 DEF Commands, NextCommand, CommandsDone, NextBoot, Select, Read,
                NextRead, ReadDone, tables
  <2>2. Loop
    BY <1>1, <1>2 DEF Commands, NextCommand, CommandsDone, NextBoot, Select,
                      Read, NextRead, ReadDone
  <2> QED BY <1>1, <2>1, <2>2 DEF Quiet, QuietStack
<1>3. CASE Event
  <2>1. Call("event", NONE, NONE) \in Calls
        /\ Call("event", NONE, NONE).fn = "event"
    BY DEF Call, Calls
  <2>2. Same /\ Loop /\ conn' = conn /\ Push(Call("event", NONE, NONE))
    BY <1>1, <1>3 DEF Event, tables, loop
  <2> QED BY <1>1, <2>1, <2>2 DEF Quiet, QuietStack
<1>4. ASSUME NEW d \in Descr,
             \/ PlainLine(d) \/ PlayerLine(d) \/ HearLine(d) \/ Drop(d)
             \/ Announce(d) \/ DescrBoot(d) \/ DescrForce(d)
      PROVE  Quiet /\ QuietStack
  <2> DEFINE n == conn[d].lines - 1
  <2>1. \A f \in {"command", "idle"} :
          Call(f, d, NONE) \in Calls /\ Call(f, d, NONE).fn = f
    BY DEF Call, Calls
  <2>2. CASE PlainLine(d)
    <3>1. PICK b \in {conn[d].booted, 1}
                 \cup (IF d \in Web /\ conn[d].booted = 0 THEN {3} ELSE {}) :
            conn' = [LineTaken(d) EXCEPT ![d].booted = b]
      BY <2>2 DEF PlainLine
    <3>2. conn[d] \in Conn BY <1>1
    <3>3. b \in {0, 1, 3} /\ (b # 0 \/ conn[d].booted = 0)
      BY <3>1, <3>2 DEF Conn
    <3>4. LineTaken(d) = [conn EXCEPT ![d].lines = n] BY DEF LineTaken
    <3> HIDE DEF n
    <3>5. Keeps(conn') BY <1>1, <3>1, <3>3, <3>4, KeepingFields
    <3>6. Same /\ Loop /\ stack' = stack
      BY <1>1, <2>2 DEF PlainLine, TakesLine
    <3> QED BY <3>5, <3>6 DEF Quiet, QuietStack
  <2>3. CASE PlayerLine(d)
    <3>1. conn' = [conn EXCEPT ![d].lines = n]
      BY <2>3 DEF PlayerLine, LineTaken
    <3> HIDE DEF n
    <3>2. Keeps(conn') BY <1>1, <3>1, KeepingFields
    <3>3. Same /\ Loop /\ Push(Call("command", d, NONE))
      BY <1>1, <2>3 DEF PlayerLine, TakesLine
    <3> QED BY <2>1, <3>2, <3>3 DEF Quiet, QuietStack
  <2>4. CASE HearLine(d) \/ DescrForce(d)
    <3>1. PICK k : conn' = [conn EXCEPT ![d].lines = k]
      BY <2>4 DEF HearLine, DescrForce
    <3>2. Keeps(conn') BY <1>1, <3>1, KeepingFields
    <3>3. Same /\ Loop /\ stack' = stack
      BY <1>1, <2>4 DEF HearLine, DescrForce, tables, loop
    <3> QED BY <3>2, <3>3 DEF Quiet, QuietStack
  <2>5. CASE Drop(d) \/ DescrBoot(d)
    <3>1. conn' = [conn EXCEPT ![d].booted = 1] BY <2>5 DEF Drop, DescrBoot
    <3>2. Keeps(conn') BY <1>1, <3>1, KeepingFields
    <3>3. Same /\ Loop /\ stack' = stack
      BY <1>1, <2>5 DEF Drop, DescrBoot, tables, loop
    <3> QED BY <3>2, <3>3 DEF Quiet, QuietStack
  <2>6. CASE Announce(d)
    <3>1. Same /\ Loop /\ conn' = conn /\ Push(Call("idle", d, NONE))
      BY <1>1, <2>6 DEF Announce, tables, loop
    <3> QED BY <1>1, <2>1, <3>1 DEF Quiet, QuietStack
  <2> QED BY <1>4, <2>2, <2>3, <2>4, <2>5, <2>6
<1>5. ASSUME NEW d, conn' = [conn EXCEPT ![d].booted = 1] PROVE Keeps(conn')
  BY <1>1, <1>5, KeepingFields
<1>6. ASSUME NEW i \in DOMAIN table, CountBoot(i) PROVE Quiet /\ QuietStack
  <2>1. conn' = [conn EXCEPT ![table[i]].booted = 1] BY <1>6 DEF CountBoot
  <2>2. Keeps(conn') BY <1>5, <2>1
  <2>3. Same /\ Loop /\ stack' = stack BY <1>1, <1>6 DEF CountBoot, tables, loop
  <2> QED BY <2>2, <2>3 DEF Quiet, QuietStack
<1>7. ASSUME NEW p \in Players, BootOff(p) \/ KeepOne(p)
      PROVE  Quiet /\ QuietStack
  <2>1. Keeps(conn')
    <3>1. CASE BootOff(p)
      <4>1. PICK i \in DOMAIN list : conn' = [conn EXCEPT ![list[i]].booted = 1]
        BY <3>1 DEF BootOff
      <4> QED BY <1>5, <4>1
    <3>2. CASE KeepOne(p)
      <4>1. PICK keep : conn' = [d \in Descr |->
                                   IF d \in Unbooted(p) \ {keep}
                                   THEN [conn[d] EXCEPT !.booted = 1]
                                   ELSE conn[d]]
        BY <3>2 DEF KeepOne
      <4>2. \A d \in Descr :
              /\ conn'[d].connected = conn[d].connected
              /\ conn'[d].player = conn[d].player
              /\ conn[d].booted # 0 => conn'[d].booted # 0
        BY <1>1, <4>1 DEF Conn
      <4> QED BY <4>2 DEF Keeps, SameOwners
    <3> QED BY <1>7, <3>1, <3>2
  <2>2. Same /\ Loop /\ stack' = stack
    BY <1>1, <1>7 DEF BootOff, KeepOne, tables, loop
  <2> QED BY <2>1, <2>2 DEF Quiet, QuietStack
<1>8. CASE Return \/ LoginDone \/ (SetUserDone /\ Top.who = NONE)
  <2>1. /\ Same /\ Loop /\ Running /\ Pop
        /\ Top.fn \in {"event", "command", "idle", "greet", "login", "set"}
    BY <1>1, <1>8 DEF Return, LoginDone, SetUserDone, tables, loop
  <2>2. Keeps(conn')
    <3>1. \/ conn' = conn
          \/ \E d \in Unbooted(Top.who) : conn' = [conn EXCEPT ![d].booted = 1]
      BY <1>8 DEF Return, LoginDone, SetUserDone
    <3> QED BY <1>1, <1>5, <3>1
  <2> QED BY <2>1, <2>2 DEF Quiet, QuietStack
<1> QED BY <1>2, <1>3, <1>4, <1>6, <1>7, <1>8 DEF QuietAction

-----------------------------------------------------------------------------
(* Steps that give and take connections. *)

\* A line makes a descriptor a player's: check_connect and httpd_get.
LEMMA GivingLine ==
  ASSUME Full, IInv', NEW d \in Descr, NEW p \in Players,
         NEW fn \in {"login", "web"}, fn = "web" => p = WwwUser,
         TakesLine(d), ~conn[d].connected, p \notin frobbed,
         Attach(d, p, LineTaken(d), descrs), Push(Call(fn, d, p))
  PROVE  TInv' /\ Pending' /\ Slotted' /\ LoginLimit'
<1> DEFINE c == LineTaken(d)
           k == Call(fn, d, p)
<1>1. /\ stack = <<>> /\ d \in Listed /\ Listed \subseteq Descr /\ d # NONE
      /\ UNCHANGED <<list, lookup, frobbed, fresh>>
      /\ quota' \subseteq Descr /\ again' \in BOOLEAN
  <2>1. d # NONE BY ConstantAssumption DEF Descr
  <2> QED BY <2>1 DEF TakesLine, InLoop, Full, IInv, LoopInv, ListInv, Listed,
                      Range, TInv, Rest
<1>2. Listed' = Listed BY <1>1 DEF Listed
<1>3. c \in [Descr -> Conn] /\ SameOwners(c)
  <2>1. conn[d].lines \in 1..MaxLines
    BY DEF TakesLine, Full, IInv, ConnInv, Conn
  <2>2. conn[d].lines - 1 \in 0..MaxLines
    BY <2>1, ConstantAssumption
  <2> QED BY <2>2 DEF LineTaken, Full, IInv, ConnInv, Conn, SameOwners
<1>4. \A e \in Descr : /\ conn'[e].connected = (conn[e].connected \/ e = d)
                       /\ conn'[e].player =
                            IF e = d THEN p ELSE conn[e].player
                       /\ conn'[e].booted = conn[e].booted
  <2>1. \A e \in Descr : c[e].booted = conn[e].booted
    BY DEF LineTaken, Full, IInv, ConnInv, Conn
  <2>2. conn' = [c EXCEPT ![d].connected = TRUE, ![d].player = p]
    BY DEF Attach
  <2> HIDE DEF c
  <2> QED BY ZenonT(30), <1>3, <2>1, <2>2 DEF SameOwners, Conn
<1>5. /\ k \in Calls /\ k.fn = fn /\ k.d = d /\ k.who = p
  BY DEF Call, Calls
<1>6. /\ Len(stack') <= MaxDepth /\ DOMAIN stack = {}
      /\ \A i \in DOMAIN stack' : i = Len(stack') /\ stack'[i] = k
      /\ Len(stack') \in DOMAIN stack'
  <2>1. stack \in Seq(Calls) BY DEF Full, IInv, StackInv
  <2>2. DOMAIN stack = {} BY <1>1
  <2>3. k \in Calls /\ Push(k) BY <1>5
  <2> HIDE DEF k
  <2>4. /\ Len(stack') <= MaxDepth /\ Len(stack') \in DOMAIN stack'
        /\ \A i \in DOMAIN stack' : \/ i \in DOMAIN stack
                                    \/ i = Len(stack') /\ stack'[i] = k
    BY <2>1, <2>3, PushFacts
  <2> QED BY <2>2, <2>4
<1> HIDE DEF c, k
<1>7. Owned' /\ Counted' /\ PlayerDescrs' /\ descrs' \in [Players -> Seq(Slots)]
  <2>1. Attach(d, p, c, descrs) BY DEF c
  <2> QED BY <1>1, <1>3, <2>1, AttachedTables DEF Full
<1>8. TInv'
  BY <1>1, <1>6, <1>7 DEF TInv, Rest, Full
<1>9. Pending'
  <2>1. Pending BY DEF Full
  <2>2. k.fn = "login" => k.who \in Players \ frobbed' BY <1>1, <1>5
  <2> QED BY <1>1, <1>5, <1>6, <2>1, <2>2, PendingStep
<1>10. Slotted'
  <2>1. \A e : Closing(e) => Closing(e)' BY <1>6 DEF Closing
  <2>2. NONE \notin Listed BY <1>1, ConstantAssumption DEF Descr
  <2>3. Slotted BY DEF Full
  <2> QED BY <1>1, <1>4, <2>1, <2>2, <2>3, SlottedStep
<1>11. \A q \in Players :
         Unbooted(q)' \subseteq Unbooted(q) \cup IF q = p THEN {d} ELSE {}
  BY <1>1, <1>2, <1>4 DEF Unbooted, ConnsOf
<1>12. \A q : Logins(q) = {} BY <1>6 DEF Logins
<1>13. LoginLimit'
  <2> SUFFICES ASSUME MaxLogins > 0, NEW q \in Limited PROVE Limit(q)'
    <3>1. LoginLimit' <=> (MaxLogins > 0 => \A q \in Limited : Limit(q)')
      BY DEF LoginLimit, Limited, Limit, Logins
    <3> QED BY <3>1
  <2>1. Limit(q) /\ IInv BY LimitAll DEF Full
  <2>2. q \in Players /\ q # WwwUser BY DEF Limited
  <2>3. CASE q # p
    <3>1. Unbooted(q)' \subseteq Unbooted(q) BY <1>11, <2>2, <2>3
    <3>2. Logins(q) \subseteq Logins(q)' BY <1>12
    <3> QED BY <2>1, <3>1, <3>2, LimitStep
  <2>4. CASE q = p
    <3>1. /\ IsFiniteSet(Unbooted(q)) /\ Cardinality(Unbooted(q)) \in Nat
          /\ MaxLogins \in Nat
      BY <2>1, FiniteParts, ConstantAssumption DEF Finite
    <3>2. /\ IsFiniteSet(Logins(q)') /\ Cardinality(Logins(q)') \in Nat
          /\ Cardinality(Unbooted(q)') \in Nat
      <4>1. IInv' => Finite' BY FiniteParts, PTL
      <4> QED BY <4>1 DEF Finite
    <3>3. Cardinality(Unbooted(q)) <= MaxLogins
      <4>1. Cardinality({}) = 0 BY FS_EmptySet
      <4>2. Cardinality(Logins(q)) = 0 BY <1>12, <4>1
      <4> QED BY <2>1, <3>1, <4>2 DEF Limit
    <3>4. Cardinality(Unbooted(q)') <= Cardinality(Unbooted(q)) + 1
      <4>1. /\ IsFiniteSet(Unbooted(q) \cup {d})
            /\ Cardinality(Unbooted(q) \cup {d}) =
                 IF d \in Unbooted(q) THEN Cardinality(Unbooted(q))
                 ELSE Cardinality(Unbooted(q)) + 1
        BY <3>1, FS_AddElement
      <4>2. Unbooted(q)' \in SUBSET (Unbooted(q) \cup {d})
        BY <1>11, <2>2, <2>4
      <4>3. Cardinality(Unbooted(q)') <= Cardinality(Unbooted(q) \cup {d})
        BY <4>1, <4>2, FS_Subset
      <4> QED BY <3>1, <3>2, <4>1, <4>3
    <3>5. Cardinality(Logins(q)') >= 1
      <4>1. fn = "login" BY <2>2, <2>4
      <4>2. Len(stack') \in Logins(q)' BY <1>5, <1>6, <2>4, <4>1 DEF Logins
      <4>3. Cardinality(Logins(q)') # 0
        BY <3>2, <4>2, FS_EmptySet
      <4> QED BY <3>2, <4>3
    <3> QED BY <3>1, <3>2, <3>3, <3>4, <3>5 DEF Limit
  <2> QED BY <2>3, <2>4
<1> QED BY <1>8, <1>9, <1>10, <1>13

\* A descriptor is taken from its player, and a call is made that will give
\* it to another one or close it, or the script it was given for has ended.
LEMMA TakingStep ==
  ASSUME Full, IInv', NEW c \in [Descr -> Conn], SameOwners(c), NEW x,
         \A e \in Descr : conn[e].booted # 0 /\ e # x => c[e].booted # 0,
         NEW d \in Descr, Detach(d, c),
         UNCHANGED <<list, lookup, frobbed, fresh, quota, again>>,
         \/ \E k \in Calls :
              /\ Push(k) /\ k.fn \in {"set", "close"} /\ k.d = d
              /\ conn[d].connected
              /\ k.fn = "set" => k.who \in MovedTo \cup {NONE} /\ x = NONE
              /\ k.fn = "close" => x = d
         \/ Running /\ Pop /\ Top.fn = "web" /\ x = NONE
  PROVE  TInv' /\ Pending' /\ Slotted' /\ LoginLimit'
<1>1. /\ stack \in Seq(Calls) /\ Len(stack) <= MaxDepth /\ Len(stack) \in Nat
      /\ Listed \subseteq Descr /\ Listed' = Listed /\ NONE \notin Listed
      /\ d # NONE
  <2>1. NONE \notin Descr BY ConstantAssumption DEF Descr
  <2> QED BY <2>1 DEF Full, IInv, StackInv, TInv, Rest, ListInv, Listed, Range
<1>2. \A e \in Descr : /\ conn'[e].connected = (conn[e].connected /\ e # d)
                       /\ conn'[e].player =
                            IF e = d THEN NONE ELSE conn[e].player
                       /\ conn'[e].booted = c[e].booted
  BY DEF Detach, SameOwners, Conn
<1>3. Owned' /\ Counted' /\ PlayerDescrs' /\ descrs' \in [Players -> Seq(Slots)]
  BY DetachedTables DEF Full
<1>4. \A p \in Limited : Unbooted(p)' \subseteq Unbooted(p)
  <2> SUFFICES ASSUME NEW p \in Limited, NEW e \in Unbooted(p)'
               PROVE  e \in Unbooted(p)
    OBVIOUS
  <2>1. e \in Listed /\ conn'[e].connected /\ conn'[e].player = p
        /\ conn'[e].booted = 0
    BY <1>1 DEF Unbooted, ConnsOf
  <2>2. e # d /\ e \in Descr /\ conn[e].connected /\ conn[e].player = p
    BY <1>1, <1>2, <2>1
  <2>3. conn[e].booted = 0
    <3>1. x \in {NONE, d}
      OBVIOUS
    <3>2. e # x BY <1>1, <2>1, <2>2, <3>1
    <3> QED BY <1>2, <2>1, <2>2, <3>2
  <2> QED BY <2>1, <2>2, <2>3 DEF Unbooted, ConnsOf
<1>5. /\ Len(stack') <= MaxDepth
      /\ \A i \in DOMAIN stack :
           \/ i \in DOMAIN stack' /\ stack'[i] = stack[i]
           \/ stack[i].fn = "web"
      /\ \E k : /\ \A i \in DOMAIN stack' :
                     \/ i \in DOMAIN stack /\ stack'[i] = stack[i]
                     \/ i = Len(stack') /\ stack'[i] = k
                /\ \/ k.fn \notin {"set", "close", "web", "login"}
                   \/ /\ k.fn \in {"set", "close"} /\ k.d = d
                      /\ conn[d].connected
                      /\ k.fn = "set" => k.who \in MovedTo \cup {NONE}
      /\ x \in Listed => Closing(x)'
  <2>1. CASE Running /\ Pop /\ Top.fn = "web" /\ x = NONE
    <3> DEFINE k == Call("event", NONE, NONE)
    <3>1. k.fn \notin {"set", "close", "web", "login"} BY DEF Call
    <3> HIDE DEF k
    <3>2. /\ stack' \in Seq(Calls) /\ Len(stack') <= Len(stack)
          /\ \A i \in DOMAIN stack' : i \in DOMAIN stack /\ stack'[i] = stack[i]
          /\ DOMAIN stack = DOMAIN stack' \cup {Len(stack)}
          /\ stack[Len(stack)] = Top
      BY <1>1, <2>1, PopFacts
    <3>3. Len(stack') <= MaxDepth
      <4>1. MaxDepth \in Nat BY ConstantAssumption
      <4>2. Len(stack') \in Nat BY <3>2, LenProperties
      <4>3. Len(stack') <= Len(stack) BY <3>2
      <4>4. Len(stack) <= MaxDepth /\ Len(stack) \in Nat BY <1>1
      <4> QED BY <4>1, <4>2, <4>3, <4>4
    <3> QED BY <1>1, <2>1, <3>1, <3>2, <3>3
  <2>2. ASSUME NEW k \in Calls,
               /\ Push(k) /\ k.fn \in {"set", "close"} /\ k.d = d
               /\ conn[d].connected
               /\ k.fn = "set" => k.who \in MovedTo \cup {NONE} /\ x = NONE
               /\ k.fn = "close" => x = d
        PROVE  <1>5!1 /\ <1>5!2 /\ <1>5!3 /\ <1>5!4
    <3>1. /\ Len(stack') <= MaxDepth
          /\ \A i \in DOMAIN stack :
               i \in DOMAIN stack' /\ stack'[i] = stack[i]
          /\ \A i \in DOMAIN stack' : \/ i \in DOMAIN stack
                                      \/ i = Len(stack') /\ stack'[i] = k
          /\ Len(stack') \in DOMAIN stack' /\ stack'[Len(stack')] = k
      BY <1>1, <2>2, PushFacts
    <3>2. x \in Listed => Closing(x)' BY <1>1, <2>2, <3>1 DEF Closing
    <3> QED BY <2>2, <3>1, <3>2
  <2> QED BY <2>1, <2>2
<1>6. TInv' BY <1>3, <1>5 DEF TInv, Rest, Full
<1>7. Pending'
  <2>1. PICK k :
          /\ \A i \in DOMAIN stack' :
               \/ i \in DOMAIN stack /\ stack'[i] = stack[i]
               \/ i = Len(stack') /\ stack'[i] = k
          /\ \/ k.fn \notin {"set", "close", "web", "login"}
             \/ /\ k.fn \in {"set", "close"} /\ k.d = d
                /\ conn[d].connected
                /\ k.fn = "set" => k.who \in MovedTo \cup {NONE}
    BY <1>5
  <2>2. \A j \in DOMAIN stack \cap DOMAIN stack' :
          stack'[j] = stack[j] =>
            /\ stack[j].fn \in {"set", "close"} => ~conn'[stack[j].d].connected
            /\ stack[j].fn = "login" => stack[j].who \notin frobbed'
    <3> SUFFICES ASSUME NEW j \in DOMAIN stack
                 PROVE  /\ stack[j].fn \in {"set", "close"} =>
                             ~conn'[stack[j].d].connected
                        /\ stack[j].fn = "login" => stack[j].who \notin frobbed'
      OBVIOUS
    <3>1. /\ stack[j].fn \in {"set", "close", "web"} => stack[j].d # NONE
          /\ stack[j].fn \in {"set", "close"} => ~conn[stack[j].d].connected
          /\ stack[j].fn = "login" => stack[j].who \in Players \ frobbed
      BY DEF Full, Pending
    <3>2. stack[j].d \in Descr \cup {NONE}
      <4>1. stack[j] \in Calls BY <1>1
      <4> QED BY <4>1 DEF Calls
    <3> QED BY <1>2, <3>1, <3>2
  <2>3. ~conn'[d].connected BY <1>2
  <2>4. Pending BY DEF Full
  <2>5. /\ k.fn \in {"set", "close", "web"} => k.d # NONE
        /\ k.fn \in {"set", "close"} =>
             conn[k.d].connected /\ ~conn'[k.d].connected
        /\ k.fn = "set" => k.who \in MovedTo \cup {NONE}
        /\ k.fn = "login" => k.who \in Players \ frobbed'
    BY <1>1, <2>1, <2>3
  <2> QED BY <2>1, <2>2, <2>4, <2>5, PendingStep
<1>8. Slotted'
  <2>1. \A e : Closing(e) => Closing(e)' BY <1>5 DEF Closing
  <2>2. Slotted BY DEF Full
  <2>3. \A e \in Listed : conn[e].booted # 0 /\ e # x => conn'[e].booted # 0
    BY <1>1, <1>2
  <2>4. x \in Listed => Closing(x)' BY <1>5
  <2> QED BY <2>1, <2>2, <2>3, <2>4, SlottedStep
<1>9. \A p : Logins(p) \subseteq Logins(p)'
  <2>1. \A i \in DOMAIN stack : \/ i \in DOMAIN stack' /\ stack'[i] = stack[i]
                                \/ stack[i].fn = "web"
    BY <1>5
  <2> QED BY <2>1 DEF Logins
<1>10. LoginLimit' BY <1>4, <1>9, LimitSteps DEF Full
<1> QED BY <1>6, <1>7, <1>8, <1>10

\* dset_user goes on after announce_disconnect, and gives the descriptor.
LEMMA GivenStep ==
  ASSUME Full, IInv', SetUserDone, Top.who # NONE
  PROVE  TInv' /\ Pending' /\ Slotted' /\ LoginLimit'
<1> DEFINE d == Top.d
           p == Top.who
           k == Call("greet", d, p)
           n == Len(stack)
<1>1. /\ Attach(d, p, conn, descrs) /\ stack' = Front(stack) \o <<k>>
      /\ UNCHANGED <<list, lookup, frobbed, fresh, quota, again>>
      /\ Running /\ Top.fn = "set"
  BY DEF SetUserDone, loop
<1>2. /\ stack \in Seq(Calls) /\ n <= MaxDepth /\ n \in Nat
      /\ Listed \subseteq Descr /\ Listed' = Listed /\ NONE \notin Listed
      /\ conn \in [Descr -> Conn]
  <2>1. NONE \notin Descr BY ConstantAssumption DEF Descr
  <2> QED BY <1>1, <2>1 DEF Full, IInv, StackInv, TInv, Rest, ListInv, ConnInv,
                            Listed, Range
<1>3. n \in DOMAIN stack /\ stack[n] = Top
  BY <1>1, <1>2 DEF Running, Top, Last
<1>4. /\ d # NONE /\ ~conn[d].connected /\ p \in MovedTo
      /\ d \in Listed /\ d \in Descr /\ p \in Players
      /\ \A j \in DOMAIN stack :
           stack[j].fn \in {"set", "close"} /\ stack[j].d = d => j = n
  <2>1. /\ d # NONE /\ ~conn[d].connected /\ p \in MovedTo \cup {NONE}
        /\ \A j \in DOMAIN stack :
             stack[j].fn \in {"set", "close"} /\ stack[j].d = d => j = n
    BY <1>1, <1>3 DEF Full, Pending
  <2>2. d \in Listed \cup {NONE} BY <1>1, TopCall DEF Full, IInv
  <2>3. MovedTo \subseteq Players BY ConstantAssumption
  <2> QED BY <1>2, <2>1, <2>2, <2>3
<1>5. /\ k \in Calls /\ k.fn = "greet"
  BY <1>4 DEF Call, Calls
<1> HIDE DEF d, p, k, n
<1>6. /\ stack' \in Seq(Calls) /\ Len(stack') = n /\ stack'[n] = k
      /\ DOMAIN stack' = DOMAIN stack
      /\ \A i \in DOMAIN stack : i # n => stack'[i] = stack[i]
  <2> DEFINE f == Front(stack)
  <2>1. /\ f \in Seq(Calls) /\ Len(f) = n - 1
        /\ \A i \in DOMAIN f : f[i] = stack[i]
    BY <1>1, <1>2, FrontCalls DEF Running, n
  <2>2. stack' = f \o <<k>> BY <1>1
  <2> HIDE DEF f
  <2>3. /\ stack' \in Seq(Calls) /\ Len(stack') = Len(f) + 1
        /\ \A i \in DOMAIN f : stack'[i] = f[i]
        /\ stack'[Len(f) + 1] = k
    BY <1>5, <2>1, <2>2
  <2>4. DOMAIN f = 1..(n - 1) /\ DOMAIN stack = 1..n /\ DOMAIN stack' = 1..n
    BY <1>2, <2>1, <2>3 DEF n
  <2> QED BY <1>2, <2>1, <2>3, <2>4
<1>7. \A e \in Descr : /\ conn'[e].connected = (conn[e].connected \/ e = d)
                       /\ conn'[e].player =
                            IF e = d THEN p ELSE conn[e].player
                       /\ conn'[e].booted = conn[e].booted
  BY <1>1, <1>2 DEF Attach, Conn
<1>8. Owned' /\ Counted' /\ PlayerDescrs' /\ descrs' \in [Players -> Seq(Slots)]
  <2>1. SameOwners(conn) BY DEF SameOwners
  <2>2. IInv /\ TInv BY DEF Full
  <2> QED BY <1>1, <1>2, <1>4, <2>1, <2>2, AttachedTables
<1>9. TInv' BY <1>1, <1>2, <1>6, <1>8 DEF TInv, Rest, Full
<1>10. Pending'
  <2>1. \A j \in DOMAIN stack \cap DOMAIN stack' :
          stack'[j] = stack[j] =>
            /\ stack[j].fn \in {"set", "close"} => ~conn'[stack[j].d].connected
            /\ stack[j].fn = "login" => stack[j].who \notin frobbed'
    <3> SUFFICES ASSUME NEW j \in DOMAIN stack, stack'[j] = stack[j]
                 PROVE  /\ stack[j].fn \in {"set", "close"} =>
                             ~conn'[stack[j].d].connected
                        /\ stack[j].fn = "login" => stack[j].who \notin frobbed'
      OBVIOUS
    <3>1. /\ stack[j].fn \in {"set", "close", "web"} => stack[j].d # NONE
          /\ stack[j].fn \in {"set", "close"} => ~conn[stack[j].d].connected
          /\ stack[j].fn = "login" => stack[j].who \in Players \ frobbed
      BY DEF Full, Pending
    <3>2. stack[j].d \in Descr \cup {NONE}
      <4>1. stack[j] \in Calls BY <1>2
      <4> QED BY <4>1 DEF Calls
    <3>3. stack[j].fn \in {"set", "close"} => stack[j].d # d
      <4>1. j = n => stack[j].fn = "greet" BY <1>5, <1>6
      <4> QED BY <1>4, <4>1
    <3> QED BY <1>1, <1>7, <3>1, <3>2, <3>3
  <2>2. Pending BY DEF Full
  <2>3. \A j \in DOMAIN stack' : \/ j \in DOMAIN stack /\ stack'[j] = stack[j]
                                 \/ j = Len(stack') /\ stack'[j] = k
    BY <1>6
  <2> QED BY <1>5, <2>1, <2>2, <2>3, PendingStep
<1>11. /\ \A e : Closing(e) => Closing(e)'
       /\ \A q : Logins(q) \subseteq Logins(q)'
  <2>1. \A i \in DOMAIN stack : \/ i \in DOMAIN stack' /\ stack'[i] = stack[i]
                                \/ stack[i].fn = "set"
    BY <1>1, <1>3, <1>6
  <2> QED BY <2>1 DEF Closing, Logins
<1>12. Slotted'
  <2>1. Slotted BY DEF Full
  <2> QED BY <1>1, <1>2, <1>7, <1>11, <2>1, SlottedStep
<1>13. \A q \in Limited : Unbooted(q)' \subseteq Unbooted(q)
  <2> SUFFICES ASSUME NEW q \in Limited, NEW e \in Unbooted(q)'
               PROVE  e \in Unbooted(q)
    OBVIOUS
  <2>1. p \notin Limited BY <1>4 DEF Limited
  <2>2. e \in Listed /\ conn'[e].connected /\ conn'[e].player = q
        /\ conn'[e].booted = 0
    BY <1>2 DEF Unbooted, ConnsOf
  <2>3. e \in Descr /\ e # d BY <1>2, <1>7, <2>1, <2>2
  <2>4. conn[e].connected /\ conn[e].player = q /\ conn[e].booted = 0
    BY <1>7, <2>2, <2>3
  <2> QED BY <2>2, <2>4 DEF Unbooted, ConnsOf
<1>14. LoginLimit' BY <1>11, <1>13, LimitSteps DEF Full
<1> QED BY <1>9, <1>10, <1>12, <1>14

\* A step taken while no call is in progress, after which none is, and which
\* adds or frees one descriptor.
LEMMA ListStep ==
  ASSUME Full, IInv', Owned', Counted', PlayerDescrs', NEW d \in Descr,
         descrs' \in [Players -> Seq(Slots)], frobbed' = frobbed,
         fresh' \subseteq Descr, UNCHANGED <<quota, again>>,
         stack' = <<>>,
         \A i \in DOMAIN stack : stack[i].fn = "close" /\ stack[i].d = d,
         Listed' \subseteq Listed \cup {d},
         \A e \in Descr \ {d} :
           /\ SlotOf(e)' = SlotOf(e)
           /\ conn'[e].connected = conn[e].connected
           /\ conn'[e].player = conn[e].player
           /\ conn[e].booted # 0 => conn'[e].booted # 0,
         ~conn'[d].connected,
         d \in Listed' /\ SlotOf(d)' = 0 => conn'[d].booted # 0
  PROVE  TInv' /\ Pending' /\ Slotted' /\ LoginLimit'
<1>1. Listed \subseteq Descr /\ Listed' \subseteq Descr
  BY DEF Full, IInv, ListInv, Listed, Range
<1>2. DOMAIN stack' = {} /\ Len(stack') <= MaxDepth
  <2>1. MaxDepth \in Nat BY ConstantAssumption
  <2>2. DOMAIN stack' = {} OBVIOUS
  <2>3. Len(stack') = 0 BY EmptySeq
  <2> QED BY <2>1, <2>2, <2>3
<1>3. TInv' BY <1>2 DEF TInv, Rest, Full
<1>4. Pending' BY <1>2 DEF Pending
<1>5. Slotted'
  <2>1. \A e \in Listed : SlotOf(e) = 0 => conn[e].booted # 0 \/ Closing(e)
    BY DEF Full, Slotted
  <2>2. \A e : Closing(e) => e = d BY DEF Closing
  <2> QED BY <1>1, <2>1, <2>2 DEF Slotted
<1>6. LoginLimit'
  <2>1. \A q : Unbooted(q)' \subseteq Unbooted(q)
    BY <1>1 DEF Unbooted, ConnsOf
  <2>2. \A q : Logins(q) \subseteq Logins(q)' BY DEF Logins
  <2> QED BY <2>1, <2>2, LimitSteps DEF Full
<1> QED BY <1>3, <1>4, <1>5, <1>6

\* A descriptor that is put in the list, or taken out of it.
LEMMA ListSteps ==
  ASSUME Full, IInv', NEW d \in Descr,
         \/ Accept(d)
         \/ Close(d) /\ ~(conn[d].connected /\ d \in Telnet)
         \/ CloseDone /\ Top.d = d
  PROVE  TInv' /\ Pending' /\ Slotted' /\ LoginLimit'
<1>1. /\ stack \in Seq(Calls) /\ Listed \subseteq Descr /\ fresh \subseteq Descr
      /\ conn \in [Descr -> Conn] /\ IInv /\ TInv
      /\ descrs \in [Players -> Seq(Slots)]
  BY DEF Full, IInv, StackInv, ConnInv, ListInv, Listed, Range, TInv, Rest
<1>2. CASE Accept(d)
  <2>1. /\ stack = <<>> /\ stack' = <<>> /\ d \notin Listed
        /\ UNCHANGED <<quota, again, frobbed, descrs>>
        /\ fresh' = fresh \cup {d}
    BY <1>2 DEF Accept, InLoop, loop
  <2>2. /\ Owned' /\ Counted' /\ PlayerDescrs'
        /\ SameOwners(conn') /\ Listed' = Listed \cup {d}
        /\ \A e \in Descr \ {d} :
             /\ SlotOf(e)' = SlotOf(e)
             /\ conn[e].booted # 0 => conn'[e].booted # 0
        /\ SlotOf(d)' = 0 => conn'[d].booted # 0
    BY <1>1, <1>2, AddedTables
  <2>3. ~conn'[d].connected
    BY <1>1, <2>1, <2>2 DEF SameOwners, TInv, Owned
  <2>4. fresh' \subseteq Descr /\ descrs' \in [Players -> Seq(Slots)]
    BY <1>1, <2>1
  <2>5. \A i \in DOMAIN stack : stack[i].fn = "close" /\ stack[i].d = d
    BY <2>1
  <2>6. /\ Listed' \subseteq Listed \cup {d}
        /\ \A e \in Descr \ {d} :
             /\ SlotOf(e)' = SlotOf(e)
             /\ conn'[e].connected = conn[e].connected
             /\ conn'[e].player = conn[e].player
             /\ conn[e].booted # 0 => conn'[e].booted # 0
        /\ frobbed' = frobbed
    BY <2>1, <2>2 DEF SameOwners
  <2> QED BY <2>1, <2>2, <2>3, <2>4, <2>5, <2>6, ListStep
<1>3. CASE \/ Close(d) /\ ~(conn[d].connected /\ d \in Telnet)
           \/ CloseDone /\ Top.d = d
  <2>1. /\ Freed(d) /\ d \in Listed /\ stack' = <<>>
        /\ UNCHANGED <<quota, again, frobbed, fresh>>
        /\ \A i \in DOMAIN stack : stack[i].fn = "close" /\ stack[i].d = d
    <3>1. NONE \notin Descr BY ConstantAssumption DEF Descr
    <3>2. CASE Close(d) /\ ~(conn[d].connected /\ d \in Telnet)
      <4>1. /\ Freed(d) /\ stack = <<>> /\ stack' = stack /\ at = d
            /\ UNCHANGED <<quota, again, frobbed, fresh>>
        BY <3>2 DEF Close, InLoop
      <4>2. d \in Listed BY <1>1, <3>1, <4>1 DEF IInv, LoopInv
      <4> QED BY <4>1, <4>2
    <3>3. CASE CloseDone /\ Top.d = d
      <4>1. /\ Freed(d) /\ Running /\ Pop /\ Top.fn = "close" /\ Top.d = d
            /\ UNCHANGED <<quota, again, frobbed, fresh>>
        BY <3>3 DEF CloseDone
      <4>2. d \in Listed
        <5>1. d \in Listed \cup {NONE} BY <1>1, <4>1, TopCall DEF IInv
        <5> QED BY <3>1, <5>1
      <4>3. Len(stack) \in DOMAIN stack /\ stack[Len(stack)] = Top
        BY <1>1, <4>1 DEF Running, Top, Last
      <4>4. Len(stack) = 1
        BY <1>1, <4>1, <4>3 DEF IInv, StackInv
      <4>5. DOMAIN stack = {1} BY <1>1, <4>4
      <4>6. stack' = <<>>
        <5>1. stack' \in Seq(Calls) /\ Len(stack') = 0
          BY <1>1, <4>1, <4>4, FrontCalls DEF Pop, Running
        <5> QED BY <5>1
      <4> QED BY <4>1, <4>2, <4>3, <4>4, <4>5, <4>6
    <3> QED BY <1>3, <3>2, <3>3
  <2>2. /\ Owned' /\ Counted' /\ PlayerDescrs'
        /\ descrs' \in [Players -> Seq(Slots)]
        /\ Listed' = Listed \ {d}
        /\ \A e \in Descr \ {d} : SlotOf(e)' = SlotOf(e)
    BY <1>1, <2>1, GoneTables
  <2>3. /\ ~conn'[d].connected
        /\ \A e \in Descr \ {d} : conn'[e] = conn[e]
    BY <1>1, <2>1 DEF Freed, Closed
  <2>4. fresh' \subseteq Descr BY <1>1, <2>1
  <2>5. /\ Listed' \subseteq Listed \cup {d} /\ d \notin Listed'
        /\ \A e \in Descr \ {d} :
             /\ SlotOf(e)' = SlotOf(e)
             /\ conn'[e].connected = conn[e].connected
             /\ conn'[e].player = conn[e].player
             /\ conn[e].booted # 0 => conn'[e].booted # 0
        /\ frobbed' = frobbed /\ UNCHANGED <<quota, again>>
    BY <2>1, <2>2, <2>3
  <2> QED BY <2>1, <2>2, <2>3, <2>4, <2>5, ListStep
<1> QED BY <1>2, <1>3

\* A player becomes a thing.
LEMMA FrobStep ==
  ASSUME Full, IInv', NEW p \in Players, Frob(p)
  PROVE  TInv' /\ Pending' /\ Slotted' /\ LoginLimit'
<1>1. /\ stack \in Seq(Calls) /\ Len(stack) <= MaxDepth /\ fresh \subseteq Descr
      /\ quota \subseteq Descr /\ again \in BOOLEAN /\ frobbed \subseteq Players
      /\ Listed \subseteq Descr /\ NONE \notin Listed
  <2>1. NONE \notin Descr BY ConstantAssumption DEF Descr
  <2> QED BY <2>1 DEF Full, IInv, StackInv, TInv, Rest, ListInv, Listed, Range
<1>2. /\ frobbed' = frobbed \cup {p} /\ stack' = stack /\ ~InUse(p)
      /\ UNCHANGED <<list, lookup, fresh, quota, again>>
  BY DEF Frob, loop
<1>3. /\ Owned' /\ Counted' /\ PlayerDescrs'
      /\ descrs' \in [Players -> Seq(Slots)]
      /\ \A e \in Descr :
           /\ conn'[e].connected => conn[e].connected
           /\ \/ conn'[e].player = conn[e].player
              \/ conn'[e].player = NONE /\ conn'[e].booted # 0
           /\ conn[e].booted # 0 => conn'[e].booted # 0
           /\ conn'[e].booted = 0 => conn[e].booted = 0
  BY FrobTables DEF Full
<1>4. TInv' BY <1>1, <1>2, <1>3 DEF TInv, Rest
<1>5. Pending'
  <2> DEFINE k == Call("event", NONE, NONE)
  <2>1. k.fn \notin {"set", "close", "web", "login"} BY DEF Call
  <2> HIDE DEF k
  <2>2. ASSUME NEW j \in DOMAIN stack
        PROVE  /\ stack[j].fn \in {"set", "close"} =>
                    ~conn'[stack[j].d].connected
               /\ stack[j].fn = "login" => stack[j].who \notin frobbed'
    <3>1. /\ stack[j].fn \in {"set", "close", "web"} => stack[j].d # NONE
          /\ stack[j].fn \in {"set", "close"} => ~conn[stack[j].d].connected
          /\ stack[j].fn = "login" => stack[j].who \in Players \ frobbed
      BY DEF Full, Pending
    <3>2. stack[j].d \in Descr \cup {NONE}
      <4>1. stack[j] \in Calls BY <1>1
      <4> QED BY <4>1 DEF Calls
    <3>3. stack[j].who # p BY <1>2 DEF InUse
    <3> QED BY <1>2, <1>3, <3>1, <3>2, <3>3
  <2>3. Pending BY DEF Full
  <2>4. \A j \in DOMAIN stack' : j \in DOMAIN stack /\ stack'[j] = stack[j]
    BY <1>2
  <2> QED BY <2>1, <2>2, <2>3, <2>4, PendingStep
<1>6. \A e : Closing(e) => Closing(e)' BY <1>2 DEF Closing
<1>7. Slotted'
  <2>1. Slotted BY DEF Full
  <2>2. \A e \in Listed : conn[e].booted # 0 /\ e # NONE => conn'[e].booted # 0
    BY <1>1, <1>3
  <2> QED BY <1>1, <1>2, <1>6, <2>1, <2>2, SlottedStep
<1>8. \A q \in Limited : Unbooted(q)' \subseteq Unbooted(q)
  <2> SUFFICES ASSUME NEW q \in Limited, NEW e \in Unbooted(q)'
               PROVE  e \in Unbooted(q)
    OBVIOUS
  <2>1. Listed' = Listed BY <1>2 DEF Listed
  <2>2. e \in Listed /\ conn'[e].connected /\ conn'[e].player = q
        /\ conn'[e].booted = 0
    BY <2>1 DEF Unbooted, ConnsOf
  <2>3. e \in Descr BY <1>1, <2>2
  <2>4. conn[e].connected /\ conn[e].player = q /\ conn[e].booted = 0
    BY <1>3, <2>2, <2>3
  <2> QED BY <2>2, <2>4 DEF Unbooted, ConnsOf
<1>9. LoginLimit'
  <2>1. \A q : Logins(q) \subseteq Logins(q)' BY <1>2 DEF Logins
  <2> QED BY <1>8, <2>1, LimitSteps DEF Full
<1> QED BY <1>4, <1>5, <1>7, <1>9

\* check_connect goes on after announce_connect: boot_idlest has made room
\* for the login that does not count any more.
LEMMA LoggedIn ==
  ASSUME Full, IInv', LoginDone
  PROVE  LoginLimit'
<1> DEFINE p == Top.who
           n == Len(stack)
<1>1. /\ Full /\ stack \in Seq(Calls) /\ n \in Nat /\ IInv /\ TInv
      /\ Running /\ Top.fn = "login" /\ Pop
      /\ Listed \subseteq Descr /\ Listed' = Listed
      /\ conn \in [Descr -> Conn] /\ UNCHANGED <<descrs, list>>
  BY DEF Full, IInv, StackInv, ConnInv, ListInv, Listed, Range, LoginDone, tables
<1>2. /\ DOMAIN stack = DOMAIN stack' \cup {n} /\ n \notin DOMAIN stack'
      /\ \A i \in DOMAIN stack' : stack'[i] = stack[i]
      /\ stack[n] = Top
  BY <1>1, PopFacts
<1>3. p \in Players \ frobbed BY <1>1, <1>2 DEF Full, Pending
<1>4. QuietAction BY DEF QuietAction
<1>5. Quiet /\ QuietStack BY <1>1, <1>4, QuietActions
<1>6. \A q : Unbooted(q)' \subseteq Unbooted(q) BY <1>1, <1>5, QuietStep
<1> SUFFICES ASSUME MaxLogins > 0, NEW q \in Limited PROVE Limit(q)'
  <2>1. LoginLimit' <=> (MaxLogins > 0 => \A q \in Limited : Limit(q)')
    BY DEF LoginLimit, Limited, Limit, Logins
  <2> QED BY <2>1
<1>7. Limit(q) BY LimitAll DEF Full
<1>8. CASE q # p
  <2>1. Logins(q) \subseteq Logins(q)' BY <1>2, <1>8 DEF Logins
  <2> QED BY <1>1, <1>6, <1>7, <2>1, LimitStep
<1>9. CASE q = p
  <2> HIDE DEF n
  <2>1. /\ IsFiniteSet(Unbooted(q)) /\ Cardinality(Unbooted(q)) \in Nat
        /\ IsFiniteSet(Logins(q)) /\ Cardinality(Logins(q)) \in Nat
        /\ MaxLogins \in Nat
    BY <1>1, FiniteParts, ConstantAssumption DEF Finite
  <2>2. Cardinality(Unbooted(q)') \in Nat /\ Cardinality(Logins(q)') \in Nat
    <3>1. IInv' => Finite' BY FiniteParts, PTL
    <3> QED BY <3>1 DEF Finite
  <2>3. Cardinality(Logins(q)') = Cardinality(Logins(q)) - 1
    <3>1. n \in Logins(q) BY <1>1, <1>2, <1>9 DEF Logins
    <3>2. Logins(q)' = Logins(q) \ {n} BY <1>2 DEF Logins
    <3> QED BY <2>1, <3>1, <3>2, FS_RemoveElement
  <2>4. CASE Extra(p) /\ Cardinality(Unbooted(p)) > 1
    <3>1. PICK d \in Unbooted(p) : conn' = [conn EXCEPT ![d].booted = 1]
      BY <2>4 DEF LoginDone
    <3>2. d \in Descr BY <1>1 DEF Unbooted, ConnsOf
    <3>3. conn'[d].booted = 1 BY <1>1, <3>1, <3>2 DEF Conn
    <3>4. d \notin Unbooted(q)' BY <3>3 DEF Unbooted
    <3>5. Unbooted(q)' \in SUBSET (Unbooted(q) \ {d}) BY <1>6, <3>4
    <3>6. /\ IsFiniteSet(Unbooted(q) \ {d})
          /\ Cardinality(Unbooted(q) \ {d}) = Cardinality(Unbooted(q)) - 1
      BY <1>9, <2>1, <3>1, FS_RemoveElement
    <3>7. Cardinality(Unbooted(q)') <= Cardinality(Unbooted(q)) - 1
      <4>1. Cardinality(Unbooted(q)') <= Cardinality(Unbooted(q) \ {d})
        BY <3>5, <3>6, FS_Subset
      <4> QED BY <3>6, <4>1
    <3> QED BY <1>7, <2>1, <2>2, <2>3, <3>7 DEF Limit
  <2>5. Cardinality(Unbooted(q)') <= Cardinality(Unbooted(q))
    BY <1>6, <2>1, FS_Subset
  <2>6. CASE Cardinality(Unbooted(q)) <= MaxLogins
    BY <2>1, <2>2, <2>5, <2>6 DEF Limit
  <2>7. CASE Extra(p) /\ ~(Cardinality(Unbooted(p)) > 1)
    <3>1. Cardinality(Unbooted(q)) <= MaxLogins BY <1>9, <2>1, <2>7
    <3> QED BY <2>6, <3>1
  <2>8. CASE ~Extra(p)
    <3> DEFINE a == descrs[p]
               h == [d \in Unbooted(p) |-> CHOOSE i \in DOMAIN a :
                                             a[i] = SlotOf(d)]
    <3>1. a \in Seq(Slots) /\ Range(a) = {SlotOf(d) : d \in ConnsOf(p)} \ {0}
      BY <1>1, <1>3 DEF TInv, Rest, PlayerDescrs
    <3>2. Len(a) <= MaxLogins /\ Len(a) \in Nat /\ DOMAIN a = 1..Len(a)
      <4>1. Len(a) \in Nat /\ DOMAIN a = 1..Len(a) BY <3>1
      <4> QED BY <2>1, <2>8, <4>1 DEF Extra
    <3>3. \A d \in Unbooted(p) :
            d \in Descr /\ d \in ConnsOf(p) /\ SlotOf(d) # 0
      <4> SUFFICES ASSUME NEW d \in Unbooted(p)
                   PROVE  d \in Descr /\ d \in ConnsOf(p) /\ SlotOf(d) # 0
        OBVIOUS
      <4>1. /\ d \in Listed /\ d \in Descr /\ d \in ConnsOf(p)
            /\ conn[d].connected /\ conn[d].booted = 0
        BY <1>1 DEF Unbooted, ConnsOf
      <4>2. ~Closing(d) BY <4>1 DEF Closing, Full, Pending
      <4> QED BY <4>1, <4>2 DEF Full, Slotted
    <3>4. \A d \in Unbooted(p) : h[d] \in DOMAIN a /\ a[h[d]] = SlotOf(d)
      <4> SUFFICES ASSUME NEW d \in Unbooted(p)
                   PROVE  h[d] \in DOMAIN a /\ a[h[d]] = SlotOf(d)
        OBVIOUS
      <4>1. SlotOf(d) \in Range(a) BY <3>1, <3>3
      <4>2. \E i \in DOMAIN a : a[i] = SlotOf(d) BY <4>1 DEF Range
      <4> HIDE DEF a
      <4> QED BY <4>2
    <3>5. h \in [Unbooted(p) -> DOMAIN a] BY <3>4
    <3>6. \A d, e \in Unbooted(p) : h[d] = h[e] => d = e
      <4> SUFFICES ASSUME NEW d \in Unbooted(p), NEW e \in Unbooted(p),
                          h[d] = h[e]
                   PROVE  d = e
        OBVIOUS
      <4> HIDE DEF h, a
      <4>1. SlotOf(d) = SlotOf(e) /\ SlotOf(d) # 0 /\ d \in Descr /\ e \in Descr
        BY <3>3, <3>4
      <4>2. LookupInv BY <1>1 DEF IInv
      <4>3. SlotOf(d) \in Slots
        <5>1. SlotOf(d) \in Slots \cup {0} BY <4>1, <4>2, SlotOfs
        <5> QED BY <4>1, <5>1
      <4>4. lookup[SlotOf(d)] = d BY <4>1, <4>2, <4>3, SlotOfs
      <4>5. lookup[SlotOf(d)] = e BY <4>1, <4>2, <4>3, SlotOfs
      <4> QED BY <4>4, <4>5
    <3> HIDE DEF h, a
    <3>7. h \in Injection(Unbooted(p), DOMAIN a)
      BY <3>5, <3>6 DEF Injection, IsInjective
    <3>8. \A m \in Nat : IsFiniteSet(1..m) /\ Cardinality(1..m) = m
      BY FS_Interval
    <3>9. IsFiniteSet(DOMAIN a) /\ Cardinality(DOMAIN a) = Len(a)
      BY <3>2, <3>8
    <3>10. Cardinality(Unbooted(p)) <= Cardinality(DOMAIN a)
      BY <3>7, <3>9, FS_Injection
    <3>11. Cardinality(Unbooted(q)) <= MaxLogins
      BY <1>9, <2>1, <3>2, <3>9, <3>10
    <3> QED BY <2>6, <3>11
  <2> QED BY <2>4, <2>7, <2>8
<1> QED BY <1>8, <1>9

-----------------------------------------------------------------------------
(* The theorems. *)

\* The tables are right when the server starts: they are empty.
LEMMA InitFull == Init => Full
<1> SUFFICES ASSUME Init PROVE Full
  OBVIOUS
<1>1. IInv BY InitIInv
<1>2. /\ list = <<>> /\ table = <<>> /\ stack = <<>> /\ DOMAIN stack = {}
      /\ Listed = {} /\ \A e \in Descr : conn[e] = Closed
      /\ \A e \in Descr : ~conn[e].connected /\ conn[e].player = NONE
  BY DEF Init, Listed, Range, Closed
<1>3. Rest
  <2>1. <<>> \in Seq(Slots) BY EmptySeq
  <2>2. MaxDepth \in Nat /\ 0 <= MaxDepth BY ConstantAssumption
  <2>3. Len(stack) = 0 BY <1>2
  <2> QED BY <2>1, <2>2, <2>3 DEF Init, Rest
<1>4. Owned BY <1>2 DEF Owned
<1>5. Counted
  <2>1. Connected(conn) = {} BY <1>2 DEF Connected
  <2>2. <<>> \in Seq(Descr) BY EmptySeq
  <2>3. /\ Selected(<<>>, {}) \in Seq(Descr)
        /\ Len(Selected(<<>>, {})) <= Len(<<>>)
    BY <2>2, SelectedSeq
  <2>4. Len(Selected(<<>>, {})) = 0 BY <2>3
  <2>5. Selected(<<>>, {}) = <<>> BY <2>3, <2>4
  <2> QED BY <1>2, <2>1, <2>5 DEF Counted, CountTable
<1>6. PlayerDescrs
  <2> SUFFICES ASSUME NEW p \in Players
               PROVE  /\ IsInjective(descrs[p])
                      /\ Range(descrs[p]) =
                           {SlotOf(d) : d \in ConnsOf(p)} \ {0}
    BY DEF PlayerDescrs
  <2>1. descrs[p] = <<>> BY DEF Init
  <2>2. DOMAIN descrs[p] = {} BY <2>1
  <2>3. ConnsOf(p) = {} BY <1>2 DEF ConnsOf
  <2> QED BY <2>2, <2>3 DEF IsInjective, Range
<1>7. Pending /\ Slotted BY <1>2 DEF Pending, Slotted
<1>8. LoginLimit
  <2>1. \A p : Unbooted(p) = {} BY <1>2 DEF Unbooted, ConnsOf
  <2>2. Cardinality({}) = 0 BY FS_EmptySet
  <2>4. MaxLogins \in Nat BY ConstantAssumption
  <2>5. ASSUME NEW p PROVE Limit(p)
    <3>1. Cardinality(Unbooted(p)) = 0 BY <2>1, <2>2
    <3>2. Logins(p) = {} BY <1>2 DEF Logins
    <3>3. Cardinality(Logins(p)) = 0 BY <2>2, <3>2
    <3> QED BY <2>4, <3>1, <3>3 DEF Limit
  <2> QED BY <2>5, LimitAll
<1> QED BY <1>1, <1>3, <1>4, <1>5, <1>6, <1>7, <1>8 DEF Full, TInv

\* Every step keeps them.
LEMMA NextFull == Full /\ [Next]_vars => Full'
<1> SUFFICES ASSUME Full, [Next]_vars PROVE Full'
  OBVIOUS
<1>1. IInv' BY NextIInv DEF Full
<1> SUFFICES TInv' /\ Pending' /\ Slotted' /\ LoginLimit'
  BY <1>1 DEF Full
<1>2. conn \in [Descr -> Conn] /\ IInv BY DEF Full, IInv, ConnInv
<1>3. CASE QuietAction
  <2>1. Quiet /\ QuietStack BY <1>3, QuietActions
  <2>2. /\ TInv' /\ Pending' /\ Slotted'
        /\ \A p : Unbooted(p)' \subseteq Unbooted(p)
        /\ \/ \A p : Logins(p) \subseteq Logins(p)'
           \/ Running /\ Pop /\ Top.fn = "login"
    BY <1>1, <2>1, QuietStep
  <2>3. CASE \A p : Logins(p) \subseteq Logins(p)'
    <3>1. LoginLimit' BY <1>1, <1>2, <2>2, <2>3, LimitSteps DEF Full
    <3> QED BY <2>2, <3>1
  <2>4. CASE LoginDone
    <3>1. LoginLimit' BY <1>1, <2>4, LoggedIn
    <3> QED BY <2>2, <3>1
  <2>5. CASE ~LoginDone /\ Running /\ Pop /\ Top.fn = "login"
    <3>1. \A p : Logins(p) \subseteq Logins(p)'
      <4>1. stack \in Seq(Calls) BY DEF Full, IInv, StackInv
      <4>2. Len(stack') # Len(stack)
        <5>1. Len(stack') = Len(stack) - 1
          BY <2>5, <4>1, FrontCalls DEF Pop, Running
        <5> QED BY <4>1, <5>1
      <4>3. \A c : ~Push(c)
        <5> SUFFICES ASSUME NEW c, Push(c) PROVE FALSE OBVIOUS
        <5>1. stack' = Append(stack, c) BY DEF Push
        <5>2. c \in Calls \cup {c} /\ stack \in Seq(Calls \cup {c})
          BY <4>1
        <5>3. Len(stack') = Len(stack) + 1
          BY <5>1, <5>2, AppendProperties
        <5>4. Len(stack') = Len(stack) - 1
          BY <2>5, <4>1, FrontCalls DEF Pop, Running
        <5> QED BY <4>1, <5>3, <5>4
      <4>4. stack' # stack BY <4>2
      <4>5. CASE \/ Commands \/ NextCommand \/ CommandsDone \/ NextBoot \/ Select
                 \/ Read \/ NextRead \/ ReadDone \/ Event
        BY <4>3, <4>4, <4>5
           DEF Commands, NextCommand, CommandsDone, NextBoot, Select, Read,
               NextRead, ReadDone, Event
      <4>6. ASSUME NEW d \in Descr,
                   \/ PlainLine(d) \/ PlayerLine(d) \/ HearLine(d) \/ Drop(d)
                   \/ Announce(d) \/ DescrBoot(d) \/ DescrForce(d)
            PROVE  FALSE
        BY <4>3, <4>4, <4>6
           DEF PlainLine, PlayerLine, HearLine, Drop, Announce, DescrBoot,
               DescrForce
      <4>7. ASSUME NEW i \in DOMAIN table, CountBoot(i) PROVE FALSE
        BY <4>4, <4>7 DEF CountBoot
      <4>8. ASSUME NEW p \in Players, BootOff(p) \/ KeepOne(p) PROVE FALSE
        BY <4>4, <4>8 DEF BootOff, KeepOne
      <4>9. CASE Return \/ SetUserDone
        BY <2>5, <4>9 DEF Return, SetUserDone
      <4>10. CASE \E d \in Descr :
                    \/ PlainLine(d) \/ PlayerLine(d) \/ HearLine(d) \/ Drop(d)
                    \/ Announce(d) \/ DescrBoot(d) \/ DescrForce(d)
        BY <4>6, <4>10
      <4>11. CASE \E i \in DOMAIN table : CountBoot(i) BY <4>7, <4>11
      <4>12. CASE \E p \in Players : BootOff(p) \/ KeepOne(p) BY <4>8, <4>12
      <4> QED
        BY <1>3, <2>5, <4>5, <4>9, <4>10, <4>11, <4>12 DEF QuietAction
    <3> QED BY <1>1, <1>2, <2>2, <3>1, LimitSteps DEF Full
  <2> QED BY <2>2, <2>3, <2>4, <2>5
<1>4. ASSUME NEW d \in Descr, NEW p \in Players, Login(d, p)
      PROVE  TInv' /\ Pending' /\ Slotted' /\ LoginLimit'
  <2>1. /\ TakesLine(d) /\ ~conn[d].connected /\ p \notin frobbed
        /\ Attach(d, p, LineTaken(d), descrs) /\ Push(Call("login", d, p))
    BY <1>4 DEF Login
  <2> QED BY <1>1, <2>1, GivingLine
<1>5. ASSUME NEW d \in Descr, WebScript(d)
      PROVE  TInv' /\ Pending' /\ Slotted' /\ LoginLimit'
  <2>1. /\ TakesLine(d) /\ ~conn[d].connected /\ WwwUser \notin frobbed
        /\ Attach(d, WwwUser, LineTaken(d), descrs)
        /\ Push(Call("web", d, WwwUser)) /\ WwwUser \in Players
    BY <1>5, ConstantAssumption DEF WebScript
  <2> QED BY <1>1, <2>1, GivingLine
<1>6. ASSUME NEW d \in Descr, Close(d), conn[d].connected /\ d \in Telnet
      PROVE  TInv' /\ Pending' /\ Slotted' /\ LoginLimit'
  <2> DEFINE c == [conn EXCEPT ![d].booted = 0]
             k == Call("close", d, conn[d].player)
  <2>1. /\ Detach(d, c) /\ Push(k)
        /\ UNCHANGED <<list, lookup, frobbed, fresh, quota, again>>
    BY <1>6 DEF Close
  <2>2. c \in [Descr -> Conn] /\ SameOwners(c)
        /\ \A e \in Descr : conn[e].booted # 0 /\ e # d => c[e].booted # 0
    BY <1>2 DEF SameOwners, Conn
  <2>3. conn[d].player \in Players \cup {NONE} BY <1>2 DEF Conn
  <2>4. k \in Calls /\ k.fn = "close" /\ k.d = d BY <2>3 DEF Call, Calls
  <2> HIDE DEF c, k
  <2>5. /\ Push(k) /\ k.fn \in {"set", "close"} /\ k.d = d /\ conn[d].connected
        /\ k.fn = "set" => k.who \in MovedTo \cup {NONE} /\ d = NONE
        /\ k.fn = "close" => d = d
    BY <1>6, <2>1, <2>4
  <2> QED BY <1>1, <2>1, <2>2, <2>4, <2>5, TakingStep
<1>7. ASSUME NEW d \in Descr, NEW p \in MovedTo \cup {NONE}, SetUser(d, p)
      PROVE  TInv' /\ Pending' /\ Slotted' /\ LoginLimit'
  <2> DEFINE k == Call("set", d, p)
  <2>1. /\ Detach(d, conn) /\ Push(k) /\ conn[d].connected
        /\ UNCHANGED <<list, lookup, frobbed, fresh, quota, again>>
    BY <1>7 DEF SetUser, loop
  <2>2. SameOwners(conn)
        /\ \A e \in Descr : conn[e].booted # 0 /\ e # NONE => conn[e].booted # 0
    BY DEF SameOwners
  <2>3. k \in Calls /\ k.fn = "set" /\ k.d = d /\ k.who = p
    BY ConstantAssumption DEF Call, Calls
  <2> HIDE DEF k
  <2>4. /\ Push(k) /\ k.fn \in {"set", "close"} /\ k.d = d /\ conn[d].connected
        /\ k.fn = "set" => k.who \in MovedTo \cup {NONE} /\ NONE = NONE
        /\ k.fn = "close" => NONE = d
    BY <2>1, <2>3
  <2> QED BY <1>1, <1>2, <2>1, <2>2, <2>3, <2>4, TakingStep
<1>8. CASE WebDone
  <2> DEFINE d == Top.d
             c == [conn EXCEPT ![d].booted = Answered(@)]
  <2>1. /\ Detach(d, c) /\ Running /\ Pop /\ Top.fn = "web"
        /\ UNCHANGED <<list, lookup, frobbed, fresh, quota, again>>
    BY <1>8 DEF WebDone, loop
  <2>2. d \in Descr
    <3>1. Top \in Calls BY <1>2, <2>1, TopCall DEF IInv
    <3>2. Len(stack) \in DOMAIN stack /\ stack[Len(stack)] = Top
      BY <1>2, <2>1 DEF IInv, StackInv, Running, Top, Last
    <3>3. d # NONE BY <2>1, <3>2 DEF Full, Pending
    <3> QED BY <3>1, <3>3 DEF Calls
  <2> HIDE DEF d
  <2>3. c \in [Descr -> Conn] /\ SameOwners(c)
        /\ \A e \in Descr : conn[e].booted # 0 /\ e # NONE => c[e].booted # 0
    BY ZenonT(30), <1>2 DEF SameOwners, Conn, Answered
  <2> HIDE DEF c
  <2> QED BY <1>1, <2>1, <2>2, <2>3, TakingStep
<1>9. CASE SetUserDone /\ Top.who # NONE BY <1>1, <1>9, GivenStep
<1>10. ASSUME NEW d \in Descr,
              \/ Accept(d)
              \/ Close(d) /\ ~(conn[d].connected /\ d \in Telnet)
       PROVE  TInv' /\ Pending' /\ Slotted' /\ LoginLimit'
  BY <1>1, <1>10, ListSteps
<1>11. CASE CloseDone
  <2>1. Running /\ Top.fn = "close" BY <1>11 DEF CloseDone
  <2>2. Top.d \in Descr
    <3>1. Top \in Calls BY <1>2, <2>1, TopCall DEF IInv
    <3>2. Len(stack) \in DOMAIN stack /\ stack[Len(stack)] = Top
      BY <1>2, <2>1 DEF IInv, StackInv, Running, Top, Last
    <3>3. Top.d # NONE BY <2>1, <3>2 DEF Full, Pending
    <3> QED BY <3>1, <3>3 DEF Calls
  <2> QED BY <1>1, <1>11, <2>2, ListSteps
<1>12. ASSUME NEW p \in Players, Frob(p)
       PROVE  TInv' /\ Pending' /\ Slotted' /\ LoginLimit'
  BY <1>1, <1>12, FrobStep
<1>13. CASE UNCHANGED vars
  <2>1. UNCHANGED <<list, conn, table, lookup, descrs, frobbed, fresh, quota,
                    again, stack>>
    BY <1>13 DEF vars, loop
  <2>2. TInv'
    <3>1. Rest' BY <2>1 DEF Full, TInv, Rest
    <3>2. SameOwners(conn') BY <2>1 DEF SameOwners
    <3>3. Owned' /\ Counted' /\ PlayerDescrs'
      BY <1>2, <2>1, <3>2, QuietTables DEF Full
    <3> QED BY <3>1, <3>3 DEF TInv
  <2>3. Pending' BY <2>1 DEF Full, Pending
  <2>4. Slotted' BY <2>1 DEF Full, Slotted, Closing, Listed, SlotOf
  <2>5. LoginLimit' BY <2>1 DEF Full, LoginLimit, Unbooted, ConnsOf, Listed
  <2> QED BY <2>2, <2>3, <2>4, <2>5
<1> QED
  <2>1. CASE Next
    <3>1. CASE LoopStep
      BY <1>3, <1>6, <1>10, <3>1 DEF LoopStep, QuietAction
    <3>2. CASE Event BY <1>3, <3>2 DEF QuietAction
    <3>3. CASE Program
      BY <1>3, <1>7, <1>12, <3>3 DEF Program, QuietAction
    <3>4. CASE Returns
      BY <1>3, <1>8, <1>9, <1>11, <3>4 DEF Returns, QuietAction
    <3>5. ASSUME NEW d \in Descr, Line(d) \/ Network(d)
          PROVE  TInv' /\ Pending' /\ Slotted' /\ LoginLimit'
      BY <1>3, <1>4, <1>5, <1>10, <3>5 DEF Line, Network, QuietAction
    <3> QED BY <2>1, <3>1, <3>2, <3>3, <3>4, <3>5 DEF Next
  <2> QED BY <1>13, <2>1

\* Whatever programs run between the steps of a login, a closing or a
\* DESCR_SETUSER, update_desc_count_table has been called after each of them:
\* the connection numbers of the MUF primitives count the connections that
\* have a player, in the order of the list, and every variable has its type.
THEOREM TableCounts == Spec => []CountsMatch
<1>1. Init => Full BY InitFull
<1>2. Full /\ [Next]_vars => Full' BY NextFull
<1>3. Full => CountsMatch
  <2> SUFFICES ASSUME Full PROVE CountsMatch
    OBVIOUS
  <2>1. list \in Seq(Descr) BY DEF Full, IInv, ListInv
  <2>2. table = CountTable(conn) BY DEF Full, TInv, Counted
  <2>3. table \in Seq(Descr) BY <2>1, <2>2, SelectedSeq DEF CountTable
  <2>4. at \in Descr \cup {NONE} /\ dnext \in Descr \cup {NONE}
    BY <2>1 DEF Full, IInv, LoopInv, Listed, Range
  <2> QED BY <2>1, <2>2, <2>3, <2>4
       DEF CountsMatch, TypeOK, Full, IInv, ConnInv, LookupInv, LoopInv,
           StackInv, TInv, Rest
<1> QED BY <1>1, <1>2, <1>3, PTL DEF Spec

\* remember_player_descr and forget_player_descr keep each player's own array
\* exact: it has the slot of every connection of the player once, and no slot
\* of another's, although it is kept apart from the descriptors' own fields.
THEOREM ArraysRight == Spec => []PlayerDescrs
<1>1. Init => Full BY InitFull
<1>2. Full /\ [Next]_vars => Full' BY NextFull
<1>3. Full => PlayerDescrs BY DEF Full, TInv
<1> QED BY <1>1, <1>2, <1>3, PTL DEF Spec

\* boot_idlest is called once for each login and boots one connection at the
\* most; that is enough: when no login is going on, no player who is given
\* connections by logins only has more than tp_max_player_logins that stay.
THEOREM LoginsLimited == Spec => []LoginLimit
<1>1. Init => Full BY InitFull
<1>2. Full /\ [Next]_vars => Full' BY NextFull
<1>3. Full => LoginLimit BY DEF Full
<1> QED BY <1>1, <1>2, <1>3, PTL DEF Spec

=============================================================================
