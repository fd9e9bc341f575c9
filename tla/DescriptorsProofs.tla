-------------------------- MODULE DescriptorsProofs --------------------------
(***************************************************************************)
(* Proofs about Descriptors, for every value of its constants: no pointer  *)
(* to a descriptor is used after shutdownsock has freed it.                *)
(***************************************************************************)
EXTENDS Descriptors, SequenceTheorems, WellFoundedInduction, TLAPS

ListInv == list \in Seq(Descr) /\ IsInjective(list)

LookupInv ==
  /\ lookup \in [Slots -> Descr \cup {NONE}]
  /\ \A i \in Slots : lookup[i] \in Listed \cup {NONE}
  /\ \A i, j \in Slots : lookup[i] = lookup[j] /\ lookup[i] # NONE => i = j

\* The descriptor a loop has saved is still the next one.
LoopInv ==
  /\ phase \in Phase
  /\ {at, dnext} \subseteq Listed \cup {NONE}
  /\ at # NONE => dnext = Following(list, at)
  /\ phase \in {"events", "select"} => at = NONE

\* A descriptor is closed by the loop over booted ones and by nothing else.
StackInv ==
  /\ stack \in Seq(Calls)
  /\ stack # <<>> => phase # "select"
  /\ \A i \in DOMAIN stack :
       /\ stack[i].d \in Listed \cup {NONE}
       /\ stack[i].fn = "close" =>
            i = 1 /\ phase = "boots" /\ stack[i].d = at /\ at # NONE

ConnInv == conn \in [Descr -> Conn]

IInv == ListInv /\ LookupInv /\ LoopInv /\ StackInv /\ ConnInv

-----------------------------------------------------------------------------
(* The list. *)

\* A set of numbers that is not empty has a least one.
LEMMA LeastOne ==
  ASSUME NEW S, S \subseteq Nat, S # {}
  PROVE  \E i \in S : \A j \in S : i <= j
<1>1. IsWellFoundedOn(OpToRel(<, Nat), Nat)
  BY NatLessThanWellFounded
<1>2. PICK i \in S : \A j \in S : ~(<<j, i>> \in OpToRel(<, Nat))
  BY <1>1, WFMin
<1>3. \A j \in S : ~(j < i)
  BY <1>2 DEF OpToRel
<1>4. \A j \in S : i <= j
  BY <1>3, SMT
<1> QED BY <1>4

\* The descriptor after another one is in the list, and is another one.
LEMMA FollowingListed ==
  ASSUME NEW l \in Seq(Descr), IsInjective(l), NEW d
  PROVE  /\ Following(l, d) \in Range(l) \cup {NONE}
         /\ Following(l, d) # NONE => Following(l, d) # d
<1>1. CASE \E i \in 1..(Len(l) - 1) : l[i] = d
  <2> DEFINE k == CHOOSE i \in 1..(Len(l) - 1) : l[i] = d
  <2>1. k \in 1..(Len(l) - 1) /\ l[k] = d
    BY <1>1
  <2>2. Following(l, d) = l[1 + k]
    BY <1>1 DEF Following
  <2> HIDE DEF k
  <2>3. k \in DOMAIN l /\ 1 + k \in DOMAIN l /\ k # 1 + k
    BY <2>1
  <2> QED BY <2>1, <2>2, <2>3 DEF Range, IsInjective
<1>2. CASE ~\E i \in 1..(Len(l) - 1) : l[i] = d
  BY <1>2 DEF Following
<1> QED BY <1>1, <1>2

\* Unlinking takes one descriptor out of the list and leaves the rest.
LEMMA UnlinkedList ==
  ASSUME NEW l \in Seq(Descr), IsInjective(l), NEW d \in Range(l)
  PROVE  /\ Unlinked(l, d) \in Seq(Descr) /\ IsInjective(Unlinked(l, d))
         /\ Range(Unlinked(l, d)) = Range(l) \ {d}
         /\ \E k \in 1..Len(l) :
              /\ l[k] = d /\ DOMAIN Unlinked(l, d) = 1..(Len(l) - 1)
              /\ \A i \in 1..(Len(l) - 1) :
                   Unlinked(l, d)[i] = IF i < k THEN l[i] ELSE l[i + 1]
<1> DEFINE n == Len(l)
           k == CHOOSE i \in DOMAIN l : l[i] = d
           u == Unlinked(l, d)
<1>1. n \in Nat /\ DOMAIN l = 1..n /\ \A i \in 1..n : l[i] \in Descr
  OBVIOUS
<1>2. k \in 1..n /\ l[k] = d
  BY <1>1 DEF Range
<1>3. u = SubSeq(l, 1, k - 1) \o SubSeq(l, k + 1, n)
  BY DEF Unlinked, RemoveAt
<1> HIDE DEF k, u, n
<1>4. /\ SubSeq(l, 1, k - 1) \in Seq(Descr)
      /\ Len(SubSeq(l, 1, k - 1)) = k - 1
      /\ \A i \in 1..(k - 1) : SubSeq(l, 1, k - 1)[i] = l[i]
  <2>1. \A i \in 1..(k - 1) : l[i] \in Descr BY <1>1, <1>2
  <2> QED BY <1>1, <1>2, <2>1, SubSeqProperties
<1>5. /\ SubSeq(l, k + 1, n) \in Seq(Descr)
      /\ Len(SubSeq(l, k + 1, n)) = n - k
      /\ \A i \in 1..(n - k) : SubSeq(l, k + 1, n)[i] = l[k + i]
  <2>1. \A i \in (k + 1)..n : l[i] \in Descr BY <1>1, <1>2
  <2>2. /\ SubSeq(l, k + 1, n) \in Seq(Descr)
        /\ Len(SubSeq(l, k + 1, n)) =
             IF k + 1 <= n THEN n - (k + 1) + 1 ELSE 0
        /\ \A i \in 1..(n - (k + 1) + 1) :
             SubSeq(l, k + 1, n)[i] = l[k + 1 + i - 1]
    BY <1>1, <1>2, <2>1, SubSeqProperties
  <2> QED BY <1>1, <1>2, <2>2
<1>6. u \in Seq(Descr) /\ DOMAIN u = 1..(n - 1)
  <2>1. Len(u) = n - 1 BY <1>1, <1>2, <1>3, <1>4, <1>5
  <2>2. u \in Seq(Descr) BY <1>3, <1>4, <1>5
  <2> QED BY <2>1, <2>2
<1>7. \A i \in 1..(n - 1) : u[i] = IF i < k THEN l[i] ELSE l[i + 1]
  <2> SUFFICES ASSUME NEW i \in 1..(n - 1)
               PROVE  u[i] = IF i < k THEN l[i] ELSE l[i + 1]
    OBVIOUS
  <2>1. CASE i < k
    BY <1>1, <1>2, <1>3, <1>4, <1>5, <2>1
  <2>2. CASE i >= k
    <3>1. u[i] = SubSeq(l, k + 1, n)[i - (k - 1)]
      <4>1. i \in 1..((k - 1) + (n - k)) /\ ~(i <= k - 1)
        BY <1>1, <1>2, <2>2
      <4> DEFINE s == SubSeq(l, 1, k - 1)
                 t == SubSeq(l, k + 1, n)
      <4>2. s \in Seq(Descr) /\ t \in Seq(Descr)
            /\ Len(s) = k - 1 /\ Len(t) = n - k /\ u = s \o t
        BY <1>3, <1>4, <1>5
      <4> HIDE DEF s, t
      <4>3. \A m \in 1..(Len(s) + Len(t)) :
              (s \o t)[m] = IF m <= Len(s) THEN s[m] ELSE t[m - Len(s)]
        BY <4>2, ConcatProperties
      <4>4. u[i] = t[i - (k - 1)] BY <4>1, <4>2, <4>3
      <4> QED BY <4>4 DEF t
    <3>2. i - (k - 1) \in 1..(n - k) /\ k + (i - (k - 1)) = i + 1
      BY <1>1, <1>2, <2>2
    <3> QED BY <1>1, <1>2, <1>5, <2>2, <3>1, <3>2
  <2> QED BY <1>1, <1>2, <2>1, <2>2
<1>8. IsInjective(u)
  <2> SUFFICES ASSUME NEW i \in 1..(n - 1), NEW j \in 1..(n - 1), u[i] = u[j]
               PROVE  i = j
    BY <1>6 DEF IsInjective
  <2> DEFINE old(m) == IF m < k THEN m ELSE m + 1
  <2>1. old(i) \in 1..n /\ old(j) \in 1..n /\ l[old(i)] = l[old(j)]
    BY <1>1, <1>2, <1>7
  <2>2. old(i) = old(j)
    BY <1>1, <2>1 DEF IsInjective
  <2> QED BY <1>1, <1>2, <2>2
<1>9. Range(u) \subseteq Range(l) \ {d}
  <2> SUFFICES ASSUME NEW i \in 1..(n - 1) PROVE u[i] \in Range(l) \ {d}
    BY <1>6 DEF Range
  <2> DEFINE j == IF i < k THEN i ELSE i + 1
  <2>1. j \in 1..n /\ j # k /\ u[i] = l[j] BY <1>1, <1>2, <1>7
  <2> QED BY <1>1, <1>2, <2>1 DEF Range, IsInjective
<1>10. Range(l) \ {d} \subseteq Range(u)
  <2> SUFFICES ASSUME NEW j \in 1..n, l[j] # d PROVE l[j] \in Range(u)
    BY <1>1 DEF Range
  <2> DEFINE i == IF j < k THEN j ELSE j - 1
  <2>1. i \in 1..(n - 1) /\ u[i] = l[j] BY <1>1, <1>2, <1>7
  <2> QED BY <1>6, <2>1 DEF Range
<1>11. \E h \in 1..n :
         /\ l[h] = d /\ DOMAIN u = 1..(n - 1)
         /\ \A i \in 1..(n - 1) : u[i] = IF i < h THEN l[i] ELSE l[i + 1]
  BY <1>2, <1>6, <1>7
<1> QED BY <1>6, <1>8, <1>9, <1>10, <1>11 DEF u, n

-----------------------------------------------------------------------------
(* The parts of the invariant one by one. *)

\* A step that leaves the list and the slots alone.
LEMMA SameTables ==
  ASSUME ListInv, LookupInv, UNCHANGED <<list, lookup>>
  PROVE  ListInv' /\ LookupInv' /\ Listed' = Listed
BY DEF ListInv, LookupInv, Listed

\* A step that leaves the loops alone as well.
LEMMA SameLoop ==
  ASSUME LoopInv, UNCHANGED <<list, phase, at, dnext>>
  PROVE  LoopInv'
BY DEF LoopInv, Listed, Following

\* A loop over the list begins with its head and what follows the head.
LEMMA LoopStarts ==
  ASSUME ListInv, list' = list, NEW ph \in {"commands", "boots", "read"},
         StartLoop(ph, list)
  PROVE  LoopInv'
<1>1. phase' \in Phase /\ phase' \notin {"events", "select"}
  BY DEF StartLoop, Phase
<1>2. at' \in Listed \cup {NONE}
  <2>1. CASE list = <<>> BY <2>1 DEF StartLoop
  <2>2. CASE list # <<>>
    <3>1. 1 \in DOMAIN list /\ Head(list) = list[1] BY <2>2 DEF ListInv
    <3> QED BY <2>2, <3>1 DEF StartLoop, Listed, Range
  <2> QED BY <2>1, <2>2
<1>3. dnext' = Following(list, at') BY DEF StartLoop
<1>4. dnext' \in Listed \cup {NONE}
  BY <1>3, FollowingListed DEF ListInv, Listed
<1>5. Listed' = Listed /\ Following(list, at') = Following(list', at')
  BY DEF Listed
<1> QED BY <1>1, <1>2, <1>3, <1>4, <1>5 DEF LoopInv, Following

\* A loop goes on with the descriptor it has saved, if that is in the list.
LEMMA LoopGoesOn ==
  ASSUME ListInv', dnext \in Listed' \cup {NONE}, phase' \in Phase,
         phase' \notin {"events", "select"},
         at' = dnext, dnext' = Following(list', dnext)
  PROVE  LoopInv'
<1>1. dnext' \in Listed' \cup {NONE}
  BY FollowingListed DEF ListInv, Listed
<1> QED BY <1>1 DEF LoopInv, Following

\* A call is made from a phase other than "select".
LEMMA Pushed ==
  ASSUME StackInv, NEW c \in Calls, Push(c), c.d \in Listed \cup {NONE},
         c.fn = "close" =>
           stack = <<>> /\ phase = "boots" /\ c.d = at /\ at # NONE,
         phase # "select", UNCHANGED <<list, phase, at>>
  PROVE  StackInv'
<1>1. /\ stack' \in Seq(Calls) /\ Len(stack') = Len(stack) + 1
      /\ DOMAIN stack' = 1..(Len(stack) + 1)
      /\ \A i \in 1..Len(stack) : stack'[i] = stack[i]
      /\ stack'[Len(stack) + 1] = c
  BY DEF StackInv, Push
<1>2. \A i \in DOMAIN stack' : i \in DOMAIN stack \/ i = Len(stack) + 1
  BY <1>1 DEF StackInv
<1>3. Listed' = Listed BY DEF Listed
<1>4. ASSUME NEW i \in DOMAIN stack'
      PROVE  /\ stack'[i].d \in Listed' \cup {NONE}
             /\ stack'[i].fn = "close" =>
                  i = 1 /\ phase' = "boots" /\ stack'[i].d = at' /\ at' # NONE
  <2>1. CASE i \in DOMAIN stack
    <3>1. stack'[i] = stack[i] BY <1>1, <2>1 DEF StackInv
    <3> QED BY <1>3, <2>1, <3>1 DEF StackInv
  <2>2. CASE i = Len(stack) + 1
    <3>1. stack = <<>> => i = 1 BY <2>2
    <3> QED BY <1>1, <1>3, <2>2, <3>1
  <2> QED BY <1>2, <2>1, <2>2
<1> QED BY <1>1, <1>4 DEF StackInv

\* The calls below the top one are as they were.
LEMMA FrontCalls ==
  ASSUME NEW s \in Seq(Calls), s # <<>>
  PROVE  /\ Front(s) \in Seq(Calls) /\ Len(Front(s)) = Len(s) - 1
         /\ DOMAIN Front(s) \subseteq DOMAIN s
         /\ \A i \in DOMAIN Front(s) : Front(s)[i] = s[i]
<1> DEFINE n == Len(s) - 1
           f == Front(s)
<1>1. n \in Nat /\ Len(s) = n + 1 /\ \A i \in 1..n : s[i] \in Calls
  OBVIOUS
<1>2. /\ f \in Seq(Calls)
      /\ Len(f) = IF 1 <= n THEN n - 1 + 1 ELSE 0
      /\ \A i \in 1..(n - 1 + 1) : f[i] = s[1 + i - 1]
  BY <1>1, SubSeqProperties DEF Front
<1> HIDE DEF f, n
<1>3. f \in Seq(Calls) /\ Len(f) = n BY <1>1, <1>2
<1>4. \A i \in 1..n : f[i] = s[i] BY <1>1, <1>2
<1>5. DOMAIN f = 1..n /\ DOMAIN s = 1..(n + 1) BY <1>1, <1>3
<1>6. DOMAIN f \subseteq DOMAIN s BY <1>1, <1>5
<1>7. \A i \in DOMAIN f : f[i] = s[i] BY <1>4, <1>5
<1> QED BY <1>3, <1>6, <1>7 DEF f, n

\* A call returns.
LEMMA Popped ==
  ASSUME StackInv, Running, Pop, UNCHANGED <<list, phase, at>>
  PROVE  StackInv'
<1>1. /\ stack' \in Seq(Calls) /\ DOMAIN stack' \subseteq DOMAIN stack
      /\ \A i \in DOMAIN stack' : stack'[i] = stack[i]
  BY FrontCalls DEF StackInv, Running, Pop
<1>2. Listed' = Listed BY DEF Listed
<1> QED BY <1>1, <1>2 DEF StackInv, Running

\* The stack is empty, or as it was.
LEMMA SameStack ==
  ASSUME StackInv, stack' = stack, UNCHANGED <<list, phase, at>> \/ InLoop
  PROVE  StackInv'
<1>1. CASE InLoop BY <1>1 DEF StackInv, InLoop
<1>2. CASE UNCHANGED <<list, phase, at>> BY <1>2 DEF StackInv, Listed
<1> QED BY <1>1, <1>2

\* The call that is on top, or comes from the loop, is of a listed descriptor.
LEMMA TopCall ==
  ASSUME StackInv, Running
  PROVE  Top \in Calls /\ Top.d \in Listed \cup {NONE}
<1>1. Len(stack) \in DOMAIN stack BY DEF StackInv, Running
<1> QED BY <1>1 DEF StackInv, Top, Last

\* The fields keep their types.
LEMMA FieldTypes ==
  ASSUME NEW c \in [Descr -> Conn], NEW d
  PROVE  /\ \A b \in {0, 1, 3} : [c EXCEPT ![d].booted = b] \in [Descr -> Conn]
         /\ \A n \in 0..MaxLines : [c EXCEPT ![d].lines = n] \in [Descr -> Conn]
         /\ \A p \in Players \cup {NONE}, b \in BOOLEAN :
              [c EXCEPT ![d].connected = b, ![d].player = p] \in [Descr -> Conn]
<1>1. ASSUME NEW b \in {0, 1, 3}
      PROVE  [c EXCEPT ![d].booted = b] \in [Descr -> Conn]
  BY DEF Conn
<1>2. ASSUME NEW n \in 0..MaxLines
      PROVE  [c EXCEPT ![d].lines = n] \in [Descr -> Conn]
  BY DEF Conn
<1>3. ASSUME NEW p \in Players \cup {NONE}, NEW b \in BOOLEAN
      PROVE  [c EXCEPT ![d].connected = b, ![d].player = p] \in [Descr -> Conn]
  <2> DEFINE c1 == [c EXCEPT ![d].connected = b]
  <2>1. c1 \in [Descr -> Conn] BY DEF Conn
  <2>2. [c EXCEPT ![d].connected = b, ![d].player = p]
          = [c1 EXCEPT ![d].player = p]
    OBVIOUS
  <2> HIDE DEF c1
  <2>3. [c1 EXCEPT ![d].player = p] \in [Descr -> Conn]
    BY <2>1 DEF Conn
  <2> QED BY <2>2, <2>3
<1> QED BY <1>1, <1>2, <1>3

\* shutdownsock takes the descriptor out of the list and its slot.
LEMMA FreedTables ==
  ASSUME ListInv, LookupInv, ConnInv, NEW d \in Listed, Freed(d)
  PROVE  ListInv' /\ LookupInv' /\ ConnInv' /\ Listed' = Listed \ {d}
<1>1. ListInv' /\ Listed' = Listed \ {d}
  BY UnlinkedList DEF ListInv, Listed, Freed
<1>2. /\ lookup' \in [Slots -> Descr \cup {NONE}]
      /\ \A i \in Slots : lookup'[i] = IF lookup[i] = d THEN NONE ELSE lookup[i]
  BY DEF LookupInv, Freed
<1>3. LookupInv'
  BY <1>1, <1>2 DEF LookupInv
<1>4. Closed \in Conn
  BY ConstantAssumption DEF Closed, Conn
<1>5. ConnInv'
  BY <1>4 DEF ConnInv, Freed
<1> QED BY <1>1, <1>3, <1>5

-----------------------------------------------------------------------------
(* The steps. *)

\* A step that moves a loop from one phase, or descriptor, to another.
LEMMA LoopSteps ==
  ASSUME IInv, LoopStep
  PROVE  IInv'
<1> USE DEF IInv
<1>1. CASE Commands
  <2>1. ListInv' /\ LookupInv' BY <1>1, SameTables DEF Commands, tables
  <2>2. LoopInv' BY <1>1, LoopStarts DEF Commands, tables
  <2>3. StackInv' BY <1>1, SameStack DEF Commands
  <2>4. ConnInv' BY <1>1 DEF Commands, ConnInv
  <2> QED BY <2>1, <2>2, <2>3, <2>4
<1>2. CASE NextCommand \/ NextBoot \/ NextRead
  <2>1. /\ UNCHANGED <<list, lookup, conn, stack, phase>> /\ InLoop
        /\ phase \notin {"events", "select"}
        /\ at' = dnext /\ dnext' = Following(list', dnext)
    BY <1>2 DEF NextCommand, NextBoot, NextRead, NextOne, tables
  <2>2. ListInv' /\ LookupInv' /\ Listed' = Listed BY <2>1, SameTables
  <2>3. LoopInv' BY <2>1, <2>2, LoopGoesOn DEF LoopInv
  <2>4. StackInv' BY <2>1, SameStack
  <2>5. ConnInv' BY <2>1 DEF ConnInv
  <2> QED BY <2>2, <2>3, <2>4, <2>5
<1>3. CASE CommandsDone
  <2>1. ListInv' /\ LookupInv' BY <1>3, SameTables DEF CommandsDone, tables
  <2>2. LoopInv'
    <3>1. (IF again THEN "commands" ELSE "boots")
            \in {"commands", "boots", "read"}
      OBVIOUS
    <3> QED BY <1>3, <3>1, LoopStarts DEF CommandsDone, tables
  <2>3. StackInv' BY <1>3, SameStack DEF CommandsDone
  <2>4. ConnInv' BY <1>3 DEF CommandsDone, ConnInv
  <2> QED BY <2>1, <2>2, <2>3, <2>4
<1>4. CASE Read
  <2>1. ListInv' /\ LookupInv' BY <1>4, SameTables DEF Read, tables
  <2>2. LoopInv' BY <1>4, LoopStarts DEF Read, tables
  <2>3. StackInv' BY <1>4, SameStack DEF Read
  <2>4. ConnInv' BY <1>4 DEF Read, ConnInv
  <2> QED BY <2>1, <2>2, <2>3, <2>4
<1>5. CASE Select \/ ReadDone
  <2>1. /\ UNCHANGED <<list, lookup, conn, stack, at, dnext>> /\ InLoop
        /\ at = NONE /\ phase' \in Phase
    BY <1>5 DEF Select, ReadDone, tables, Phase
  <2>2. ListInv' /\ LookupInv' /\ Listed' = Listed BY <2>1, SameTables
  <2>3. LoopInv' BY <2>1, <2>2 DEF LoopInv
  <2>4. StackInv' BY <2>1, SameStack
  <2>5. ConnInv' BY <2>1 DEF ConnInv
  <2> QED BY <2>2, <2>3, <2>4, <2>5
<1>6. ASSUME NEW d \in Descr, Close(d) PROVE IInv'
  <2>1. /\ InLoop /\ phase = "boots" /\ at = d /\ d \in Listed
        /\ phase' = phase /\ phase \in Phase
        /\ dnext \in Listed \cup {NONE} /\ dnext # d
    <3>1. d # NONE BY ConstantAssumption DEF Descr
    <3>2. InLoop /\ phase = "boots" /\ at = d /\ phase' = phase
      BY <1>6 DEF Close
    <3>3. dnext = Following(list, d) /\ d \in Listed BY <3>1, <3>2 DEF LoopInv
    <3>4. Following(list, d) \in Listed \cup {NONE} /\ Following(list, d) # d
      BY <3>1, FollowingListed DEF ListInv, Listed
    <3> QED BY <3>2, <3>3, <3>4 DEF LoopInv
  <2>2. CASE conn[d].connected /\ d \in Telnet
    <3>1. /\ UNCHANGED <<list, lookup, at, dnext>>
          /\ Detach(d, [conn EXCEPT ![d].booted = 0])
          /\ Push(Call("close", d, conn[d].player))
      BY <1>6, <2>2 DEF Close
    <3>2. ListInv' /\ LookupInv' BY <3>1, SameTables
    <3>3. LoopInv' BY <2>1, <3>1, SameLoop
    <3>4. ConnInv' BY <3>1, FieldTypes DEF ConnInv, Detach
    <3>5. Call("close", d, conn[d].player) \in Calls
      BY DEF Call, Calls, ConnInv, Conn
    <3>6. /\ Call("close", d, conn[d].player).d = d /\ stack = <<>>
          /\ phase # "select" /\ d # NONE
      BY <2>1, ConstantAssumption DEF Call, InLoop, Descr
    <3>7. StackInv' BY <2>1, <3>1, <3>5, <3>6, Pushed
    <3> QED BY <3>2, <3>3, <3>4, <3>7
  <2>3. CASE ~(conn[d].connected /\ d \in Telnet)
    <3>1. Freed(d) /\ NextOne(list') /\ stack' = stack
      BY <1>6, <2>3 DEF Close
    <3>2. ListInv' /\ LookupInv' /\ ConnInv' /\ Listed' = Listed \ {d}
      BY <2>1, <3>1, FreedTables
    <3>3. LoopInv' BY <2>1, <3>1, <3>2, LoopGoesOn DEF NextOne
    <3>4. StackInv' BY <2>1, <3>1, SameStack
    <3> QED BY <3>2, <3>3, <3>4
  <2> QED BY <2>2, <2>3
<1> QED BY <1>1, <1>2, <1>3, <1>4, <1>5, <1>6 DEF LoopStep

\* A command line, which may call a program.
LEMMA LineSteps ==
  ASSUME IInv, NEW d \in Descr, Line(d)
  PROVE  IInv'
<1> USE DEF IInv
<1>1. /\ InLoop /\ phase = "commands" /\ at = d /\ conn[d].lines > 0
      /\ UNCHANGED <<list, lookup, phase, at, dnext>>
  BY DEF Line, PlainLine, PlayerLine, WebScript, Login, TakesLine
<1>2. ListInv' /\ LookupInv' /\ LoopInv'
  BY <1>1, SameTables, SameLoop
<1>3. d \in Listed /\ phase # "select" /\ d # NONE
  <2>1. d # NONE BY ConstantAssumption DEF Descr
  <2> QED BY <1>1, <2>1 DEF LoopInv
<1>4. LineTaken(d) \in [Descr -> Conn]
  <2>1. conn[d].lines - 1 \in 0..MaxLines
    BY <1>1, ConstantAssumption DEF ConnInv, Conn
  <2> QED BY <2>1, FieldTypes DEF LineTaken, ConnInv
<1>5. ASSUME NEW fn \in {"command", "login", "web"},
             NEW p \in Players \cup {NONE}, Push(Call(fn, d, p))
      PROVE  StackInv'
  <2>1. /\ Call(fn, d, p) \in Calls /\ Call(fn, d, p).d = d
        /\ Call(fn, d, p).fn # "close"
    BY DEF Call, Calls
  <2> QED BY <1>1, <1>3, <1>5, <2>1, Pushed
<1>6. CASE PlainLine(d)
  <2>1. ConnInv'
    <3>1. conn[d].booted \in {0, 1, 3} BY DEF ConnInv, Conn
    <3>2. PICK b \in {0, 1, 3} : conn' = [LineTaken(d) EXCEPT ![d].booted = b]
      BY <1>6, <3>1 DEF PlainLine
    <3> QED BY <1>4, <3>2, FieldTypes DEF ConnInv
  <2>2. StackInv' BY <1>1, <1>6, SameStack DEF PlainLine
  <2> QED BY <1>2, <2>1, <2>2
<1>7. CASE PlayerLine(d)
  BY <1>2, <1>4, <1>5, <1>7 DEF PlayerLine, ConnInv
<1>8. CASE WebScript(d)
  <2>1. WwwUser \in Players BY ConstantAssumption
  <2>2. ConnInv'
    BY <1>4, <1>8, <2>1, FieldTypes DEF WebScript, Attach, ConnInv
  <2>3. StackInv' BY <1>5, <1>8, <2>1 DEF WebScript
  <2> QED BY <1>2, <2>2, <2>3
<1>9. ASSUME NEW p \in Players, Login(d, p) PROVE IInv'
  <2>1. ConnInv' BY <1>4, <1>9, FieldTypes DEF Login, Attach, ConnInv
  <2>2. StackInv' BY <1>5, <1>9 DEF Login
  <2> QED BY <1>2, <2>1, <2>2
<1> QED BY <1>6, <1>7, <1>8, <1>9 DEF Line

\* A new descriptor is put in front of the list, into a free slot.
LEMMA AcceptStep ==
  ASSUME IInv, NEW d \in Descr, Accept(d)
  PROVE  IInv'
<1> USE DEF IInv
<1> DEFINE slot == CHOOSE i \in FreeSlots : \A j \in FreeSlots : i <= j
<1>1. /\ d \notin Listed /\ list' = <<d>> \o list /\ InLoop
      /\ phase = "select" /\ UNCHANGED <<phase, at, dnext, stack>>
      /\ lookup' = IF FreeSlots = {} THEN lookup ELSE [lookup EXCEPT ![slot] = d]
  BY DEF Accept, loop
<1>2. /\ list' \in Seq(Descr) /\ DOMAIN list' = 1..(Len(list) + 1)
      /\ list'[1] = d /\ \A i \in 1..Len(list) : list'[i + 1] = list[i]
  BY <1>1 DEF ListInv
<1>3. \A i \in DOMAIN list' : i = 1 \/ (i - 1 \in DOMAIN list
                                        /\ list'[i] = list[i - 1])
  BY <1>2 DEF ListInv
<1>4. IsInjective(list')
  <2>1. \A i \in DOMAIN list : list[i] # d BY <1>1 DEF Listed, Range
  <2> SUFFICES ASSUME NEW i \in DOMAIN list', NEW j \in DOMAIN list',
                      list'[i] = list'[j]
               PROVE  i = j
    BY DEF IsInjective
  <2>2. CASE i = 1 \/ j = 1
    BY <1>2, <1>3, <2>1, <2>2
  <2>3. CASE i # 1 /\ j # 1
    <3>1. i - 1 = j - 1 BY <1>3, <2>3 DEF ListInv, IsInjective
    <3> QED BY <1>2, <3>1
  <2> QED BY <2>2, <2>3
<1>5. Listed' = Listed \cup {d}
  <2>1. Listed' \subseteq Listed \cup {d}
    BY <1>2, <1>3 DEF Listed, Range
  <2>2. Listed \subseteq Listed'
    <3> SUFFICES ASSUME NEW i \in DOMAIN list PROVE list[i] \in Listed'
      BY DEF Listed, Range
    <3>1. i + 1 \in DOMAIN list' /\ list'[i + 1] = list[i] BY <1>2 DEF ListInv
    <3> QED BY <3>1 DEF Listed, Range
  <2>3. d \in Listed' BY <1>2 DEF Listed, Range
  <2> QED BY <2>1, <2>2, <2>3
<1>6. LookupInv'
  <2>1. CASE FreeSlots = {} BY <1>1, <1>5, <2>1 DEF LookupInv
  <2>2. CASE FreeSlots # {}
    <3>1. slot \in FreeSlots
      <4>1. FreeSlots \subseteq Nat BY DEF FreeSlots, Slots
      <4>2. \E i \in FreeSlots : \A j \in FreeSlots : i <= j
        BY <2>2, <4>1, LeastOne
      <4> QED BY <4>2
    <3> HIDE DEF slot
    <3>2. slot \in Slots BY <3>1 DEF FreeSlots
    <3>3. lookup' \in [Slots -> Descr \cup {NONE}]
      BY <1>1, <2>2, <3>2 DEF LookupInv
    <3>4. \A i \in Slots : lookup'[i] = IF i = slot THEN d ELSE lookup[i]
      BY <1>1, <2>2, <3>2 DEF LookupInv
    <3>5. \A i \in Slots : lookup[i] # d
      <4>1. d # NONE BY ConstantAssumption DEF Descr
      <4> QED BY <1>1, <4>1 DEF LookupInv
    <3> QED BY <1>5, <3>3, <3>4, <3>5 DEF LookupInv
  <2> QED BY <2>1, <2>2
<1>7. LoopInv' BY <1>1, <1>5 DEF LoopInv
<1>8. StackInv' BY <1>1, SameStack
<1>9. ConnInv'
  <2> DEFINE new == [Closed EXCEPT !.booted =
                       IF FreeSlots = {} THEN 1 ELSE 0]
             c == [conn EXCEPT ![d] = new]
  <2>1. new \in Conn
    <3>1. Closed \in Conn BY ConstantAssumption DEF Closed, Conn
    <3> QED BY <3>1 DEF Conn
  <2>2. c \in [Descr -> Conn] BY <2>1 DEF ConnInv
  <2>3. conn' = c \/ \E e \in Listed : conn' = [conn EXCEPT ![d] = new,
                                                            ![e].booted = 1]
    BY DEF Accept
  <2>4. \A e \in Listed : [conn EXCEPT ![d] = new, ![e].booted = 1]
                             = [c EXCEPT ![e].booted = 1]
    OBVIOUS
  <2> HIDE DEF c, new
  <2>5. \A e \in Listed : [c EXCEPT ![e].booted = 1] \in [Descr -> Conn]
    BY <2>2, FieldTypes
  <2>6. CASE conn' = c BY <2>2, <2>6 DEF ConnInv
  <2>7. ASSUME NEW e \in Listed, conn' = [conn EXCEPT ![d] = new, ![e].booted = 1]
        PROVE  ConnInv'
    <3>1. conn' = [c EXCEPT ![e].booted = 1] BY <2>4, <2>7
    <3> QED BY <2>5, <3>1 DEF ConnInv
  <2> QED BY <2>3, <2>6, <2>7
<1> QED BY <1>2, <1>4, <1>6, <1>7, <1>8, <1>9 DEF ListInv

\* What the network does to a connection.
LEMMA NetworkSteps ==
  ASSUME IInv, NEW d \in Descr, Network(d)
  PROVE  IInv'
<1> USE DEF IInv
<1>1. CASE Accept(d) BY <1>1, AcceptStep
<1>2. CASE HearLine(d) \/ Drop(d)
  <2>1. UNCHANGED <<list, lookup, phase, at, dnext, stack>>
    BY <1>2 DEF HearLine, Drop, tables, loop
  <2>2. CASE HearLine(d)
    <3> DEFINE n == conn[d].lines + 1
    <3>1. n \in 0..MaxLines
      BY <2>2, ConstantAssumption DEF HearLine, ConnInv, Conn
    <3>2. conn' = [conn EXCEPT ![d].lines = n] BY <2>2 DEF HearLine
    <3> HIDE DEF n
    <3> QED BY <2>1, <3>1, <3>2, FieldTypes, SameTables, SameLoop, SameStack
          DEF ConnInv
  <2>3. CASE Drop(d)
    <3>1. ConnInv' BY <2>3, FieldTypes DEF Drop, ConnInv
    <3> QED BY <2>1, <3>1, SameTables, SameLoop, SameStack
  <2> QED BY <1>2, <2>2, <2>3
<1>3. CASE Announce(d)
  <2>1. /\ UNCHANGED <<list, lookup, phase, at, dnext, conn>>
        /\ phase = "read" /\ at = d /\ Push(Call("idle", d, NONE))
    BY <1>3 DEF Announce, tables, loop
  <2>2. d \in Listed \cup {NONE} BY <2>1 DEF LoopInv
  <2>3. Call("idle", d, NONE) \in Calls BY DEF Call, Calls
  <2>4. /\ Call("idle", d, NONE).d = d /\ Call("idle", d, NONE).fn # "close"
        /\ phase # "select"
    BY <2>1 DEF Call
  <2>5. StackInv' BY <2>1, <2>2, <2>3, <2>4, Pushed
  <2>6. ConnInv' BY <2>1 DEF ConnInv
  <2> QED BY <2>1, <2>5, <2>6, SameTables, SameLoop
<1> QED BY <1>1, <1>2, <1>3 DEF Network

\* What a running program does to connections: none is closed by it.
LEMMA ProgramSteps ==
  ASSUME IInv, Program
  PROVE  IInv'
<1> USE DEF IInv
<1>1. ASSUME NEW d \in Descr, NEW p \in MovedTo \cup {NONE}, SetUser(d, p)
      PROVE  IInv'
  <2>1. /\ UNCHANGED <<list, lookup, phase, at, dnext>> /\ d \in Listed
        /\ Running /\ Detach(d, conn) /\ Push(Call("set", d, p))
    BY <1>1 DEF SetUser, loop
  <2>2. ConnInv' BY <2>1, FieldTypes DEF Detach, ConnInv
  <2>3. /\ Call("set", d, p) \in Calls /\ Call("set", d, p).d = d
        /\ Call("set", d, p).fn # "close"
    BY ConstantAssumption DEF Call, Calls
  <2>4. phase # "select" BY <2>1 DEF StackInv, Running
  <2>5. StackInv' BY <2>1, <2>3, <2>4, Pushed
  <2> QED BY <2>1, <2>2, <2>5, SameTables, SameLoop
<1>2. ASSUME UNCHANGED <<list, lookup, phase, at, dnext, stack>>, ConnInv'
      PROVE  IInv'
  BY <1>2, SameTables, SameLoop, SameStack
<1>3. ASSUME NEW i \in DOMAIN table, CountBoot(i) PROVE IInv'
  <2>1. ConnInv' BY <1>3, FieldTypes DEF CountBoot, ConnInv
  <2> QED BY <1>2, <1>3, <2>1 DEF CountBoot, tables, loop
<1>4. ASSUME NEW d \in Descr, DescrBoot(d) PROVE IInv'
  <2>1. ConnInv' BY <1>4, FieldTypes DEF DescrBoot, ConnInv
  <2> QED BY <1>2, <1>4, <2>1 DEF DescrBoot, tables, loop
<1>5. ASSUME NEW d \in Descr, DescrForce(d) PROVE IInv'
  <2> DEFINE n == conn[d].lines + 1
  <2>1. n \in 0..MaxLines
    BY <1>5, ConstantAssumption DEF DescrForce, ConnInv, Conn
  <2>2. conn' = [conn EXCEPT ![d].lines = n] BY <1>5 DEF DescrForce
  <2> HIDE DEF n
  <2>3. ConnInv' BY <2>1, <2>2, FieldTypes DEF ConnInv
  <2> QED BY <1>2, <1>5, <2>3 DEF DescrForce, tables, loop
<1>6. ASSUME NEW p \in Players, BootOff(p) PROVE IInv'
  <2>1. PICK i \in DOMAIN list : conn' = [conn EXCEPT ![list[i]].booted = 1]
    BY <1>6 DEF BootOff
  <2>2. ConnInv' BY <2>1, FieldTypes DEF ConnInv
  <2> QED BY <1>2, <1>6, <2>2 DEF BootOff, tables, loop
<1>7. ASSUME NEW p \in Players, KeepOne(p) PROVE IInv'
  <2>1. \A d \in Descr : [conn[d] EXCEPT !.booted = 1] \in Conn
    BY DEF ConnInv, Conn
  <2>2. ConnInv' BY <1>7, <2>1 DEF KeepOne, ConnInv
  <2> QED BY <1>2, <1>7, <2>2 DEF KeepOne, tables, loop
<1>8. ASSUME NEW p \in Players, Frob(p) PROVE IInv'
  <2>1. PICK cut :
          conn' = [d \in Descr |->
                     IF d \in cut
                     THEN [conn[d] EXCEPT !.connected = FALSE, !.player = NONE,
                                          !.booted = IF @ = 0 THEN 1 ELSE @]
                     ELSE conn[d]]
    BY <1>8 DEF Frob
  <2>2. \A d \in Descr :
          [conn[d] EXCEPT !.connected = FALSE, !.player = NONE,
                          !.booted = IF @ = 0 THEN 1 ELSE @] \in Conn
    BY ZenonT(30) DEF ConnInv, Conn
  <2>3. ConnInv' BY <2>1, <2>2 DEF ConnInv
  <2> QED BY <1>2, <1>8, <2>3 DEF Frob, loop
<1> QED BY <1>1, <1>3, <1>4, <1>5, <1>6, <1>7, <1>8 DEF Program

\* A call returns, and what comes after it in the code is done.
LEMMA ReturnSteps ==
  ASSUME IInv, Returns
  PROVE  IInv'
<1> USE DEF IInv
<1>1. Top \in Calls /\ Top.d \in Listed \cup {NONE} /\ Running
  BY TopCall DEF Returns, Return, LoginDone, SetUserDone, WebDone, CloseDone
<1>2. CASE Return
  <2>1. ConnInv' BY <1>2 DEF Return, ConnInv
  <2> QED BY <1>1, <1>2, <2>1, SameTables, SameLoop, Popped
        DEF Return, tables, loop
<1>3. CASE LoginDone
  <2>1. UNCHANGED conn \/ \E d \in Unbooted(Top.who) :
                            conn' = [conn EXCEPT ![d].booted = 1]
    BY <1>3 DEF LoginDone
  <2>2. ConnInv'
    <3>1. CASE UNCHANGED conn BY <3>1 DEF ConnInv
    <3>2. ASSUME NEW d, conn' = [conn EXCEPT ![d].booted = 1] PROVE ConnInv'
      BY <3>2, FieldTypes DEF ConnInv
    <3> QED BY <2>1, <3>1, <3>2
  <2> QED BY <1>1, <1>3, <2>2, SameTables, SameLoop, Popped
        DEF LoginDone, tables, loop
<1>4. CASE SetUserDone
  <2>1. UNCHANGED <<list, lookup, phase, at, dnext>>
    BY <1>4 DEF SetUserDone, loop
  <2>2. CASE Top.who = NONE
    <3>1. Pop /\ conn' = conn BY <1>4, <2>2 DEF SetUserDone
    <3> QED BY <1>1, <2>1, <3>1, SameTables, SameLoop, Popped DEF ConnInv
  <2>3. CASE Top.who # NONE
    <3> DEFINE c == Call("greet", Top.d, Top.who)
    <3>1. c \in Calls /\ c.d = Top.d /\ c.fn = "greet"
      BY <1>1 DEF Call, Calls
    <3>2. Attach(Top.d, Top.who, conn, descrs) /\ stack' = Front(stack) \o <<c>>
      BY <1>4, <2>3 DEF SetUserDone
    <3>3. Top.who \in Players BY <1>1, <2>3 DEF Calls
    <3>4. ConnInv' BY <3>2, <3>3, FieldTypes DEF Attach, ConnInv
    <3>5. StackInv'
      <4> DEFINE f == Front(stack)
      <4>1. /\ f \in Seq(Calls) /\ DOMAIN f \subseteq DOMAIN stack
            /\ \A i \in DOMAIN f : f[i] = stack[i]
        BY <1>1, FrontCalls DEF StackInv, Running
      <4>2. stack' = f \o <<c>> BY <3>2
      <4> HIDE DEF f, c
      <4>3. /\ stack' \in Seq(Calls) /\ DOMAIN stack' = 1..(Len(f) + 1)
            /\ \A i \in DOMAIN f : stack'[i] = f[i]
            /\ stack'[Len(f) + 1] = c
        BY <3>1, <4>1, <4>2
      <4>4. \A i \in DOMAIN stack' : i \in DOMAIN f \/ stack'[i] = c
        BY <4>1, <4>3
      <4>5. Listed' = Listed BY <2>1 DEF Listed
      <4>6. phase' # "select" BY <1>1, <2>1 DEF StackInv, Running
      <4> QED BY <1>1, <2>1, <3>1, <4>1, <4>3, <4>4, <4>5, <4>6 DEF StackInv
    <3> QED BY <2>1, <3>4, <3>5, SameTables, SameLoop
  <2> QED BY <2>2, <2>3
<1>5. CASE WebDone
  <2> DEFINE b == Answered(conn[Top.d].booted)
             c == [conn EXCEPT ![Top.d].booted = b]
  <2>1. c \in [Descr -> Conn]
    <3>1. CASE Top.d \in Descr
      <4>1. b \in {0, 1, 3} BY <3>1 DEF Answered, ConnInv, Conn
      <4> QED BY <4>1, FieldTypes DEF ConnInv
    <3>2. CASE Top.d \notin Descr BY <3>2 DEF ConnInv
    <3> QED BY <3>1, <3>2
  <2>2. Detach(Top.d, c) BY <1>5 DEF WebDone
  <2> HIDE DEF c
  <2>3. ConnInv' BY <2>1, <2>2, FieldTypes DEF Detach, ConnInv
  <2> QED BY <1>1, <1>5, <2>3, SameTables, SameLoop, Popped DEF WebDone, loop
<1>6. CASE CloseDone
  <2>1. /\ Freed(Top.d) /\ NextOne(list') /\ Pop /\ phase' = phase
        /\ Top.fn = "close"
    BY <1>6 DEF CloseDone
  <2>2. /\ Len(stack) = 1 /\ phase = "boots" /\ Top.d = at /\ at # NONE
    <3>1. Len(stack) \in DOMAIN stack BY <1>1 DEF StackInv, Running
    <3> QED BY <2>1, <3>1 DEF StackInv, Top, Last
  <2>3. at \in Listed \cup {NONE} BY DEF LoopInv
  <2>4. stack' = <<>>
    <3>1. Len(Front(stack)) = 0 /\ Front(stack) \in Seq(Calls)
      BY <1>1, <2>2, FrontCalls DEF StackInv, Running
    <3> QED BY <2>1, <3>1 DEF Pop
  <2>5. at # NONE BY <2>2
  <2>6. dnext \in Listed \cup {NONE} /\ dnext # at
    <3>1. dnext = Following(list, at) BY <2>5 DEF LoopInv
    <3> QED BY <2>5, <3>1, FollowingListed DEF LoopInv, ListInv, Listed
  <2>7. ListInv' /\ LookupInv' /\ ConnInv' /\ Listed' = Listed \ {at}
    BY <2>1, <2>2, <2>3, <2>5, FreedTables
  <2>8. LoopInv' BY <2>1, <2>2, <2>6, <2>7, LoopGoesOn DEF NextOne, LoopInv
  <2>9. StackInv' BY <2>4 DEF StackInv
  <2> QED BY <2>7, <2>8, <2>9
<1> QED BY <1>2, <1>3, <1>4, <1>5, <1>6 DEF Returns

-----------------------------------------------------------------------------
(* The theorem. *)

\* The invariant holds when the server starts.
LEMMA InitIInv == Init => IInv
<1> SUFFICES ASSUME Init PROVE IInv
  OBVIOUS
<1>1. ListInv BY DEF Init, ListInv, IsInjective
<1>2. LookupInv BY DEF Init, LookupInv
<1>3. LoopInv BY DEF Init, LoopInv, Phase
<1>4. StackInv BY DEF Init, StackInv
<1>5. ConnInv
  <2>1. Closed \in Conn BY ConstantAssumption DEF Closed, Conn
  <2> QED BY <2>1 DEF Init, ConnInv
<1> QED BY <1>1, <1>2, <1>3, <1>4, <1>5 DEF IInv

\* Every step keeps the invariant.
LEMMA NextIInv == IInv /\ [Next]_vars => IInv'
<1> SUFFICES ASSUME IInv, [Next]_vars PROVE IInv'
  OBVIOUS
<1>1. CASE LoopStep BY <1>1, LoopSteps
<1>2. CASE Event
  <2>1. /\ UNCHANGED <<list, lookup, phase, at, dnext, conn>>
        /\ phase = "events" /\ Push(Call("event", NONE, NONE))
    BY <1>2 DEF Event, tables, loop
  <2>2. /\ Call("event", NONE, NONE) \in Calls
        /\ Call("event", NONE, NONE).d = NONE
        /\ Call("event", NONE, NONE).fn # "close" /\ phase # "select"
    BY <2>1 DEF Call, Calls
  <2>3. StackInv' BY <2>1, <2>2, Pushed DEF IInv
  <2>4. ConnInv' BY <2>1 DEF IInv, ConnInv
  <2> QED BY <2>1, <2>3, <2>4, SameTables, SameLoop DEF IInv
<1>3. CASE Program BY <1>3, ProgramSteps
<1>4. CASE Returns BY <1>4, ReturnSteps
<1>5. ASSUME NEW d \in Descr, Line(d) \/ Network(d) PROVE IInv'
  BY <1>5, LineSteps, NetworkSteps
<1>6. CASE UNCHANGED vars
  <2>1. UNCHANGED <<list, lookup, phase, at, dnext, conn, stack>>
    BY <1>6 DEF vars, tables, loop
  <2>2. ConnInv' BY <2>1 DEF IInv, ConnInv
  <2> QED BY <2>1, <2>2, SameTables, SameLoop, SameStack DEF IInv
<1> QED BY <1>1, <1>2, <1>3, <1>4, <1>5, <1>6 DEF Next

\* No pointer outlives its descriptor: shutdownsock frees a descriptor only
\* when the lookup table, the loops and the calls in progress have let go of
\* it, however the calls are nested and however many connections there are.
THEOREM PointersLive == Spec => []NoDangling
<1>1. Init => IInv BY InitIInv
<1>2. IInv /\ [Next]_vars => IInv' BY NextIInv
<1>3. IInv => NoDangling
  BY DEF IInv, ListInv, LookupInv, LoopInv, StackInv, NoDangling
<1> QED BY <1>1, <1>2, <1>3, PTL DEF Spec

=============================================================================
