--------------------------- MODULE TimequeueProofs ---------------------------
(***************************************************************************)
(* Proofs about Timequeue, for every value of its constants.               *)
(***************************************************************************)
EXTENDS Timequeue, FiniteSetTheorems, SequenceTheorems, TLAPS

\* The part of the invariant that is about the list alone.
Shape(e) == /\ e.fr = IF e.kind \in {"DELAY", "READ"} THEN e.eventnum ELSE 0
            /\ e.kind # "MPI" => e.prog \in Programs
Distinct ==
  \A i, j \in DOMAIN queue : queue[i].eventnum = queue[j].eventnum => i = j
Shapes == \A i \in DOMAIN queue : Shape(queue[i])
QInv == queue \in Seq(Event) /\ Distinct /\ Shapes /\ QueueOrder

-----------------------------------------------------------------------------
(* The list operations. *)

\* Linking an event at its place keeps the list in order.
LEMMA Inserted ==
  ASSUME QInv, NEW e \in Event, Shape(e), e.eventnum \notin Queued,
         NEW k \in 0..Len(queue), Place(e, k), queue' = Linked(e, k)
  PROVE  /\ QInv'
         /\ Queued' = Queued \cup {e.eventnum}
         /\ Held' = Held \cup ({e.fr} \ {0})
<1> DEFINE n == Len(queue)
<1>1. n \in Nat /\ DOMAIN queue = 1..n /\ \A i \in 1..n : queue[i] \in Event
  BY DEF QInv
<1>2. /\ queue' \in Seq(Event) /\ DOMAIN queue' = 1..(n + 1)
      /\ \A i \in 1..(n + 1) : queue'[i] =
           IF i <= k THEN queue[i] ELSE IF i = k + 1 THEN e ELSE queue[i - 1]
  BY <1>1 DEF Linked
<1> DEFINE pos(i) == IF i <= k THEN i ELSE i + 1
<1>3. \A i \in 1..n : pos(i) \in 1..(n + 1) /\ queue'[pos(i)] = queue[i]
  BY <1>1, <1>2
<1>4. k + 1 \in 1..(n + 1) /\ queue'[k + 1] = e
  BY <1>1, <1>2
<1>5. \A j \in 1..(n + 1) : j = k + 1 \/ \E i \in 1..n : j = pos(i)
  <2> SUFFICES ASSUME NEW j \in 1..(n + 1), j # k + 1
               PROVE  \E i \in 1..n : j = pos(i)
    OBVIOUS
  <2>1. CASE j <= k
    <3>1. j \in 1..n /\ j = pos(j) BY <1>1, <2>1
    <3> QED BY <3>1
  <2>2. CASE j > k
    <3>1. j - 1 \in 1..n /\ j = pos(j - 1) BY <1>1, <2>2
    <3> QED BY <3>1
  <2> QED BY <1>1, <2>1, <2>2
<1> HIDE DEF pos
<1>6. \A j \in 1..(n + 1) : queue'[j] = e \/ \E i \in 1..n : queue'[j] = queue[i]
  BY <1>3, <1>4, <1>5
<1>7. Queued' = Queued \cup {e.eventnum}
  <2>1. Queued' \subseteq Queued \cup {e.eventnum}
    BY <1>1, <1>2, <1>6 DEF Queued
  <2>2. Queued \cup {e.eventnum} \subseteq Queued'
    BY <1>1, <1>2, <1>3, <1>4 DEF Queued
  <2> QED BY <2>1, <2>2
<1>8. Held' = Held \cup ({e.fr} \ {0})
  <2>1. Held' \subseteq Held \cup ({e.fr} \ {0})
    <3> SUFFICES ASSUME NEW j \in 1..(n + 1), queue'[j].fr # 0
                 PROVE  queue'[j].fr \in Held \cup ({e.fr} \ {0})
      BY <1>2 DEF Held
    <3> QED BY <1>1, <1>6 DEF Held
  <2>2. Held \cup ({e.fr} \ {0}) \subseteq Held'
    <3>1. \A i \in 1..n : queue[i].fr # 0 => queue[i].fr \in Held'
      BY <1>2, <1>3 DEF Held
    <3>2. e.fr # 0 => e.fr \in Held'
      BY <1>2, <1>4 DEF Held
    <3> QED BY <1>1, <3>1, <3>2 DEF Held
  <2> QED BY <2>1, <2>2
<1>9. Shapes'
  BY <1>1, <1>2, <1>6 DEF Shapes, QInv
<1>10. Distinct'
  <2> SUFFICES ASSUME NEW i \in 1..(n + 1), NEW j \in 1..(n + 1),
                      queue'[i].eventnum = queue'[j].eventnum
               PROVE  i = j
    BY <1>2 DEF Distinct
  <2>1. \A m \in 1..n : queue[m].eventnum # e.eventnum
    BY <1>1 DEF Queued
  <2>2. \A h \in 1..(n + 1) : h # k + 1 => queue'[h].eventnum # e.eventnum
    BY <1>3, <1>5, <2>1
  <2>3. CASE i # k + 1 /\ j # k + 1
    <3>1. PICK a \in 1..n : i = pos(a) BY <1>5, <2>3
    <3>2. PICK b \in 1..n : j = pos(b) BY <1>5, <2>3
    <3>3. a = b BY <1>1, <1>3, <3>1, <3>2 DEF QInv, Distinct
    <3> QED BY <3>1, <3>2, <3>3
  <2> QED BY <1>4, <2>2, <2>3
<1>11. QueueOrder'
  <2> SUFFICES ASSUME NEW i \in 1..(n + 1), NEW j \in 1..(n + 1), i < j
               PROVE  /\ IsRead(queue'[i]) => IsRead(queue'[j])
                      /\ ~IsRead(queue'[j]) => queue'[i].when <= queue'[j].when
    BY <1>2 DEF QueueOrder, IsRead
  <2>1. \A a, b \in 1..n : a < b =>
          /\ IsRead(queue[a]) => IsRead(queue[b])
          /\ ~IsRead(queue[b]) => queue[a].when <= queue[b].when
    BY <1>1 DEF QInv, QueueOrder
  <2>2. CASE IsRead(e)
    <3>1. k = n BY <2>2 DEF Place
    <3>2. i \in 1..n /\ queue'[i] = queue[i] BY <1>1, <1>2, <3>1
    <3>3. CASE j = n + 1
      BY <1>2, <2>2, <3>1, <3>3 DEF IsRead
    <3>4. CASE j # n + 1
      <4>1. j \in 1..n /\ queue'[j] = queue[j] BY <1>1, <1>2, <3>1, <3>4
      <4> QED BY <2>1, <3>2, <4>1
    <3> QED BY <3>3, <3>4
  <2>3. CASE ~IsRead(e)
    <3>1. /\ \A a \in 1..k : ~IsRead(queue[a]) /\ queue[a].when <= e.when
          /\ k < n => (IsRead(queue[k + 1]) \/ ~(queue[k + 1].when <= e.when))
      BY <2>3 DEF Place, Before
    <3>2. \A b \in 1..n : b > k => (IsRead(queue[b]) \/ e.when <= queue[b].when)
      <4> SUFFICES ASSUME NEW b \in 1..n, b > k, ~IsRead(queue[b])
                   PROVE  e.when <= queue[b].when
        OBVIOUS
      <4>1. k + 1 \in 1..n /\ k < n BY <1>1
      <4>2. ~IsRead(queue[k + 1]) BY <1>1, <2>1, <4>1
      <4>3. /\ e.when \in Int /\ queue[k + 1].when \in Int
            /\ queue[b].when \in Int
        BY <1>1, <4>1 DEF Event
      <4>4. e.when <= queue[k + 1].when BY <3>1, <4>1, <4>2, <4>3
      <4>5. queue[k + 1].when <= queue[b].when BY <1>1, <2>1, <4>1, <4>3
      <4> QED BY <4>3, <4>4, <4>5
    <3>3. CASE j <= k
      <4>1. /\ i \in 1..n /\ queue'[i] = queue[i]
            /\ j \in 1..n /\ queue'[j] = queue[j]
        BY <1>1, <1>2, <3>3
      <4> QED BY <2>1, <4>1
    <3>4. CASE j = k + 1
      <4>1. i \in 1..k /\ queue'[i] = queue[i] /\ queue'[j] = e
        BY <1>1, <1>2, <3>4
      <4> QED BY <3>1, <4>1
    <3>5. CASE j > k + 1 /\ i = k + 1
      <4>1. /\ queue'[i] = e
            /\ j - 1 \in 1..n /\ j - 1 > k /\ queue'[j] = queue[j - 1]
        BY <1>1, <1>2, <3>5
      <4> QED BY <2>3, <3>2, <4>1
    <3>6. CASE j > k + 1 /\ i # k + 1
      <4>1. /\ j - 1 \in 1..n /\ queue'[j] = queue[j - 1]
        BY <1>1, <1>2, <3>6
      <4>2. CASE i <= k
        <5>1. i \in 1..n /\ i < j - 1 /\ queue'[i] = queue[i]
          BY <1>1, <1>2, <3>6, <4>2
        <5> QED BY <2>1, <4>1, <5>1
      <4>3. CASE i > k + 1
        <5>1. i - 1 \in 1..n /\ i - 1 < j - 1 /\ queue'[i] = queue[i - 1]
          BY <1>1, <1>2, <3>6, <4>3
        <5> QED BY <2>1, <4>1, <5>1
      <4> QED BY <1>1, <3>6, <4>2, <4>3
    <3> QED BY <1>1, <3>3, <3>4, <3>5, <3>6
  <2> QED BY <2>2, <2>3
<1> QED BY <1>2, <1>7, <1>8, <1>9, <1>10, <1>11 DEF QInv

\* Keeping some nodes in their order keeps the list in order.
LEMMA Kept ==
  ASSUME QInv, NEW m \in Nat, NEW f \in [1..m -> DOMAIN queue],
         \A i, j \in 1..m : i < j => f[i] < f[j],
         queue' = [i \in 1..m |-> queue[f[i]]]
  PROVE  /\ QInv'
         /\ Queued' = {queue[f[i]].eventnum : i \in 1..m}
         /\ Held' = {queue[f[i]].fr : i \in 1..m} \ {0}
<1> DEFINE n == Len(queue)
<1>1. n \in Nat /\ DOMAIN queue = 1..n /\ \A i \in 1..n : queue[i] \in Event
  BY DEF QInv
<1>2. /\ queue' \in Seq(Event) /\ DOMAIN queue' = 1..m
      /\ \A i \in 1..m : f[i] \in 1..n /\ queue'[i] = queue[f[i]]
  BY <1>1
<1>3. Queued' = {queue[f[i]].eventnum : i \in 1..m}
  BY <1>2 DEF Queued
<1>4. Held' = {queue[f[i]].fr : i \in 1..m} \ {0}
  BY <1>2 DEF Held
<1>5. Shapes'
  BY <1>1, <1>2 DEF QInv, Shapes
<1>6. Distinct'
  <2> SUFFICES ASSUME NEW i \in 1..m, NEW j \in 1..m,
                      queue'[i].eventnum = queue'[j].eventnum
               PROVE  i = j
    BY <1>2 DEF Distinct
  <2>1. f[i] = f[j] BY <1>1, <1>2 DEF QInv, Distinct
  <2>2. ~(i < j) /\ ~(j < i)
    <3>1. f[i] \in Nat /\ f[j] \in Nat BY <1>1, <1>2
    <3> QED BY <2>1, <3>1
  <2> QED BY <2>2
<1>7. QueueOrder'
  <2> SUFFICES ASSUME NEW i \in 1..m, NEW j \in 1..m, i < j
               PROVE  /\ IsRead(queue'[i]) => IsRead(queue'[j])
                      /\ ~IsRead(queue'[j]) => queue'[i].when <= queue'[j].when
    BY <1>2 DEF QueueOrder, IsRead
  <2>1. f[i] < f[j] /\ f[i] \in 1..n /\ f[j] \in 1..n BY <1>2
  <2> QED BY <1>1, <1>2, <2>1 DEF QInv, QueueOrder
<1> QED BY <1>2, <1>3, <1>4, <1>5, <1>6, <1>7 DEF QInv

\* Unlinking the nodes at the positions K keeps the list in order.
LEMMA Unlinked ==
  ASSUME QInv, NEW K \in SUBSET (DOMAIN queue), NEW m \in Nat,
         NEW f \in [1..m -> (DOMAIN queue) \ K],
         \A i, j \in 1..m : i < j => f[i] < f[j],
         \A s \in (DOMAIN queue) \ K : \E i \in 1..m : f[i] = s,
         queue' = [i \in 1..m |-> queue[f[i]]]
  PROVE  /\ QInv'
         /\ Queued' = Queued \ {queue[i].eventnum : i \in K}
         /\ Held' = Held \ {queue[i].fr : i \in K}
<1> DEFINE D == DOMAIN queue
<1>1. f \in [1..m -> D] BY DEF D
<1>2. /\ QInv'
      /\ Queued' = {queue[f[i]].eventnum : i \in 1..m}
      /\ Held' = {queue[f[i]].fr : i \in 1..m} \ {0}
  BY <1>1, Kept
<1>3. \A i \in D : queue[i].fr # 0 => queue[i].fr = queue[i].eventnum
  BY DEF QInv, Shapes, Shape
<1>4. \A i, j \in D : queue[i].eventnum = queue[j].eventnum => i = j
  BY DEF QInv, Distinct
<1>5. \A i \in 1..m : f[i] \in D \ K
  OBVIOUS
<1>6. \A s \in D \ K : \E i \in 1..m : f[i] = s
  OBVIOUS
<1>7. Queued = {queue[i].eventnum : i \in D} /\ Held = {queue[i].fr : i \in D} \ {0}
  BY DEF Queued, Held
<1>8. K \subseteq D
  OBVIOUS
<1> HIDE DEF D
<1>9. Queued' = Queued \ {queue[i].eventnum : i \in K}
  <2>1. ASSUME NEW x \in Queued' PROVE x \in Queued \ {queue[i].eventnum : i \in K}
    <3>1. PICK i \in 1..m : x = queue[f[i]].eventnum BY <1>2, <2>1
    <3> QED BY <1>4, <1>5, <1>7, <1>8, <3>1
  <2>2. ASSUME NEW x \in Queued, x \notin {queue[i].eventnum : i \in K}
        PROVE  x \in Queued'
    <3>1. PICK s \in D : x = queue[s].eventnum BY <1>7
    <3>2. PICK i \in 1..m : f[i] = s BY <1>6, <2>2, <3>1
    <3> QED BY <1>2, <3>1, <3>2
  <2> QED BY <2>1, <2>2
<1>10. Held' = Held \ {queue[i].fr : i \in K}
  <2>1. ASSUME NEW x \in Held' PROVE x \in Held \ {queue[i].fr : i \in K}
    <3>1. PICK i \in 1..m : x = queue[f[i]].fr /\ x # 0 BY <1>2, <2>1
    <3>2. \A h \in K : queue[h].fr # x
      BY <1>3, <1>4, <1>5, <1>8, <3>1
    <3> QED BY <1>5, <1>7, <3>1, <3>2
  <2>2. ASSUME NEW x \in Held, x \notin {queue[i].fr : i \in K}
        PROVE  x \in Held'
    <3>1. PICK s \in D : x = queue[s].fr /\ x # 0 BY <1>7
    <3>2. PICK i \in 1..m : f[i] = s BY <1>6, <2>2, <3>1
    <3> QED BY <1>2, <3>1, <3>2
  <2> QED BY <2>1, <2>2
<1> QED BY <1>2, <1>9, <1>10

\* Taking one node off the list.
LEMMA Removed ==
  ASSUME QInv, NEW k \in DOMAIN queue,
         queue' = [j \in 1..(Len(queue) - 1) |->
                     IF j < k THEN queue[j] ELSE queue[j + 1]]
  PROVE  /\ QInv'
         /\ queue[k] \in Event /\ Shape(queue[k])
         /\ Queued' = Queued \ {queue[k].eventnum}
         /\ Held' = Held \ {queue[k].fr}
<1> DEFINE n == Len(queue)
<1>1. /\ n \in Nat \ {0} /\ DOMAIN queue = 1..n /\ k \in 1..n
      /\ queue[k] \in Event /\ Shape(queue[k])
  BY DEF QInv, Shapes
<1> DEFINE m == n - 1
           f == [j \in 1..m |-> IF j < k THEN j ELSE j + 1]
<1>2. m \in Nat /\ f \in [1..m -> (DOMAIN queue) \ {k}]
  BY <1>1
<1>3. \A i, j \in 1..m : i < j => f[i] < f[j]
  BY <1>1
<1>4. queue' = [i \in 1..m |-> queue[f[i]]]
  BY <1>1
<1>5. \A s \in (DOMAIN queue) \ {k} : \E i \in 1..m : f[i] = s
  <2> SUFFICES ASSUME NEW s \in 1..n, s # k
               PROVE  \E i \in 1..m : f[i] = s
    BY <1>1
  <2>1. CASE s < k
    <3>1. s \in 1..m /\ f[s] = s BY <1>1, <2>1
    <3> QED BY <3>1
  <2>2. CASE s > k
    <3>1. s - 1 \in 1..m /\ f[s - 1] = s BY <1>1, <2>2
    <3> QED BY <3>1
  <2> QED BY <1>1, <2>1, <2>2
<1> HIDE DEF f, m
<1>6. {k} \in SUBSET (DOMAIN queue)
  OBVIOUS
<1>7. /\ QInv'
      /\ Queued' = Queued \ {queue[i].eventnum : i \in {k}}
      /\ Held' = Held \ {queue[i].fr : i \in {k}}
  BY ZenonT(30), <1>2, <1>3, <1>4, <1>5, <1>6, Unlinked
<1> QED BY <1>1, <1>7

\* Taking the first node off the list.
LEMMA Popped ==
  ASSUME QInv, queue # <<>>, queue' = Tail(queue)
  PROVE  /\ QInv'
         /\ Head(queue) = queue[1] /\ queue[1] \in Event /\ Shape(queue[1])
         /\ Queued' = Queued \ {queue[1].eventnum}
         /\ Held' = Held \ {queue[1].fr}
<1>1. /\ Len(queue) \in Nat \ {0} /\ 1 \in DOMAIN queue
      /\ Head(queue) = queue[1]
  BY DEF QInv
<1>2. Tail(queue) = [j \in 1..(Len(queue) - 1) |->
                       IF j < 1 THEN queue[j] ELSE queue[j + 1]]
  <2>1. /\ Tail(queue) \in Seq(Event) /\ Len(Tail(queue)) = Len(queue) - 1
        /\ \A j \in 1..(Len(queue) - 1) : Tail(queue)[j] = queue[j + 1]
    BY HeadTailProperties DEF QInv
  <2> DEFINE t == Tail(queue)
  <2>2. /\ t \in Seq(Event) /\ Len(t) = Len(queue) - 1
        /\ \A j \in 1..(Len(queue) - 1) : t[j] = queue[j + 1] /\ ~(j < 1)
    BY <1>1, <2>1
  <2> HIDE DEF t
  <2>3. t = [j \in 1..(Len(queue) - 1) |->
               IF j < 1 THEN queue[j] ELSE queue[j + 1]]
    BY <1>1, <2>2
  <2> QED BY <2>3 DEF t
<1> QED BY <1>1, <1>2, Removed

-----------------------------------------------------------------------------
(* Counting and freeing. *)

\* The counts the limits are tested with are numbers.
LEMMA CountsNat ==
  ASSUME queue \in Seq(Event)
  PROVE  /\ \A g, F : Uses(g, F) \in Nat
         /\ \A K \in SUBSET (DOMAIN queue) :
              IsFiniteSet(K) /\ Cardinality(K) \in Nat
<1>1. IsFiniteSet(Pid \X (1..MaxCall))
  <2>1. IsFiniteSet(Pid) /\ IsFiniteSet(1..MaxCall)
    BY ConstantAssumption, FS_Interval DEF Pid
  <2> QED BY <2>1, FS_Product
<1>2. ASSUME NEW g, NEW F PROVE Uses(g, F) \in Nat
  <2> DEFINE S == {fd \in (F \cap Live) \X (1..MaxCall) :
                     /\ fd[2] <= Len(frames[fd[1]].caller)
                     /\ frames[fd[1]].caller[fd[2]] = g}
  <2>1. S \subseteq Pid \X (1..MaxCall) BY DEF Live
  <2>2. IsFiniteSet(S) BY <1>1, <2>1, FS_Subset
  <2>3. Cardinality(S) \in Nat BY <2>2, FS_CardinalityType
  <2> QED BY <2>3 DEF Uses
<1>3. ASSUME NEW K \in SUBSET (DOMAIN queue)
      PROVE  IsFiniteSet(K) /\ Cardinality(K) \in Nat
  <2>1. Len(queue) \in Nat /\ DOMAIN queue = 1..Len(queue) OBVIOUS
  <2>2. IsFiniteSet(1..Len(queue)) BY <2>1, FS_Interval
  <2>3. IsFiniteSet(K) BY <2>1, <2>2, FS_Subset
  <2> QED BY <2>3, FS_CardinalityType
<1> QED BY <1>2, <1>3

\* The parts of the invariant: the list is QInv's; the frames are FInv's; the
\* other variables have their types.
FInv ==
  /\ frames \in [Pid -> Frame \cup {NoFrame}]
  /\ cur # 0 => cur \in Live \ Queued
  /\ Live \ {cur} = Held
  /\ \A n \in Queued \cup Live : n < top_pid
  /\ \A f \in Live : frames[f].caller # <<>>
TypeRest ==
  /\ process_count \in Int
  /\ top_pid \in 1..(MaxPid + 1)
  /\ instances \in [Programs -> Int]
  /\ compiled \in [Programs -> BOOLEAN]
  /\ block \in [Players -> BOOLEAN]
  /\ interactive \in [Players -> BOOLEAN]
  /\ now \in 1..MaxNow
  /\ pc \in {"idle", "pass", "start", "run", "abort", "mpi", "ret"}
  /\ by \in {"cmd", "event", "read"}
  /\ cur \in Pid \cup {0}
  /\ writeonly \in BOOLEAN
  /\ pass \in [last : Pid \cup {0}, runs : 0..MaxRuns,
               uid : Players \cup {NOTHING}, keep : BOOLEAN, bl : BOOLEAN]
  /\ rd \in [uid : Players \cup {NOTHING}, ptr : Pid \cup {0}]

\* The inductive invariant, taken apart into what concerns the list, the
\* frames, control and the remaining variables.
LEMMA Parts ==
  IInv => QInv /\ FInv /\ Control /\ TypeRest
<1> SUFFICES ASSUME IInv PROVE QInv /\ FInv /\ Control /\ TypeRest
  OBVIOUS
<1>1. QInv
  BY DEF IInv, TypeOK, QInv, Distinct, Shapes, Shape, FramesOwned, Numbers
<1>2. FInv
  BY DEF IInv, TypeOK, FInv, FramesOwned, Numbers, Queued
<1> QED BY <1>1, <1>2 DEF IInv, TypeOK, TypeRest

\* ... and put together again.
LEMMA Whole ==
  QInv' /\ FInv' /\ Control' /\ TypeRest' => IInv'
<1> SUFFICES ASSUME QInv', FInv', Control', TypeRest' PROVE IInv'
  OBVIOUS
<1>1. TypeOK'
  BY DEF QInv, FInv, TypeRest, TypeOK
<1>2. FramesOwned'
  BY DEF QInv, FInv, FramesOwned, Distinct, Shapes, Shape
<1>3. Numbers'
  BY DEF QInv, FInv, Numbers, Shapes, Shape, Queued
<1> QED BY <1>1, <1>2, <1>3 DEF IInv, QInv

\* A frame in use is never mistaken for a freed one.
LEMMA FrameLive ==
  \A r \in Frame : r # NoFrame
BY DEF Frame, NoFrame, Mode

\* What a frame in use holds.
LEMMA FramesTyped ==
  ASSUME FInv, NEW f \in Live
  PROVE  frames[f] \in Frame /\ frames[f].writeonly \in BOOLEAN
BY DEF FInv, Live, Frame

\* prog_clean frees exactly the frames it is given.
LEMMA Cleaned ==
  ASSUME NEW F, NEW fs \in [Pid -> Frame \cup {NoFrame}],
         NEW inst \in [Programs -> Int], queue \in Seq(Event),
         Clean(F, fs, inst)
  PROVE  /\ frames' \in [Pid -> Frame \cup {NoFrame}]
         /\ instances' \in [Programs -> Int]
         /\ Live' = {f \in Pid : fs[f] # NoFrame} \ F
         /\ \A f \in Live' : frames'[f] = fs[f]
BY CountsNat DEF Clean, Live

\* Killing the processes at the positions K: their nodes and their frames go
\* together.  fs is what the rest of the handler makes of the frames.
LEMMA UnlinkStep ==
  ASSUME QInv, FInv, TypeRest,
         NEW K \in SUBSET (DOMAIN queue),
         NEW fs \in [Pid -> Frame \cup {NoFrame}],
         \A f \in Pid : fs[f] = NoFrame <=> frames[f] = NoFrame,
         \A f \in Live : fs[f].caller # <<>>,
         NEW inst \in [Programs -> Int],
         Unlink(K, fs, inst), UNCHANGED <<top_pid, cur>>
  PROVE  /\ QInv' /\ FInv'
         /\ instances' \in [Programs -> Int]
         /\ interactive' \in [Players -> BOOLEAN]
<1> DEFINE m == Cardinality((DOMAIN queue) \ K)
<1>1. m \in Nat
  BY CountsNat DEF QInv
<1>2. PICK f \in Increasing((DOMAIN queue) \ K) :
        queue' = [i \in DOMAIN f |-> queue[f[i]]]
  BY DEF Unlink
<1>3. /\ f \in [1..m -> (DOMAIN queue) \ K]
      /\ \A i, j \in 1..m : i < j => f[i] < f[j]
      /\ \A s \in (DOMAIN queue) \ K : \E i \in 1..m : f[i] = s
      /\ queue' = [i \in 1..m |-> queue[f[i]]]
  BY <1>2 DEF Increasing
<1> HIDE DEF m
<1>4. /\ QInv'
      /\ Queued' = Queued \ {queue[i].eventnum : i \in K}
      /\ Held' = Held \ {queue[i].fr : i \in K}
  BY ZenonT(30), <1>1, <1>3, Unlinked
<1>5. /\ frames' \in [Pid -> Frame \cup {NoFrame}]
      /\ instances' \in [Programs -> Int]
      /\ Live' = {h \in Pid : fs[h] # NoFrame} \ FramesAt(K)
      /\ \A h \in Live' : frames'[h] = fs[h]
  BY Cleaned DEF Unlink, QInv
<1>6. Live' = Live \ FramesAt(K)
  BY <1>5 DEF Live
<1>7. interactive' \in [Players -> BOOLEAN]
  BY DEF Unlink
<1>8. FramesAt(K) \subseteq Held
  BY DEF FramesAt, Held
<1>9. Live' \ {cur'} = Held'
  <2>1. 0 \notin Held BY DEF Held
  <2>2. Held' = Held \ FramesAt(K) BY <1>4, <2>1 DEF FramesAt
  <2> QED BY <1>6, <2>2 DEF FInv
<1>10. cur' # 0 => cur' \in Live' \ Queued'
  BY <1>4, <1>6, <1>8 DEF FInv
<1>11. \A n \in Queued' \cup Live' : n < top_pid'
  BY <1>4, <1>6 DEF FInv
<1>12. \A h \in Live' : frames'[h].caller # <<>>
  BY <1>5, <1>6
<1> QED BY <1>4, <1>5, <1>7, <1>9, <1>10, <1>11, <1>12 DEF FInv

\* The usual case: the handler leaves the frames that survive as they are.
LEMMA KillStep ==
  ASSUME QInv, FInv, TypeRest,
         NEW K \in SUBSET (DOMAIN queue),
         Unlink(K, frames, instances), UNCHANGED <<top_pid, cur>>
  PROVE  /\ QInv' /\ FInv'
         /\ instances' \in [Programs -> Int]
         /\ interactive' \in [Players -> BOOLEAN]
<1>1. /\ frames \in [Pid -> Frame \cup {NoFrame}]
      /\ \A f \in Live : frames[f].caller # <<>>
      /\ instances \in [Programs -> Int]
  BY DEF FInv, TypeRest
<1> QED BY <1>1, UnlinkStep

\* What dequeue_prog kills are positions of the list.
LEMMA DoomedPositions ==
  \A o, so : Doomed(o, so) \subseteq DOMAIN queue
BY DEF Doomed

PassType == [last : Pid \cup {0}, runs : 0..MaxRuns,
             uid : Players \cup {NOTHING}, keep : BOOLEAN, bl : BOOLEAN]
RdType == [uid : Players \cup {NOTHING}, ptr : Pid \cup {0}]

\* Insert, whatever the event: the list, the count and the saved pointers.
LEMMA InsertStep ==
  ASSUME QInv, TypeRest, NEW e \in Event, Shape(e), e.eventnum \notin Queued,
         Insert(e)
  PROVE  /\ QInv'
         /\ Queued' = Queued \cup {e.eventnum}
         /\ Held' = Held \cup ({e.fr} \ {0})
         /\ process_count' \in Int
         /\ pass' \in PassType /\ pass'.uid = pass.uid
         /\ rd' \in RdType /\ rd'.uid = rd.uid
<1>1. PICK k \in 0..Len(queue) : Place(e, k) /\ queue' = Linked(e, k)
  BY DEF Insert
<1>2. /\ QInv'
      /\ Queued' = Queued \cup {e.eventnum}
      /\ Held' = Held \cup ({e.fr} \ {0})
  BY <1>1, Inserted
<1>3. process_count' \in Int
  BY DEF Insert, TypeRest
<1>4. e.eventnum \in Pid BY DEF Event
<1>5. \A p \in Pid \cup {0} : Reused(p, e) \subseteq Pid \cup {0}
  BY <1>4 DEF Reused
<1>6. pass' \in PassType /\ pass'.uid = pass.uid
  <2>1. pass \in PassType BY DEF TypeRest, PassType
  <2>2. PICK l \in Reused(pass.last, e) : pass' = [pass EXCEPT !.last = l]
    BY DEF Insert
  <2>3. l \in Pid \cup {0} BY <1>5, <2>1, <2>2 DEF PassType
  <2> QED BY <2>1, <2>2, <2>3 DEF PassType
<1>7. rd' \in RdType /\ rd'.uid = rd.uid
  <2>1. rd \in RdType BY DEF TypeRest, RdType
  <2>2. PICK q \in Reused(rd.ptr, e) : rd' = [rd EXCEPT !.ptr = q]
    BY DEF Insert
  <2>3. q \in Pid \cup {0} BY <1>5, <2>1, <2>2 DEF RdType
  <2> QED BY <2>1, <2>2, <2>3 DEF RdType
<1> QED BY <1>2, <1>3, <1>6, <1>7

\* The new event of a running program is the program itself.
LEMMA SuspendStep ==
  ASSUME QInv, FInv, TypeRest, cur # 0,
         NEW kind \in {"DELAY", "READ"}, NEW d \in Int,
         Insert(NewEvent(kind, d, Me.uid, ProgramOf(cur), cur, cur)),
         cur' = 0, UNCHANGED <<frames, top_pid>>
  PROVE  /\ QInv' /\ FInv'
         /\ process_count' \in Int
         /\ pass' \in PassType /\ pass'.uid = pass.uid
         /\ rd' \in RdType /\ rd'.uid = rd.uid
<1> DEFINE e == NewEvent(kind, d, Me.uid, ProgramOf(cur), cur, cur)
<1>1. /\ cur \in Pid /\ cur \in Live /\ cur \notin Queued
      /\ Me \in Frame /\ Me.caller \in Seq(Programs) /\ Me.caller # <<>>
  BY DEF FInv, TypeRest, Live, Me, Frame
<1>2. ProgramOf(cur) \in Programs
  BY <1>1 DEF ProgramOf, Me
<1>3. e \in Event /\ Shape(e) /\ e.eventnum = cur /\ e.fr = cur
  BY <1>1, <1>2 DEF NewEvent, Event, Kind, Shape, TypeRest, Frame
<1>4. Insert(e)
  OBVIOUS
<1> HIDE DEF e
<1>5. /\ QInv' /\ Queued' = Queued \cup {cur}
      /\ Held' = Held \cup ({cur} \ {0})
      /\ process_count' \in Int
      /\ pass' \in PassType /\ pass'.uid = pass.uid
      /\ rd' \in RdType /\ rd'.uid = rd.uid
  BY <1>1, <1>3, <1>4, InsertStep
<1>6. FInv'
  <2>1. Live' = Live BY DEF Live
  <2>2. 0 \notin Live BY DEF Live, Pid
  <2>3. Live' \ {cur'} = Held' BY <1>1, <1>5, <2>1, <2>2 DEF FInv
  <2>4. \A n \in Queued' \cup Live' : n < top_pid'
    BY <1>1, <1>5, <2>1 DEF FInv
  <2> QED BY <2>1, <2>3, <2>4 DEF FInv
<1> QED BY <1>5, <1>6

\* Every process number in use has been given out.
LEMMA NumbersNat ==
  ASSUME QInv, FInv
  PROVE  \A n \in Queued \cup Live : n \in Nat /\ n < top_pid
<1>1. Live \subseteq Nat
  BY DEF Live, Pid
<1>2. Queued \subseteq Nat
  <2>1. \A i \in DOMAIN queue : queue[i] \in Event
    BY DEF QInv
  <2>2. \A i \in DOMAIN queue : queue[i].eventnum \in Pid
    BY <2>1 DEF Event
  <2> QED BY <2>2 DEF Queued, Pid
<1> QED BY <1>1, <1>2 DEF FInv

\* An event that is not a running program takes the next process number.
LEMMA AnnounceStep ==
  ASSUME QInv, FInv, TypeRest, top_pid <= MaxPid,
         NEW kind \in {"QUEUE", "MPI"}, NEW d \in Int, NEW p \in Players,
         NEW g \in Programs \cup {NOTHING}, kind = "QUEUE" => g \in Programs,
         Insert(NewEvent(kind, d, p, g, 0, top_pid)),
         top_pid' = top_pid + 1, UNCHANGED <<frames, cur>>
  PROVE  /\ QInv' /\ FInv'
         /\ process_count' \in Int /\ top_pid' \in 1..(MaxPid + 1)
         /\ pass' \in PassType /\ pass'.uid = pass.uid
         /\ rd' \in RdType /\ rd'.uid = rd.uid
<1> DEFINE e == NewEvent(kind, d, p, g, 0, top_pid)
<1>1. /\ top_pid \in Pid /\ top_pid \notin Queued /\ top_pid \notin Live
      /\ top_pid' \in 1..(MaxPid + 1) /\ top_pid \in Nat
  BY ConstantAssumption DEF FInv, TypeRest, Pid
<1>2. e \in Event /\ Shape(e) /\ e.eventnum = top_pid /\ e.fr = 0
  BY <1>1 DEF NewEvent, Event, Kind, Shape, TypeRest
<1>3. Insert(e)
  OBVIOUS
<1> HIDE DEF e
<1>4. /\ QInv' /\ Queued' = Queued \cup {e.eventnum}
      /\ Held' = Held \cup ({e.fr} \ {0})
      /\ process_count' \in Int
      /\ pass' \in PassType /\ pass'.uid = pass.uid
      /\ rd' \in RdType /\ rd'.uid = rd.uid
  BY <1>1, <1>2, <1>3, InsertStep
<1>5. Queued' = Queued \cup {top_pid} /\ Held' = Held
  BY <1>2, <1>4
<1>6. FInv'
  <2>1. Live' = Live BY DEF Live
  <2>2. \A n \in Queued' \cup Live' : n < top_pid'
    BY <1>1, <1>5, <2>1, NumbersNat
  <2>3. cur' # 0 => cur' \in Live' \ Queued'
    BY <1>1, <1>5, <2>1 DEF FInv
  <2> QED BY <1>5, <2>1, <2>2, <2>3 DEF FInv
<1> QED BY <1>1, <1>4, <1>6

\* The running program ends.
LEMMA EndStep ==
  ASSUME QInv, FInv, TypeRest, cur # 0,
         Clean({cur}, frames, instances), cur' = 0, UNCHANGED <<queue, top_pid>>
  PROVE  /\ QInv' /\ FInv'
         /\ instances' \in [Programs -> Int]
<1>1. /\ frames \in [Pid -> Frame \cup {NoFrame}]
      /\ instances \in [Programs -> Int] /\ queue \in Seq(Event)
  BY DEF QInv, FInv, TypeRest
<1>2. /\ frames' \in [Pid -> Frame \cup {NoFrame}]
      /\ instances' \in [Programs -> Int]
      /\ Live' = {f \in Pid : frames[f] # NoFrame} \ {cur}
      /\ \A f \in Live' : frames'[f] = frames[f]
  BY <1>1, Cleaned
<1>3. Live' = Live \ {cur} BY <1>2 DEF Live
<1>4. QInv' /\ Queued' = Queued /\ Held' = Held
  BY DEF QInv, Distinct, Shapes, QueueOrder, Queued, Held
<1>5. 0 \notin Live BY DEF Live, Pid
<1> QED BY <1>2, <1>3, <1>4, <1>5 DEF FInv

\* A new program is entered.
LEMMA InterpStep ==
  ASSUME QInv, FInv, TypeRest, cur = 0,
         NEW p \in Players, NEW g \in Programs, NEW md \in Mode,
         NEW wo \in BOOLEAN, NEW caller \in {"cmd", "event"},
         interp(p, g, md, wo, caller), QInv', Queued' \subseteq Queued, Held' = Held
  PROVE  /\ FInv' /\ cur' # 0
         /\ instances' \in [Programs -> Int]
         /\ top_pid' \in 1..(MaxPid + 1) /\ cur' \in Pid
         /\ writeonly' \in BOOLEAN
         /\ by' = caller /\ pc' = "start"
<1>1. /\ top_pid \in Pid /\ top_pid \notin Queued /\ top_pid \notin Live
      /\ top_pid' = top_pid + 1 /\ top_pid' \in 1..(MaxPid + 1)
      /\ top_pid \in Nat \ {0}
  BY ConstantAssumption DEF FInv, TypeRest, Pid, interp
<1> DEFINE r == NewFrame(p, g, md, wo)
<1>2. r \in Frame /\ r.caller # <<>>
  BY DEF NewFrame, Frame
<1>3. r # NoFrame BY <1>2, FrameLive
<1>4. frames' = [frames EXCEPT ![top_pid] = r] /\ cur' = top_pid
  BY DEF interp
<1> HIDE DEF r
<1>5. Live' = Live \cup {top_pid}
  BY <1>1, <1>3, <1>4 DEF Live, FInv
<1>6. frames' \in [Pid -> Frame \cup {NoFrame}]
  BY <1>1, <1>2, <1>4 DEF FInv
<1>7. \A f \in Live' : frames'[f].caller # <<>>
  BY <1>1, <1>2, <1>4, <1>5 DEF FInv, Live
<1>8. Live' \ {cur'} = Held'
  <2>1. 0 \notin Live BY DEF Live, Pid
  <2> QED BY <1>1, <1>4, <1>5, <2>1 DEF FInv
<1>9. \A n \in Queued' \cup Live' : n < top_pid'
  BY <1>1, <1>5, NumbersNat
<1>10. FInv'
  BY <1>1, <1>4, <1>5, <1>6, <1>7, <1>8, <1>9 DEF FInv
<1> QED BY <1>1, <1>4, <1>10 DEF interp, TypeRest

-----------------------------------------------------------------------------
(* The induction step, one step per action. *)

PInv == QInv /\ FInv /\ Control /\ TypeRest

\* A step that leaves the list alone keeps what is said of the list.
LEMMA SameQueue ==
  ASSUME QInv, UNCHANGED queue
  PROVE  QInv' /\ Queued' = Queued /\ Held' = Held
BY DEF QInv, Distinct, Shapes, QueueOrder, Queued, Held

\* A step that leaves frames, list and control alone keeps what is said of frames.
LEMMA SameFrames ==
  ASSUME QInv, FInv, UNCHANGED <<queue, frames, top_pid, cur>>
  PROVE  QInv' /\ FInv'
<1>1. QInv' /\ Queued' = Queued /\ Held' = Held BY SameQueue
<1>2. Live' = Live BY DEF Live
<1> QED BY <1>1, <1>2 DEF FInv

\* What a call of dequeue_prog or dequeue_process from the main loop or from
\* the running program leaves.
LEMMA KilledStep ==
  ASSUME PInv, NEW K \in SUBSET (DOMAIN queue),
         Unlink(K, frames, instances), block' = Unblocked(K), process_count' \in Int,
         UNCHANGED <<top_pid, compiled, now, pc, by, cur, writeonly, pass, rd>>
  PROVE  PInv'
<1>1. /\ QInv' /\ FInv'
      /\ instances' \in [Programs -> Int]
      /\ interactive' \in [Players -> BOOLEAN]
  BY KillStep DEF PInv
<1>2. block' \in [Players -> BOOLEAN]
  BY DEF PInv, TypeRest, Unblocked
<1>3. TypeRest' BY <1>1, <1>2 DEF PInv, TypeRest
<1>4. Control' BY DEF PInv, Control
<1> QED BY <1>1, <1>3, <1>4 DEF PInv

\* The number of events dequeue_prog takes off the count.
LEMMA DoomedCount ==
  ASSUME PInv, NEW K \in SUBSET (DOMAIN queue)
  PROVE  process_count - Cardinality(K) \in Int
BY SMTT(30), CountsNat DEF PInv, QInv, TypeRest

\* Every call made by the main loop keeps the inductive invariant.
LEMMA MainLoopStep ==
  ASSUME PInv, MainLoop
  PROVE  PInv'
<1>1. QInv /\ FInv /\ Control /\ TypeRest BY DEF PInv
<1>2. ASSUME NEW p \in Players, NEW g \in Programs, NEW m \in Mode,
             NEW wo \in BOOLEAN, Command(p, g, m, wo)
      PROVE  PInv'
  <2>1. cur = 0 BY <1>1, <1>2 DEF Command, Idle, Control
  <2>2. QInv' /\ Queued' = Queued /\ Held' = Held
    BY <1>1, <1>2, SameQueue DEF Command
  <2>3. interp(p, g, m, wo, "cmd") BY <1>2 DEF Command
  <2>4. /\ FInv' /\ cur' # 0 /\ instances' \in [Programs -> Int]
        /\ top_pid' \in 1..(MaxPid + 1) /\ cur' \in Pid
        /\ writeonly' \in BOOLEAN
        /\ by' = "cmd" /\ pc' = "start"
    BY <1>1, <2>1, <2>2, <2>3, InterpStep
  <2>5. TypeRest' BY <1>1, <1>2, <2>4 DEF TypeRest, Command, player, locals
  <2>6. Control' BY <1>1, <2>4 DEF Control
  <2> QED BY <2>2, <2>4, <2>5, <2>6 DEF PInv
<1>3. ASSUME NEW p \in Players, NEW g \in Programs, Propqueue(p, g)
      PROVE  PInv'
  <2>1. cur = 0 BY <1>1, <1>3 DEF Propqueue, Idle, Control
  <2>2. QInv' /\ Queued' = Queued /\ Held' = Held
    BY <1>1, <1>3, SameQueue DEF Propqueue
  <2>3. PICK wo \in BOOLEAN :
          interp(p, g, "BACKGROUND", wo \/ interactive[p], "cmd")
    BY <1>3 DEF Propqueue
  <2>4. (wo \/ interactive[p]) \in BOOLEAN /\ "BACKGROUND" \in Mode
    BY DEF Mode
  <2>5. /\ FInv' /\ cur' # 0 /\ instances' \in [Programs -> Int]
        /\ top_pid' \in 1..(MaxPid + 1) /\ cur' \in Pid
        /\ writeonly' \in BOOLEAN
        /\ by' = "cmd" /\ pc' = "start"
    BY <1>1, <2>1, <2>2, <2>3, <2>4, InterpStep
  <2>6. TypeRest' BY <1>1, <1>3, <2>5 DEF TypeRest, Propqueue, player, locals
  <2>7. Control' BY <1>1, <2>5 DEF Control
  <2> QED BY <2>2, <2>5, <2>6, <2>7 DEF PInv
<1>4. ASSUME NEW p \in Players, NEW g \in Programs, Listen(p, g)
      PROVE  PInv'
  <2>1. CASE UNCHANGED <<table, locals>>
    <3>1. QInv' /\ FInv' BY <1>1, <1>4, <2>1, SameFrames DEF Listen, table
    <3>2. TypeRest' /\ Control'
      BY <1>1, <1>4, <2>1 DEF Listen, table, player, locals, TypeRest, Control
    <3> QED BY <3>1, <3>2 DEF PInv
  <2>2. ASSUME NEW kind \in {"QUEUE", "MPI"}, NEW d \in Int,
               NEW pr \in Programs \cup {NOTHING},
               kind = "QUEUE" => pr \in Programs,
               top_pid' = top_pid + 1,
               Insert(NewEvent(kind, d, p, pr, 0, top_pid))
        PROVE  PInv'
    <3>1. top_pid <= MaxPid /\ UNCHANGED <<frames, cur>> BY <1>4 DEF Listen
    <3>2. /\ QInv' /\ FInv'
          /\ process_count' \in Int /\ top_pid' \in 1..(MaxPid + 1)
          /\ pass' \in PassType /\ pass'.uid = pass.uid
          /\ rd' \in RdType /\ rd'.uid = rd.uid
      BY <1>1, <2>2, <3>1, AnnounceStep
    <3>3. TypeRest'
      BY <1>1, <1>4, <3>2 DEF Listen, player, TypeRest, PassType, RdType
    <3>4. Control' BY <1>1, <1>4, <3>2 DEF Listen, Control
    <3> QED BY <3>2, <3>3, <3>4 DEF PInv
  <2>3. \/ UNCHANGED <<table, locals>>
        \/ top_pid' = top_pid + 1 /\ Insert(NewEvent("QUEUE", 0, p, g, 0, top_pid))
        \/ top_pid' = top_pid + 1 /\ Insert(NewEvent("MPI", 1, p, NOTHING, 0, top_pid))
    BY <1>4 DEF Listen
  <2> QED BY <2>1, <2>2, <2>3
<1>5. ASSUME NEW p \in Players, Connect(p)
      PROVE  PInv'
  <2>1. QInv' /\ FInv' BY <1>1, <1>5, SameFrames DEF Connect, table
  <2>2. TypeRest' /\ Control'
    BY <1>1, <1>5 DEF Connect, table, locals, TypeRest, Control
  <2> QED BY <2>1, <2>2 DEF PInv
<1>6. ASSUME NEW p \in Players, Disconnect(p)
      PROVE  PInv'
  <2>1. Doomed(p, 2) \in SUBSET (DOMAIN queue) BY DoomedPositions
  <2>2. /\ Unlink(Doomed(p, 2), frames, instances)
        /\ block' = Unblocked(Doomed(p, 2))
        /\ process_count' = process_count - Cardinality(Doomed(p, 2))
        /\ UNCHANGED <<top_pid, compiled, now, pc, by, cur, writeonly, pass, rd>>
    BY <1>6 DEF Disconnect, dequeue_prog, locals
  <2> QED BY <2>1, <2>2, KilledStep, DoomedCount
<1>7. ASSUME NEW p \in Players, BreakLine(p)
      PROVE  PInv'
  <2>1. Doomed(p, 2) \in SUBSET (DOMAIN queue) BY DoomedPositions
  <2>2. /\ Unlink(Doomed(p, 2), frames, instances)
        /\ process_count' = process_count - Cardinality(Doomed(p, 2))
        /\ UNCHANGED <<top_pid, compiled, now, pc, by, cur, writeonly, pass, rd>>
        /\ block' = [Unblocked(Doomed(p, 2)) EXCEPT ![p] = FALSE]
    BY <1>7 DEF BreakLine, dequeue_prog, locals
  <2>3. /\ QInv' /\ FInv' /\ instances' \in [Programs -> Int]
        /\ interactive' \in [Players -> BOOLEAN]
    BY <1>1, <2>1, <2>2, KillStep
  <2>4. block' \in [Players -> BOOLEAN] BY <1>1, <2>2 DEF Unblocked, TypeRest
  <2>5. process_count' \in Int BY <2>1, <2>2, DoomedCount
  <2>6. TypeRest' BY <1>1, <2>2, <2>3, <2>4, <2>5 DEF TypeRest
  <2>7. Control' BY <1>1, <2>2 DEF Control
  <2> QED BY <2>3, <2>6, <2>7 DEF PInv
<1>8. ASSUME NEW o \in Players \cup Programs, KillObject(o)
      PROVE  PInv'
  <2>1. Doomed(o, 0) \in SUBSET (DOMAIN queue) BY DoomedPositions
  <2>2. /\ Unlink(Doomed(o, 0), frames, instances)
        /\ block' = Unblocked(Doomed(o, 0))
        /\ process_count' = process_count - Cardinality(Doomed(o, 0))
        /\ UNCHANGED <<top_pid, compiled, now, pc, by, cur, writeonly, pass, rd>>
    BY <1>8 DEF KillObject, dequeue_prog, locals
  <2> QED BY <2>1, <2>2, KilledStep, DoomedCount
<1>9. ASSUME NEW n \in Pid, KillPid(n)
      PROVE  PInv'
  <2>1. CASE n \in Queued
    <3>1. Named(n) \in SUBSET (DOMAIN queue) BY DEF Named
    <3>2. /\ Unlink(Named(n), frames, instances)
          /\ block' = Unblocked(Named(n))
          /\ process_count' = process_count - 2
          /\ UNCHANGED <<top_pid, compiled, now, pc, by, cur, writeonly, pass, rd>>
      BY <1>9, <2>1 DEF KillPid, dequeue_process, locals
    <3>3. process_count' \in Int BY <1>1, <3>2 DEF TypeRest
    <3> QED BY <3>1, <3>2, <3>3, KilledStep
  <2>2. CASE n \notin Queued
    <3>1. QInv' /\ FInv' BY <1>1, <1>9, <2>2, SameFrames DEF KillPid
    <3>2. TypeRest' /\ Control'
      BY <1>1, <1>9, <2>2 DEF KillPid, player, locals, TypeRest, Control
    <3> QED BY <3>1, <3>2 DEF PInv
  <2> QED BY <2>1, <2>2
<1>10. ASSUME KillAll
       PROVE  PInv'
  <2>1. /\ Unlink(DOMAIN queue, frames, instances)
        /\ block' = Unblocked(DOMAIN queue)
        /\ process_count' = process_count - Len(queue)
        /\ UNCHANGED <<top_pid, compiled, now, pc, by, cur, writeonly, pass, rd>>
    BY <1>10 DEF KillAll, locals
  <2>2. process_count' \in Int BY <1>1, <2>1 DEF TypeRest, QInv
  <2> QED BY <2>1, <2>2, KilledStep
<1>11. ASSUME NEW g \in Programs, Uncompile(g) \/ Recompile(g)
       PROVE  PInv'
  <2>1. Doomed(g, 1) \in SUBSET (DOMAIN queue) BY DoomedPositions
  <2>2. /\ Unlink(Doomed(g, 1), frames, instances)
        /\ block' = Unblocked(Doomed(g, 1))
        /\ process_count' = process_count - Cardinality(Doomed(g, 1))
        /\ \E ok \in BOOLEAN : compiled' = [compiled EXCEPT ![g] = ok]
        /\ UNCHANGED <<top_pid, now, pc, by, cur, writeonly, pass, rd>>
    BY <1>11 DEF Uncompile, Recompile, dequeue_prog, locals
  <2>3. /\ QInv' /\ FInv' /\ instances' \in [Programs -> Int]
        /\ interactive' \in [Players -> BOOLEAN]
    BY <1>1, <2>1, <2>2, KillStep
  <2>4. block' \in [Players -> BOOLEAN] BY <1>1, <2>2 DEF Unblocked, TypeRest
  <2>5. process_count' \in Int BY <2>1, <2>2, DoomedCount
  <2>6. compiled' \in [Programs -> BOOLEAN] BY <1>1, <2>2 DEF TypeRest
  <2>7. TypeRest' BY <1>1, <2>2, <2>3, <2>4, <2>5, <2>6 DEF TypeRest
  <2>8. Control' BY <1>1, <2>2 DEF Control
  <2> QED BY <2>3, <2>7, <2>8 DEF PInv
<1>12. ASSUME NEW p \in Players, NEW line \in {"text", "@Q", "full"},
              ReadLine(p, line)
       PROVE  PInv'
  <2>1. CASE ReadsOf(p) = {}
    <3>1. UNCHANGED <<queue, process_count, frames, instances, pc, by, cur, writeonly, rd>>
      BY <1>12, <2>1 DEF ReadLine
    <3>2. QInv' /\ FInv' BY <1>1, <1>12, <3>1, SameFrames DEF ReadLine
    <3>3. TypeRest' /\ Control'
      BY <1>1, <1>12, <3>1 DEF ReadLine, TypeRest, Control
    <3> QED BY <3>2, <3>3 DEF PInv
  <2>2. CASE ReadsOf(p) # {}
    <3>1. PICK i \in ReadsOf(p) :
            /\ queue' = [j \in 1..(Len(queue) - 1) |->
                           IF j < i THEN queue[j] ELSE queue[j + 1]]
            /\ process_count' = process_count - 1
            /\ \/ line = "text" /\ Resumed(p, i)
               \/ /\ line \in {"@Q", "full"}
                  /\ Clean({queue[i].fr}, frames, instances)
                  /\ UNCHANGED <<pc, by, cur, writeonly, rd>>
      BY <1>12, <2>2 DEF ReadLine
    <3> DEFINE f == queue[i].fr
    <3>2. i \in DOMAIN queue /\ IsRead(queue[i]) BY DEF ReadsOf
    <3>3. /\ QInv' /\ queue[i] \in Event /\ Shape(queue[i])
          /\ Queued' = Queued \ {queue[i].eventnum}
          /\ Held' = Held \ {queue[i].fr}
      BY <1>1, <3>1, <3>2, Removed
    <3>4. f = queue[i].eventnum /\ f \in Pid /\ f \in Queued /\ f \in Held
      BY <3>2, <3>3 DEF Shape, IsRead, Event, Queued, Held, Pid
    <3>5. cur = 0 BY <1>1, <1>12 DEF ReadLine, Idle, Control
    <3>6. 0 \notin Live /\ f # 0 BY <3>4 DEF Live, Pid
    <3>7. Live = Held BY <1>1, <3>5, <3>6 DEF FInv
    <3>8. /\ UNCHANGED <<top_pid, compiled, block, now, pass>>
          /\ interactive' = [interactive EXCEPT ![p] = FALSE]
      BY <1>12 DEF ReadLine
    <3>9. CASE line = "text" /\ Resumed(p, i)
      <4>1. /\ cur' = f /\ by' = "read" /\ pc' = "run"
            /\ rd' = [uid |-> p, ptr |-> IF i = Len(queue) THEN 0
                                         ELSE queue[i + 1].eventnum]
            /\ UNCHANGED <<frames, instances>>
        BY <3>9 DEF Resumed
      <4>2. rd' \in RdType
        <5>1. i # Len(queue) => queue[i + 1] \in Event
          BY <1>1, <3>2 DEF QInv
        <5> QED BY <4>1, <5>1 DEF RdType, Event
      <4>3. Live' = Live BY <4>1 DEF Live
      <4>4. FInv'
        BY <1>1, <3>3, <3>4, <3>6, <3>7, <3>8, <4>1, <4>3 DEF FInv
      <4>5. writeonly' \in BOOLEAN
        BY <3>7, <3>4, <3>9, FramesTyped, <1>1 DEF Resumed
      <4>6. TypeRest'
        BY <1>1, <3>1, <3>4, <3>8, <4>1, <4>2, <4>5 DEF TypeRest, RdType
      <4>7. Control' BY <3>6, <4>1 DEF Control
      <4> QED BY <3>3, <4>4, <4>6, <4>7 DEF PInv
    <3>10. CASE /\ Clean({queue[i].fr}, frames, instances)
                /\ UNCHANGED <<pc, by, cur, writeonly, rd>>
      <4>1. /\ frames \in [Pid -> Frame \cup {NoFrame}]
            /\ instances \in [Programs -> Int] /\ queue \in Seq(Event)
        BY <1>1 DEF QInv, FInv, TypeRest
      <4>2. /\ frames' \in [Pid -> Frame \cup {NoFrame}]
            /\ instances' \in [Programs -> Int]
            /\ Live' = {h \in Pid : frames[h] # NoFrame} \ {f}
            /\ \A h \in Live' : frames'[h] = frames[h]
        BY <3>10, <4>1, Cleaned
      <4>3. Live' = Live \ {f} BY <4>2 DEF Live
      <4>4. FInv'
        BY <1>1, <3>3, <3>4, <3>5, <3>6, <3>7, <3>8, <3>10, <4>2, <4>3 DEF FInv
      <4>5. TypeRest'
        BY <1>1, <3>1, <3>8, <3>10, <4>2 DEF TypeRest
      <4>6. Control' BY <1>1, <3>8, <3>10 DEF Control
      <4> QED BY <3>3, <4>4, <4>5, <4>6 DEF PInv
    <3> QED BY <3>1, <3>9, <3>10
  <2> QED BY <2>1, <2>2
<1>13. ASSUME NEW p \in Players, Message(p)
       PROVE  PInv'
  <2>1. QInv' /\ FInv' BY <1>1, <1>13, SameFrames DEF Message, table
  <2>2. pass' \in PassType /\ pass'.uid = p
    <3>1. NoPass \in PassType BY ConstantAssumption DEF PassType, NoPass
    <3>2. pass' = [NoPass EXCEPT !.uid = p] BY <1>13 DEF Message
    <3> QED BY <3>1, <3>2 DEF PassType
  <2>3. TypeRest'
    BY <1>1, <1>13, <2>2 DEF Message, table, player, TypeRest, PassType
  <2>4. Control' BY <1>1, <1>13, <2>2 DEF Message, Idle, Control
  <2> QED BY <2>1, <2>3, <2>4 DEF PInv
<1> QED BY <1>2, <1>3, <1>4, <1>5, <1>6, <1>7, <1>8, <1>9, <1>10, <1>11, <1>12,
           <1>13 DEF MainLoop

\* Every step of next_timequeue_event and the end of handle_read_event keep it.
LEMMA EventsStep ==
  ASSUME PInv, Events
  PROVE  PInv'
<1>1. QInv /\ FInv /\ Control /\ TypeRest BY DEF PInv
<1>2. ASSUME BeginPass
      PROVE  PInv'
  <2>1. QInv' /\ FInv' BY <1>1, <1>2, SameFrames DEF BeginPass, table
  <2>2. PICK n \in 1..Len(queue) :
          /\ n <= MaxRuns
          /\ pass' = [NoPass EXCEPT !.runs = n, !.last =
                        IF n = Len(queue) THEN 0 ELSE queue[n + 1].eventnum]
    BY <1>2 DEF BeginPass
  <2>3. n # Len(queue) => queue[n + 1].eventnum \in Pid
    <3>1. n # Len(queue) => queue[n + 1] \in Event BY <1>1 DEF QInv
    <3> QED BY <3>1 DEF Event
  <2>4. n \in 0..MaxRuns
    BY <1>1, <2>2, ConstantAssumption DEF QInv
  <2>5. pass' \in PassType BY <2>2, <2>3, <2>4 DEF PassType, NoPass
  <2>6. TypeRest'
    BY <1>1, <1>2, <2>5 DEF BeginPass, table, player, TypeRest, PassType
  <2>7. Control' BY <1>1, <1>2 DEF BeginPass, Idle, Control
  <2> QED BY <2>1, <2>6, <2>7 DEF PInv
<1>3. ASSUME RunEvent
      PROVE  PInv'
  <2> DEFINE e == queue[1]
  <2>1. /\ queue # <<>> /\ queue' = Tail(queue)
        /\ pass.runs # 0 /\ ~IsRead(e)
    BY <1>3 DEF RunEvent, PassDone
  <2>2. /\ QInv' /\ Head(queue) = e /\ e \in Event /\ Shape(e)
        /\ Queued' = Queued \ {e.eventnum}
        /\ Held' = Held \ {e.fr}
    BY <1>1, <2>1, Popped
  <2>3. pass' \in PassType /\ pass'.uid \in Players
    <3>1. pass' = [pass EXCEPT !.runs = RunsLeft, !.uid = e.uid,
                     !.bl = block[e.uid],
                     !.keep = /\ e.kind = "DELAY"
                              /\ frames[e.fr].mode = "BACKGROUND"]
      BY <1>3, <2>2 DEF RunEvent
    <3>2. pass \in PassType /\ RunsLeft \in 0..MaxRuns
      BY <1>1, <2>1, ConstantAssumption DEF TypeRest, PassType, RunsLeft
    <3>3. e.uid \in Players /\ block[e.uid] \in BOOLEAN
      BY <1>1, <2>2 DEF Event, TypeRest
    <3> QED BY <3>1, <3>2, <3>3 DEF PassType
  <2>4. cur = 0 /\ by = "cmd" BY <1>1, <1>3 DEF RunEvent, Control
  <2>5. /\ 0 \notin Held /\ 0 \notin Live /\ Live = Held
    BY <1>1, <2>4 DEF Held, Live, Pid, FInv
  <2>6. UNCHANGED <<process_count, compiled, block, interactive, now, rd>>
    BY <1>3 DEF RunEvent, player
  <2>7. CASE e.kind = "MPI" /\ RunMpi
    <3>1. e.fr = 0 BY <2>2, <2>7 DEF Shape
    <3>2. Live' = Live BY <2>7 DEF RunMpi, Live
    <3>3. FInv' BY <1>1, <2>2, <2>4, <2>5, <2>7, <3>1, <3>2 DEF FInv, RunMpi
    <3>4. TypeRest' BY <1>1, <2>3, <2>6, <2>7 DEF TypeRest, RunMpi, PassType
    <3>5. Control' BY <1>1, <2>3, <2>4, <2>6, <2>7 DEF Control, RunMpi
    <3> QED BY <2>2, <3>3, <3>4, <3>5 DEF PInv
  <2>8. CASE e.kind = "DELAY" /\ RunFrame(e)
    <3>1. e.fr = e.eventnum /\ e.fr \in Pid BY <2>2, <2>8 DEF Shape, Event
    <3>2. e.fr # 0 BY <3>1 DEF Pid
    <3>3. e.fr \in Held
      <4>1. 1 \in DOMAIN queue BY <1>1, <2>1 DEF QInv
      <4> QED BY <3>2, <4>1 DEF Held
    <3>4. Live' = Live BY <2>8 DEF RunFrame, Live
    <3>5. FInv'
      BY <1>1, <2>2, <2>5, <2>8, <3>1, <3>2, <3>3, <3>4 DEF FInv, RunFrame
    <3>6. writeonly' \in BOOLEAN
      BY <1>1, <2>5, <2>8, <3>3, FramesTyped DEF RunFrame
    <3>7. TypeRest'
      BY <1>1, <2>3, <2>6, <2>8, <3>1, <3>6 DEF TypeRest, RunFrame, PassType
    <3>8. Control' BY <1>1, <2>3, <2>6, <2>8, <3>2 DEF Control, RunFrame
    <3> QED BY <2>2, <3>5, <3>7, <3>8 DEF PInv
  <2>9. CASE e.kind = "QUEUE" /\ RunProgram(e)
    <3>1. e.fr = 0 /\ e.prog \in Programs /\ e.uid \in Players
      BY <2>2, <2>9 DEF Shape, Event
    <3>2. Held' = Held BY <2>2, <2>5, <3>1
    <3>3. ASSUME NEW wo \in BOOLEAN,
                 interp(e.uid, e.prog, "BACKGROUND", wo \/ interactive[e.uid], "event")
          PROVE  PInv'
      <4>1. (wo \/ interactive[e.uid]) \in BOOLEAN /\ "BACKGROUND" \in Mode
        BY DEF Mode
      <4>2. /\ FInv' /\ cur' # 0 /\ instances' \in [Programs -> Int]
            /\ top_pid' \in 1..(MaxPid + 1) /\ cur' \in Pid
            /\ writeonly' \in BOOLEAN
            /\ by' = "event" /\ pc' = "start"
        BY <1>1, <2>2, <2>4, <3>1, <3>2, <3>3, <4>1, InterpStep
      <4>3. TypeRest' BY <1>1, <2>3, <2>6, <4>2 DEF TypeRest, PassType
      <4>4. Control' BY <2>3, <4>2 DEF Control
      <4> QED BY <2>2, <4>2, <4>3, <4>4 DEF PInv
    <3>4. ASSUME pc' = "ret", by' = "event",
                 UNCHANGED <<frames, instances, top_pid, cur, writeonly>>
          PROVE  PInv'
      <4>1. Live' = Live BY <3>4 DEF Live
      <4>2. FInv' BY <1>1, <2>2, <2>4, <2>5, <3>2, <3>4, <4>1 DEF FInv
      <4>3. TypeRest' BY <1>1, <2>3, <2>6, <3>4 DEF TypeRest, PassType
      <4>4. Control' BY <2>3, <2>4, <3>4 DEF Control
      <4> QED BY <2>2, <4>2, <4>3, <4>4 DEF PInv
    <3> QED BY <2>9, <3>3, <3>4 DEF RunProgram
  <2>10. \/ e.kind = "MPI" /\ RunMpi
         \/ e.kind = "DELAY" /\ RunFrame(e)
         \/ e.kind = "QUEUE" /\ RunProgram(e)
    BY <1>3, <2>2 DEF RunEvent
  <2> QED BY <2>7, <2>8, <2>9, <2>10
<1>4. ASSUME EndEvent
      PROVE  PInv'
  <2>1. QInv' /\ FInv' BY <1>1, <1>4, SameFrames DEF EndEvent
  <2>2. TypeRest'
    <3>1. pass.bl \in BOOLEAN BY <1>1 DEF TypeRest
    <3>2. block' \in [Players -> BOOLEAN]
      BY <1>1, <1>4, <3>1 DEF EndEvent, TypeRest
    <3>3. process_count' \in Int BY <1>1, <1>4 DEF EndEvent, TypeRest
    <3> QED BY <1>1, <1>4, <3>2, <3>3 DEF EndEvent, TypeRest, locals
  <2>3. Control' BY <1>1, <1>4 DEF EndEvent, Control
  <2> QED BY <2>1, <2>2, <2>3 DEF PInv
<1>5. ASSUME EndPass
      PROVE  PInv'
  <2>1. QInv' /\ FInv' BY <1>1, <1>5, SameFrames DEF EndPass, table
  <2>2. NoPass \in PassType
    BY ConstantAssumption DEF PassType, NoPass
  <2>3. TypeRest'
    BY <1>1, <1>5, <2>2 DEF EndPass, table, player, TypeRest, PassType
  <2>4. Control' BY <1>1, <1>5 DEF EndPass, Control
  <2> QED BY <2>1, <2>3, <2>4 DEF PInv
<1>6. ASSUME EndRead
      PROVE  PInv'
  <2>1. QInv' /\ FInv' BY <1>1, <1>6, SameFrames DEF EndRead, table
  <2>2. PICK again \in BOOLEAN :
          interactive' = [interactive EXCEPT ![rd.uid] = @ \/ again]
    BY <1>6 DEF EndRead
  <2>3. interactive' \in [Players -> BOOLEAN] BY <1>1, <2>2 DEF TypeRest
  <2>4. NoRd \in RdType BY DEF RdType, NoRd
  <2>5. TypeRest'
    BY <1>1, <1>6, <2>3, <2>4 DEF EndRead, table, TypeRest, RdType
  <2>6. Control' BY <1>1, <1>6 DEF EndRead, Control
  <2> QED BY <2>1, <2>5, <2>6 DEF PInv
<1> QED BY <1>2, <1>3, <1>4, <1>5, <1>6 DEF Events

\* The running program changes its own frame.
LEMMA EditStep ==
  ASSUME QInv, FInv, cur \in Live, NEW r \in Frame, r.caller # <<>>,
         frames' = [frames EXCEPT ![cur] = r], UNCHANGED <<queue, top_pid, cur>>
  PROVE  QInv' /\ FInv'
<1>1. QInv' /\ Queued' = Queued /\ Held' = Held BY SameQueue
<1>2. r # NoFrame BY FrameLive
<1>3. Live' = Live BY <1>2 DEF Live, FInv
<1> QED BY <1>1, <1>3 DEF FInv, Live

\* The frame interp_loop executes is in use and not in the list.
LEMMA CurFrame ==
  ASSUME PInv, cur # 0
  PROVE  /\ cur \in Live /\ cur \in Pid /\ Me \in Frame
         /\ Me.uid \in Players /\ Me.caller \in Seq(Programs)
         /\ Me.caller # <<>> /\ Len(Me.caller) \in Nat \ {0}
         /\ ProgramOf(cur) \in Programs
<1>1. cur \in Live /\ cur \in Pid /\ Me \in Frame
  BY DEF PInv, FInv, TypeRest, Live, Me
<1>2. /\ Me.uid \in Players /\ Me.caller \in Seq(Programs)
      /\ Me.caller # <<>>
  BY <1>1 DEF PInv, FInv, Frame, Me
<1>3. Len(Me.caller) \in Nat \ {0} BY <1>2
<1>4. Me.caller[Len(Me.caller)] \in Programs BY <1>2, <1>3
<1> QED BY <1>1, <1>2, <1>3, <1>4 DEF ProgramOf, Me

\* The stack of interp_loop's caller stays consistent when it returns.
LEMMA LeaveControl ==
  ASSUME Control, pc \in {"run", "abort"}, Leave,
         pass'.uid = pass.uid, rd'.uid = rd.uid, by \in {"cmd", "event", "read"}
  PROVE  /\ Control' /\ pc' \in {"idle", "ret"}
         /\ cur' = 0 /\ writeonly' = FALSE /\ by' = by
BY DEF Leave, Control

\* Every step of the running program, or of MPI, keeps the inductive invariant.
LEMMA InterpreterStep ==
  ASSUME PInv, Interpreter
  PROVE  PInv'
<1>1. QInv /\ FInv /\ Control /\ TypeRest BY DEF PInv
<1>2. ASSUME EnterLoop
      PROVE  PInv'
  <2> DEFINE g == ProgramOf(cur)
  <2>1. cur # 0 BY <1>1, <1>2 DEF EnterLoop, Control
  <2>2. g \in Programs BY <2>1, CurFrame
  <2>3. UNCHANGED <<top_pid, now, by, cur, writeonly, pass, rd>>
    BY <1>2 DEF EnterLoop, locals
  <2>4. CASE compiled[g]
    <3>1. /\ pc' = "run"
          /\ UNCHANGED <<queue, process_count, frames, instances, compiled, player>>
      BY <1>2, <2>4 DEF EnterLoop
    <3>2. QInv' /\ FInv' BY <1>1, <2>3, <3>1, SameFrames
    <3>3. TypeRest' BY <1>1, <2>3, <3>1 DEF TypeRest, player
    <3>4. Control' BY <1>1, <2>1, <2>3, <3>1 DEF Control
    <3> QED BY <3>2, <3>3, <3>4 DEF PInv
  <2>5. CASE ~compiled[g]
    <3>1. /\ Unlink(Doomed(g, 1), frames, instances)
          /\ process_count' = process_count - Cardinality(Doomed(g, 1))
          /\ block' = Unblocked(Doomed(g, 1))
          /\ \E ok \in BOOLEAN : /\ compiled' = [compiled EXCEPT ![g] = ok]
                                 /\ pc' = IF ok THEN "run" ELSE "abort"
      BY <1>2, <2>5 DEF EnterLoop, dequeue_prog
    <3>2. Doomed(g, 1) \in SUBSET (DOMAIN queue) BY DoomedPositions
    <3>3. /\ QInv' /\ FInv' /\ instances' \in [Programs -> Int]
          /\ interactive' \in [Players -> BOOLEAN]
      BY <1>1, <2>3, <3>1, <3>2, KillStep
    <3>4. block' \in [Players -> BOOLEAN] BY <1>1, <3>1 DEF Unblocked, TypeRest
    <3>5. process_count' \in Int BY <3>1, <3>2, DoomedCount
    <3>6. compiled' \in [Programs -> BOOLEAN] /\ pc' \in {"run", "abort"}
      BY <1>1, <3>1 DEF TypeRest
    <3>7. TypeRest' BY <1>1, <2>3, <3>3, <3>4, <3>5, <3>6 DEF TypeRest
    <3>8. Control' BY <1>1, <2>1, <2>3, <3>6 DEF Control
    <3> QED BY <3>3, <3>7, <3>8 DEF PInv
  <2> QED BY <2>4, <2>5
<1>3. ASSUME pc \in {"run", "abort"}, Leave, Clean({cur}, frames, instances),
             block' \in [Players -> BOOLEAN],
             UNCHANGED <<queue, process_count, top_pid, compiled, interactive,
                         now, pass, rd>>
      PROVE  PInv'
  <2>1. cur # 0 /\ by \in {"cmd", "event", "read"}
    BY <1>1, <1>3 DEF Control, TypeRest
  <2>2. /\ Control' /\ pc' \in {"idle", "ret"}
        /\ cur' = 0 /\ writeonly' = FALSE /\ by' = by
    BY <1>1, <1>3, <2>1, LeaveControl
  <2>3. QInv' /\ FInv' /\ instances' \in [Programs -> Int]
    BY <1>1, <1>3, <2>1, <2>2, EndStep
  <2>4. TypeRest' BY <1>1, <1>3, <2>2, <2>3 DEF TypeRest
  <2> QED BY <2>2, <2>3, <2>4 DEF PInv
<1>4. ASSUME pc = "run", Leave, NEW kind \in {"DELAY", "READ"}, NEW d \in Int,
             Insert(NewEvent(kind, d, Me.uid, ProgramOf(cur), cur, cur)),
             block' \in [Players -> BOOLEAN],
             interactive' \in [Players -> BOOLEAN],
             UNCHANGED <<frames, instances, top_pid, compiled, now>>
      PROVE  PInv'
  <2>1. cur # 0 /\ by \in {"cmd", "event", "read"} /\ cur' = 0
    BY <1>1, <1>4 DEF Control, TypeRest, Leave
  <2>2. /\ QInv' /\ FInv' /\ process_count' \in Int
        /\ pass' \in PassType /\ pass'.uid = pass.uid
        /\ rd' \in RdType /\ rd'.uid = rd.uid
    BY <1>1, <1>4, <2>1, SuspendStep
  <2>3. /\ Control' /\ pc' \in {"idle", "ret"}
        /\ cur' = 0 /\ writeonly' = FALSE /\ by' = by
    BY <1>1, <1>4, <2>1, <2>2, LeaveControl
  <2>4. TypeRest' BY <1>1, <1>4, <2>2, <2>3 DEF TypeRest, PassType, RdType
  <2> QED BY <2>2, <2>3, <2>4 DEF PInv
<1>5. ASSUME Finish
      PROVE  PInv'
  <2>1. /\ pc \in {"run", "abort"} /\ Leave /\ Clean({cur}, frames, instances)
        /\ block' = [block EXCEPT ![Me.uid] = FALSE]
        /\ UNCHANGED <<queue, process_count, top_pid, compiled, interactive,
                       now, pass, rd>>
    BY <1>5 DEF Finish, table, locals
  <2>2. block' \in [Players -> BOOLEAN] BY <1>1, <2>1 DEF TypeRest
  <2> QED BY <1>3, <2>1, <2>2
<1>6. ASSUME Slice
      PROVE  PInv'
  <2>1. pc = "run" /\ Leave /\ UNCHANGED <<top_pid, compiled, interactive, now>>
    BY <1>6 DEF Slice, Executing
  <2>2. CASE Full(Me.uid)
    <3>1. /\ Clean({cur}, frames, instances)
          /\ block' = [block EXCEPT ![Me.uid] =
                         ~Me.been /\ Me.mode = "BACKGROUND"]
          /\ UNCHANGED <<queue, process_count, pass, rd>>
      BY <1>6, <2>2 DEF Slice, locals
    <3>2. block' \in [Players -> BOOLEAN] BY <1>1, <3>1 DEF TypeRest
    <3> QED BY <1>3, <2>1, <3>1, <3>2
  <2>3. CASE ~Full(Me.uid)
    <3>1. /\ Insert(NewEvent("DELAY", 0, Me.uid, ProgramOf(cur), cur, cur))
          /\ block' = [block EXCEPT ![Me.uid] = ~Me.been]
          /\ UNCHANGED <<frames, instances>>
      BY <1>6, <2>3 DEF Slice
    <3>2. block' \in [Players -> BOOLEAN] BY <1>1, <3>1 DEF TypeRest
    <3>3. interactive' \in [Players -> BOOLEAN] BY <1>1, <2>1 DEF TypeRest
    <3> QED BY <1>4, <2>1, <3>1, <3>2, <3>3
  <2> QED BY <2>2, <2>3
<1>7. ASSUME NEW d \in Delays, Sleep(d)
      PROVE  PInv'
  <2>1. /\ pc = "run" /\ Leave /\ UNCHANGED <<top_pid, compiled, interactive, now>>
        /\ block' = [block EXCEPT ![Me.uid] = ~Me.been]
        /\ d \in Int
    BY <1>7, ConstantAssumption DEF Sleep, Executing
  <2>2. block' \in [Players -> BOOLEAN] BY <1>1, <2>1 DEF TypeRest
  <2>3. CASE Full(Me.uid)
    <3>1. /\ Clean({cur}, frames, instances)
          /\ UNCHANGED <<queue, process_count, pass, rd>>
      BY <1>7, <2>3 DEF Sleep, locals
    <3> QED BY <1>3, <2>1, <2>2, <3>1
  <2>4. CASE ~Full(Me.uid)
    <3>1. /\ Insert(NewEvent("DELAY", d, Me.uid, ProgramOf(cur), cur, cur))
          /\ UNCHANGED <<frames, instances>>
      BY <1>7, <2>4 DEF Sleep
    <3>2. interactive' \in [Players -> BOOLEAN] BY <1>1, <2>1 DEF TypeRest
    <3> QED BY <1>4, <2>1, <2>2, <3>1, <3>2
  <2> QED BY <2>3, <2>4
<1>8. ASSUME Read
      PROVE  PInv'
  <2>1. /\ pc = "run" /\ Leave
        /\ Insert(NewEvent("READ", -1, Me.uid, ProgramOf(cur), cur, cur))
        /\ UNCHANGED <<frames, instances, top_pid, compiled, now>>
    BY <1>8 DEF Read, Executing
  <2>2. /\ block' \in [Players -> BOOLEAN]
        /\ interactive' \in [Players -> BOOLEAN]
    BY <1>1, <1>8 DEF Read, TypeRest
  <2>3. -1 \in Int OBVIOUS
  <2> QED BY <1>4, <2>1, <2>2, <2>3
<1>9. ASSUME NEW g \in Programs, Call(g)
      PROVE  PInv'
  <2> DEFINE r == [Me EXCEPT !.caller = Append(@, g)]
             fs == [frames EXCEPT ![cur] = r]
             inst == [instances EXCEPT ![g] = @ + 1]
  <2>1. cur # 0 /\ pc = "run" BY <1>1, <1>9 DEF Call, Executing, Control
  <2>2. /\ cur \in Live /\ cur \in Pid /\ Me \in Frame
        /\ Me.caller \in Seq(Programs)
    BY <2>1, CurFrame
  <2>3. Append(Me.caller, g) \in Seq(Programs) /\ Append(Me.caller, g) # <<>>
    BY <2>2
  <2>4. r \in Frame /\ r.caller # <<>> BY <2>2, <2>3 DEF Frame
  <2>5. fs = [frames EXCEPT ![cur].caller = Append(@, g)]
    BY <2>2 DEF Me
  <2>6. r # NoFrame BY <2>4, FrameLive
  <2>7. inst \in [Programs -> Int] BY <1>1 DEF TypeRest
  <2>8. UNCHANGED <<top_pid, now, by, cur, writeonly, pass, rd>> BY <1>9 DEF Call, locals
  <2> HIDE DEF r
  <2>9. CASE compiled[g]
    <3>1. /\ frames' = fs /\ instances' = inst
          /\ UNCHANGED <<queue, process_count, compiled, player, pc>>
      BY <1>9, <2>5, <2>9 DEF Call
    <3>2. QInv' /\ FInv' BY <1>1, <2>2, <2>4, <2>8, <3>1, EditStep
    <3>3. TypeRest' BY <1>1, <2>7, <2>8, <3>1 DEF TypeRest, player
    <3>4. Control' BY <1>1, <2>8, <3>1 DEF Control
    <3> QED BY <3>2, <3>3, <3>4 DEF PInv
  <2>10. CASE ~compiled[g]
    <3>1. /\ block' = Unblocked(Doomed(g, 1))
          /\ process_count' = process_count - Cardinality(Doomed(g, 1))
          /\ \/ /\ Unlink(Doomed(g, 1), fs, inst)
                /\ compiled' = [compiled EXCEPT ![g] = TRUE] /\ pc' = pc
             \/ /\ Unlink(Doomed(g, 1), frames, instances)
                /\ compiled' = compiled /\ pc' = "abort"
      BY <1>9, <2>5, <2>10 DEF Call, dequeue_prog
    <3>2. Doomed(g, 1) \in SUBSET (DOMAIN queue) BY DoomedPositions
    <3>3. fs \in [Pid -> Frame \cup {NoFrame}]
      BY <1>1, <2>4 DEF FInv
    <3>4. \A f \in Pid : fs[f] = NoFrame <=> frames[f] = NoFrame
      BY <1>1, <2>2, <2>6 DEF FInv, Live
    <3>5. \A f \in Live : fs[f].caller # <<>>
      BY <1>1, <2>4 DEF FInv, Live
    <3> HIDE DEF fs, inst
    <3>6. /\ QInv' /\ FInv' /\ instances' \in [Programs -> Int]
          /\ interactive' \in [Players -> BOOLEAN]
      <4>1. CASE Unlink(Doomed(g, 1), fs, inst)
        BY <1>1, <2>7, <2>8, <3>2, <3>3, <3>4, <3>5, <4>1, UnlinkStep
      <4>2. CASE Unlink(Doomed(g, 1), frames, instances)
        BY <1>1, <2>8, <3>2, <4>2, KillStep
      <4> QED BY <3>1, <4>1, <4>2
    <3>7. block' \in [Players -> BOOLEAN] BY <1>1, <3>1 DEF Unblocked, TypeRest
    <3>8. process_count' \in Int BY <3>1, <3>2, DoomedCount
    <3>9. compiled' \in [Programs -> BOOLEAN] /\ pc' \in {"run", "abort"}
      BY <1>1, <2>1, <3>1 DEF TypeRest
    <3>10. TypeRest' BY <1>1, <2>8, <3>6, <3>7, <3>8, <3>9 DEF TypeRest
    <3>11. Control' BY <1>1, <2>1, <2>8, <3>9 DEF Control
    <3> QED BY <3>6, <3>10, <3>11 DEF PInv
  <2> QED BY <2>9, <2>10
<1>10. ASSUME Return
       PROVE  PInv'
  <2> DEFINE s == SubSeq(Me.caller, 1, Len(Me.caller) - 1)
             r == [Me EXCEPT !.caller = s]
  <2>1. cur # 0 /\ Len(Me.caller) > 1
    BY <1>1, <1>10 DEF Return, Executing, Control
  <2>2. /\ cur \in Live /\ cur \in Pid /\ Me \in Frame
        /\ Me.caller \in Seq(Programs) /\ Len(Me.caller) \in Nat \ {0}
    BY <2>1, CurFrame
  <2>3. s \in Seq(Programs) /\ Len(s) = Len(Me.caller) - 1
    BY <2>1, <2>2, SubSeqProperties
  <2> HIDE DEF s
  <2>4. s # <<>> BY <2>1, <2>2, <2>3
  <2>5. r \in Frame /\ r.caller # <<>> BY <2>2, <2>3, <2>4 DEF Frame
  <2>6. /\ frames' = [frames EXCEPT ![cur] = r]
        /\ instances' = [instances EXCEPT ![ProgramOf(cur)] = @ - 1]
        /\ UNCHANGED <<queue, process_count, top_pid, compiled, player, now, pc,
                       by, cur, writeonly, locals>>
    BY <1>10, <2>2 DEF Return, Me, s, table
  <2> HIDE DEF r
  <2>7. QInv' /\ FInv' BY <1>1, <2>2, <2>5, <2>6, EditStep
  <2>8. instances' \in [Programs -> Int]
    <3>1. instances \in [Programs -> Int] BY <1>1 DEF TypeRest
    <3>2. ProgramOf(cur) \in Programs BY <2>1, CurFrame
    <3>3. instances[ProgramOf(cur)] - 1 \in Int BY <3>1, <3>2
    <3> QED BY <2>6, <3>1, <3>2, <3>3
  <2>9. TypeRest' BY <1>1, <2>6, <2>8 DEF TypeRest, player, locals
  <2>10. Control' BY <1>1, <2>6 DEF Control, locals
  <2> QED BY <2>7, <2>9, <2>10 DEF PInv
<1>11. ASSUME NEW m \in Mode, SetMode(m)
       PROVE  PInv'
  <2> DEFINE r == [Me EXCEPT !.mode = m, !.been = Me.been \/ m = "BACKGROUND",
                             !.writeonly = Me.writeonly \/ m = "BACKGROUND"]
  <2>1. cur # 0 BY <1>1, <1>11 DEF SetMode, Executing, Control
  <2>2. cur \in Live /\ cur \in Pid /\ Me \in Frame /\ Me.caller # <<>>
    BY <2>1, CurFrame
  <2>3. r \in Frame /\ r.caller # <<>> BY <2>2 DEF Frame
  <2>4. /\ frames' = [frames EXCEPT ![cur] = r]
        /\ UNCHANGED <<queue, process_count, top_pid, instances, compiled, player,
                       now, pc, by, cur, writeonly, locals>>
    <3>1. frames' = [frames EXCEPT ![cur] = r]
      BY <1>11 DEF SetMode, Me
    <3> QED BY <1>11, <3>1 DEF SetMode, table
  <2> HIDE DEF r
  <2>5. QInv' /\ FInv' BY <1>1, <2>2, <2>3, <2>4, EditStep
  <2>6. TypeRest' BY <1>1, <2>4 DEF TypeRest, player, locals
  <2>7. Control' BY <1>1, <2>4 DEF Control, locals
  <2> QED BY <2>5, <2>6, <2>7 DEF PInv
<1>12. ASSUME Fork
       PROVE  PInv'
  <2>1. cur # 0 BY <1>1, <1>12 DEF Fork, Executing, Control
  <2>2. /\ top_pid <= MaxPid /\ top_pid' = top_pid + 1
        /\ UNCHANGED <<compiled, player, now, pc, by, cur, writeonly>>
    BY <1>12 DEF Fork
  <2>3. /\ top_pid \in Pid /\ top_pid \notin Queued /\ top_pid \notin Live
        /\ top_pid \in Nat \ {0} /\ top_pid' \in 1..(MaxPid + 1)
    BY <1>1, <2>2, ConstantAssumption DEF FInv, TypeRest, Pid
  <2>4. CASE Full(Me.uid)
    <3>1. UNCHANGED <<queue, process_count, frames, instances, locals>>
      BY <1>12, <2>4 DEF Fork
    <3>2. Live' = Live BY <3>1 DEF Live
    <3>3. QInv' /\ Queued' = Queued /\ Held' = Held BY <1>1, <3>1, SameQueue
    <3>4. \A n \in Queued' \cup Live' : n < top_pid'
      BY <1>1, <2>2, <2>3, <3>2, <3>3, NumbersNat
    <3>5. FInv' BY <1>1, <2>2, <3>1, <3>2, <3>3, <3>4 DEF FInv
    <3>6. TypeRest' BY <1>1, <2>2, <2>3, <3>1 DEF TypeRest, player, locals
    <3>7. Control' BY <1>1, <2>2, <3>1 DEF Control, locals
    <3> QED BY <3>3, <3>5, <3>6, <3>7 DEF PInv
  <2>5. CASE ~Full(Me.uid)
    <3> DEFINE r == [Me EXCEPT !.mode = "BACKGROUND", !.been = FALSE,
                               !.writeonly = TRUE]
               e == NewEvent("DELAY", 0, Me.uid, ProgramOf(cur), top_pid, top_pid)
    <3>1. /\ frames' = [frames EXCEPT ![top_pid] = r]
          /\ instances' = [g \in Programs |-> instances[g] + Uses(g, {cur})]
          /\ Insert(e)
      BY <1>12, <2>5 DEF Fork
    <3>2. /\ Me \in Frame /\ Me.caller # <<>> /\ Me.uid \in Players
          /\ ProgramOf(cur) \in Programs
      BY <2>1, CurFrame
    <3>3. r \in Frame /\ r.caller # <<>> BY <3>2 DEF Frame, Mode
    <3>4. e \in Event /\ Shape(e) /\ e.eventnum = top_pid /\ e.fr = top_pid
      BY <1>1, <2>3, <3>2 DEF NewEvent, Event, Kind, Shape, TypeRest
    <3> HIDE DEF r, e
    <3>5. /\ QInv' /\ Queued' = Queued \cup {e.eventnum}
          /\ Held' = Held \cup ({e.fr} \ {0})
          /\ process_count' \in Int
          /\ pass' \in PassType /\ pass'.uid = pass.uid
          /\ rd' \in RdType /\ rd'.uid = rd.uid
      BY <1>1, <2>3, <3>1, <3>4, InsertStep
    <3>6. Queued' = Queued \cup {top_pid} /\ Held' = Held \cup {top_pid}
      BY <2>3, <3>4, <3>5
    <3>7. r # NoFrame BY <3>3, FrameLive
    <3>8. Live' = Live \cup {top_pid}
      BY <1>1, <2>3, <3>1, <3>7 DEF Live, FInv
    <3>9. cur \in Live /\ cur \notin Queued /\ cur # top_pid
      BY <1>1, <2>1, <2>3 DEF FInv
    <3>10. \A n \in Queued' \cup Live' : n < top_pid'
      BY <1>1, <2>2, <2>3, <3>6, <3>8, NumbersNat
    <3>11. \A f \in Live' : frames'[f].caller # <<>>
      BY <1>1, <2>3, <3>1, <3>3, <3>8 DEF FInv, Live
    <3>12. frames' \in [Pid -> Frame \cup {NoFrame}]
      BY <1>1, <3>1, <3>3 DEF FInv
    <3>13. FInv'
      BY <1>1, <2>2, <3>6, <3>8, <3>9, <3>10, <3>11, <3>12 DEF FInv
    <3>14. instances' \in [Programs -> Int]
      BY <1>1, <3>1, CountsNat DEF QInv, TypeRest
    <3>15. TypeRest'
      BY <1>1, <2>2, <2>3, <3>5, <3>14 DEF TypeRest, player, PassType, RdType
    <3>16. Control' BY <1>1, <2>2, <3>5 DEF Control
    <3> QED BY <3>5, <3>13, <3>15, <3>16 DEF PInv
  <2> QED BY <2>4, <2>5
<1>13. ASSUME top_pid <= MaxPid, NEW kind \in {"QUEUE", "MPI"}, NEW d \in Int,
              NEW p \in Players, NEW g \in Programs \cup {NOTHING},
              kind = "QUEUE" => g \in Programs,
              \/ UNCHANGED <<table, locals>>
              \/ /\ top_pid' = top_pid + 1
                 /\ Insert(NewEvent(kind, d, p, g, 0, top_pid)),
              UNCHANGED <<frames, instances, compiled, player, now, pc, by, cur, writeonly>>
       PROVE  PInv'
  <2>1. CASE UNCHANGED <<table, locals>>
    <3>1. QInv' /\ FInv' BY <1>1, <1>13, <2>1, SameFrames DEF table
    <3>2. TypeRest' BY <1>1, <1>13, <2>1 DEF table, player, locals, TypeRest
    <3>3. Control' BY <1>1, <1>13, <2>1 DEF locals, Control
    <3> QED BY <3>1, <3>2, <3>3 DEF PInv
  <2>2. CASE /\ top_pid' = top_pid + 1
             /\ Insert(NewEvent(kind, d, p, g, 0, top_pid))
    <3>1. /\ QInv' /\ FInv'
          /\ process_count' \in Int /\ top_pid' \in 1..(MaxPid + 1)
          /\ pass' \in PassType /\ pass'.uid = pass.uid
          /\ rd' \in RdType /\ rd'.uid = rd.uid
      BY <1>1, <1>13, <2>2, AnnounceStep
    <3>2. TypeRest' BY <1>1, <1>13, <3>1 DEF player, TypeRest, PassType, RdType
    <3>3. Control' BY <1>1, <1>13, <3>1 DEF Control
    <3> QED BY <3>1, <3>2, <3>3 DEF PInv
  <2> QED BY <1>13, <2>1, <2>2
<1>14. ASSUME NEW d \in Delays, NEW g \in Programs, Queue(d, g)
       PROVE  PInv'
  <2>1. cur # 0 BY <1>1, <1>14 DEF Queue, Executing, Control
  <2>2. Me.uid \in Players /\ d \in Int
    BY <2>1, CurFrame, ConstantAssumption
  <2>3. /\ top_pid <= MaxPid
        /\ UNCHANGED <<frames, instances, compiled, player, now, pc, by, cur, writeonly>>
        /\ \/ UNCHANGED <<table, locals>>
           \/ /\ top_pid' = top_pid + 1
              /\ Insert(NewEvent("QUEUE", d, Me.uid, g, 0, top_pid))
    BY <1>14 DEF Queue
  <2> QED BY <1>13, <2>2, <2>3
<1>15. ASSUME NEW d \in Delays, MpiDelay(d)
       PROVE  PInv'
  <2>1. pass.uid \in Players /\ d \in Int
    BY <1>1, <1>15, ConstantAssumption DEF MpiDelay, Control
  <2>2. /\ top_pid <= MaxPid
        /\ UNCHANGED <<frames, instances, compiled, player, now, pc, by, cur, writeonly>>
        /\ \/ UNCHANGED <<table, locals>>
           \/ /\ top_pid' = top_pid + 1
              /\ Insert(NewEvent("MPI", d, pass.uid, NOTHING, 0, top_pid))
    BY <1>15 DEF MpiDelay
  <2> QED BY <1>13, <2>1, <2>2
<1>16. ASSUME NEW n \in Pid, Kill(n)
       PROVE  PInv'
  <2>1. Named(n) \in SUBSET (DOMAIN queue) BY DEF Named
  <2>2. /\ Unlink(Named(n), frames, instances)
        /\ block' = Unblocked(Named(n))
        /\ process_count' = process_count - 1
        /\ UNCHANGED <<top_pid, compiled, now, pc, by, cur, writeonly, pass, rd>>
    BY <1>16 DEF Kill, dequeue_process, locals
  <2>3. process_count' \in Int BY <1>1, <2>2 DEF TypeRest
  <2> QED BY <2>1, <2>2, <2>3, KilledStep
<1>17. ASSUME MpiKillAll
       PROVE  PInv'
  <2>1. Doomed(pass.uid, 0) \in SUBSET (DOMAIN queue) BY DoomedPositions
  <2>2. /\ Unlink(Doomed(pass.uid, 0), frames, instances)
        /\ block' = Unblocked(Doomed(pass.uid, 0))
        /\ process_count' = process_count - Cardinality(Doomed(pass.uid, 0))
        /\ UNCHANGED <<top_pid, compiled, now, pc, by, cur, writeonly, pass, rd>>
    BY <1>17 DEF MpiKillAll, dequeue_prog, locals
  <2> QED BY <2>1, <2>2, KilledStep, DoomedCount
<1>18. ASSUME EndMpi
       PROVE  PInv'
  <2>1. QInv' /\ FInv' BY <1>1, <1>18, SameFrames DEF EndMpi, table
  <2>2. NoPass \in PassType BY ConstantAssumption DEF PassType, NoPass
  <2>3. pass' \in PassType /\ pc' \in {"idle", "ret"}
    BY <1>1, <1>18, <2>2 DEF EndMpi, TypeRest, PassType
  <2>4. TypeRest'
    BY <1>1, <1>18, <2>3 DEF EndMpi, table, player, TypeRest, PassType
  <2>5. Control'
    <3>1. CASE by = "event"
      BY <1>1, <1>18, <3>1 DEF EndMpi, Control
    <3>2. CASE by = "cmd"
      BY <1>1, <1>18, <3>2 DEF EndMpi, Control
    <3> QED BY <1>1, <1>18, <3>1, <3>2 DEF EndMpi, Control, TypeRest
  <2> QED BY <2>1, <2>4, <2>5 DEF PInv
<1> QED BY <1>2, <1>5, <1>6, <1>7, <1>8, <1>9, <1>10, <1>11, <1>12, <1>14, <1>15,
           <1>16, <1>17, <1>18 DEF Interpreter

-----------------------------------------------------------------------------
(* The theorems. *)

\* The empty table satisfies the inductive invariant.
LEMMA InitIInv == Init => IInv
<1> SUFFICES ASSUME Init PROVE IInv
  OBVIOUS
<1>1. queue = <<>> /\ DOMAIN queue = {} /\ queue \in Seq(Event)
  BY DEF Init
<1>2. Live = {} /\ Held = {} BY <1>1 DEF Init, Live, Held
<1>3. NoPass \in PassType /\ NoRd \in RdType
  BY ConstantAssumption DEF PassType, RdType, NoPass, NoRd
<1>4. TypeOK
  <2>1. 1 \in 1..(MaxPid + 1) /\ 1 \in 1..MaxNow
    BY ConstantAssumption
  <2>2. /\ frames \in [Pid -> Frame \cup {NoFrame}]
        /\ instances \in [Programs -> Int]
        /\ compiled \in [Programs -> BOOLEAN]
        /\ block \in [Players -> BOOLEAN]
        /\ interactive \in [Players -> BOOLEAN]
    BY DEF Init
  <2>3. /\ process_count \in Int /\ top_pid \in 1..(MaxPid + 1)
        /\ now \in 1..MaxNow /\ cur \in Pid \cup {0}
        /\ pc = "idle" /\ by = "cmd"
    BY <2>1 DEF Init
  <2>4. pass \in PassType /\ rd \in RdType BY <1>3 DEF Init
  <2>5. writeonly \in BOOLEAN BY DEF Init
  <2> QED BY <1>1, <2>2, <2>3, <2>4, <2>5 DEF TypeOK, PassType, RdType
<1>5. Control /\ Numbers /\ FramesOwned /\ QueueOrder
  BY <1>1, <1>2 DEF Init, Control, Numbers, FramesOwned, QueueOrder
<1> QED BY <1>4, <1>5 DEF IInv

\* The inductive invariant is inductive.
LEMMA NextIInv == IInv /\ [Next]_vars => IInv'
<1> SUFFICES ASSUME IInv, [Next]_vars PROVE PInv'
  BY Whole DEF PInv
<1>1. PInv BY Parts DEF PInv
<1>2. QInv /\ FInv /\ Control /\ TypeRest BY <1>1 DEF PInv
<1>3. CASE MainLoop BY <1>1, <1>3, MainLoopStep
<1>4. CASE Events BY <1>1, <1>4, EventsStep
<1>5. CASE Interpreter BY <1>1, <1>5, InterpreterStep
<1>6. CASE Tick
  <2>1. QInv' /\ FInv' BY <1>2, <1>6, SameFrames DEF Tick, table
  <2>2. now' \in 1..MaxNow
    BY <1>2, <1>6, ConstantAssumption DEF Tick, TypeRest
  <2>3. TypeRest'
    BY <1>2, <1>6, <2>2 DEF Tick, table, player, locals, TypeRest
  <2>4. Control' BY <1>2, <1>6 DEF Tick, locals, Control
  <2> QED BY <2>1, <2>3, <2>4 DEF PInv
<1>7. CASE UNCHANGED vars
  <2>1. QInv' /\ FInv' BY <1>2, <1>7, SameFrames DEF vars
  <2>2. TypeRest' /\ Control' BY <1>2, <1>7 DEF vars, TypeRest, Control
  <2> QED BY <2>1, <2>2 DEF PInv
<1> QED BY <1>3, <1>4, <1>5, <1>6, <1>7 DEF Next

\* The inductive invariant of the process table.
THEOREM Invariance == Spec => []IInv
<1>1. Init => IInv BY InitIInv
<1>2. IInv /\ [Next]_vars => IInv' BY NextIInv
<1> QED BY <1>1, <1>2, PTL DEF Spec

\* Every variable keeps its type, whatever the limits and the delays.
THEOREM TypeCorrect == Spec => []TypeOK
<1>1. IInv => TypeOK BY DEF IInv
<1> QED BY <1>1, Invariance, PTL

\* add_event, dequeue_prog, dequeue_process, handle_read_event and
\* next_timequeue_event keep the list sorted, with the READs at its end.
THEOREM QueueSorted == Spec => []QueueOrder
<1>1. IInv => QueueOrder BY DEF IInv
<1> QED BY <1>1, Invariance, PTL

\* No frame is freed twice, leaked, or run while it waits in the table.
THEOREM FramesSafe == Spec => []FramesOwned
<1>1. IInv => FramesOwned BY DEF IInv
<1> QED BY <1>1, Invariance, PTL

=============================================================================
