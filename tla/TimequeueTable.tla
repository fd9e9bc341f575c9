--------------------------- MODULE TimequeueTable ---------------------------
(***************************************************************************)
(* More proofs about the process table (src/src/timequeue.c,               *)
(* src/src/interp.c, src/src/compile.c), for every value of the constants. *)
(* First its limits: the count add_event refuses events by, and the number *)
(* of events one player may have waiting. Then that it implements          *)
(* ProcessLife: the initial state maps to ProcessLife's, and every step to *)
(* one of its steps or to a stutter. Last the code of the programs: the    *)
(* instance counts of interp, prog_clean, IN_CALL, IN_RET and prim_fork,   *)
(* and that a program's code is freed only when no frame will return into  *)
(* it. All rest on the inductive invariant of TimequeueProofs and on what  *)
(* an action can do to the list and the count (TableSteps).                *)
(***************************************************************************)
EXTENDS TimequeueProofs

-----------------------------------------------------------------------------
(* The limits.                                                             *)

\* The list keeps some of its nodes, in their order.
Thinned ==
  \E m \in Nat : \E f \in [1..m -> DOMAIN queue] :
     /\ \A i, j \in 1..m : i < j => f[i] < f[j]
     /\ queue' = [i \in 1..m |-> queue[f[i]]]

\* The top of the stack of callers of frame f, as fs has the frames.
Top(fs, f) == fs[f].caller[Len(fs[f].caller)]

\* Everything an action can do to the list and its count.
Untouched == /\ UNCHANGED <<queue, process_count>>
             /\ by' = "event" => by = "event"
             /\ by = "event" => by' = "event"
Dropped == /\ \E K \in SUBSET (DOMAIN queue) : \E fs, inst :
                /\ Unlink(K, fs, inst)
                /\ process_count' <= process_count - Cardinality(K)
           /\ by' = by
Accepted(e) == /\ Insert(e)
               /\ IsRead(e) \/ ~Full(e.uid)
               /\ e.fr = 0 \/ e.prog = Top(frames', e.fr)
Admitted == (\E e : Accepted(e)) /\ by' = by
Taken == /\ queue # <<>> /\ queue' = Tail(queue)
         /\ UNCHANGED process_count /\ by = "cmd" /\ by' = "event"
HandedOver ==
  /\ \E k \in DOMAIN queue :
       queue' = [j \in 1..(Len(queue) - 1) |->
                   IF j < k THEN queue[j] ELSE queue[j + 1]]
  /\ process_count' = process_count - 1
  /\ by = "cmd"
CountedDown == /\ UNCHANGED queue
               /\ process_count' = process_count - 1 /\ by = "event"

-----------------------------------------------------------------------------
(* What a change of the list does to its length. *)

\* Unlinking the nodes at K shortens the list by as many.
LEMMA UnlinkLength ==
  ASSUME QInv, NEW K \in SUBSET (DOMAIN queue), NEW fs, NEW inst,
         Unlink(K, fs, inst)
  PROVE  /\ Thinned
         /\ Len(queue') = Len(queue) - Cardinality(K)
         /\ Cardinality(K) \in Nat
<1> DEFINE n == Len(queue)
           m == Cardinality((DOMAIN queue) \ K)
<1>1. n \in Nat /\ DOMAIN queue = 1..n BY DEF QInv
<1>2. IsFiniteSet(1..n) /\ Cardinality(1..n) = n
  BY SMTT(30), <1>1, FS_Interval
<1>3. K \subseteq 1..n /\ (1..n) \cap K = K BY <1>1
<1>4. Cardinality((1..n) \ K) = Cardinality(1..n) - Cardinality((1..n) \cap K)
  BY <1>2, FS_Difference
<1>5. m = n - Cardinality(K) BY <1>1, <1>2, <1>3, <1>4
<1>6. m \in Nat /\ Cardinality(K) \in Nat BY CountsNat DEF QInv
<1>7. PICK f \in Increasing((DOMAIN queue) \ K) :
        queue' = [i \in DOMAIN f |-> queue[f[i]]]
  BY DEF Unlink
<1>8. /\ f \in [1..m -> (DOMAIN queue) \ K]
      /\ \A i, j \in 1..m : i < j => f[i] < f[j]
      /\ queue' = [i \in 1..m |-> queue[f[i]]]
  BY <1>7 DEF Increasing
<1>9. f \in [1..m -> DOMAIN queue] BY <1>8
<1> HIDE DEF m
<1>10. Thinned BY <1>6, <1>8, <1>9 DEF Thinned
<1>11. queue' \in Seq(Event) BY <1>6, <1>8, <1>9, Kept DEF QInv
<1>12. Len(queue') = m
  <2>1. DOMAIN queue' = 1..m BY <1>8
  <2>2. Len(queue') \in Nat /\ DOMAIN queue' = 1..Len(queue') BY <1>11
  <2> QED BY <1>6, <2>1, <2>2
<1> QED BY <1>5, <1>6, <1>10, <1>12

\* A list that is left alone keeps all of its nodes.
LEMMA SameThinned ==
  ASSUME QInv, UNCHANGED queue
  PROVE  Thinned
<1> DEFINE m == Len(queue)
           f == [i \in 1..m |-> i]
<1>1. m \in Nat /\ DOMAIN queue = 1..m BY DEF QInv
<1>2. f \in [1..m -> DOMAIN queue] BY <1>1
<1>3. \A i, j \in 1..m : i < j => f[i] < f[j] OBVIOUS
<1>4. queue' = [i \in 1..m |-> queue[f[i]]]
  <2>1. queue = [i \in 1..m |-> queue[i]] BY <1>1 DEF QInv
  <2> QED BY <2>1
<1> HIDE DEF f, m
<1> QED BY <1>1, <1>2, <1>3, <1>4 DEF Thinned

\* Taking one node off the list keeps the others.
LEMMA RemovedThinned ==
  ASSUME QInv, NEW k \in DOMAIN queue,
         queue' = [j \in 1..(Len(queue) - 1) |->
                     IF j < k THEN queue[j] ELSE queue[j + 1]]
  PROVE  Thinned /\ Len(queue') = Len(queue) - 1 /\ Len(queue) \in Nat
<1> DEFINE n == Len(queue)
           m == n - 1
           f == [j \in 1..m |-> IF j < k THEN j ELSE j + 1]
<1>1. n \in Nat \ {0} /\ DOMAIN queue = 1..n /\ k \in 1..n BY DEF QInv
<1>2. m \in Nat /\ f \in [1..m -> DOMAIN queue] BY <1>1
<1>3. \A i, j \in 1..m : i < j => f[i] < f[j] BY <1>1
<1>4. queue' = [i \in 1..m |-> queue[f[i]]] BY <1>1
<1>5. DOMAIN queue' = 1..m BY <1>4
<1> HIDE DEF f
<1>6. Thinned BY <1>2, <1>3, <1>4 DEF Thinned
<1>7. queue' \in Seq(Event) BY Removed DEF QInv
<1>8. Len(queue') = m
  <2>1. Len(queue') \in Nat /\ DOMAIN queue' = 1..Len(queue') BY <1>7
  <2> QED BY <1>2, <1>5, <2>1
<1> QED BY <1>1, <1>6, <1>8

\* Taking the first node off the list is the same.
LEMMA TailThinned ==
  ASSUME QInv, queue # <<>>, queue' = Tail(queue)
  PROVE  Thinned /\ Len(queue') = Len(queue) - 1 /\ Len(queue) \in Nat
<1>1. Len(queue) \in Nat \ {0} /\ 1 \in DOMAIN queue BY DEF QInv
<1>2. /\ Tail(queue) \in Seq(Event) /\ Len(Tail(queue)) = Len(queue) - 1
      /\ \A j \in 1..(Len(queue) - 1) : Tail(queue)[j] = queue[j + 1]
  BY HeadTailProperties DEF QInv
<1> DEFINE t == Tail(queue)
<1>3. /\ t \in Seq(Event) /\ Len(t) = Len(queue) - 1
      /\ \A j \in 1..(Len(queue) - 1) : t[j] = queue[j + 1] /\ ~(j < 1)
  BY <1>1, <1>2
<1> HIDE DEF t
<1>4. t = [j \in 1..(Len(queue) - 1) |->
             IF j < 1 THEN queue[j] ELSE queue[j + 1]]
  BY <1>1, <1>3
<1>5. queue' = [j \in 1..(Len(queue) - 1) |->
                  IF j < 1 THEN queue[j] ELSE queue[j + 1]]
  BY <1>4 DEF t
<1> QED BY <1>1, <1>5, RemovedThinned

\* A new event makes the list longer by one.
LEMMA InsertLength ==
  ASSUME QInv, NEW e, NEW k \in 0..Len(queue), queue' = Linked(e, k)
  PROVE  /\ Len(queue) \in Nat /\ Len(queue') = Len(queue) + 1
         /\ DOMAIN queue' = 1..(Len(queue) + 1)
         /\ \A i \in 1..(Len(queue) + 1) :
              queue'[i] = IF i <= k THEN queue[i]
                          ELSE IF i = k + 1 THEN e ELSE queue[i - 1]
<1>1. Len(queue) \in Nat BY DEF QInv
<1>2. DOMAIN queue' = 1..(Len(queue) + 1) BY DEF Linked
<1>3. Len(queue') = Len(queue) + 1 BY <1>1, <1>2 DEF Linked
<1> QED BY <1>1, <1>2, <1>3 DEF Linked

-----------------------------------------------------------------------------
(* Every action changes the list and the count in one of these ways. *)

\* The calls of the main loop.
LEMMA MainLoopTable ==
  ASSUME PInv, MainLoop
  PROVE  Untouched \/ Dropped \/ Admitted \/ HandedOver
<1>1. QInv /\ TypeRest /\ Control BY DEF PInv
<1>2. \A o, so : Doomed(o, so) \in SUBSET (DOMAIN queue)
  BY DoomedPositions
<1>3. \A o, so, fs, inst :
         dequeue_prog(o, so, fs, inst) /\ by' = by => Dropped
  <2> SUFFICES ASSUME NEW o, NEW so, NEW fs, NEW inst,
                      dequeue_prog(o, so, fs, inst), by' = by
               PROVE  Dropped
    OBVIOUS
  <2>1. process_count' <= process_count - Cardinality(Doomed(o, so))
    BY <1>1, <1>2, CountsNat DEF dequeue_prog, QInv, TypeRest
  <2> QED BY <1>2, <2>1 DEF dequeue_prog, Dropped
<1>4. ASSUME NEW p \in Players, NEW g \in Programs, NEW m \in Mode,
             NEW wo \in BOOLEAN, Command(p, g, m, wo)
      PROVE  Untouched
  BY <1>1, <1>4 DEF Command, Idle, Control, interp, Untouched
<1>5. ASSUME NEW p \in Players, NEW g \in Programs, Propqueue(p, g)
      PROVE  Untouched
  BY <1>1, <1>5 DEF Propqueue, Idle, Control, interp, Untouched
<1>6. ASSUME NEW p \in Players, NEW g \in Programs, Listen(p, g)
      PROVE  Untouched \/ Admitted
  <2>1. by' = by BY <1>6 DEF Listen
  <2>2. CASE UNCHANGED <<table, locals>>
    BY <2>1, <2>2 DEF table, Untouched
  <2>3. ASSUME ~Full(p), NEW kind, NEW d, NEW pr,
               Insert(NewEvent(kind, d, p, pr, 0, top_pid))
        PROVE  Admitted
    <3>1. /\ NewEvent(kind, d, p, pr, 0, top_pid).uid = p
          /\ NewEvent(kind, d, p, pr, 0, top_pid).fr = 0
      BY DEF NewEvent
    <3> QED BY <2>1, <2>3, <3>1 DEF Admitted, Accepted
  <2>4. \/ UNCHANGED <<table, locals>>
        \/ ~Full(p) /\ Insert(NewEvent("QUEUE", 0, p, g, 0, top_pid))
        \/ ~Full(p) /\ Insert(NewEvent("MPI", 1, p, NOTHING, 0, top_pid))
    BY <1>6 DEF Listen
  <2> QED BY <2>2, <2>3, <2>4
<1>7. ASSUME NEW p \in Players, Connect(p) \/ Message(p)
      PROVE  Untouched
  BY <1>7 DEF Connect, Message, table, Untouched
<1>8. ASSUME NEW p \in Players, Disconnect(p) \/ BreakLine(p)
      PROVE  Dropped
  BY <1>3, <1>8 DEF Disconnect, BreakLine
<1>9. ASSUME NEW o \in Players \cup Programs, KillObject(o)
      PROVE  Dropped
  BY <1>3, <1>9 DEF KillObject
<1>10. ASSUME NEW g \in Programs, Uncompile(g) \/ Recompile(g)
       PROVE  Dropped
  BY <1>3, <1>10 DEF Uncompile, Recompile
<1>11. ASSUME NEW n \in Pid, KillPid(n)
       PROVE  Untouched \/ Dropped
  <2>1. CASE n \in Queued
    <3>1. Unlink(Named(n), frames, instances) /\ process_count' = process_count - 2
      BY <1>11, <2>1 DEF KillPid, dequeue_process
    <3>2. Named(n) \in SUBSET (DOMAIN queue) BY DEF Named
    <3>3. Cardinality(Named(n)) = 1
      <4>1. PICK i \in DOMAIN queue : queue[i].eventnum = n BY <2>1 DEF Queued
      <4>2. Named(n) = {i} BY <1>1, <4>1 DEF Named, QInv, Distinct
      <4> QED BY <4>2, FS_Singleton
    <3>4. process_count' <= process_count - Cardinality(Named(n))
      BY <1>1, <3>1, <3>3 DEF TypeRest
    <3> QED BY <1>11, <3>1, <3>2, <3>4 DEF KillPid, Dropped
  <2>2. CASE n \notin Queued
    BY <1>11, <2>2 DEF KillPid, Untouched
  <2> QED BY <2>1, <2>2
<1>12. ASSUME KillAll
       PROVE  Dropped
  <2>1. /\ Unlink(DOMAIN queue, frames, instances) /\ by' = by
        /\ process_count' = process_count - Len(queue)
    BY <1>12 DEF KillAll
  <2>2. DOMAIN queue \in SUBSET (DOMAIN queue) OBVIOUS
  <2>3. Cardinality(DOMAIN queue) = Len(queue)
    <3>1. Len(queue) \in Nat /\ DOMAIN queue = 1..Len(queue) BY <1>1 DEF QInv
    <3>2. \A n \in Nat : Cardinality(1..n) = n BY FS_Interval
    <3> QED BY <3>1, <3>2
  <2>4. process_count' <= process_count - Cardinality(DOMAIN queue)
    BY <1>1, <2>1, <2>3 DEF TypeRest, QInv
  <2> QED BY <2>1, <2>2, <2>4 DEF Dropped
<1>13. ASSUME NEW p \in Players, NEW line \in {"text", "@Q", "full"},
              ReadLine(p, line)
       PROVE  Untouched \/ HandedOver
  <2>1. by = "cmd" BY <1>1, <1>13 DEF ReadLine, Idle, Control
  <2>2. CASE ReadsOf(p) = {}
    BY <1>13, <2>2 DEF ReadLine, Untouched
  <2>3. CASE ReadsOf(p) # {}
    <3>1. PICK i \in ReadsOf(p) :
            /\ queue' = [j \in 1..(Len(queue) - 1) |->
                           IF j < i THEN queue[j] ELSE queue[j + 1]]
            /\ process_count' = process_count - 1
      BY <1>13, <2>3 DEF ReadLine
    <3> QED BY <2>1, <3>1 DEF HandedOver, ReadsOf
  <2> QED BY <2>2, <2>3
<1> QED BY <1>4, <1>5, <1>6, <1>7, <1>8, <1>9, <1>10, <1>11, <1>12, <1>13
        DEF MainLoop

\* A pass over the queue, and the end of a read.
LEMMA EventsTable ==
  ASSUME PInv, Events
  PROVE  Untouched \/ Taken \/ CountedDown
<1>1. Control BY DEF PInv
<1>2. ASSUME BeginPass \/ EndPass PROVE Untouched
  BY <1>2 DEF BeginPass, EndPass, table, Untouched
<1>3. ASSUME RunEvent PROVE Taken
  <2>1. /\ queue # <<>> /\ queue' = Tail(queue) /\ UNCHANGED process_count
    BY <1>3 DEF RunEvent, PassDone
  <2>2. by = "cmd" /\ by' = "event"
    BY <1>1, <1>3 DEF Control, RunEvent, RunMpi, RunFrame, RunProgram, interp
  <2> QED BY <2>1, <2>2 DEF Taken
<1>4. ASSUME EndEvent PROVE CountedDown
  BY <1>4 DEF EndEvent, CountedDown
<1>5. ASSUME EndRead PROVE Untouched
  BY <1>5 DEF EndRead, table, Untouched
<1> QED BY <1>2, <1>3, <1>4, <1>5 DEF Events

\* A program, or MPI, that runs: nothing is put in front of add_event's test
\* but a READ, which the code inserts without it.
LEMMA InterpreterTable ==
  ASSUME PInv, Interpreter
  PROVE  Untouched \/ Dropped \/ Admitted
<1>1. QInv /\ FInv /\ TypeRest /\ Control BY DEF PInv
<1>2. \A o, so : Doomed(o, so) \in SUBSET (DOMAIN queue)
  BY DoomedPositions
<1>3. \A o, so, fs, inst :
         dequeue_prog(o, so, fs, inst) /\ by' = by => Dropped
  <2> SUFFICES ASSUME NEW o, NEW so, NEW fs, NEW inst,
                      dequeue_prog(o, so, fs, inst), by' = by
               PROVE  Dropped
    OBVIOUS
  <2>1. process_count' <= process_count - Cardinality(Doomed(o, so))
    BY <1>1, <1>2, CountsNat DEF dequeue_prog, QInv, TypeRest
  <2> QED BY <1>2, <2>1 DEF dequeue_prog, Dropped
<1>4. \A kind, d, p, g, fr, n :
         /\ Insert(NewEvent(kind, d, p, g, fr, n)) /\ by' = by
         /\ kind = "READ" \/ ~Full(p)
         /\ fr = 0 \/ g = Top(frames', fr)
         => Admitted
  BY DEF NewEvent, Admitted, Accepted, IsRead
<1>5. UNCHANGED frames => ProgramOf(cur) = Top(frames', cur)
  BY DEF ProgramOf, Top
<1>6. ASSUME EnterLoop PROVE Untouched \/ Dropped
  <2>1. by' = by BY <1>6 DEF EnterLoop
  <2> QED BY <1>3, <1>6, <2>1 DEF EnterLoop, Untouched
<1>7. ASSUME Finish PROVE Untouched
  BY <1>7 DEF Finish, Leave, table, Untouched
<1>8. ASSUME Slice PROVE Untouched \/ Admitted
  <2>1. CASE Full(Me.uid) BY <1>8, <2>1 DEF Slice, Leave, Untouched
  <2>2. CASE ~Full(Me.uid) BY <1>4, <1>5, <1>8, <2>2 DEF Slice, Leave
  <2> QED BY <2>1, <2>2
<1>9. ASSUME NEW d \in Delays, Sleep(d) PROVE Untouched \/ Admitted
  <2>1. CASE Full(Me.uid) BY <1>9, <2>1 DEF Sleep, Leave, Untouched
  <2>2. CASE ~Full(Me.uid) BY <1>4, <1>5, <1>9, <2>2 DEF Sleep, Leave
  <2> QED BY <2>1, <2>2
<1>10. ASSUME Read PROVE Admitted
  BY <1>4, <1>5, <1>10 DEF Read, Leave
<1>11. ASSUME NEW g \in Programs, Call(g) PROVE Untouched \/ Dropped
  <2>1. by' = by BY <1>11 DEF Call
  <2> QED BY <1>3, <1>11, <2>1 DEF Call, Untouched
<1>12. ASSUME Return \/ (\E m \in Mode : SetMode(m)) \/ EndMpi PROVE Untouched
  BY <1>12 DEF Return, SetMode, EndMpi, table, Untouched
<1>13. ASSUME Fork PROVE Untouched \/ Admitted
  <2>1. CASE Full(Me.uid) BY <1>13, <2>1 DEF Fork, Untouched
  <2>2. CASE ~Full(Me.uid)
    <3>1. /\ frames' = [frames EXCEPT ![top_pid] =
               [Me EXCEPT !.mode = "BACKGROUND", !.been = FALSE,
                          !.writeonly = TRUE]]
          /\ Insert(NewEvent("DELAY", 0, Me.uid, ProgramOf(cur), top_pid, top_pid))
          /\ by' = by /\ top_pid <= MaxPid /\ cur # 0
      BY <1>1, <1>13, <2>2 DEF Fork, Executing, Control
    <3>2. frames'[top_pid].caller = Me.caller
      <4>1. top_pid \in Pid /\ frames \in [Pid -> Frame \cup {NoFrame}]
        BY <1>1, <3>1, ConstantAssumption DEF FInv, TypeRest, Pid
      <4>2. Me \in Frame BY <3>1, CurFrame
      <4> QED BY <3>1, <4>1, <4>2 DEF Frame
    <3>3. ProgramOf(cur) = Top(frames', top_pid)
      BY <3>2 DEF ProgramOf, Top, Me
    <3> QED BY <1>4, <2>2, <3>1, <3>3
  <2> QED BY <2>1, <2>2
<1>14. ASSUME NEW d \in Delays, NEW g \in Programs, Queue(d, g)
       PROVE  Untouched \/ Admitted
  <2>1. CASE Full(Me.uid) BY <1>14, <2>1 DEF Queue, table, Untouched
  <2>2. CASE ~Full(Me.uid) BY <1>4, <1>14, <2>2 DEF Queue
  <2> QED BY <2>1, <2>2
<1>15. ASSUME NEW d \in Delays, MpiDelay(d) PROVE Untouched \/ Admitted
  <2>1. CASE Full(pass.uid) BY <1>15, <2>1 DEF MpiDelay, table, Untouched
  <2>2. CASE ~Full(pass.uid) BY <1>4, <1>15, <2>2 DEF MpiDelay
  <2> QED BY <2>1, <2>2
<1>16. ASSUME NEW n \in Pid, Kill(n) PROVE Dropped
  <2>1. /\ n \in Queued /\ Unlink(Named(n), frames, instances)
        /\ process_count' = process_count - 1 /\ by' = by
    BY <1>16 DEF Kill, dequeue_process
  <2>2. Named(n) \in SUBSET (DOMAIN queue) BY DEF Named
  <2>3. Cardinality(Named(n)) = 1
    <3>1. PICK i \in DOMAIN queue : queue[i].eventnum = n BY <2>1 DEF Queued
    <3>2. Named(n) = {i} BY <1>1, <3>1 DEF Named, QInv, Distinct
    <3> QED BY <3>2, FS_Singleton
  <2>4. process_count' <= process_count - Cardinality(Named(n))
    BY <1>1, <2>1, <2>3 DEF TypeRest
  <2> QED BY <2>1, <2>2, <2>4 DEF Dropped
<1>17. ASSUME MpiKillAll PROVE Dropped
  BY <1>3, <1>17 DEF MpiKillAll
<1> QED BY <1>6, <1>7, <1>8, <1>9, <1>10, <1>11, <1>12, <1>13, <1>14, <1>15,
           <1>16, <1>17 DEF Interpreter

\* All of them together.
LEMMA TableSteps ==
  ASSUME PInv, [Next]_vars
  PROVE  \/ Untouched \/ Dropped \/ Admitted
         \/ HandedOver \/ Taken \/ CountedDown
<1>1. CASE Tick BY <1>1 DEF Tick, table, Untouched
<1>2. CASE UNCHANGED vars BY <1>2 DEF vars, Untouched
<1> QED BY <1>1, <1>2, MainLoopTable, EventsTable, InterpreterTable DEF Next

-----------------------------------------------------------------------------
(* The count. *)

\* An action keeps the count below the number of events there are.
LEMMA CountStep ==
  ASSUME IInv, IInv', CountNotOver, [Next]_vars
  PROVE  CountNotOver'
<1>1. /\ PInv /\ QInv /\ Len(queue) \in Nat
      /\ process_count \in Int /\ process_count' \in Int
  <2>1. QInv /\ PInv BY Parts DEF PInv
  <2> QED BY <2>1 DEF QInv, IInv, TypeOK
<1>2. process_count <= Len(queue) + IF by = "event" THEN 1 ELSE 0
  BY DEF CountNotOver, InEvent
<1> SUFFICES process_count' <= Len(queue') + IF by' = "event" THEN 1 ELSE 0
  BY DEF CountNotOver, InEvent
<1>3. CASE Untouched
  BY <1>1, <1>2, <1>3 DEF Untouched
<1>4. CASE Dropped
  <2>0. PICK K \in SUBSET (DOMAIN queue) : \E fs, inst :
          /\ Unlink(K, fs, inst)
          /\ process_count' <= process_count - Cardinality(K)
    BY <1>4 DEF Dropped
  <2>1. PICK fs, inst :
          /\ Unlink(K, fs, inst)
          /\ process_count' <= process_count - Cardinality(K)
    BY <2>0
  <2>2. Len(queue') = Len(queue) - Cardinality(K) /\ Cardinality(K) \in Nat
    BY <1>1, <2>1, UnlinkLength
  <2>3. by' = by BY <1>4 DEF Dropped
  <2> QED BY <1>1, <1>2, <2>1, <2>2, <2>3
<1>5. CASE Admitted
  <2>1. PICK e : Accepted(e) BY <1>5 DEF Admitted
  <2>2. PICK k \in 0..Len(queue) : queue' = Linked(e, k) BY <2>1 DEF Accepted, Insert
  <2>3. Len(queue') = Len(queue) + 1 BY <1>1, <2>2, InsertLength
  <2>4. process_count' = process_count + 1 /\ by' = by
    BY <1>5, <2>1 DEF Admitted, Accepted, Insert
  <2> QED BY <1>1, <1>2, <2>3, <2>4
<1>6. CASE HandedOver
  <2>1. Len(queue') = Len(queue) - 1
    BY <1>1, <1>6, RemovedThinned DEF HandedOver
  <2> QED BY <1>1, <1>2, <1>6, <2>1 DEF HandedOver
<1>7. CASE Taken
  <2>1. Len(queue') = Len(queue) - 1
    BY <1>1, <1>7, TailThinned DEF Taken
  <2> QED BY <1>1, <1>2, <1>7, <2>1 DEF Taken
<1>8. CASE CountedDown
  BY <1>1, <1>2, <1>8 DEF CountedDown
<1> QED BY <1>1, <1>3, <1>4, <1>5, <1>6, <1>7, <1>8, TableSteps

\* The count never says more events than there are, so add_event does not
\* refuse an event while the table has room: every action that takes an event
\* out of the list counts it down at once, but for the one event that is
\* being run, which next_timequeue_event counts down afterwards.
THEOREM CountNeverOver == Spec => []CountNotOver
<1>1. Init => CountNotOver
  BY DEF Init, CountNotOver
<1>2. IInv /\ IInv' /\ CountNotOver /\ [Next]_vars => CountNotOver'
  BY CountStep
<1> QED BY <1>1, <1>2, Invariance, PTL DEF Spec

-----------------------------------------------------------------------------
(* The player's share. *)

\* The events of player p that count against the player's limit.
Waiting(p) == {i \in DOMAIN queue : queue[i].uid = p /\ ~IsRead(queue[i])}
OwnedBy(p) == {i \in DOMAIN queue : queue[i].uid = p}

\* Keeping some nodes gives nobody more of them.
LEMMA ThinnedShare ==
  ASSUME QInv, Thinned, NEW p
  PROVE  Cardinality(Waiting(p)') <= Cardinality(Waiting(p))
<1>0. PICK m \in Nat : \E f \in [1..m -> DOMAIN queue] :
        /\ \A i, j \in 1..m : i < j => f[i] < f[j]
        /\ queue' = [i \in 1..m |-> queue[f[i]]]
  BY DEF Thinned
<1>1. PICK f \in [1..m -> DOMAIN queue] :
        /\ \A i, j \in 1..m : i < j => f[i] < f[j]
        /\ queue' = [i \in 1..m |-> queue[f[i]]]
  BY <1>0
<1> DEFINE S == Waiting(p)'
           T == Waiting(p)
           h == [i \in S |-> f[i]]
<1>2. Len(queue) \in Nat /\ DOMAIN queue = 1..Len(queue) BY DEF QInv
<1>3. S = {i \in 1..m : queue[f[i]].uid = p /\ ~IsRead(queue[f[i]])}
  BY <1>1 DEF Waiting, IsRead
<1>4. IsFiniteSet(T) BY CountsNat DEF QInv, Waiting
<1>5. h \in [S -> T] BY <1>1, <1>3 DEF Waiting
<1>6. \A a, b \in S : h[a] = h[b] => a = b
  <2> SUFFICES ASSUME NEW a \in S, NEW b \in S, f[a] = f[b] PROVE a = b
    OBVIOUS
  <2>1. a \in 1..m /\ b \in 1..m BY <1>3
  <2>2. f[a] \in Nat BY <1>1, <1>2, <2>1
  <2>3. ~(a < b) /\ ~(b < a) BY <1>1, <2>1, <2>2
  <2> QED BY <2>1, <2>3
<1> HIDE DEF h, S, T
<1>7. h \in Injection(S, T) BY <1>5, <1>6 DEF Injection, IsInjective
<1>8. Cardinality(S) <= Cardinality(T) BY <1>4, <1>7, FS_Injection
<1> QED BY <1>8 DEF S, T

\* A new event is one more for its player, if it is not a READ.
LEMMA InsertShare ==
  ASSUME QInv, NEW e, NEW k \in 0..Len(queue), queue' = Linked(e, k), NEW p
  PROVE  Cardinality(Waiting(p)') <=
           Cardinality(Waiting(p)) + IF e.uid = p /\ ~IsRead(e) THEN 1 ELSE 0
<1> DEFINE n == Len(queue)
           S == Waiting(p)'
           R == S \ {k + 1}
           T == Waiting(p)
           h == [i \in R |-> IF i <= k THEN i ELSE i - 1]
<1>1. /\ n \in Nat /\ DOMAIN queue = 1..n /\ DOMAIN queue' = 1..(n + 1)
      /\ \A i \in 1..(n + 1) :
           queue'[i] = IF i <= k THEN queue[i]
                       ELSE IF i = k + 1 THEN e ELSE queue[i - 1]
  BY InsertLength DEF QInv
<1>2. S = {i \in 1..(n + 1) : queue'[i].uid = p /\ ~IsRead(queue'[i])}
  BY <1>1 DEF Waiting, IsRead
<1>3. IsFiniteSet(T) /\ Cardinality(T) \in Nat
  BY CountsNat DEF QInv, Waiting
<1>4. h \in [R -> T]
  <2> SUFFICES ASSUME NEW i \in R
               PROVE  (IF i <= k THEN i ELSE i - 1) \in T
    OBVIOUS
  <2>1. CASE i <= k
    <3>1. i \in 1..n /\ queue'[i] = queue[i] BY <1>1, <1>2, <2>1
    <3> QED BY <1>1, <1>2, <2>1, <3>1 DEF Waiting
  <2>2. CASE ~(i <= k)
    <3>1. i - 1 \in 1..n /\ queue'[i] = queue[i - 1] BY <1>1, <1>2, <2>2
    <3> QED BY <1>1, <1>2, <2>2, <3>1 DEF Waiting
  <2> QED BY <2>1, <2>2
<1>5. \A a, b \in R : h[a] = h[b] => a = b
  BY <1>1, <1>2
<1>6. k + 1 \in S <=> e.uid = p /\ ~IsRead(e)
  BY <1>1, <1>2
<1>7. S = IF e.uid = p /\ ~IsRead(e) THEN R \cup {k + 1} ELSE R
  BY <1>6
<1>8. k + 1 \notin R OBVIOUS
<1> HIDE DEF h, R, S, T
<1>9. h \in Injection(R, T) BY <1>4, <1>5 DEF Injection, IsInjective
<1>10. IsFiniteSet(R) /\ Cardinality(R) <= Cardinality(T)
  BY <1>3, <1>9, FS_Injection
<1>11. Cardinality(R) \in Nat BY <1>10, FS_CardinalityType
<1>12. Cardinality(R \cup {k + 1}) = Cardinality(R) + 1
  BY <1>8, <1>10, FS_AddElement
<1>13. Cardinality(S) <= Cardinality(T) + IF e.uid = p /\ ~IsRead(e) THEN 1 ELSE 0
  BY <1>3, <1>7, <1>10, <1>11, <1>12
<1> QED BY <1>13 DEF S, T

\* An action keeps every player's share within the limit.
LEMMA ShareStep ==
  ASSUME IInv, PlayerLimit, [Next]_vars
  PROVE  PlayerLimit'
<1>1. PInv /\ QInv BY Parts DEF PInv
<1>2. \A p \in Players \ Mages : Cardinality(Waiting(p)) <= MaxPlyr + 1
  BY DEF PlayerLimit, Waiting
<1> SUFFICES ASSUME NEW p \in Players \ Mages
             PROVE  Cardinality(Waiting(p)') <= MaxPlyr + 1
  BY DEF PlayerLimit, Waiting, IsRead
<1>3. IsFiniteSet(Waiting(p)) /\ Cardinality(Waiting(p)) \in Nat
  BY <1>1, CountsNat DEF QInv, Waiting
<1>4. Cardinality(Waiting(p)') \in Nat
  <2>1. IInv' BY NextIInv
  <2>2. queue' \in Seq(Event) BY <2>1 DEF IInv, TypeOK
  <2>3. Len(queue') \in Nat /\ DOMAIN queue' = 1..Len(queue') BY <2>2
  <2>4. IsFiniteSet(DOMAIN queue') BY <2>3, FS_Interval
  <2>5. Waiting(p)' \subseteq DOMAIN queue' BY DEF Waiting
  <2>6. IsFiniteSet(Waiting(p)') BY <2>4, <2>5, FS_Subset
  <2> QED BY <2>6, FS_CardinalityType
<1>5. CASE Thinned
  <2>1. Cardinality(Waiting(p)') <= Cardinality(Waiting(p))
    BY <1>1, <1>5, ThinnedShare
  <2> QED BY <1>2, <1>3, <1>4, <2>1, ConstantAssumption
<1>6. CASE Admitted
  <2>1. PICK e : Accepted(e) BY <1>6 DEF Admitted
  <2>2. PICK k \in 0..Len(queue) : queue' = Linked(e, k) BY <2>1 DEF Accepted, Insert
  <2>3. Cardinality(Waiting(p)') <=
          Cardinality(Waiting(p)) + IF e.uid = p /\ ~IsRead(e) THEN 1 ELSE 0
    BY <1>1, <2>2, InsertShare
  <2>4. CASE e.uid = p /\ ~IsRead(e)
    <3>1. ~(Cardinality(OwnedBy(p)) > MaxPlyr)
      BY <2>1, <2>4 DEF Accepted, Full, OwnedBy
    <3>2. IsFiniteSet(OwnedBy(p)) /\ Cardinality(OwnedBy(p)) \in Nat
      BY <1>1, CountsNat DEF QInv, OwnedBy
    <3>3. Waiting(p) \subseteq OwnedBy(p) BY DEF Waiting, OwnedBy
    <3>4. Cardinality(Waiting(p)) <= Cardinality(OwnedBy(p))
      BY <3>2, <3>3, FS_Subset
    <3> QED BY <1>3, <1>4, <2>3, <2>4, <3>1, <3>2, <3>4, ConstantAssumption
  <2>5. CASE ~(e.uid = p /\ ~IsRead(e))
    BY <1>2, <1>3, <1>4, <2>3, <2>5, ConstantAssumption
  <2> QED BY <2>4, <2>5
<1>7. Untouched \/ CountedDown => Thinned
  BY <1>1, SameThinned DEF Untouched, CountedDown
<1>8. Dropped => Thinned BY <1>1, UnlinkLength DEF Dropped
<1>9. HandedOver => Thinned BY <1>1, RemovedThinned DEF HandedOver
<1>10. Taken => Thinned BY <1>1, TailThinned DEF Taken
<1> QED BY <1>1, <1>5, <1>6, <1>7, <1>8, <1>9, <1>10, TableSteps

\* However programs fork, queue and sleep, and whatever else is killed, run or
\* read meanwhile, a player who is not a mage never has more events waiting,
\* READs aside, than tp_max_plyr_processes and the one that reached it.
THEOREM ShareLimited == Spec => []PlayerLimit
<1>1. Init => PlayerLimit
  <2> SUFFICES ASSUME Init, NEW p \in Players \ Mages
               PROVE  Cardinality(Waiting(p)) <= MaxPlyr + 1
    BY DEF PlayerLimit, Waiting
  <2>1. Waiting(p) = {} BY DEF Init, Waiting
  <2> QED BY <2>1, FS_EmptySet, ConstantAssumption
<1>2. IInv /\ PlayerLimit /\ [Next]_vars => PlayerLimit'
  BY ShareStep
<1> QED BY <1>1, <1>2, Invariance, PTL DEF Spec

-----------------------------------------------------------------------------
(* The abstract specification.                                             *)

\* The process numbers of the READs, and the stage a process has reached.
Reading == {queue[i].eventnum : i \in {j \in DOMAIN queue : IsRead(queue[j])}}
Stage(p) ==
  IF p = cur THEN "running"
  ELSE IF p \in Reading THEN "reading"
  ELSE IF p \in Queued THEN "waiting"
  ELSE IF p < top_pid THEN "gone" ELSE "unborn"

\* The mapped state is the stage of each process number.
LEMMA Stages ==
  /\ procState = [p \in Pid |-> Stage(p)]
  /\ procState' = [p \in Pid |-> Stage(p)']
<1>1. \A p : p \in Reading <=>
        \E i \in DOMAIN queue : queue[i].eventnum = p /\ IsRead(queue[i])
  BY DEF Reading
<1>2. \A p : p \in Reading' <=>
        \E i \in DOMAIN queue' : queue'[i].eventnum = p /\ IsRead(queue'[i])
  BY DEF Reading, IsRead
<1>3. \A p : Stage(p) = IF p = cur THEN "running"
        ELSE IF \E i \in DOMAIN queue : queue[i].eventnum = p /\ IsRead(queue[i])
          THEN "reading"
        ELSE IF p \in Queued THEN "waiting"
        ELSE IF p < top_pid THEN "gone" ELSE "unborn"
  BY <1>1 DEF Stage
<1>4. \A p : Stage(p)' = IF p = cur' THEN "running"
        ELSE IF \E i \in DOMAIN queue' : queue'[i].eventnum = p /\ IsRead(queue'[i])
          THEN "reading"
        ELSE IF p \in Queued' THEN "waiting"
        ELSE IF p < top_pid' THEN "gone" ELSE "unborn"
  BY <1>2 DEF Stage
<1>5. procState = [p \in Pid |-> Stage(p)] BY <1>3 DEF procState
<1>6. procState' = [p \in Pid |-> Stage(p)'] BY <1>4 DEF procState, IsRead
<1> QED BY <1>5, <1>6

\* What the invariant says of the stages.
LEMMA StageFacts ==
  ASSUME PInv
  PROVE  /\ Reading \subseteq Queued /\ Queued \subseteq Pid
         /\ cur \in Pid \cup {0} /\ cur \notin Queued
         /\ top_pid \in Nat \ {0} /\ cur < top_pid
         /\ \A p \in Queued : p < top_pid
         /\ Pid \subseteq Nat \ {0}
<1>1. QInv /\ FInv /\ TypeRest BY DEF PInv
<1>2. \A i \in DOMAIN queue : queue[i].eventnum \in Pid
  <2>1. \A i \in DOMAIN queue : queue[i] \in Event BY <1>1 DEF QInv
  <2> QED BY <2>1 DEF Event
<1>3. Pid \subseteq Nat \ {0} BY DEF Pid
<1>4. Reading \subseteq Queued /\ Queued \subseteq Pid
  BY <1>2 DEF Reading, Queued
<1>5. top_pid \in Nat \ {0} BY <1>1, ConstantAssumption DEF TypeRest
<1>6. cur < top_pid
  BY <1>1, <1>5 DEF FInv
<1> QED BY <1>1, <1>3, <1>4, <1>5, <1>6 DEF FInv, TypeRest

\* Of the nodes that are kept, those that are READs stay READs.
LEMMA ThinnedReading ==
  ASSUME QInv, Thinned
  PROVE  Queued' \subseteq Queued /\ Reading' = Reading \cap Queued'
<1>1. PICK m \in Nat : \E f \in [1..m -> DOMAIN queue] :
        queue' = [i \in 1..m |-> queue[f[i]]]
  BY DEF Thinned
<1>2. PICK f \in [1..m -> DOMAIN queue] : queue' = [i \in 1..m |-> queue[f[i]]]
  BY <1>1
<1>3. /\ DOMAIN queue' = 1..m
      /\ \A i \in 1..m : f[i] \in DOMAIN queue /\ queue'[i] = queue[f[i]]
  BY <1>2
<1>4. Queued' \subseteq Queued BY <1>3 DEF Queued
<1>5. Reading' \subseteq Reading \cap Queued'
  BY <1>3 DEF Reading, Queued, IsRead
<1>6. ASSUME NEW x \in Reading, x \in Queued' PROVE x \in Reading'
  <2>1. PICK s \in DOMAIN queue : x = queue[s].eventnum /\ IsRead(queue[s])
    BY <1>6 DEF Reading
  <2>2. PICK i \in 1..m : x = queue[f[i]].eventnum BY <1>3, <1>6 DEF Queued
  <2>3. f[i] = s BY <1>3, <2>1, <2>2 DEF QInv, Distinct
  <2> QED BY <1>3, <2>1, <2>2, <2>3 DEF Reading, IsRead
<1> QED BY <1>4, <1>5, <1>6

\* A new node is a READ or it is not.
LEMMA InsertReading ==
  ASSUME PInv, NEW e \in Event, Shape(e), e.eventnum \notin Queued, Insert(e)
  PROVE  /\ Queued' = Queued \cup {e.eventnum}
         /\ Reading' = IF IsRead(e) THEN Reading \cup {e.eventnum} ELSE Reading
<1>1. QInv /\ TypeRest BY DEF PInv
<1>2. PICK k \in 0..Len(queue) : queue' = Linked(e, k) BY DEF Insert
<1> DEFINE n == Len(queue)
<1>3. /\ n \in Nat /\ DOMAIN queue = 1..n /\ DOMAIN queue' = 1..(n + 1)
      /\ \A i \in 1..(n + 1) :
           queue'[i] = IF i <= k THEN queue[i]
                       ELSE IF i = k + 1 THEN e ELSE queue[i - 1]
  BY <1>1, <1>2, InsertLength DEF QInv
<1>4. Queued' = Queued \cup {e.eventnum} BY <1>1, InsertStep
<1>5. \A j \in 1..(n + 1) : queue'[j] = e \/ \E i \in 1..n : queue'[j] = queue[i]
  <2> SUFFICES ASSUME NEW j \in 1..(n + 1), j # k + 1
               PROVE  \E i \in 1..n : queue'[j] = queue[i]
    BY <1>3
  <2>1. CASE j <= k BY <1>3, <2>1
  <2>2. CASE j > k
    <3>1. j - 1 \in 1..n /\ queue'[j] = queue[j - 1] BY <1>3, <2>2
    <3> QED BY <3>1
  <2> QED BY <1>3, <2>1, <2>2
<1>6. \A i \in 1..n : \E j \in 1..(n + 1) : queue'[j] = queue[i]
  <2> SUFFICES ASSUME NEW i \in 1..n
               PROVE  \E j \in 1..(n + 1) : queue'[j] = queue[i]
    OBVIOUS
  <2>1. CASE i <= k BY <1>3, <2>1
  <2>2. CASE i > k
    <3>1. i + 1 \in 1..(n + 1) /\ queue'[i + 1] = queue[i] BY <1>3, <2>2
    <3> QED BY <3>1
  <2> QED BY <1>3, <2>1, <2>2
<1>7. k + 1 \in 1..(n + 1) /\ queue'[k + 1] = e BY <1>3
<1>8. \A x : x \in Reading <=>
        \E i \in 1..n : queue[i].eventnum = x /\ IsRead(queue[i])
  BY <1>3 DEF Reading
<1>9. \A x : x \in Reading' <=>
        \E i \in 1..(n + 1) : queue'[i].eventnum = x /\ IsRead(queue'[i])
  BY <1>3 DEF Reading, IsRead
<1> HIDE DEF n
<1>10. \A x : x \in Reading' <=> x \in Reading \/ (x = e.eventnum /\ IsRead(e))
  BY <1>5, <1>6, <1>7, <1>8, <1>9
<1> QED BY <1>4, <1>10

-----------------------------------------------------------------------------
(* What a step does to the life of the processes. *)

\* Nodes are unlinked, or nothing happens to them: a killing.
LEMMA KillLife ==
  ASSUME PInv, Thinned, UNCHANGED <<cur, top_pid>>
  PROVE  Life!Next
<1> DEFINE K == Queued \ Queued'
<1>1. Queued' \subseteq Queued /\ Reading' = Reading \cap Queued'
  BY ThinnedReading DEF PInv
<1>2. K \in SUBSET Pid BY StageFacts
<1>3. \A p \in K : procState[p] \in {"waiting", "reading"}
  BY <1>2, Stages, StageFacts DEF Stage
<1>4. \A p \in Pid : Stage(p)' = IF p \in K THEN "gone" ELSE procState[p]
  BY <1>1, Stages, StageFacts DEF Stage
<1>5. procState' = [p \in Pid |-> IF p \in K THEN "gone" ELSE procState[p]]
  BY <1>4, Stages
<1> HIDE DEF K
<1>6. Life!Kill(K) BY <1>3, <1>5 DEF Life!Kill
<1> QED BY <1>2, <1>6 DEF Life!Next

\* A program is entered under a new number.
LEMMA EnterLife ==
  ASSUME PInv, cur = 0, UNCHANGED queue, top_pid <= MaxPid,
         cur' = top_pid, top_pid' = top_pid + 1
  PROVE  Life!Next
<1>1. Queued' = Queued /\ Reading' = Reading BY DEF Queued, Reading, IsRead
<1>2. top_pid \in Pid /\ top_pid \notin Queued
  BY StageFacts, ConstantAssumption DEF Pid
<1>3. procState[top_pid] = "unborn"
  BY <1>2, Stages, StageFacts DEF Stage
<1>4. \A p \in Pid : procState[p] # "running"
  BY Stages, StageFacts DEF Stage
<1>5. \A p \in Pid : Stage(p)' = IF p = top_pid THEN "running" ELSE procState[p]
  BY <1>1, <1>2, Stages, StageFacts DEF Stage
<1>6. procState' = [procState EXCEPT ![top_pid] = "running"]
  BY <1>5, Stages
<1>7. Life!Spawn(top_pid)
  BY <1>3, <1>4, <1>6 DEF Life!Spawn, Life!NoneRuns
<1> QED BY <1>2, <1>7 DEF Life!Next

\* A number is given out to an event, or to a fork that is refused.
LEMMA SpawnLife ==
  ASSUME PInv, UNCHANGED cur, top_pid <= MaxPid, top_pid' = top_pid + 1,
         Reading' = Reading,
         Queued' = Queued \/ Queued' = Queued \cup {top_pid}
  PROVE  Life!Next
<1>1. top_pid \in Pid /\ top_pid \notin Queued /\ top_pid \notin Reading
  BY StageFacts, ConstantAssumption DEF Pid
<1>2. procState[top_pid] = "unborn"
  BY <1>1, Stages, StageFacts DEF Stage
<1> DEFINE s == IF Queued' = Queued THEN "gone" ELSE "waiting"
<1>3. \A p \in Pid : Stage(p)' = IF p = top_pid THEN s ELSE procState[p]
  BY <1>1, Stages, StageFacts DEF Stage
<1>4. procState' = [procState EXCEPT ![top_pid] = s]
  BY <1>3, Stages
<1>5. Life!Spawn(top_pid) BY <1>2, <1>4 DEF Life!Spawn
<1> QED BY <1>1, <1>5 DEF Life!Next

\* A process that waits is taken off the list and goes on.
LEMMA ResumeLife ==
  ASSUME PInv, cur = 0, Thinned, NEW n \in Queued,
         Queued' = Queued \ {n}, cur' = n, UNCHANGED top_pid
  PROVE  Life!Next
<1>1. Reading' = Reading \cap Queued'
  BY ThinnedReading DEF PInv
<1>2. n \in Pid BY StageFacts
<1>3. procState[n] \in {"waiting", "reading"}
  BY <1>2, Stages, StageFacts DEF Stage
<1>4. \A p \in Pid : procState[p] # "running"
  BY Stages, StageFacts DEF Stage
<1>5. \A p \in Pid : Stage(p)' = IF p = n THEN "running" ELSE procState[p]
  BY <1>1, Stages, StageFacts DEF Stage
<1>6. procState' = [procState EXCEPT ![n] = "running"]
  BY <1>5, Stages
<1>7. Life!Resume(n) BY <1>3, <1>4, <1>6 DEF Life!Resume, Life!NoneRuns
<1> QED BY <1>2, <1>7 DEF Life!Next

\* A queued command becomes a program with a number of its own.
LEMMA LaunchLife ==
  ASSUME PInv, cur = 0, Thinned, NEW n \in Queued, n \notin Reading,
         Queued' = Queued \ {n}, top_pid <= MaxPid,
         cur' = top_pid, top_pid' = top_pid + 1
  PROVE  Life!Next
<1>1. Reading' = Reading \cap Queued'
  BY ThinnedReading DEF PInv
<1>2. /\ top_pid \in Pid /\ top_pid \notin Queued /\ top_pid \notin Reading
      /\ n \in Pid
  BY StageFacts, ConstantAssumption DEF Pid
<1>3. procState[n] = "waiting" /\ procState[top_pid] = "unborn"
  BY <1>2, Stages, StageFacts DEF Stage
<1>4. \A p \in Pid : procState[p] # "running"
  BY Stages, StageFacts DEF Stage
<1>5. \A p \in Pid : Stage(p)' = IF p = top_pid THEN "running"
                                 ELSE IF p = n THEN "gone" ELSE procState[p]
  BY <1>1, <1>2, Stages, StageFacts DEF Stage
<1>6. procState' = [procState EXCEPT ![n] = "gone", ![top_pid] = "running"]
  BY <1>2, <1>5, Stages
<1>7. Life!Launch(n, top_pid)
  BY <1>3, <1>4, <1>6 DEF Life!Launch, Life!NoneRuns
<1> QED BY <1>2, <1>7 DEF Life!Next

\* The running process ends, sleeps or reads.
LEMMA LeaveLife ==
  ASSUME PInv, cur # 0, cur' = 0, UNCHANGED top_pid,
         \/ Queued' = Queued /\ Reading' = Reading
         \/ Queued' = Queued \cup {cur} /\ Reading' = Reading
         \/ Queued' = Queued \cup {cur} /\ Reading' = Reading \cup {cur}
  PROVE  Life!Next
<1>1. cur \in Pid /\ procState[cur] = "running"
  BY Stages, StageFacts DEF Stage
<1> DEFINE s == IF cur \in Reading' THEN "reading"
                ELSE IF cur \in Queued' THEN "waiting" ELSE "gone"
<1>2. \A p \in Pid : Stage(p)' = IF p = cur THEN s ELSE procState[p]
  BY Stages, StageFacts DEF Stage
<1>3. procState' = [procState EXCEPT ![cur] = s]
  BY <1>2, Stages
<1>4. Life!Suspend(cur) BY <1>1, <1>3 DEF Life!Suspend
<1> QED BY <1>1, <1>4 DEF Life!Next

\* The event of a running program that suspends itself carries its number.
LEMMA SuspendLife ==
  ASSUME PInv, cur # 0, NEW kind \in {"DELAY", "READ"}, NEW d \in Int,
         Insert(NewEvent(kind, d, Me.uid, ProgramOf(cur), cur, cur)),
         cur' = 0, UNCHANGED top_pid
  PROVE  Life!Next
<1> DEFINE e == NewEvent(kind, d, Me.uid, ProgramOf(cur), cur, cur)
<1>1. /\ cur \in Pid /\ Me.uid \in Players /\ ProgramOf(cur) \in Programs
      /\ cur \notin Queued /\ now \in Int
  BY CurFrame, StageFacts, ConstantAssumption DEF PInv, TypeRest
<1>2. e \in Event /\ Shape(e) /\ e.eventnum = cur
  BY <1>1 DEF NewEvent, Event, Kind, Shape
<1>3. Insert(e) OBVIOUS
<1> HIDE DEF e
<1>4. /\ Queued' = Queued \cup {cur}
      /\ Reading' = IF IsRead(e) THEN Reading \cup {cur} ELSE Reading
  BY <1>1, <1>2, <1>3, InsertReading
<1> QED BY <1>4, LeaveLife

\* The event of a new process carries the next number.
LEMMA AnnounceLife ==
  ASSUME PInv, top_pid <= MaxPid,
         NEW kind \in {"QUEUE", "MPI", "DELAY"}, NEW d \in Int,
         NEW p \in Players, NEW g \in Programs \cup {NOTHING},
         kind # "MPI" => g \in Programs, NEW fr,
         fr = IF kind = "DELAY" THEN top_pid ELSE 0,
         Insert(NewEvent(kind, d, p, g, fr, top_pid)),
         top_pid' = top_pid + 1, UNCHANGED cur
  PROVE  Life!Next
<1> DEFINE e == NewEvent(kind, d, p, g, fr, top_pid)
<1>1. top_pid \in Pid /\ top_pid \notin Queued /\ now \in Int
  BY StageFacts, ConstantAssumption DEF Pid, PInv, TypeRest
<1>2. e \in Event /\ Shape(e) /\ e.eventnum = top_pid /\ ~IsRead(e)
  BY <1>1 DEF NewEvent, Event, Kind, Shape, IsRead
<1>3. Insert(e) OBVIOUS
<1> HIDE DEF e
<1>4. Queued' = Queued \cup {top_pid} /\ Reading' = Reading
  BY <1>1, <1>2, <1>3, InsertReading
<1> QED BY <1>4, SpawnLife

-----------------------------------------------------------------------------
(* The induction step of the refinement, action by action. *)

\* The calls of the main loop.
LEMMA MainLoopLife ==
  ASSUME PInv, MainLoop
  PROVE  Life!Next
<1>1. QInv /\ Control BY DEF PInv
<1>2. Idle => cur = 0 BY <1>1 DEF Idle, Control
<1>3. \A o, so : Doomed(o, so) \in SUBSET (DOMAIN queue)
  BY DoomedPositions
<1>4. \A o, so, fs, inst : dequeue_prog(o, so, fs, inst) => Thinned
  BY <1>1, <1>3, UnlinkLength DEF dequeue_prog
<1>5. \A n : Named(n) \in SUBSET (DOMAIN queue) BY DEF Named
<1>6. UNCHANGED queue => Thinned BY <1>1, SameThinned
<1>7. ASSUME NEW p \in Players, NEW g \in Programs, NEW m \in Mode,
             NEW wo \in BOOLEAN, Command(p, g, m, wo)
      PROVE  Life!Next
  BY <1>2, <1>7, EnterLife DEF Command, interp
<1>8. ASSUME NEW p \in Players, NEW g \in Programs, Propqueue(p, g)
      PROVE  Life!Next
  BY <1>2, <1>8, EnterLife DEF Propqueue, interp
<1>9. ASSUME NEW p \in Players, NEW g \in Programs, Listen(p, g)
      PROVE  Life!Next
  <2>1. top_pid <= MaxPid /\ UNCHANGED cur BY <1>9 DEF Listen
  <2>2. CASE UNCHANGED <<table, locals>>
    BY <1>6, <2>1, <2>2, KillLife DEF table
  <2>3. CASE /\ top_pid' = top_pid + 1
             /\ Insert(NewEvent("QUEUE", 0, p, g, 0, top_pid))
    BY <2>1, <2>3, AnnounceLife
  <2>4. CASE /\ top_pid' = top_pid + 1
             /\ Insert(NewEvent("MPI", 1, p, NOTHING, 0, top_pid))
    BY <2>1, <2>4, AnnounceLife
  <2> QED BY <1>9, <2>2, <2>3, <2>4 DEF Listen
<1>10. ASSUME NEW p \in Players, Connect(p) \/ Message(p)
       PROVE  Life!Next
  BY <1>6, <1>10, KillLife DEF Connect, Message, table
<1>11. ASSUME NEW p \in Players, Disconnect(p) \/ BreakLine(p)
       PROVE  Life!Next
  BY <1>4, <1>11, KillLife DEF Disconnect, BreakLine
<1>12. ASSUME NEW o \in Players \cup Programs, KillObject(o)
       PROVE  Life!Next
  BY <1>4, <1>12, KillLife DEF KillObject
<1>13. ASSUME NEW g \in Programs, Uncompile(g) \/ Recompile(g)
       PROVE  Life!Next
  BY <1>4, <1>13, KillLife DEF Uncompile, Recompile
<1>14. ASSUME NEW n \in Pid, KillPid(n)
       PROVE  Life!Next
  <2>1. CASE n \in Queued
    <3>1. Unlink(Named(n), frames, instances) /\ UNCHANGED <<cur, top_pid>>
      BY <1>14, <2>1 DEF KillPid, dequeue_process
    <3>2. Thinned BY <1>1, <1>5, <3>1, UnlinkLength
    <3> QED BY <3>1, <3>2, KillLife
  <2>2. CASE n \notin Queued
    BY <1>6, <1>14, <2>2, KillLife DEF KillPid
  <2> QED BY <2>1, <2>2
<1>15. ASSUME KillAll
       PROVE  Life!Next
  <2>1. Unlink(DOMAIN queue, frames, instances) /\ UNCHANGED <<cur, top_pid>>
    BY <1>15 DEF KillAll
  <2>2. DOMAIN queue \in SUBSET (DOMAIN queue) OBVIOUS
  <2>3. Thinned BY <1>1, <2>1, <2>2, UnlinkLength
  <2> QED BY <2>1, <2>3, KillLife
<1>16. ASSUME NEW p \in Players, NEW line \in {"text", "@Q", "full"},
              ReadLine(p, line)
       PROVE  Life!Next
  <2>1. cur = 0 /\ UNCHANGED top_pid BY <1>2, <1>16 DEF ReadLine
  <2>2. CASE ReadsOf(p) = {}
    BY <1>6, <1>16, <2>1, <2>2, KillLife DEF ReadLine
  <2>3. CASE ReadsOf(p) # {}
    <3>1. PICK i \in ReadsOf(p) :
            /\ queue' = [j \in 1..(Len(queue) - 1) |->
                           IF j < i THEN queue[j] ELSE queue[j + 1]]
            /\ \/ Resumed(p, i)
               \/ UNCHANGED cur
      BY <1>16, <2>3 DEF ReadLine
    <3>2. i \in DOMAIN queue /\ IsRead(queue[i]) BY DEF ReadsOf
    <3>3. /\ Shape(queue[i]) /\ Queued' = Queued \ {queue[i].eventnum}
      BY <1>1, <3>1, <3>2, Removed
    <3>4. Thinned BY <1>1, <3>1, <3>2, RemovedThinned
    <3>5. CASE UNCHANGED cur BY <2>1, <3>4, <3>5, KillLife
    <3>6. CASE Resumed(p, i)
      <4>1. cur' = queue[i].eventnum
        BY <3>2, <3>3, <3>6 DEF Resumed, Shape, IsRead
      <4>2. queue[i].eventnum \in Queued BY <3>2 DEF Queued
      <4> QED BY <2>1, <3>3, <3>4, <4>1, <4>2, ResumeLife
    <3> QED BY <3>1, <3>5, <3>6
  <2> QED BY <2>2, <2>3
<1> QED BY <1>7, <1>8, <1>9, <1>10, <1>11, <1>12, <1>13, <1>14, <1>15, <1>16
        DEF MainLoop

\* A pass over the queue: its events go on, are launched or come to an end.
LEMMA EventsLife ==
  ASSUME PInv, Events
  PROVE  Life!Next
<1>1. QInv /\ Control BY DEF PInv
<1>2. UNCHANGED queue => Thinned BY <1>1, SameThinned
<1>3. ASSUME BeginPass \/ EndPass \/ EndEvent \/ EndRead PROVE Life!Next
  BY <1>2, <1>3, KillLife DEF BeginPass, EndPass, EndEvent, EndRead, table
<1>4. ASSUME RunEvent PROVE Life!Next
  <2> DEFINE e == queue[1]
  <2>1. /\ queue # <<>> /\ queue' = Tail(queue) /\ ~IsRead(e)
    BY <1>4 DEF RunEvent, PassDone
  <2>2. /\ Head(queue) = e /\ Shape(e) /\ Queued' = Queued \ {e.eventnum}
    BY <1>1, <2>1, Popped
  <2>3. Thinned BY <1>1, <2>1, TailThinned
  <2>4. cur = 0 BY <1>1, <1>4 DEF RunEvent, Control
  <2>5. 1 \in DOMAIN queue BY <1>1, <2>1 DEF QInv
  <2>6. e.eventnum \in Queued /\ e.eventnum \notin Reading
    BY <1>1, <2>1, <2>5 DEF Queued, Reading, QInv, Distinct
  <2>7. CASE e.kind = "MPI" /\ RunMpi
    BY <2>3, <2>7, KillLife DEF RunMpi
  <2>8. CASE e.kind = "DELAY" /\ RunFrame(e)
    <3>1. cur' = e.eventnum /\ UNCHANGED top_pid
      BY <2>2, <2>8 DEF RunFrame, Shape
    <3> QED BY <2>2, <2>3, <2>4, <2>6, <3>1, ResumeLife
  <2>9. CASE e.kind = "QUEUE" /\ RunProgram(e)
    <3>1. CASE UNCHANGED <<cur, top_pid>> BY <2>3, <3>1, KillLife
    <3>2. CASE /\ top_pid <= MaxPid
               /\ cur' = top_pid /\ top_pid' = top_pid + 1
      BY <2>2, <2>3, <2>4, <2>6, <3>2, LaunchLife
    <3> QED BY <2>9, <3>1, <3>2 DEF RunProgram, interp
  <2> QED BY <1>4, <2>2, <2>7, <2>8, <2>9 DEF RunEvent
<1> QED BY <1>3, <1>4 DEF Events

\* The running program, or MPI.
LEMMA InterpreterLife ==
  ASSUME PInv, Interpreter
  PROVE  Life!Next
<1>1. QInv /\ Control /\ 0 \in Int /\ -1 \in Int BY DEF PInv
<1>2. pc \in {"start", "run", "abort"} <=> cur # 0 BY <1>1 DEF Control
<1>3. \A o, so, fs, inst : dequeue_prog(o, so, fs, inst) => Thinned
  BY <1>1, DoomedPositions, UnlinkLength DEF dequeue_prog
<1>4. UNCHANGED queue => /\ Thinned
                         /\ Queued' = Queued /\ Reading' = Reading
  BY <1>1, SameThinned DEF Queued, Reading, IsRead
<1>5. \A d \in Delays : d \in Int BY ConstantAssumption
<1>6. ASSUME EnterLoop PROVE Life!Next
  <2>1. UNCHANGED <<cur, top_pid>> BY <1>6 DEF EnterLoop
  <2>2. Thinned BY <1>3, <1>4, <1>6 DEF EnterLoop
  <2> QED BY <2>1, <2>2, KillLife
<1>7. ASSUME Finish PROVE Life!Next
  BY <1>2, <1>4, <1>7, LeaveLife DEF Finish, Leave, table
<1>8. ASSUME Slice PROVE Life!Next
  <2>1. cur # 0 /\ cur' = 0 /\ UNCHANGED top_pid
    BY <1>2, <1>8 DEF Slice, Executing, Leave
  <2>2. CASE Full(Me.uid)
    BY <1>4, <1>8, <2>1, <2>2, LeaveLife DEF Slice
  <2>3. CASE ~Full(Me.uid)
    BY <1>1, <1>8, <2>1, <2>3, SuspendLife DEF Slice
  <2> QED BY <2>2, <2>3
<1>9. ASSUME NEW d \in Delays, Sleep(d) PROVE Life!Next
  <2>1. cur # 0 /\ cur' = 0 /\ UNCHANGED top_pid
    BY <1>2, <1>9 DEF Sleep, Executing, Leave
  <2>2. CASE Full(Me.uid)
    BY <1>4, <1>9, <2>1, <2>2, LeaveLife DEF Sleep
  <2>3. CASE ~Full(Me.uid)
    BY <1>5, <1>9, <2>1, <2>3, SuspendLife DEF Sleep
  <2> QED BY <2>2, <2>3
<1>10. ASSUME Read PROVE Life!Next
  BY <1>1, <1>2, <1>10, SuspendLife DEF Read, Executing, Leave
<1>11. ASSUME NEW g \in Programs, Call(g) PROVE Life!Next
  <2>1. UNCHANGED <<cur, top_pid>> BY <1>11 DEF Call
  <2>2. Thinned BY <1>3, <1>4, <1>11 DEF Call
  <2> QED BY <2>1, <2>2, KillLife
<1>12. ASSUME Return \/ (\E m \in Mode : SetMode(m)) \/ EndMpi PROVE Life!Next
  BY <1>4, <1>12, KillLife DEF Return, SetMode, EndMpi, table
<1>13. ASSUME Fork PROVE Life!Next
  <2>1. /\ cur # 0 /\ top_pid <= MaxPid /\ top_pid' = top_pid + 1
        /\ UNCHANGED cur
    BY <1>2, <1>13 DEF Fork, Executing
  <2>2. CASE Full(Me.uid)
    BY <1>4, <1>13, <2>1, <2>2, SpawnLife DEF Fork
  <2>3. CASE ~Full(Me.uid)
    <3>1. Me.uid \in Players /\ ProgramOf(cur) \in Programs
      BY <2>1, CurFrame
    <3> QED BY <1>1, <1>13, <2>1, <2>3, <3>1, AnnounceLife DEF Fork
  <2> QED BY <2>2, <2>3
<1>14. ASSUME NEW d \in Delays, NEW g \in Programs, Queue(d, g)
       PROVE  Life!Next
  <2>1. /\ cur # 0 /\ top_pid <= MaxPid /\ UNCHANGED cur
    BY <1>2, <1>14 DEF Queue, Executing
  <2>2. CASE Full(Me.uid)
    BY <1>4, <1>14, <2>1, <2>2, KillLife DEF Queue, table
  <2>3. CASE ~Full(Me.uid)
    <3>1. Me.uid \in Players BY <2>1, CurFrame
    <3> QED BY <1>5, <1>14, <2>1, <2>3, <3>1, AnnounceLife DEF Queue
  <2> QED BY <2>2, <2>3
<1>15. ASSUME NEW d \in Delays, MpiDelay(d) PROVE Life!Next
  <2>1. /\ pass.uid \in Players /\ top_pid <= MaxPid /\ UNCHANGED cur
    BY <1>1, <1>15 DEF MpiDelay, Control
  <2>2. CASE Full(pass.uid)
    BY <1>4, <1>15, <2>1, <2>2, KillLife DEF MpiDelay, table
  <2>3. CASE ~Full(pass.uid)
    BY <1>5, <1>15, <2>1, <2>3, AnnounceLife DEF MpiDelay
  <2> QED BY <2>2, <2>3
<1>16. ASSUME NEW n \in Pid, Kill(n) PROVE Life!Next
  <2>1. Unlink(Named(n), frames, instances) /\ UNCHANGED <<cur, top_pid>>
    BY <1>16 DEF Kill, dequeue_process
  <2>2. Named(n) \in SUBSET (DOMAIN queue) BY DEF Named
  <2>3. Thinned BY <1>1, <2>1, <2>2, UnlinkLength
  <2> QED BY <2>1, <2>3, KillLife
<1>17. ASSUME MpiKillAll PROVE Life!Next
  BY <1>3, <1>17, KillLife DEF MpiKillAll
<1> QED BY <1>6, <1>7, <1>8, <1>9, <1>10, <1>11, <1>12, <1>13, <1>14, <1>15,
           <1>16, <1>17 DEF Interpreter

\* No process is lost, runs while another does, or is heard of again after it
\* has ended or has been killed.
THEOREM LifeImplemented == Spec => ImplementsLife
<1>1. Init => Life!Init
  <2> SUFFICES ASSUME Init PROVE Life!Init
    OBVIOUS
  <2>1. queue = <<>> /\ cur = 0 /\ top_pid = 1 BY DEF Init
  <2>2. Queued = {} BY <2>1 DEF Queued
  <2>3. procState = [p \in Pid |-> "unborn"]
    BY <2>1, <2>2 DEF procState, Pid
  <2> QED BY <2>3 DEF Life!Init
<1>2. IInv /\ [Next]_vars => [Life!Next]_procState
  <2> SUFFICES ASSUME IInv, [Next]_vars PROVE [Life!Next]_procState
    OBVIOUS
  <2>1. PInv BY Parts DEF PInv
  <2>2. CASE MainLoop BY <2>1, <2>2, MainLoopLife
  <2>3. CASE Events BY <2>1, <2>3, EventsLife
  <2>4. CASE Interpreter BY <2>1, <2>4, InterpreterLife
  <2>5. CASE Tick \/ UNCHANGED vars
    <3>1. UNCHANGED <<queue, cur, top_pid>>
      BY <2>5 DEF Tick, table, vars
    <3> QED BY <3>1 DEF procState, Queued, IsRead
  <2> QED BY <2>2, <2>3, <2>4, <2>5 DEF Next
<1> QED BY <1>1, <1>2, Invariance, PTL DEF Spec, ImplementsLife, Life!Spec

-----------------------------------------------------------------------------
(* Instances and code.                                                     *)

\* The places where the call stacks of the frames F, as fs has them, hold g.
Slots(fs, g, F) ==
  {s \in Pid \X (1..MaxCall) :
     /\ s[1] \in F /\ fs[s[1]] # NoFrame
     /\ s[2] <= Len(fs[s[1]].caller) /\ fs[s[1]].caller[s[2]] = g}
Count(fs, g, F) == Cardinality(Slots(fs, g, F))

Frames == [Pid -> Frame \cup {NoFrame}]
One(b) == IF b THEN 1 ELSE 0

-----------------------------------------------------------------------------
(* Counting the activations of a program. *)

\* The model's count is this one.
LEMMA UsesCount ==
  /\ \A g, F : Uses(g, F) = Count(frames, g, F)
  /\ \A g : Uses(g, Live) = Count(frames, g, Pid)
  /\ \A g : Uses(g, Live)' = Count(frames', g, Pid)
<1>1. \A g, F : {fd \in (F \cap Live) \X (1..MaxCall) :
                   /\ fd[2] <= Len(frames[fd[1]].caller)
                   /\ frames[fd[1]].caller[fd[2]] = g} = Slots(frames, g, F)
  BY DEF Slots, Live
<1>2. \A g : {fd \in (Live \cap Live) \X (1..MaxCall) :
                /\ fd[2] <= Len(frames[fd[1]].caller)
                /\ frames[fd[1]].caller[fd[2]] = g} = Slots(frames, g, Pid)
  BY DEF Slots, Live
<1>3. \A g : {fd \in (Live' \cap Live') \X (1..MaxCall) :
                /\ fd[2] <= Len(frames'[fd[1]].caller)
                /\ frames'[fd[1]].caller[fd[2]] = g} = Slots(frames', g, Pid)
  BY DEF Slots, Live
<1> QED BY <1>1, <1>2, <1>3 DEF Uses, Count

\* Counts are numbers.
LEMMA CountNat ==
  \A fs, g, F : IsFiniteSet(Slots(fs, g, F)) /\ Count(fs, g, F) \in Nat
<1>1. IsFiniteSet(Pid \X (1..MaxCall))
  <2>1. IsFiniteSet(Pid) /\ IsFiniteSet(1..MaxCall)
    BY ConstantAssumption, FS_Interval DEF Pid
  <2> QED BY <2>1, FS_Product
<1> SUFFICES ASSUME NEW fs, NEW g, NEW F
             PROVE  IsFiniteSet(Slots(fs, g, F)) /\ Count(fs, g, F) \in Nat
  OBVIOUS
<1>2. Slots(fs, g, F) \subseteq Pid \X (1..MaxCall) BY DEF Slots
<1>3. IsFiniteSet(Slots(fs, g, F)) BY <1>1, <1>2, FS_Subset
<1> QED BY <1>3, FS_CardinalityType DEF Count

\* Freeing frames takes their activations off the count.
LEMMA FreedCount ==
  ASSUME NEW fs, NEW F, NEW g
  PROVE  Count([f \in Pid |-> IF f \in F THEN NoFrame ELSE fs[f]], g, Pid) =
           Count(fs, g, Pid) - Count(fs, g, F)
<1> DEFINE new == [f \in Pid |-> IF f \in F THEN NoFrame ELSE fs[f]]
           S == Slots(fs, g, Pid)
           T == Slots(fs, g, F)
<1>1. Slots(new, g, Pid) = S \ T BY DEF Slots
<1>2. S \cap T = T BY DEF Slots
<1>3. IsFiniteSet(S) BY CountNat
<1> HIDE DEF S, T, new
<1>4. Cardinality(S \ T) = Cardinality(S) - Cardinality(T)
  BY <1>2, <1>3, FS_Difference
<1> QED BY <1>1, <1>4 DEF Count, S, T, new

\* One place more is one more, and the same places are as many.
LEMMA AddedCount ==
  ASSUME NEW fs, NEW new, NEW g, NEW n \in Pid, NEW m \in 1..MaxCall,
         <<n, m>> \notin Slots(fs, g, Pid),
         \A f \in Pid, d \in 1..MaxCall :
            <<f, d>> \in Slots(new, g, Pid) <=>
              <<f, d>> \in Slots(fs, g, Pid) \/ (f = n /\ d = m)
  PROVE  Count(new, g, Pid) = Count(fs, g, Pid) + 1
<1> DEFINE S == Slots(fs, g, Pid)
           T == Slots(new, g, Pid)
<1>1. IsFiniteSet(S) BY CountNat
<1>2. S \subseteq Pid \X (1..MaxCall) /\ T \subseteq Pid \X (1..MaxCall)
  BY DEF Slots
<1>3. \A f \in Pid, d \in 1..MaxCall :
        <<f, d>> \in T <=> <<f, d>> \in S \/ (f = n /\ d = m)
  OBVIOUS
<1>4. <<n, m>> \notin S OBVIOUS
<1> HIDE DEF S, T
<1>5. \A x \in Pid \X (1..MaxCall) : x \in T <=> x \in S \/ x = <<n, m>>
  <2> SUFFICES ASSUME NEW f \in Pid, NEW d \in 1..MaxCall
               PROVE  <<f, d>> \in T <=> <<f, d>> \in S \/ <<f, d>> = <<n, m>>
    OBVIOUS
  <2> QED BY <1>3
<1>6. <<n, m>> \in Pid \X (1..MaxCall) OBVIOUS
<1>7. T = S \cup {<<n, m>>} BY <1>2, <1>5, <1>6
<1>8. Cardinality(S \cup {<<n, m>>}) = Cardinality(S) + 1
  BY <1>1, <1>4, FS_AddElement
<1> QED BY <1>7, <1>8 DEF Count, S, T

LEMMA SameCount ==
  ASSUME NEW fs, NEW new, NEW g,
         \A f \in Pid, d \in 1..MaxCall :
            <<f, d>> \in Slots(new, g, Pid) <=> <<f, d>> \in Slots(fs, g, Pid)
  PROVE  Count(new, g, Pid) = Count(fs, g, Pid)
<1> DEFINE S == Slots(fs, g, Pid)
           T == Slots(new, g, Pid)
<1>1. S \subseteq Pid \X (1..MaxCall) /\ T \subseteq Pid \X (1..MaxCall)
  BY DEF Slots
<1>2. \A f \in Pid, d \in 1..MaxCall : <<f, d>> \in T <=> <<f, d>> \in S
  OBVIOUS
<1> HIDE DEF S, T
<1>3. T = S BY <1>1, <1>2
<1> QED BY <1>3 DEF Count, S, T

\* interp: one activation of the program entered.
LEMMA EnteredCount ==
  ASSUME NEW fs \in Frames, NEW n \in Pid, fs[n] = NoFrame,
         NEW r \in Frame, NEW h \in Programs, r.caller = <<h>>, NEW g
  PROVE  Count([fs EXCEPT ![n] = r], g, Pid) = Count(fs, g, Pid) + One(g = h)
<1> DEFINE new == [fs EXCEPT ![n] = r]
<1>1. r # NoFrame BY FrameLive
<1>2. /\ \A f \in Pid : new[f] = IF f = n THEN r ELSE fs[f]
  BY DEF Frames
<1>3. 1 \in 1..MaxCall BY ConstantAssumption
<1>4. <<n, 1>> \notin Slots(fs, g, Pid) BY DEF Slots
<1>5. \A d \in 1..MaxCall : d <= Len(r.caller) <=> d = 1
  OBVIOUS
<1>6. r.caller[1] = h OBVIOUS
<1> HIDE DEF new
<1>7. \A f \in Pid, d \in 1..MaxCall :
        <<f, d>> \in Slots(new, g, Pid) <=>
          \/ <<f, d>> \in Slots(fs, g, Pid)
          \/ f = n /\ d = 1 /\ g = h
  <2> SUFFICES ASSUME NEW f \in Pid, NEW d \in 1..MaxCall
               PROVE  <<f, d>> \in Slots(new, g, Pid) <=>
                        \/ <<f, d>> \in Slots(fs, g, Pid)
                        \/ f = n /\ d = 1 /\ g = h
    OBVIOUS
  <2>1. CASE f = n BY <1>1, <1>2, <1>5, <1>6, <2>1 DEF Slots
  <2>2. CASE f # n BY <1>2, <2>2 DEF Slots
  <2> QED BY <2>1, <2>2
<1>8. Count(fs, g, Pid) \in Nat BY CountNat
<1>9. CASE g = h
  <2>1. \A f \in Pid, d \in 1..MaxCall :
          <<f, d>> \in Slots(new, g, Pid) <=>
            <<f, d>> \in Slots(fs, g, Pid) \/ (f = n /\ d = 1)
    BY <1>7, <1>9
  <2>2. Count(new, g, Pid) = Count(fs, g, Pid) + 1
    BY <1>3, <1>4, <2>1, AddedCount
  <2> QED BY <1>8, <1>9, <2>2 DEF One, new
<1>10. CASE g # h
  <2>1. Count(new, g, Pid) = Count(fs, g, Pid)
    BY <1>7, <1>10, SameCount
  <2> QED BY <1>8, <1>10, <2>1 DEF One, new
<1> QED BY <1>9, <1>10

\* The places of one frame differ from those of another with a longer stack by
\* the entry that is new.
LEMMA LongerCount ==
  ASSUME NEW fs \in Frames, NEW new \in Frames, NEW n \in Pid,
         fs[n] # NoFrame, new[n] # NoFrame,
         \A f \in Pid : f # n => new[f] = fs[f],
         NEW h \in Programs, new[n].caller = Append(fs[n].caller, h),
         Len(fs[n].caller) < MaxCall, NEW g
  PROVE  Count(new, g, Pid) = Count(fs, g, Pid) + One(g = h)
<1> DEFINE c == fs[n].caller
           d0 == Len(c) + 1
<1>1. fs[n] \in Frame BY DEF Frames
<1>2. c \in Seq(Programs) BY <1>1 DEF Frame
<1>3. /\ d0 \in 1..MaxCall /\ Len(Append(c, h)) = d0 /\ Append(c, h)[d0] = h
      /\ \A d \in 1..MaxCall : d <= Len(c) => Append(c, h)[d] = c[d]
      /\ Len(c) \in Nat
  BY <1>2, ConstantAssumption
<1>4. <<n, d0>> \notin Slots(fs, g, Pid) BY <1>3 DEF Slots
<1>5. \A f \in Pid, d \in 1..MaxCall :
        <<f, d>> \in Slots(new, g, Pid) <=>
          \/ <<f, d>> \in Slots(fs, g, Pid)
          \/ f = n /\ d = d0 /\ g = h
  <2> SUFFICES ASSUME NEW f \in Pid, NEW d \in 1..MaxCall
               PROVE  <<f, d>> \in Slots(new, g, Pid) <=>
                        \/ <<f, d>> \in Slots(fs, g, Pid)
                        \/ f = n /\ d = d0 /\ g = h
    OBVIOUS
  <2>1. CASE f = n
    <3>1. new[n].caller = Append(c, h) OBVIOUS
    <3>2. d <= d0 <=> d <= Len(c) \/ d = d0 BY <1>3
    <3>3. ~(d0 <= Len(c)) BY <1>3
    <3> HIDE DEF c, d0
    <3>4. <<n, d>> \in Slots(new, g, Pid) <=>
            d <= d0 /\ Append(c, h)[d] = g
      BY <1>3, <3>1 DEF Slots
    <3>5. <<n, d>> \in Slots(fs, g, Pid) <=> d <= Len(c) /\ c[d] = g
      BY DEF Slots, c
    <3> QED BY <1>3, <2>1, <3>2, <3>3, <3>4, <3>5
  <2>2. CASE f # n
    <3>1. new[f] = fs[f] BY <2>2
    <3> QED BY <2>2, <3>1 DEF Slots
  <2> QED BY <2>1, <2>2
<1> HIDE DEF c, d0
<1>6. CASE g = h
  <2>1. \A f \in Pid, d \in 1..MaxCall :
          <<f, d>> \in Slots(new, g, Pid) <=>
            <<f, d>> \in Slots(fs, g, Pid) \/ (f = n /\ d = d0)
    BY <1>5, <1>6
  <2>2. d0 \in 1..MaxCall BY <1>3
  <2>3. Count(new, g, Pid) = Count(fs, g, Pid) + 1
    BY ZenonT(30), <1>4, <2>1, <2>2, AddedCount
  <2> QED BY <1>6, <2>3 DEF One
<1>7. CASE g # h
  <2>1. Count(new, g, Pid) = Count(fs, g, Pid)
    BY <1>5, <1>7, SameCount
  <2>2. Count(fs, g, Pid) \in Nat BY CountNat
  <2> QED BY <1>7, <2>1, <2>2 DEF One
<1> QED BY <1>6, <1>7

\* prim_fork: the child is counted wherever its parent is.
LEMMA ForkedCount ==
  ASSUME NEW fs \in Frames, NEW n \in Pid, fs[n] = NoFrame,
         NEW c \in Pid, fs[c] # NoFrame,
         NEW r \in Frame, r.caller = fs[c].caller, NEW g
  PROVE  Count([fs EXCEPT ![n] = r], g, Pid) =
           Count(fs, g, Pid) + Count(fs, g, {c})
<1> DEFINE new == [fs EXCEPT ![n] = r]
           S == Slots(fs, g, Pid)
           T == Slots(new, g, Pid)
           U == Slots(fs, g, {c})
           V == {x \in Pid \X (1..MaxCall) : x[1] = n /\ <<c, x[2]>> \in U}
           h == [x \in V |-> <<c, x[2]>>]
<1>1. r # NoFrame BY FrameLive
<1>2. \A f \in Pid : new[f] = IF f = n THEN r ELSE fs[f]
  BY DEF Frames
<1>3. IsFiniteSet(S) /\ IsFiniteSet(U) BY CountNat
<1>4. T = S \cup V
  <2>1. T \subseteq Pid \X (1..MaxCall) /\ S \subseteq Pid \X (1..MaxCall)
    BY DEF Slots
  <2>2. ASSUME NEW x \in Pid \X (1..MaxCall)
        PROVE  x \in T <=> x \in S \/ x \in V
    <3>1. x[1] \in Pid /\ x[2] \in 1..MaxCall OBVIOUS
    <3>2. CASE x[1] = n
      <4>1. x \notin S BY <3>2 DEF Slots
      <4>2. x \in T <=> x[2] <= Len(r.caller) /\ r.caller[x[2]] = g
        BY <1>1, <1>2, <3>1, <3>2 DEF Slots
      <4>3. x \in V <=> x[2] <= Len(fs[c].caller) /\ fs[c].caller[x[2]] = g
        BY <3>1, <3>2 DEF Slots
      <4> QED BY <4>1, <4>2, <4>3
    <3>3. CASE x[1] # n
      <4>1. x \notin V BY <3>3
      <4>2. x \in T <=> x \in S BY <1>2, <3>1, <3>3 DEF Slots
      <4> QED BY <4>1, <4>2
    <3> QED BY <3>2, <3>3
  <2> QED BY <2>1, <2>2
<1>5. S \cap V = {} BY DEF Slots
<1>6. h \in Bijection(V, U)
  <2>1. h \in [V -> U] OBVIOUS
  <2>2. \A a, b \in V : h[a] = h[b] => a = b OBVIOUS
  <2>3. \A y \in U : \E x \in V : h[x] = y
    <3> SUFFICES ASSUME NEW y \in U PROVE \E x \in V : h[x] = y
      OBVIOUS
    <3>1. y \in Pid \X (1..MaxCall) /\ y[1] = c BY DEF Slots
    <3>2. y = <<c, y[2]>> /\ y[2] \in 1..MaxCall BY <3>1
    <3>3. <<n, y[2]>> \in V BY <3>2
    <3> QED BY <3>2, <3>3
  <2> HIDE DEF h, V, U
  <2>4. h \in Injection(V, U) BY <2>1, <2>2 DEF Injection, IsInjective
  <2>5. h \in Surjection(V, U) BY <2>1, <2>3 DEF Surjection
  <2> QED BY <2>4, <2>5 DEF Bijection
<1> HIDE DEF h, V, U, S, T, new
<1>7. IsFiniteSet(V) /\ Cardinality(V) <= Cardinality(U)
  BY <1>3, <1>6, FS_Injection DEF Bijection
<1>8. Cardinality(V) = Cardinality(U)
  BY <1>3, <1>6, FS_Injection DEF Bijection
<1>9. Cardinality(S \cup V) = Cardinality(S) + Cardinality(V) - Cardinality(S \cap V)
  BY <1>3, <1>7, FS_Union
<1>10. Cardinality(S \cap V) = 0 BY <1>5, FS_EmptySet
<1>11. Cardinality(S) \in Nat /\ Cardinality(V) \in Nat
  BY <1>3, <1>7, FS_CardinalityType
<1>12. Cardinality(T) = Cardinality(S) + Cardinality(U)
  BY <1>4, <1>8, <1>9, <1>10, <1>11
<1> QED BY <1>12 DEF Count, S, T, U, new

\* A frame whose call stack stays counts as before.
LEMMA ReframedCount ==
  ASSUME NEW fs \in Frames, NEW n \in Pid, fs[n] # NoFrame,
         NEW r \in Frame, r.caller = fs[n].caller, NEW g
  PROVE  Count([fs EXCEPT ![n] = r], g, Pid) = Count(fs, g, Pid)
<1> DEFINE new == [fs EXCEPT ![n] = r]
<1>1. r # NoFrame BY FrameLive
<1>2. \A f \in Pid : new[f] = IF f = n THEN r ELSE fs[f]
  BY DEF Frames
<1> HIDE DEF new
<1>3. \A f \in Pid, d \in 1..MaxCall :
        <<f, d>> \in Slots(new, g, Pid) <=> <<f, d>> \in Slots(fs, g, Pid)
  <2> SUFFICES ASSUME NEW f \in Pid, NEW d \in 1..MaxCall
               PROVE  <<f, d>> \in Slots(new, g, Pid) <=>
                        <<f, d>> \in Slots(fs, g, Pid)
    OBVIOUS
  <2>1. CASE f = n BY <1>1, <1>2, <2>1 DEF Slots
  <2>2. CASE f # n BY <1>2, <2>2 DEF Slots
  <2> QED BY <2>1, <2>2
<1>4. Count(new, g, Pid) = Count(fs, g, Pid) BY <1>3, SameCount
<1> QED BY <1>4 DEF new

-----------------------------------------------------------------------------
(* Everything an action can do to the frames and the counts. *)

Undisturbed == UNCHANGED <<frames, instances>>
Freed == \E F : Clean(F, frames, instances)
Entered ==
  \E n \in Pid, h \in Programs, r \in Frame :
     /\ frames[n] = NoFrame /\ r.caller = <<h>>
     /\ frames' = [frames EXCEPT ![n] = r]
     /\ instances' = [instances EXCEPT ![h] = @ + 1]
     /\ cur' = n /\ pc' = "start"
Called ==
  \E h \in Programs, r \in Frame : \E F :
     /\ cur \in Live /\ cur \notin F /\ Len(Me.caller) < MaxCall
     /\ r.caller = Append(Me.caller, h)
     /\ Clean(F, [frames EXCEPT ![cur] = r], [instances EXCEPT ![h] = @ + 1])
Returned ==
  \E h \in Programs, r \in Frame :
     /\ cur \in Live /\ Me.caller = Append(r.caller, h)
     /\ frames' = [frames EXCEPT ![cur] = r]
     /\ instances' = [instances EXCEPT ![h] = @ - 1]
Reframed ==
  \E r \in Frame :
     /\ cur \in Live /\ r.caller = Me.caller
     /\ frames' = [frames EXCEPT ![cur] = r]
     /\ UNCHANGED instances
Forked ==
  \E n \in Pid, r \in Frame :
     /\ cur \in Live /\ frames[n] = NoFrame /\ r.caller = Me.caller
     /\ frames' = [frames EXCEPT ![n] = r]
     /\ instances' = [g \in Programs |-> instances[g] + Uses(g, {cur})]
     /\ pc = "run" /\ UNCHANGED compiled

\* interp uses a number no frame has.
LEMMA InterpEntered ==
  ASSUME PInv, NEW p \in Players, NEW g \in Programs, NEW m \in Mode,
         NEW wo \in BOOLEAN, NEW caller, interp(p, g, m, wo, caller)
  PROVE  Entered
<1>1. top_pid \in Pid /\ frames[top_pid] = NoFrame
  <2>1. QInv /\ FInv /\ TypeRest BY DEF PInv
  <2>2. top_pid \in Pid /\ top_pid \notin Live
    BY <2>1, NumbersNat, ConstantAssumption DEF interp, TypeRest, Pid
  <2> QED BY <2>2 DEF Live
<1> DEFINE r == NewFrame(p, g, m, wo)
<1>2. r \in Frame /\ r.caller = <<g>> BY DEF NewFrame, Frame
<1>3. /\ frames' = [frames EXCEPT ![top_pid] = r]
      /\ instances' = [instances EXCEPT ![g] = @ + 1]
      /\ cur' = top_pid /\ pc' = "start"
  BY DEF interp
<1> HIDE DEF r
<1> QED BY <1>1, <1>2, <1>3 DEF Entered

\* Killing frees frames, and only the calls and returns of the running program
\* change what another frame's stack holds.
LEMMA FrameSteps ==
  ASSUME PInv, [Next]_vars
  PROVE  Undisturbed \/ Freed \/ Entered \/ Called \/ Returned \/ Reframed \/ Forked
<1>1. QInv /\ FInv /\ TypeRest /\ Control BY DEF PInv
<1>2. \A K : Unlink(K, frames, instances) => Freed BY DEF Unlink, Freed
<1>3. \A o, so : dequeue_prog(o, so, frames, instances) => Freed
  BY <1>2 DEF dequeue_prog
<1>4. \A n : dequeue_process(n) => Freed BY <1>2 DEF dequeue_process
<1>5. CASE MainLoop
  <2>1. ASSUME NEW p \in Players, NEW g \in Programs, NEW m \in Mode,
               NEW wo \in BOOLEAN, Command(p, g, m, wo)
        PROVE  Entered
    BY <2>1, InterpEntered DEF Command
  <2>2. ASSUME NEW p \in Players, NEW g \in Programs, Propqueue(p, g)
        PROVE  Entered
    <3>1. PICK wo \in BOOLEAN :
            interp(p, g, "BACKGROUND", wo \/ interactive[p], "cmd")
      BY <2>2 DEF Propqueue
    <3>2. (wo \/ interactive[p]) \in BOOLEAN /\ "BACKGROUND" \in Mode
      BY DEF Mode
    <3> QED BY <3>1, <3>2, InterpEntered
  <2>3. ASSUME NEW p \in Players, NEW g \in Programs, Listen(p, g)
        PROVE  Undisturbed
    BY <2>3 DEF Listen, Undisturbed
  <2>4. ASSUME NEW o \in Players \cup Programs,
               \/ Disconnect(o) \/ BreakLine(o) \/ KillObject(o)
               \/ Uncompile(o) \/ Recompile(o)
        PROVE  Freed
    BY <1>3, <2>4 DEF Disconnect, BreakLine, KillObject, Uncompile, Recompile
  <2>5. ASSUME NEW n \in Pid, KillPid(n) PROVE Undisturbed \/ Freed
    BY <1>4, <2>5 DEF KillPid, Undisturbed
  <2>6. ASSUME KillAll PROVE Freed
    BY <1>2, <2>6 DEF KillAll
  <2>7. ASSUME NEW p \in Players, NEW line \in {"text", "@Q", "full"},
               ReadLine(p, line)
        PROVE  Undisturbed \/ Freed
    <3>1. \/ UNCHANGED <<frames, instances>>
          \/ \E i : Clean({queue[i].fr}, frames, instances)
      BY <2>7 DEF ReadLine, Resumed
    <3> QED BY <3>1 DEF Undisturbed, Freed
  <2>8. \A p : Connect(p) \/ Message(p) => Undisturbed
    BY DEF Connect, Message, Undisturbed
  <2> QED BY <1>5, <2>1, <2>2, <2>3, <2>4, <2>5, <2>6, <2>7, <2>8 DEF MainLoop
<1>6. CASE Events
  <2>1. ASSUME BeginPass \/ EndEvent \/ EndPass \/ EndRead PROVE Undisturbed
    BY <2>1 DEF BeginPass, EndEvent, EndPass, EndRead, Undisturbed
  <2>2. ASSUME RunEvent PROVE Undisturbed \/ Entered
    <3> DEFINE e == queue[1]
    <3>1. /\ queue # <<>> /\ queue' = Tail(queue)
      BY <2>2 DEF RunEvent, PassDone
    <3>2. Head(queue) = e /\ e \in Event /\ Shape(e)
      BY <1>1, <3>1, Popped
    <3>3. CASE RunMpi \/ RunFrame(e)
      BY <3>3 DEF RunMpi, RunFrame, Undisturbed
    <3>4. CASE e.kind = "QUEUE" /\ RunProgram(e)
      <4>1. e.uid \in Players /\ e.prog \in Programs
        BY <3>2, <3>4 DEF Event, Shape
      <4>2. CASE UNCHANGED <<frames, instances>> BY <4>2 DEF Undisturbed
      <4>3. ASSUME NEW wo \in BOOLEAN,
                   interp(e.uid, e.prog, "BACKGROUND",
                          wo \/ interactive[e.uid], "event")
            PROVE  Entered
        <5>1. (wo \/ interactive[e.uid]) \in BOOLEAN /\ "BACKGROUND" \in Mode
          BY DEF Mode
        <5> QED BY <4>1, <4>3, <5>1, InterpEntered
      <4> QED BY <3>4, <4>2, <4>3 DEF RunProgram
    <3> QED BY <2>2, <3>2, <3>3, <3>4 DEF RunEvent
  <2> QED BY <1>6, <2>1, <2>2 DEF Events
<1>7. CASE Interpreter
  <2>1. ASSUME EnterLoop PROVE Undisturbed \/ Freed
    BY <1>3, <2>1 DEF EnterLoop, Undisturbed
  <2>2. ASSUME Finish PROVE Freed
    BY <2>2 DEF Finish, Freed
  <2>3. ASSUME Slice PROVE Undisturbed \/ Freed
    BY <2>3 DEF Slice, Undisturbed, Freed
  <2>4. ASSUME NEW d \in Delays, Sleep(d) PROVE Undisturbed \/ Freed
    BY <2>4 DEF Sleep, Undisturbed, Freed
  <2>5. ASSUME Read \/ EndMpi PROVE Undisturbed
    BY <2>5 DEF Read, EndMpi, Undisturbed
  <2>6. ASSUME NEW d \in Delays, MpiDelay(d) \/ \E g \in Programs : Queue(d, g)
        PROVE  Undisturbed
    BY <2>6 DEF MpiDelay, Queue, Undisturbed
  <2>7. ASSUME MpiKillAll \/ \E n \in Pid : Kill(n) PROVE Freed
    BY <1>3, <1>4, <2>7 DEF MpiKillAll, Kill
  <2>8. ASSUME NEW g \in Programs, Call(g) PROVE Called \/ Freed
    <3> DEFINE r == [Me EXCEPT !.caller = Append(@, g)]
               fs == [frames EXCEPT ![cur] = r]
               inst == [instances EXCEPT ![g] = @ + 1]
    <3>1. cur # 0 /\ Len(Me.caller) < MaxCall
      BY <1>1, <2>8 DEF Call, Executing, Control
    <3>2. /\ cur \in Live /\ cur \in Pid /\ Me \in Frame
          /\ Me.caller \in Seq(Programs)
      BY <3>1, CurFrame
    <3>3. /\ r \in Frame /\ r.caller = Append(Me.caller, g)
      <4>1. Append(Me.caller, g) \in Seq(Programs) BY <3>2
      <4> QED BY <3>2, <4>1 DEF Frame
    <3>4. fs = [frames EXCEPT ![cur].caller = Append(@, g)]
      BY <3>2 DEF Me
    <3>5. fs \in Frames /\ inst \in [Programs -> Int]
      BY <1>1, <3>2, <3>3 DEF FInv, TypeRest, Frames
    <3>6. \/ frames' = fs /\ instances' = inst
          \/ Unlink(Doomed(g, 1), fs, inst)
          \/ Unlink(Doomed(g, 1), frames, instances)
      BY <2>8, <3>4 DEF Call, dequeue_prog
    <3> HIDE DEF r
    <3>7. \A F : cur \notin F /\ Clean(F, fs, inst) => Called
      BY <3>1, <3>2, <3>3 DEF Called
    <3> HIDE DEF fs, inst
    <3>8. CASE frames' = fs /\ instances' = inst
      <4>1. \A h : Uses(h, {}) = 0
        <5> SUFFICES ASSUME NEW h PROVE Uses(h, {}) = 0
          OBVIOUS
        <5>1. Slots(frames, h, {}) = {} BY DEF Slots
        <5> QED BY <5>1, UsesCount, FS_EmptySet DEF Count
      <4>2. Clean({}, fs, inst)
        <5>1. frames' = [f \in Pid |-> IF f \in {} THEN NoFrame ELSE fs[f]]
          BY <3>5, <3>8 DEF Frames
        <5>2. instances' = [h \in Programs |-> inst[h] - Uses(h, {})]
          BY <3>5, <3>8, <4>1
        <5> QED BY <5>1, <5>2 DEF Clean
      <4> QED BY <3>7, <4>2
    <3>9. CASE Unlink(Doomed(g, 1), fs, inst)
      <4>1. cur \notin FramesAt(Doomed(g, 1))
        <5>1. FramesAt(Doomed(g, 1)) \subseteq Held
          BY DoomedPositions DEF FramesAt, Held
        <5> QED BY <1>1, <3>1, <5>1 DEF FInv
      <4> QED BY <3>7, <3>9, <4>1 DEF Unlink
    <3> QED BY <1>2, <3>6, <3>8, <3>9
  <2>9. ASSUME Return PROVE Returned
    <3> DEFINE t == SubSeq(Me.caller, 1, Len(Me.caller) - 1)
               r == [Me EXCEPT !.caller = t]
    <3>1. cur # 0 /\ Len(Me.caller) > 1
      BY <1>1, <2>9 DEF Return, Executing, Control
    <3>2. /\ cur \in Live /\ cur \in Pid /\ Me \in Frame
          /\ Me.caller \in Seq(Programs) /\ Len(Me.caller) \in Nat \ {0}
          /\ ProgramOf(cur) \in Programs
      BY <3>1, CurFrame
    <3>3. /\ t \in Seq(Programs) /\ Len(t) = Len(Me.caller) - 1
          /\ \A i \in 1..(Len(Me.caller) - 1) : t[i] = Me.caller[i]
      BY <3>1, <3>2, SubSeqProperties
    <3>4. ProgramOf(cur) = Me.caller[Len(Me.caller)] BY DEF ProgramOf, Me
    <3> HIDE DEF t
    <3>5. Me.caller = Append(t, ProgramOf(cur))
      BY <3>1, <3>2, <3>3, <3>4
    <3>6. r \in Frame /\ r.caller = t BY <3>2, <3>3 DEF Frame
    <3>7. /\ frames' = [frames EXCEPT ![cur] = r]
          /\ instances' = [instances EXCEPT ![ProgramOf(cur)] = @ - 1]
      BY <2>9, <3>2 DEF Return, Me, t
    <3> HIDE DEF r
    <3> QED BY <3>2, <3>5, <3>6, <3>7 DEF Returned
  <2>10. ASSUME NEW m \in Mode, SetMode(m) PROVE Reframed
    <3> DEFINE r == [Me EXCEPT !.mode = m, !.been = Me.been \/ m = "BACKGROUND",
                               !.writeonly = Me.writeonly \/ m = "BACKGROUND"]
    <3>1. cur # 0 BY <1>1, <2>10 DEF SetMode, Executing, Control
    <3>2. cur \in Live /\ cur \in Pid /\ Me \in Frame BY <3>1, CurFrame
    <3>3. r \in Frame /\ r.caller = Me.caller BY <3>2 DEF Frame
    <3>4. frames' = [frames EXCEPT ![cur] = r] /\ UNCHANGED instances
      BY <2>10 DEF SetMode, Me
    <3> HIDE DEF r
    <3> QED BY <3>2, <3>3, <3>4 DEF Reframed
  <2>11. ASSUME Fork PROVE Undisturbed \/ Forked
    <3>1. cur # 0 /\ top_pid <= MaxPid
      BY <1>1, <2>11 DEF Fork, Executing, Control
    <3>2. CASE Full(Me.uid) BY <2>11, <3>2 DEF Fork, Undisturbed
    <3>3. CASE ~Full(Me.uid)
      <4> DEFINE r == [Me EXCEPT !.mode = "BACKGROUND", !.been = FALSE,
                                 !.writeonly = TRUE]
      <4>1. cur \in Live /\ Me \in Frame BY <3>1, CurFrame
      <4>2. r \in Frame /\ r.caller = Me.caller BY <4>1 DEF Frame, Mode
      <4>3. /\ frames' = [frames EXCEPT ![top_pid] = r]
            /\ instances' = [g \in Programs |-> instances[g] + Uses(g, {cur})]
            /\ pc = "run" /\ UNCHANGED compiled
        BY <2>11, <3>3 DEF Fork, Executing
      <4>4. top_pid \in Pid /\ frames[top_pid] = NoFrame
        <5>1. top_pid \in Pid /\ top_pid \notin Live
          BY <1>1, <3>1, NumbersNat, ConstantAssumption DEF TypeRest, Pid
        <5> QED BY <5>1 DEF Live
      <4> HIDE DEF r
      <4> QED BY <4>1, <4>2, <4>3, <4>4 DEF Forked
    <3> QED BY <3>2, <3>3
  <2> QED BY <1>7, <2>1, <2>2, <2>3, <2>4, <2>5, <2>6, <2>7, <2>8, <2>9, <2>10,
             <2>11 DEF Interpreter
<1>8. CASE Tick BY <1>8 DEF Tick, Undisturbed
<1>9. CASE UNCHANGED vars BY <1>9 DEF vars, Undisturbed
<1> QED BY <1>5, <1>6, <1>7, <1>8, <1>9 DEF Next

-----------------------------------------------------------------------------
(* The instance counts. *)

\* No call stack is deeper than the bound the model puts on it.
Depth == \A f \in Live : Len(frames[f].caller) <= MaxCall

\* The number of activations of each program, and its count, go together.
LEMMA MatchStep ==
  ASSUME IInv, IInv', InstancesMatch, Depth, [Next]_vars
  PROVE  InstancesMatch' /\ Depth'
<1>1. PInv /\ FInv /\ TypeRest BY Parts DEF PInv
<1>2. /\ frames \in Frames /\ instances \in [Programs -> Int]
      /\ frames' \in Frames /\ Live \subseteq Pid
  BY <1>1 DEF FInv, TypeRest, Frames, IInv, TypeOK, Live
<1>3. \A g \in Programs : instances[g] = Count(frames, g, Pid)
  BY UsesCount DEF InstancesMatch
<1>4. \A f \in Pid : frames[f] # NoFrame => Len(frames[f].caller) <= MaxCall
  BY DEF Depth, Live
<1> SUFFICES /\ \A g \in Programs : instances'[g] = Count(frames', g, Pid)
             /\ \A f \in Pid : frames'[f] # NoFrame =>
                                 Len(frames'[f].caller) <= MaxCall
  BY UsesCount DEF InstancesMatch, Depth, Live
<1>5. CASE Undisturbed
  BY <1>3, <1>4, <1>5 DEF Undisturbed
<1>6. CASE Freed
  <2>1. PICK F : Clean(F, frames, instances) BY <1>6 DEF Freed
  <2>2. ASSUME NEW g \in Programs
        PROVE  instances'[g] = Count(frames', g, Pid)
    <3>1. Count([f \in Pid |-> IF f \in F THEN NoFrame ELSE frames[f]], g, Pid) =
            Count(frames, g, Pid) - Count(frames, g, F)
      BY FreedCount
    <3>2. Uses(g, F) = Count(frames, g, F) BY UsesCount
    <3> QED BY <1>3, <2>1, <3>1, <3>2 DEF Clean
  <2>3. \A f \in Pid : frames'[f] # NoFrame => frames'[f] = frames[f]
    BY <2>1 DEF Clean
  <2> QED BY <1>4, <2>2, <2>3
<1>7. CASE Entered
  <2>1. PICK n \in Pid, h \in Programs, r \in Frame :
          /\ frames[n] = NoFrame /\ r.caller = <<h>>
          /\ frames' = [frames EXCEPT ![n] = r]
          /\ instances' = [instances EXCEPT ![h] = @ + 1]
          /\ cur' = n /\ pc' = "start"
    BY <1>7 DEF Entered
  <2>2. ASSUME NEW g \in Programs
        PROVE  instances'[g] = Count(frames', g, Pid)
    <3>1. Count([frames EXCEPT ![n] = r], g, Pid) =
            Count(frames, g, Pid) + One(g = h)
      <4>1. frames \in Frames /\ frames[n] = NoFrame /\ r.caller = <<h>>
        BY <1>2, <2>1
      <4> QED BY <4>1, EnteredCount
    <3>2. instances'[g] = instances[g] + One(g = h) BY <1>2, <2>1 DEF One
    <3> QED BY <1>3, <2>1, <3>1, <3>2
  <2>3. \A f \in Pid : frames'[f] = IF f = n THEN r ELSE frames[f]
    BY <1>2, <2>1 DEF Frames
  <2>4. Len(r.caller) = 1 /\ 1 <= MaxCall BY <2>1, ConstantAssumption
  <2> QED BY <1>4, <2>2, <2>3, <2>4
<1>8. CASE Called
  <2>0. PICK h \in Programs, r \in Frame : \E F :
          /\ cur \in Live /\ cur \notin F /\ Len(Me.caller) < MaxCall
          /\ r.caller = Append(Me.caller, h)
          /\ Clean(F, [frames EXCEPT ![cur] = r], [instances EXCEPT ![h] = @ + 1])
    BY <1>8 DEF Called
  <2>1. PICK F :
          /\ cur \in Live /\ cur \notin F /\ Len(Me.caller) < MaxCall
          /\ r.caller = Append(Me.caller, h)
          /\ Clean(F, [frames EXCEPT ![cur] = r], [instances EXCEPT ![h] = @ + 1])
    BY <2>0
  <2> DEFINE fs == [frames EXCEPT ![cur] = r]
  <2>2. /\ fs \in Frames /\ cur \in Pid /\ frames[cur] # NoFrame
        /\ fs[cur] = r /\ \A f \in Pid : f # cur => fs[f] = frames[f]
    BY <1>2, <2>1 DEF Frames, Live
  <2>3. r # NoFrame /\ Me = frames[cur] /\ frames[cur] \in Frame
    BY <1>2, <2>2, FrameLive DEF Me, Frames
  <2>4. /\ frames' = [f \in Pid |-> IF f \in F THEN NoFrame ELSE fs[f]]
        /\ \A g \in Programs :
             instances'[g] = [instances EXCEPT ![h] = @ + 1][g] - Uses(g, F)
    BY <2>1 DEF Clean
  <2> HIDE DEF fs
  <2>5. ASSUME NEW g \in Programs
        PROVE  instances'[g] = Count(frames', g, Pid)
    <3>1. Count(fs, g, Pid) = Count(frames, g, Pid) + One(g = h)
      <4>1. /\ frames[cur] # NoFrame /\ fs[cur] # NoFrame
            /\ \A f \in Pid : f # cur => fs[f] = frames[f]
            /\ fs[cur].caller = Append(frames[cur].caller, h)
            /\ Len(frames[cur].caller) < MaxCall
        BY <2>1, <2>2, <2>3
      <4>2. frames \in Frames /\ fs \in Frames /\ cur \in Pid
        BY <1>2, <2>2
      <4> QED BY <4>1, <4>2, LongerCount
    <3>2. Count([f \in Pid |-> IF f \in F THEN NoFrame ELSE fs[f]], g, Pid) =
            Count(fs, g, Pid) - Count(fs, g, F)
      BY FreedCount
    <3>3. Count(fs, g, F) = Uses(g, F)
      <4>1. Slots(fs, g, F) = Slots(frames, g, F)
        BY <2>1, <2>2 DEF Slots
      <4> QED BY <4>1, UsesCount DEF Count
    <3>4. [instances EXCEPT ![h] = @ + 1][g] = instances[g] + One(g = h)
      BY <1>2 DEF One
    <3>5. instances[g] = Count(frames, g, Pid) BY <1>3
    <3>6. instances'[g] = [instances EXCEPT ![h] = @ + 1][g] - Uses(g, F)
      BY <2>4
    <3>7. Count(frames', g, Pid) = Count(fs, g, Pid) - Count(fs, g, F)
      BY <2>4, <3>2
    <3> QED BY <3>1, <3>3, <3>4, <3>5, <3>6, <3>7
  <2>6. Len(Append(Me.caller, h)) <= MaxCall
    <3>1. Me.caller \in Seq(Programs) BY <2>3 DEF Frame
    <3> QED BY <2>1, <3>1, ConstantAssumption
  <2>7. \A f \in Pid : frames'[f] # NoFrame =>
                         frames'[f] = IF f = cur THEN r ELSE frames[f]
    BY <2>2, <2>4
  <2> QED BY <1>4, <2>1, <2>5, <2>6, <2>7
<1>9. CASE Returned
  <2>1. PICK h \in Programs, r \in Frame :
          /\ cur \in Live /\ Me.caller = Append(r.caller, h)
          /\ frames' = [frames EXCEPT ![cur] = r]
          /\ instances' = [instances EXCEPT ![h] = @ - 1]
    BY <1>9 DEF Returned
  <2>2. /\ cur \in Pid /\ frames[cur] # NoFrame /\ Me = frames[cur]
        /\ \A f \in Pid : frames'[f] = IF f = cur THEN r ELSE frames[f]
    BY <1>2, <2>1 DEF Frames, Live, Me
  <2>3. r # NoFrame BY FrameLive
  <2>4. /\ r.caller \in Seq(Programs) /\ Len(r.caller) < MaxCall
    <3>1. r.caller \in Seq(Programs) BY DEF Frame
    <3>2. Len(Append(r.caller, h)) = Len(r.caller) + 1 /\ Len(r.caller) \in Nat
      BY <3>1
    <3>3. Len(Me.caller) <= MaxCall BY <1>4, <2>2
    <3> QED BY <2>1, <3>1, <3>2, <3>3, ConstantAssumption
  <2>5. ASSUME NEW g \in Programs
        PROVE  instances'[g] = Count(frames', g, Pid)
    <3>1. /\ frames[cur] # NoFrame /\ frames'[cur] # NoFrame
          /\ \A f \in Pid : f # cur => frames[f] = frames'[f]
          /\ frames[cur].caller = Append(frames'[cur].caller, h)
          /\ Len(frames'[cur].caller) < MaxCall
      BY <2>1, <2>2, <2>3, <2>4
    <3>2. frames \in Frames /\ frames' \in Frames /\ cur \in Pid
      BY <1>2, <2>2
    <3>3. Count(frames, g, Pid) = Count(frames', g, Pid) + One(g = h)
      BY <3>1, <3>2, LongerCount
    <3>4. instances'[g] = instances[g] - One(g = h) BY <1>2, <2>1 DEF One
    <3>5. Count(frames', g, Pid) \in Nat BY CountNat
    <3>6. One(g = h) \in Int BY DEF One
    <3> QED BY <1>3, <3>3, <3>4, <3>5, <3>6
  <2> QED BY <1>4, <2>2, <2>4, <2>5, ConstantAssumption
<1>10. CASE Reframed
  <2>1. PICK r \in Frame :
          /\ cur \in Live /\ r.caller = Me.caller
          /\ frames' = [frames EXCEPT ![cur] = r]
          /\ UNCHANGED instances
    BY <1>10 DEF Reframed
  <2>2. /\ cur \in Pid /\ frames[cur] # NoFrame /\ Me = frames[cur]
        /\ \A f \in Pid : frames'[f] = IF f = cur THEN r ELSE frames[f]
    BY <1>2, <2>1 DEF Frames, Live, Me
  <2>3. \A g : Count([frames EXCEPT ![cur] = r], g, Pid) = Count(frames, g, Pid)
    BY <1>2, <2>1, <2>2, ReframedCount
  <2> QED BY <1>3, <1>4, <2>1, <2>2, <2>3
<1>11. CASE Forked
  <2>1. PICK n \in Pid, r \in Frame :
          /\ cur \in Live /\ frames[n] = NoFrame /\ r.caller = Me.caller
          /\ frames' = [frames EXCEPT ![n] = r]
          /\ instances' = [g \in Programs |-> instances[g] + Uses(g, {cur})]
          /\ pc = "run" /\ UNCHANGED compiled
    BY <1>11 DEF Forked
  <2>2. /\ cur \in Pid /\ frames[cur] # NoFrame /\ Me = frames[cur]
        /\ \A f \in Pid : frames'[f] = IF f = n THEN r ELSE frames[f]
    BY <1>2, <2>1 DEF Frames, Live, Me
  <2>3. \A g : Count([frames EXCEPT ![n] = r], g, Pid) =
                 Count(frames, g, Pid) + Count(frames, g, {cur})
    BY ZenonT(30), <1>2, <2>1, <2>2, ForkedCount
  <2>4. \A g : Uses(g, {cur}) = Count(frames, g, {cur}) BY UsesCount
  <2> QED BY ZenonT(60), <1>3, <1>4, <2>1, <2>2, <2>3, <2>4
<1> QED BY <1>1, <1>5, <1>6, <1>7, <1>8, <1>9, <1>10, <1>11, FrameSteps

\* Whatever is called, forked, killed or freed, the count of a program is the
\* number of its activations on the call stacks of the frames in use.
THEOREM InstancesCounted == Spec => [](InstancesMatch /\ Depth)
<1>1. Init => InstancesMatch /\ Depth
  <2> SUFFICES ASSUME Init PROVE InstancesMatch /\ Depth
    OBVIOUS
  <2>1. frames = [f \in Pid |-> NoFrame] /\ Live = {} BY DEF Init, Live
  <2>2. \A g : Slots(frames, g, Pid) = {} BY <2>1 DEF Slots
  <2>3. \A g : Uses(g, Live) = 0 BY <2>2, UsesCount, FS_EmptySet DEF Count
  <2> QED BY <2>1, <2>3 DEF Init, InstancesMatch, Depth
<1>2. IInv /\ IInv' /\ (InstancesMatch /\ Depth) /\ [Next]_vars =>
        (InstancesMatch /\ Depth)'
  BY MatchStep
<1> QED BY <1>1, <1>2, Invariance, PTL DEF Spec

-----------------------------------------------------------------------------
(* Code that may be returned into. *)

\* Every program on the call stack of frame f has its code.
Ready(f) ==
  \A d \in DOMAIN frames[f].caller : compiled[frames[f].caller[d]]

\* A queued frame is filed under the program it executes, which is what
\* dequeue_prog looks at; has_refs looks at the other entries only.
ProgMatches ==
  \A i \in DOMAIN queue :
     queue[i].fr # 0 => queue[i].prog = ProgramOf(queue[i].fr)

\* interp_loop is entered by a frame that has called nothing yet.
Fresh == pc = "start" => Len(frames[cur].caller) = 1

CodeInv == InstancesMatch /\ Depth /\ ProgMatches /\ Fresh /\ NoDanglingCode

\* Only the running frame's call stack changes, other frames come and go whole.
LEMMA StacksKept ==
  ASSUME PInv, [Next]_vars, NEW f \in Live, f \in Live', f # cur
  PROVE  frames'[f].caller = frames[f].caller
<1>1. /\ f \in Pid /\ frames[f] # NoFrame /\ frames'[f] # NoFrame
      /\ frames \in Frames
  BY DEF Live, PInv, FInv, Frames
<1>2. CASE Undisturbed BY <1>2 DEF Undisturbed
<1>3. CASE Freed BY <1>1, <1>3 DEF Freed, Clean
<1>4. CASE Entered BY <1>1, <1>4 DEF Entered, Frames
<1>5. CASE Called
  <2>0. PICK h \in Programs, r \in Frame : \E F :
          Clean(F, [frames EXCEPT ![cur] = r], [instances EXCEPT ![h] = @ + 1])
    BY <1>5 DEF Called
  <2>1. PICK F :
          Clean(F, [frames EXCEPT ![cur] = r], [instances EXCEPT ![h] = @ + 1])
    BY <2>0
  <2> QED BY <1>1, <2>1 DEF Clean, Frames
<1>6. CASE Returned BY <1>1, <1>6 DEF Returned, Frames
<1>7. CASE Reframed BY <1>1, <1>7 DEF Reframed, Frames
<1>8. CASE Forked BY <1>1, <1>8 DEF Forked, Frames
<1> QED BY <1>2, <1>3, <1>4, <1>5, <1>6, <1>7, <1>8, FrameSteps

\* A frame that comes into use is entered at once, or is a copy of the running
\* one.
LEMMA FramesBorn ==
  ASSUME PInv, [Next]_vars, NEW f \in Live', f \notin Live
  PROVE  \/ f = cur' /\ pc' = "start"
         \/ /\ pc = "run" /\ UNCHANGED compiled /\ cur \in Live
            /\ frames'[f].caller = frames[cur].caller
<1>1. /\ f \in Pid /\ frames[f] = NoFrame /\ frames'[f] # NoFrame
      /\ frames \in Frames
  BY DEF Live, PInv, FInv, Frames
<1>2. CASE Undisturbed BY <1>1, <1>2 DEF Undisturbed
<1>3. CASE Freed BY <1>1, <1>3 DEF Freed, Clean
<1>4. CASE Entered BY <1>1, <1>4 DEF Entered, Frames
<1>5. CASE Called
  <2>0. PICK h \in Programs, r \in Frame : \E F :
          /\ cur \in Live
          /\ Clean(F, [frames EXCEPT ![cur] = r], [instances EXCEPT ![h] = @ + 1])
    BY <1>5 DEF Called
  <2>1. PICK F :
          /\ cur \in Live
          /\ Clean(F, [frames EXCEPT ![cur] = r], [instances EXCEPT ![h] = @ + 1])
    BY <2>0
  <2> QED BY <1>1, <2>1 DEF Clean, Frames, Live
<1>6. CASE Returned BY <1>1, <1>6 DEF Returned, Frames, Live
<1>7. CASE Reframed BY <1>1, <1>7 DEF Reframed, Frames, Live
<1>8. CASE Forked BY <1>1, <1>8 DEF Forked, Frames, Me
<1> QED BY <1>2, <1>3, <1>4, <1>5, <1>6, <1>7, <1>8, FrameSteps

\* A program enters interp_loop with a new frame.
LEMMA FreshStep ==
  ASSUME PInv, PInv', Fresh, [Next]_vars
  PROVE  Fresh'
<1> SUFFICES ASSUME pc' = "start" PROVE Len(frames'[cur'].caller) = 1
  BY DEF Fresh
<1>1. Control /\ frames \in Frames /\ top_pid \in Nat
  BY DEF PInv, FInv, TypeRest, Frames
<1>2. \A p, g, m, wo, c : interp(p, g, m, wo, c) =>
        Len(frames'[cur'].caller) = 1
  BY <1>1, ConstantAssumption DEF interp, NewFrame, Frames, Pid, TypeRest, PInv
<1>3. UNCHANGED <<frames, cur, pc>> => Len(frames'[cur'].caller) = 1
  BY DEF Fresh
<1>4. CASE MainLoop
  <2>1. \A p, g, m, wo : Command(p, g, m, wo) \/ Propqueue(p, g) =>
          Len(frames'[cur'].caller) = 1
    BY <1>2 DEF Command, Propqueue
  <2> QED BY <1>4, <2>1 DEF MainLoop, Listen, Connect, Disconnect, BreakLine,
             Message, KillObject, KillPid, KillAll, Uncompile, Recompile,
             ReadLine, Resumed, Idle
<1>5. CASE Events
  BY <1>2, <1>5 DEF Events, BeginPass, RunEvent, EndEvent, EndPass, EndRead,
                    RunMpi, RunFrame, RunProgram
<1>6. CASE Interpreter
  BY <1>6 DEF Interpreter, EnterLoop, Finish, Slice, Read, Return, Fork,
              Sleep, MpiDelay, Queue, Call, SetMode, Kill, MpiKillAll, EndMpi,
              Leave, Executing
<1>7. CASE Tick BY <1>3, <1>7 DEF Tick
<1>8. CASE UNCHANGED vars BY <1>3, <1>8 DEF vars
<1> QED BY <1>4, <1>5, <1>6, <1>7, <1>8 DEF Next

\* What is queued stays filed under the program that its frame executes.
LEMMA FiledStep ==
  ASSUME PInv, PInv', ProgMatches, [Next]_vars
  PROVE  ProgMatches'
<1>1. QInv /\ FInv /\ TypeRest /\ FInv' /\ QInv' BY DEF PInv
<1>2. ASSUME NEW i \in DOMAIN queue, NEW j \in DOMAIN queue',
             queue'[j] = queue[i], queue'[j].fr # 0
      PROVE  queue'[j].prog = frames'[queue'[j].fr].caller[
                                Len(frames'[queue'[j].fr].caller)]
  <2> DEFINE f == queue[i].fr
  <2>1. f \in Live /\ f # cur
    BY <1>1, <1>2 DEF FInv, Held
  <2>2. f \in Live' BY <1>1, <1>2 DEF FInv, Held
  <2>3. frames'[f].caller = frames[f].caller BY <2>1, <2>2, StacksKept
  <2>4. queue[i].prog = frames[f].caller[Len(frames[f].caller)]
    BY <1>2 DEF ProgMatches, ProgramOf
  <2> QED BY <1>2, <2>3, <2>4
<1> SUFFICES ASSUME NEW j \in DOMAIN queue', queue'[j].fr # 0
             PROVE  queue'[j].prog = frames'[queue'[j].fr].caller[
                                       Len(frames'[queue'[j].fr].caller)]
  BY DEF ProgMatches, ProgramOf
<1>3. CASE Thinned
  <2>1. PICK m \in Nat : \E f \in [1..m -> DOMAIN queue] :
          queue' = [i \in 1..m |-> queue[f[i]]]
    BY <1>3 DEF Thinned
  <2>2. PICK f \in [1..m -> DOMAIN queue] : queue' = [i \in 1..m |-> queue[f[i]]]
    BY <2>1
  <2>3. f[j] \in DOMAIN queue /\ queue'[j] = queue[f[j]] BY <2>2
  <2> QED BY <1>2, <2>3
<1>4. CASE Admitted
  <2>1. PICK e : Accepted(e) BY <1>4 DEF Admitted
  <2>2. PICK k \in 0..Len(queue) : queue' = Linked(e, k)
    BY <2>1 DEF Accepted, Insert
  <2>3. /\ Len(queue) \in Nat /\ DOMAIN queue' = 1..(Len(queue) + 1)
        /\ \A i \in 1..(Len(queue) + 1) :
             queue'[i] = IF i <= k THEN queue[i]
                         ELSE IF i = k + 1 THEN e ELSE queue[i - 1]
    BY <1>1, <2>2, InsertLength
  <2>4. DOMAIN queue = 1..Len(queue) BY <1>1 DEF QInv
  <2>5. CASE j <= k
    <3>1. j \in DOMAIN queue /\ queue'[j] = queue[j] BY <2>3, <2>4, <2>5
    <3> QED BY <1>2, <3>1
  <2>6. CASE j = k + 1
    <3>1. queue'[j] = e BY <2>3, <2>6
    <3> QED BY <2>1, <3>1 DEF Accepted, Top
  <2>7. CASE j > k + 1
    <3>1. j - 1 \in DOMAIN queue /\ queue'[j] = queue[j - 1]
      BY <2>3, <2>4, <2>7
    <3> QED BY <1>2, <3>1
  <2> QED BY <2>3, <2>5, <2>6, <2>7
<1>5. Untouched \/ CountedDown => Thinned
  BY <1>1, SameThinned DEF Untouched, CountedDown
<1>6. Dropped => Thinned BY <1>1, UnlinkLength DEF Dropped
<1>7. HandedOver => Thinned BY <1>1, RemovedThinned DEF HandedOver
<1>8. Taken => Thinned BY <1>1, TailThinned DEF Taken
<1> QED BY <1>3, <1>4, <1>5, <1>6, <1>7, <1>8, TableSteps

\* What dequeue_prog leaves in the table will not return into the program, for
\* whatever the order of its two tests is.
LEMMA DequeuedClean ==
  ASSUME PInv, InstancesMatch, Depth, ProgMatches, NEW g \in Programs,
         NEW f \in Held, f \notin FramesAt(Doomed(g, 1))
  PROVE  \A d \in DOMAIN frames[f].caller : frames[f].caller[d] # g
<1> SUFFICES ASSUME NEW d \in DOMAIN frames[f].caller, frames[f].caller[d] = g
             PROVE  FALSE
  OBVIOUS
<1>1. f \in Live /\ f # 0 /\ frames[f] \in Frame
  BY FramesTyped DEF PInv, FInv, Held
<1>2. /\ frames[f].caller \in Seq(Programs)
      /\ Len(frames[f].caller) \in Nat /\ Len(frames[f].caller) <= MaxCall
      /\ d \in 1..Len(frames[f].caller)
  BY <1>1 DEF Frame, Depth
<1>3. PICK i \in DOMAIN queue : queue[i].fr = f BY DEF Held
<1>4. queue[i].prog = g \/ has_refs(g, queue[i])
  <2>1. CASE d = Len(frames[f].caller)
    BY <1>1, <1>3, <2>1 DEF ProgMatches, ProgramOf
  <2>2. CASE d # Len(frames[f].caller)
    <3>1. d \in 1..(Len(frames[f].caller) - 1) BY <1>2, <2>2
    <3>2. instances[g] > 0
      <4>1. instances[g] = Count(frames, g, Pid)
        BY UsesCount DEF InstancesMatch
      <4>2. <<f, d>> \in Slots(frames, g, Pid)
        BY <1>1, <1>2, ConstantAssumption DEF Slots, Live
      <4>3. Count(frames, g, Pid) # 0
        <5>1. IsFiniteSet(Slots(frames, g, Pid)) BY CountNat
        <5> QED BY <4>2, <5>1, FS_EmptySet DEF Count
      <4>4. Count(frames, g, Pid) \in Nat BY CountNat
      <4> QED BY <4>1, <4>3, <4>4
    <3> QED BY <1>1, <1>3, <3>1, <3>2 DEF has_refs
  <2> QED BY <2>1, <2>2
<1>5. ~Spared(queue[i], 1) BY <1>1, <1>3 DEF Spared
<1>6. i \in Doomed(g, 1) BY <1>4, <1>5 DEF Doomed, HeadTest, TailTest
<1> QED BY <1>1, <1>3, <1>6 DEF FramesAt

\* The code of a program is made or freed by calls that first kill the program's
\* processes.
Recoded(g) ==
  /\ compiled' = [compiled EXCEPT ![g] = compiled'[g]]
  /\ \A f \in FramesAt(Doomed(g, 1)) : f \notin Live'

LEMMA CompiledSteps ==
  ASSUME PInv, [Next]_vars
  PROVE  UNCHANGED compiled \/ \E g \in Programs : Recoded(g)
<1>1. TypeRest BY DEF PInv
<1>2. \A K, fs, inst : Unlink(K, fs, inst) =>
        \A f \in FramesAt(K) : f \notin Live'
  BY DEF Unlink, Clean, Live
<1>3. \A g, fs, inst : dequeue_prog(g, 1, fs, inst) =>
        \A f \in FramesAt(Doomed(g, 1)) : f \notin Live'
  BY <1>2 DEF dequeue_prog
<1>4. ASSUME NEW g \in Programs, NEW b \in BOOLEAN, NEW fs, NEW inst,
             dequeue_prog(g, 1, fs, inst),
             compiled' = [compiled EXCEPT ![g] = b]
      PROVE  Recoded(g)
  <2>1. compiled'[g] = b BY <1>1, <1>4 DEF TypeRest
  <2> QED BY <1>3, <1>4, <2>1 DEF Recoded
<1>5. CASE MainLoop
  <2>1. ASSUME NEW g \in Programs, Uncompile(g) \/ Recompile(g)
        PROVE  Recoded(g)
    <3>1. PICK b \in BOOLEAN : compiled' = [compiled EXCEPT ![g] = b]
      BY <2>1 DEF Uncompile, Recompile
    <3> QED BY <1>4, <2>1, <3>1 DEF Uncompile, Recompile
  <2> QED BY <1>5, <2>1 DEF MainLoop, Command, Propqueue, Listen, Connect,
             Disconnect, BreakLine, Message, KillObject, KillPid, KillAll,
             ReadLine
<1>6. CASE Events
  BY <1>6 DEF Events, BeginPass, RunEvent, EndEvent, EndPass, EndRead
<1>7. CASE Interpreter
  <2>1. ASSUME EnterLoop
        PROVE  UNCHANGED compiled \/ \E g \in Programs : Recoded(g)
    <3> DEFINE g == ProgramOf(cur)
    <3>1. g \in Programs
      BY <2>1, CurFrame DEF EnterLoop, PInv, Control
    <3>2. CASE ~compiled[g]
      <4>1. PICK b \in BOOLEAN : compiled' = [compiled EXCEPT ![g] = b]
        BY <2>1, <3>2 DEF EnterLoop
      <4>2. dequeue_prog(g, 1, frames, instances)
        BY <2>1, <3>2 DEF EnterLoop
      <4> QED BY <1>4, <3>1, <4>1, <4>2
    <3> QED BY <2>1, <3>2 DEF EnterLoop
  <2>2. ASSUME NEW g \in Programs, Call(g)
        PROVE  UNCHANGED compiled \/ Recoded(g)
    <3> DEFINE fs == [frames EXCEPT ![cur].caller = Append(@, g)]
               inst == [instances EXCEPT ![g] = @ + 1]
    <3>1. \/ UNCHANGED compiled
          \/ /\ dequeue_prog(g, 1, fs, inst)
             /\ compiled' = [compiled EXCEPT ![g] = TRUE]
      BY <2>2 DEF Call
    <3> HIDE DEF fs, inst
    <3> QED BY <1>4, <3>1
  <2> QED BY <1>7, <2>1, <2>2 DEF Interpreter, Finish, Slice, Read, Return,
             Fork, Sleep, MpiDelay, Queue, SetMode, Kill, MpiKillAll, EndMpi
<1> QED BY <1>5, <1>6, <1>7 DEF Next, Tick, vars

\* The running program, as long as it runs, has the code of all it called.
LEMMA RunningReady ==
  ASSUME PInv, Fresh, NoDanglingCode, [Next]_vars, cur # 0, cur \in Live'
  PROVE  \/ cur' = cur /\ pc' \in {"start", "abort"}
         \/ \A d \in DOMAIN frames'[cur].caller :
              compiled'[frames'[cur].caller[d]]
<1> DEFINE Goal == \/ cur' = cur /\ pc' \in {"start", "abort"}
                   \/ \A d \in DOMAIN frames'[cur].caller :
                        compiled'[frames'[cur].caller[d]]
<1>1. /\ TypeRest /\ Control /\ pc \in {"start", "run", "abort"}
      /\ frames \in Frames
  BY DEF PInv, Control, FInv, Frames
<1>2. /\ cur \in Live /\ cur \in Pid /\ Me \in Frame /\ Me = frames[cur]
      /\ Me.caller \in Seq(Programs) /\ Len(Me.caller) \in Nat \ {0}
      /\ ProgramOf(cur) \in Programs
  BY CurFrame DEF Me
<1>3. pc = "run" => \A d \in DOMAIN Me.caller : compiled[Me.caller[d]]
  BY <1>2 DEF NoDanglingCode
<1>4. /\ pc = "run" /\ UNCHANGED compiled
      /\ frames'[cur] # NoFrame => frames'[cur].caller = frames[cur].caller
      => Goal
  BY <1>2, <1>3 DEF Live
<1>5. /\ frames'[cur] # NoFrame
  BY DEF Live
<1>6. \A K : Unlink(K, frames, instances) /\ frames'[cur] # NoFrame
               => frames'[cur].caller = frames[cur].caller
  BY <1>2 DEF Unlink, Clean
<1>7. UNCHANGED <<compiled, frames, cur, pc>> => Goal
  BY <1>1, <1>2, <1>3
<1>8. CASE MainLoop
  BY <1>1, <1>8 DEF MainLoop, Command, Propqueue, Listen, Connect, Disconnect,
     BreakLine, Message, KillObject, KillPid, KillAll, Uncompile, Recompile,
     ReadLine, Idle
<1>9. CASE Events
  BY <1>1, <1>9 DEF Events, BeginPass, RunEvent, EndEvent, EndPass, EndRead, Idle
<1>10. CASE Interpreter
  <2>1. ASSUME EnterLoop PROVE Goal
    <3> DEFINE g == ProgramOf(cur)
    <3>1. Len(Me.caller) = 1 BY <1>2, <2>1 DEF Fresh, EnterLoop
    <3>2. \A d \in DOMAIN Me.caller : Me.caller[d] = g
      BY <1>2, <3>1 DEF ProgramOf
    <3>3. CASE compiled[g]
      <4>1. UNCHANGED <<frames, compiled>> BY <2>1, <3>3 DEF EnterLoop
      <4> QED BY <1>2, <3>2, <3>3, <4>1
    <3>4. CASE ~compiled[g]
      <4>1. PICK ok \in BOOLEAN :
              /\ compiled' = [compiled EXCEPT ![g] = ok]
              /\ pc' = IF ok THEN "run" ELSE "abort"
        BY <2>1, <3>4 DEF EnterLoop
      <4>2. cur' = cur /\ frames'[cur].caller = Me.caller
        BY <1>2, <1>5, <1>6, <2>1, <3>4 DEF EnterLoop, dequeue_prog
      <4>3. CASE ok
        <5>1. compiled'[g] BY <1>1, <1>2, <4>1, <4>3 DEF TypeRest
        <5> QED BY <3>2, <4>2, <5>1
      <4>4. CASE ~ok BY <4>1, <4>2, <4>4
      <4> QED BY <4>3, <4>4
    <3> QED BY <3>3, <3>4
  <2>2. ASSUME Finish PROVE FALSE
    BY <1>2, <1>5, <2>2 DEF Finish, Clean
  <2>3. ASSUME Slice \/ Read \/ \E d \in Delays : Sleep(d) PROVE Goal
    <3>1. pc = "run" /\ UNCHANGED compiled
      BY <2>3 DEF Slice, Read, Sleep, Executing
    <3>2. frames'[cur] = frames[cur]
      BY <1>2, <1>5, <2>3 DEF Slice, Read, Sleep, Clean
    <3> QED BY <1>4, <3>1, <3>2
  <2>4. ASSUME Return PROVE Goal
    <3> DEFINE t == SubSeq(Me.caller, 1, Len(Me.caller) - 1)
    <3>1. /\ pc = "run" /\ UNCHANGED compiled
          /\ frames' = [frames EXCEPT ![cur].caller =
                          SubSeq(@, 1, Len(@) - 1)]
      BY <2>4 DEF Return, Executing
    <3>2. frames'[cur].caller = t
      BY <1>1, <1>2, <3>1 DEF Frames, Frame
    <3>3. /\ DOMAIN t = 1..(Len(Me.caller) - 1)
          /\ \A d \in DOMAIN t : t[d] = Me.caller[d] /\ d \in DOMAIN Me.caller
      BY <1>2, SubSeqProperties
    <3> HIDE DEF t
    <3> QED BY <1>3, <3>1, <3>2, <3>3
  <2>5. ASSUME Fork PROVE Goal
    <3>1. pc = "run" /\ UNCHANGED compiled BY <2>5 DEF Fork, Executing
    <3>2. frames'[cur] = frames[cur]
      <4>1. QInv /\ FInv BY DEF PInv
      <4>2. cur # top_pid
        BY <1>1, <1>2, <4>1, NumbersNat DEF TypeRest
      <4> QED BY <1>1, <1>2, <2>5, <4>2 DEF Fork, Frames
    <3> QED BY <1>4, <3>1, <3>2
  <2>6. ASSUME NEW d \in Delays, MpiDelay(d) \/ \E g \in Programs : Queue(d, g)
        PROVE  Goal
    <3>1. UNCHANGED <<compiled, frames, cur, pc>>
      BY <2>6 DEF MpiDelay, Queue
    <3> QED BY <1>7, <3>1
  <2>7. ASSUME NEW g \in Programs, Call(g) PROVE Goal
    <3> DEFINE fs == [frames EXCEPT ![cur].caller = Append(@, g)]
               inst == [instances EXCEPT ![g] = @ + 1]
               c == Append(Me.caller, g)
    <3>1. fs[cur].caller = c BY <1>1, <1>2 DEF Frames, Frame
    <3>2. /\ DOMAIN c = 1..(Len(Me.caller) + 1) /\ c[Len(Me.caller) + 1] = g
          /\ \A d \in 1..Len(Me.caller) : c[d] = Me.caller[d]
          /\ DOMAIN Me.caller = 1..Len(Me.caller)
      BY <1>2
    <3>3. pc = "run" /\ cur' = cur BY <2>7 DEF Call, Executing
    <3>4. CASE compiled[g] /\ frames' = fs /\ UNCHANGED compiled
      <4>1. \A d \in DOMAIN c : compiled[c[d]]
        <5> SUFFICES ASSUME NEW d \in DOMAIN c PROVE compiled[c[d]]
          OBVIOUS
        <5>1. CASE d = Len(Me.caller) + 1 BY <3>2, <3>4, <5>1
        <5>2. CASE d # Len(Me.caller) + 1
          <6>1. d \in 1..Len(Me.caller) BY <1>2, <3>2, <5>2
          <6> QED BY <1>3, <3>2, <3>3, <6>1
        <5> QED BY <5>1, <5>2
      <4> HIDE DEF c
      <4> QED BY <3>1, <3>4, <4>1
    <3>5. CASE Unlink(Doomed(g, 1), fs, inst)
               /\ compiled' = [compiled EXCEPT ![g] = TRUE]
      <4>1. frames'[cur].caller = c
        BY <1>2, <1>5, <3>1, <3>5 DEF Unlink, Clean
      <4>2. \A h \in Programs : compiled[h] => compiled'[h]
        BY <1>1, <3>5 DEF TypeRest
      <4>3. compiled'[g] BY <1>1, <3>5 DEF TypeRest
      <4>4. \A d \in DOMAIN c : compiled'[c[d]]
        <5> SUFFICES ASSUME NEW d \in DOMAIN c PROVE compiled'[c[d]]
          OBVIOUS
        <5>1. CASE d = Len(Me.caller) + 1 BY <3>2, <4>3, <5>1
        <5>2. CASE d # Len(Me.caller) + 1
          <6>1. d \in 1..Len(Me.caller) BY <1>2, <3>2, <5>2
          <6>2. Me.caller[d] \in Programs BY <1>2, <6>1
          <6> QED BY <1>3, <3>2, <3>3, <4>2, <6>1, <6>2
        <5> QED BY <5>1, <5>2
      <4> HIDE DEF c
      <4> QED BY <4>1, <4>4
    <3>6. CASE pc' = "abort" BY <3>3, <3>6
    <3>7. \/ compiled[g] /\ frames' = fs /\ UNCHANGED compiled
          \/ /\ Unlink(Doomed(g, 1), fs, inst)
             /\ compiled' = [compiled EXCEPT ![g] = TRUE]
          \/ pc' = "abort"
      BY <2>7 DEF Call, dequeue_prog
    <3> QED BY <3>4, <3>5, <3>6, <3>7
  <2>8. ASSUME NEW m \in Mode, SetMode(m) PROVE Goal
    <3>1. pc = "run" /\ UNCHANGED compiled BY <2>8 DEF SetMode, Executing
    <3>2. frames'[cur].caller = frames[cur].caller
      BY <1>1, <1>2, <2>8 DEF SetMode, Frames, Frame
    <3> QED BY <1>4, <3>1, <3>2
  <2>9. ASSUME NEW n \in Pid, Kill(n) PROVE Goal
    <3>1. pc = "run" /\ UNCHANGED compiled
      BY <1>1, <2>9 DEF Kill, Executing
    <3>2. frames'[cur].caller = frames[cur].caller
      BY <1>5, <1>6, <2>9 DEF Kill, dequeue_process
    <3> QED BY <1>4, <3>1, <3>2
  <2>10. ~MpiKillAll /\ ~EndMpi BY <1>1 DEF MpiKillAll, EndMpi
  <2> QED BY <1>10, <2>1, <2>2, <2>3, <2>4, <2>5, <2>6, <2>7, <2>8, <2>9,
             <2>10 DEF Interpreter
<1>11. CASE Tick BY <1>7, <1>11 DEF Tick
<1>12. CASE UNCHANGED vars BY <1>7, <1>12 DEF vars
<1> QED BY <1>8, <1>9, <1>10, <1>11, <1>12 DEF Next

\* No step leaves a frame that will return into code that is gone.
LEMMA CodeStep ==
  ASSUME IInv, IInv', CodeInv, [Next]_vars
  PROVE  CodeInv'
<1>1. PInv /\ PInv' /\ FInv /\ FInv' /\ TypeRest
  <2>1. PInv /\ FInv /\ TypeRest BY Parts DEF PInv
  <2>2. QInv' /\ FInv' /\ Control' /\ TypeRest' BY Parts, PTL
  <2> QED BY <2>1, <2>2 DEF PInv
<1>2. InstancesMatch /\ Depth /\ ProgMatches /\ Fresh /\ NoDanglingCode
  BY DEF CodeInv
<1>3. InstancesMatch' /\ Depth' BY <1>2, MatchStep
<1>4. Fresh' BY <1>1, <1>2, FreshStep
<1>5. ProgMatches' BY <1>1, <1>2, FiledStep
<1>6. ASSUME NEW f \in Live'
      PROVE  \/ f = cur' /\ pc' \in {"start", "abort"}
             \/ \A d \in DOMAIN frames'[f].caller :
                  compiled'[frames'[f].caller[d]]
  <2>1. CASE f \notin Live
    <3>1. CASE f = cur' /\ pc' = "start" BY <3>1
    <3>2. CASE /\ pc = "run" /\ UNCHANGED compiled /\ cur \in Live
               /\ frames'[f].caller = frames[cur].caller
      BY <1>2, <3>2 DEF NoDanglingCode
    <3> QED BY <1>1, <2>1, <3>1, <3>2, FramesBorn
  <2>2. CASE f \in Live /\ f # cur
    <3>1. frames'[f].caller = frames[f].caller BY <1>1, <2>2, StacksKept
    <3>2. f \in Held BY <1>1, <2>2 DEF FInv
    <3>3. \A d \in DOMAIN frames[f].caller : compiled[frames[f].caller[d]]
      BY <1>2, <2>2 DEF NoDanglingCode
    <3>4. CASE UNCHANGED compiled BY <3>1, <3>3, <3>4
    <3>5. ASSUME NEW g \in Programs, Recoded(g)
          PROVE  \A d \in DOMAIN frames[f].caller :
                   compiled'[frames[f].caller[d]]
      <4>1. f \notin FramesAt(Doomed(g, 1)) BY <1>6, <3>5 DEF Recoded
      <4>2. \A d \in DOMAIN frames[f].caller : frames[f].caller[d] # g
        BY <1>1, <1>2, <3>2, <4>1, DequeuedClean
      <4>3. \A h \in Programs : h # g => compiled'[h] = compiled[h]
        BY <1>1, <3>5 DEF Recoded, TypeRest
      <4>4. frames[f].caller \in Seq(Programs)
        BY <1>1, <2>2, FramesTyped DEF Frame
      <4> QED BY <3>3, <4>2, <4>3, <4>4
    <3> QED BY <1>1, <3>1, <3>4, <3>5, CompiledSteps
  <2>3. CASE f = cur
    <3>1. cur # 0 BY <1>1, <2>3, <1>6 DEF Live, Pid
    <3> QED BY <1>1, <1>2, <1>6, <2>3, <3>1, RunningReady
  <2> QED BY <2>1, <2>2, <2>3
<1>7. NoDanglingCode' BY <1>6 DEF NoDanglingCode
<1> QED BY <1>3, <1>4, <1>5, <1>7 DEF CodeInv

\* However programs are recompiled, unloaded, called, forked and killed, no
\* frame in use will return into a program whose code has been freed.
THEOREM CodeKept == Spec => []NoDanglingCode
<1>1. Init => CodeInv
  <2> SUFFICES ASSUME Init PROVE CodeInv
    OBVIOUS
  <2>1. frames = [f \in Pid |-> NoFrame] /\ Live = {} BY DEF Init, Live
  <2>2. \A g : Slots(frames, g, Pid) = {} BY <2>1 DEF Slots
  <2>3. \A g : Uses(g, Live) = 0 BY <2>2, UsesCount, FS_EmptySet DEF Count
  <2>4. InstancesMatch /\ Depth BY <2>1, <2>3 DEF Init, InstancesMatch, Depth
  <2>5. ProgMatches BY DEF Init, ProgMatches
  <2> QED BY <2>1, <2>4, <2>5 DEF Init, CodeInv, Fresh, NoDanglingCode
<1>2. IInv /\ IInv' /\ CodeInv /\ [Next]_vars => CodeInv'
  BY CodeStep
<1>3. CodeInv => NoDanglingCode BY DEF CodeInv
<1> QED BY <1>1, <1>2, <1>3, Invariance, PTL DEF Spec

=============================================================================
