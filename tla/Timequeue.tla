------------------------------ MODULE Timequeue ------------------------------
(***************************************************************************)
(* The server's process table: src/src/timequeue.c, and the part of the    *)
(* MUF interpreter (interp.c) that creates, suspends, resumes and frees    *)
(* the programs waiting in it.                                             *)
(*                                                                         *)
(* The server is one thread, so an action is either one call made by the   *)
(* main loop (a command line, a read line, one event of a pass over the    *)
(* queue) or one primitive executed by the program that is running.  `pc'  *)
(* says which C function has control:                                      *)
(*   "idle"  the main loop, between two calls                              *)
(*   "pass"  the run loop of next_timequeue_event, between two events      *)
(*   "start" interp_loop has been entered for a new frame                  *)
(*   "run"   interp_loop executes the frame `cur'                          *)
(*   "abort" interp_loop, after a compilation that failed                  *)
(*   "mpi"   do_parse_mesg evaluates MPI                                   *)
(*   "ret"   interp_loop or do_parse_mesg has returned to its caller `by'  *)
(* A queue node is identified by its eventnum, which the code never gives  *)
(* out twice; 0 stands for a NULL node pointer and for a NULL frame.       *)
(***************************************************************************)
EXTENDS Integers, Sequences, FiniteSets

CONSTANTS
  Players, Programs,  \* the player and the program objects
  NOTHING,            \* the program field of an MPI event
  Mages,              \* the players Mage() is true of
  MaxProcess,         \* tp_max_process_limit
  MaxPlyr,            \* tp_max_plyr_processes
  MaxRuns,            \* the 30 events one call of next_timequeue_event runs
  Delays,             \* the delays programs ask for
  MaxCall,            \* bound: depth of a frame's stack of callers
  MaxPid,             \* bound: process numbers given out
  MaxNow              \* bound: the clock

ASSUME ConstantAssumption ==
  /\ Mages \subseteq Players
  /\ Programs # {} /\ NOTHING \notin Programs
  /\ Players \cap Programs = {} /\ NOTHING \notin Players
  /\ MaxProcess \in Nat /\ MaxPlyr \in Nat
  /\ MaxRuns \in Nat \ {0}
  /\ Delays \subseteq Nat
  /\ MaxCall \in Nat \ {0} /\ MaxPid \in Nat \ {0} /\ MaxNow \in Nat \ {0}

VARIABLES
  queue,          \* tqhead: the nodes in list order
  process_count,  \* the count the table's limit is checked against
  top_pid,        \* the next process number
  frames,         \* the execution frame of each process, NoFrame when freed
  instances,      \* sp.program.instances
  compiled,       \* sp.program.code is not NULL
  block,          \* sp.player.block: the player's input is held back
  interactive,    \* the INTERACTIVE|READMODE flags of the player
  now,            \* time(NULL)
  pc, by, cur,    \* control, interp_loop's caller, the running frame
  writeonly,      \* interp_loop's copy of the flag, made on entry
  pass,           \* the locals of next_timequeue_event
  rd              \* the locals of handle_read_event

vars == <<queue, process_count, top_pid, frames, instances, compiled, block,
          interactive, now, pc, by, cur, writeonly, pass, rd>>
table == <<queue, process_count, top_pid>>
player == <<block, interactive>>
locals == <<pass, rd>>

Pid == 1..MaxPid
Mode == {"FOREGROUND", "BACKGROUND", "PREEMPT"}
NoFrame == [mode |-> "FREE"]
Frame == [mode : Mode, uid : Players, been : BOOLEAN, writeonly : BOOLEAN,
          caller : Seq(Programs)]
Kind == {"QUEUE", "DELAY", "READ", "MPI"}
Event == [kind : Kind, when : Int, uid : Players,
          prog : Programs \cup {NOTHING}, fr : Pid \cup {0}, eventnum : Pid]

NewEvent(kind, dtime, uid, prog, fr, num) ==
  [kind |-> kind, when |-> now + dtime, uid |-> uid, prog |-> prog,
   fr |-> fr, eventnum |-> num]

Queued == {queue[i].eventnum : i \in DOMAIN queue}
Held == {queue[i].fr : i \in DOMAIN queue} \ {0}
Live == {f \in Pid : frames[f] # NoFrame}
IsRead(e) == e.kind = "READ"

\* The program a frame executes: the top of its stack of callers.
ProgramOf(f) == frames[f].caller[Len(frames[f].caller)]

\* How many entries of program g the call stacks of the frames F hold.
Uses(g, F) ==
  Cardinality({fd \in (F \cap Live) \X (1..MaxCall) :
                 /\ fd[2] <= Len(frames[fd[1]].caller)
                 /\ frames[fd[1]].caller[fd[2]] = g})

NoPass == [last |-> 0, runs |-> 0, uid |-> NOTHING,
           keep |-> FALSE, bl |-> FALSE]
NoRd == [uid |-> NOTHING, ptr |-> 0]

Init ==
  /\ queue = <<>> /\ process_count = 0 /\ top_pid = 1
  /\ frames = [f \in Pid |-> NoFrame]
  /\ instances = [g \in Programs |-> 0]
  /\ compiled = [g \in Programs |-> FALSE]
  /\ block = [p \in Players |-> FALSE]
  /\ interactive = [p \in Players |-> FALSE]
  /\ now = 1
  /\ pc = "idle" /\ by = "cmd" /\ cur = 0 /\ writeonly = FALSE
  /\ pass = NoPass /\ rd = NoRd

-----------------------------------------------------------------------------
(* Adding an event. *)

\* Mutant of Full: the player's own limit is forgotten.
FullTable(p) == process_count > MaxProcess

\* The refusal test of add_event (never applied to a READ).
Full(p) ==
  \/ process_count > MaxProcess
  \/ /\ Cardinality({i \in DOMAIN queue : queue[i].uid = p}) > MaxPlyr
     /\ p \notin Mages

\* Mutant of Before: a READ is passed over like any event that is due.
BeforeByTime(e, t) == e.when <= t

\* The nodes a new event of time t is put behind.
Before(e, t) == ~IsRead(e) /\ e.when <= t

\* The number of nodes ahead of e once it is linked: a READ goes last, any
\* other event behind the leading nodes that are not READs and not later.
Place(e, k) ==
  IF IsRead(e)
    THEN k = Len(queue)
    ELSE /\ \A i \in 1..k : Before(queue[i], e.when)
         /\ k < Len(queue) => ~Before(queue[k + 1], e.when)

Linked(e, k) ==
  [i \in 1..(Len(queue) + 1) |->
     IF i <= k THEN queue[i] ELSE IF i = k + 1 THEN e ELSE queue[i - 1]]

\* alloc_timenode may hand out the memory of a node freed earlier; a pointer
\* kept to that node then points to the new one.
Reused(ptr, e) == {ptr} \cup (IF ptr # 0 /\ ptr \notin Queued
                                THEN {e.eventnum} ELSE {})

Insert(e) ==
  /\ \E k \in 0..Len(queue) : Place(e, k) /\ queue' = Linked(e, k)
  /\ process_count' = process_count + 1
  /\ \E l \in Reused(pass.last, e) : pass' = [pass EXCEPT !.last = l]
  /\ \E q \in Reused(rd.ptr, e) : rd' = [rd EXCEPT !.ptr = q]

-----------------------------------------------------------------------------
(* Freeing frames and unlinking nodes. *)

\* prog_clean of the frames F, on top of the frames fs the caller leaves.
Clean(F, fs, inst) ==
  /\ frames' = [f \in Pid |-> IF f \in F THEN NoFrame ELSE fs[f]]
  /\ instances' = [g \in Programs |-> inst[g] - Uses(g, F)]

FramesAt(K) == {queue[i].fr : i \in K} \ {0}

\* The ways to number a set of positions in increasing order: one.
Increasing(S) ==
  {f \in [1..Cardinality(S) -> S] :
     /\ \A i, j \in 1..Cardinality(S) : i < j => f[i] < f[j]
     /\ \A s \in S : \E i \in 1..Cardinality(S) : f[i] = s}

\* Unlink the nodes at the positions K, in list order, with free_timenode on
\* each, then set the flags of everybody who still has a READ.
Unlink(K, fs, inst) ==
  /\ \E f \in Increasing(DOMAIN queue \ K) :
       queue' = [i \in DOMAIN f |-> queue[f[i]]]
  /\ interactive' = [p \in Players |->
       \/ \E i \in DOMAIN queue \ K : queue[i].uid = p /\ IsRead(queue[i])
       \/ /\ interactive[p]
          /\ ~\E i \in K : queue[i].uid = p /\ IsRead(queue[i])]
  /\ Clean(FramesAt(K), fs, inst)

\* free_timenode lets the input of a foreground frame's player through.
Unblocked(K) ==
  [p \in Players |->
     block[p] /\ ~\E i \in K : /\ queue[i].uid = p /\ queue[i].fr # 0
                               /\ frames[queue[i].fr].mode # "BACKGROUND"]

\* Mutant of has_refs: the walk over the callers ends one too early.
HasRefsShort(o, e) ==
  /\ o \in Programs /\ e.fr # 0 /\ instances[o] > 0
  /\ \E d \in 1..(Len(frames[e.fr].caller) - 2) : frames[e.fr].caller[d] = o

\* Program o is on the stack of callers of e's frame, below its top.
has_refs(o, e) ==
  /\ o \in Programs /\ e.fr # 0 /\ instances[o] > 0
  /\ \E d \in 1..(Len(frames[e.fr].caller) - 1) : frames[e.fr].caller[d] = o

\* sleeponly: 0 all processes, 1 sleeping ones, 2 foreground ones.
Spared(e, sleeponly) ==
  IF e.fr = 0 THEN sleeponly # 0
  ELSE sleeponly = 2 /\ frames[e.fr].mode = "BACKGROUND"

HeadTest(o, so, e) ==
  (e.prog = o \/ has_refs(o, e) \/ e.uid = o) /\ ~Spared(e, so)
TailTest(o, so, e) ==
  e.prog = o \/ has_refs(o, e) \/ (e.uid = o /\ ~Spared(e, so))

\* dequeue_prog tests the nodes at the head of the list, up to the first it
\* keeps, with one condition and all later nodes with another.
Doomed(o, so) ==
  {i \in DOMAIN queue :
     IF \A j \in 1..(i - 1) : HeadTest(o, so, queue[j])
       THEN HeadTest(o, so, queue[i])
       ELSE TailTest(o, so, queue[i])}

dequeue_prog(o, so, fs, inst) ==
  /\ Unlink(Doomed(o, so), fs, inst)
  /\ process_count' = process_count - Cardinality(Doomed(o, so))

\* The position of process n: at most one (0 names no process).
Named(n) == {i \in DOMAIN queue : queue[i].eventnum = n}

dequeue_process(n) ==
  /\ Unlink(Named(n), frames, instances)
  /\ block' = Unblocked(Named(n))

-----------------------------------------------------------------------------
(* The main loop: commands. *)

Idle == pc = "idle"
NewFrame(p, g, m, wo) ==
  [mode |-> m, uid |-> p, been |-> m = "BACKGROUND", writeonly |-> wo,
   caller |-> <<g>>]

\* Mutant of interp: the process number is used but not used up.
InterpSamePid(p, g, m, wo, caller) ==
  /\ top_pid <= MaxPid
  /\ frames' = [frames EXCEPT ![top_pid] = NewFrame(p, g, m, wo)]
  /\ instances' = [instances EXCEPT ![g] = @ + 1]
  /\ top_pid' = top_pid
  /\ cur' = top_pid /\ writeonly' = wo /\ by' = caller /\ pc' = "start"

\* interp: a frame for program g, entered at once.
interp(p, g, m, wo, caller) ==
  /\ top_pid <= MaxPid
  /\ frames' = [frames EXCEPT ![top_pid] = NewFrame(p, g, m, wo)]
  /\ instances' = [instances EXCEPT ![g] = @ + 1]
  /\ top_pid' = top_pid + 1
  /\ cur' = top_pid /\ writeonly' = wo /\ by' = caller /\ pc' = "start"

\* A command line whose action, message or lock is a program.
Command(p, g, m, wo) ==
  /\ Idle /\ ~block[p] /\ ~interactive[p] /\ m # "BACKGROUND"
  /\ interp(p, g, m, wo, "cmd")
  /\ UNCHANGED <<queue, process_count, compiled, now, player, locals>>

\* propqueue, from a connect, a disconnect or an arrival: the program named
\* by the property runs at once, in the background.
Propqueue(p, g) ==
  /\ Idle
  /\ \E wo \in BOOLEAN : interp(p, g, "BACKGROUND", wo \/ interactive[p], "cmd")
  /\ UNCHANGED <<queue, process_count, compiled, now, player, locals>>

\* A message, a lock or a property that is MPI is evaluated at once.
Message(p) ==
  /\ Idle
  /\ pc' = "mpi" /\ pass' = [NoPass EXCEPT !.uid = p]
  /\ UNCHANGED <<table, frames, instances, compiled, player, now, by, cur,
                 writeonly, rd>>

\* listenqueue: the listener's program, or its MPI (kind "MPI", a second
\* later), is queued.
Listen(p, g) ==
  /\ Idle /\ top_pid <= MaxPid
  /\ \/ Full(p) /\ UNCHANGED <<table, locals>>
     \/ /\ ~Full(p) /\ top_pid' = top_pid + 1
        /\ \/ Insert(NewEvent("QUEUE", 0, p, g, 0, top_pid))
           \/ Insert(NewEvent("MPI", 1, p, NOTHING, 0, top_pid))
  /\ UNCHANGED <<frames, instances, compiled, player, now, pc, by, cur,
                 writeonly>>

\* check_connect, successful.
Connect(p) ==
  /\ Idle
  /\ block' = [block EXCEPT ![p] = FALSE]
  /\ UNCHANGED <<table, frames, instances, compiled, interactive, now, pc, by,
                 cur, writeonly, locals>>

\* announce_disconnect: the player's foreground processes are killed.
Disconnect(p) ==
  /\ Idle
  /\ dequeue_prog(p, 2, frames, instances)
  /\ block' = Unblocked(Doomed(p, 2))
  /\ UNCHANGED <<top_pid, compiled, now, pc, by, cur, writeonly, locals>>

\* save_command with the line "@Q": as above, and the input is let through.
BreakLine(p) ==
  /\ Idle
  /\ dequeue_prog(p, 2, frames, instances)
  /\ block' = [Unblocked(Doomed(p, 2)) EXCEPT ![p] = FALSE]
  /\ UNCHANGED <<top_pid, compiled, now, pc, by, cur, writeonly, locals>>

\* do_dequeue with an object's name.
KillObject(o) ==
  /\ Idle
  /\ dequeue_prog(o, 0, frames, instances)
  /\ block' = Unblocked(Doomed(o, 0))
  /\ UNCHANGED <<top_pid, compiled, now, pc, by, cur, writeonly, locals>>

\* do_dequeue with a process number counts the process down a second time.
KillPid(n) ==
  /\ Idle
  /\ IF n \in Queued
       THEN dequeue_process(n) /\ process_count' = process_count - 2
       ELSE UNCHANGED <<queue, process_count, frames, instances, player>>
  /\ UNCHANGED <<top_pid, compiled, now, pc, by, cur, writeonly, locals>>

\* do_dequeue with "all".
KillAll ==
  /\ Idle
  /\ Unlink(DOMAIN queue, frames, instances)
  /\ block' = Unblocked(DOMAIN queue)
  /\ process_count' = process_count - Len(queue)
  /\ UNCHANGED <<top_pid, compiled, now, pc, by, cur, writeonly, locals>>

\* uncompile_program, from @uncompile or from the cleaning of unused programs.
Uncompile(g) ==
  /\ Idle
  /\ dequeue_prog(g, 1, frames, instances)
  /\ block' = Unblocked(Doomed(g, 1))
  /\ compiled' = [compiled EXCEPT ![g] = FALSE]
  /\ UNCHANGED <<top_pid, now, pc, by, cur, writeonly, locals>>

\* do_compile, from the editor.
Recompile(g) ==
  /\ Idle
  /\ dequeue_prog(g, 1, frames, instances)
  /\ block' = Unblocked(Doomed(g, 1))
  /\ \E ok \in BOOLEAN : compiled' = [compiled EXCEPT ![g] = ok]
  /\ UNCHANGED <<top_pid, now, pc, by, cur, writeonly, locals>>

\* handle_read_event: a line for a player in READMODE.  The line goes to the
\* first READ of the player; "@Q" (which only a forced command still carries)
\* and a full argument stack free the frame and return at once.
ReadsOf(p) == {i \in DOMAIN queue : IsRead(queue[i]) /\ queue[i].uid = p}
\* Mutant of Resumed: the node is freed with its frame still in it.
ResumedFreed(p, i) ==
  /\ cur' = queue[i].fr /\ writeonly' = frames[queue[i].fr].writeonly
  /\ by' = "read" /\ pc' = "run"
  /\ rd' = [uid |-> p, ptr |-> 0]
  /\ Clean({queue[i].fr}, frames, instances)
Resumed(p, i) ==
  /\ cur' = queue[i].fr /\ writeonly' = frames[queue[i].fr].writeonly
  /\ by' = "read" /\ pc' = "run"
  /\ rd' = [uid |-> p, ptr |-> IF i = Len(queue) THEN 0
                               ELSE queue[i + 1].eventnum]
  /\ UNCHANGED <<frames, instances>>

ReadLine(p, line) ==
  /\ Idle /\ interactive[p] /\ (~block[p] \/ line = "@Q")
  /\ interactive' = [interactive EXCEPT ![p] = FALSE]
  /\ IF ReadsOf(p) = {}
       THEN UNCHANGED <<queue, process_count, frames, instances, pc, by, cur,
                        writeonly, rd>>
       ELSE \E i \in ReadsOf(p) :
              /\ \A j \in ReadsOf(p) : i <= j
              /\ queue' = [j \in 1..(Len(queue) - 1) |->
                             IF j < i THEN queue[j] ELSE queue[j + 1]]
              /\ process_count' = process_count - 1
              /\ \/ line = "text" /\ Resumed(p, i)
                 \/ /\ line \in {"@Q", "full"}
                    /\ Clean({queue[i].fr}, frames, instances)
                    /\ UNCHANGED <<pc, by, cur, writeonly, rd>>
  /\ UNCHANGED <<top_pid, compiled, block, now, pass>>

\* The end of handle_read_event: from the node that stood behind the READ on,
\* look for more READs of the player.  The program may have had that node
\* freed; what the loop then reads is whatever the memory holds by now.
EndRead ==
  /\ pc = "ret" /\ by = "read"
  /\ \E again \in BOOLEAN :
       /\ (rd.ptr = 0) => ~again
       /\ (rd.ptr \in Queued) =>
            (again <=> \E i, j \in DOMAIN queue :
                          /\ queue[i].eventnum = rd.ptr /\ i <= j
                          /\ j \in ReadsOf(rd.uid))
       /\ interactive' = [interactive EXCEPT ![rd.uid] = @ \/ again]
  /\ pc' = "idle" /\ by' = "cmd" /\ rd' = NoRd
  /\ UNCHANGED <<table, frames, instances, compiled, block, now, cur,
                 writeonly, pass>>

-----------------------------------------------------------------------------
(* next_timequeue_event. *)

\* lastevent is left at the first node that is not due, or that is one too
\* many for a pass.
BeginPass ==
  /\ Idle
  /\ \E n \in 1..Len(queue) :
       /\ n <= MaxRuns
       /\ \A i \in 1..n : queue[i].when <= now
       /\ (n < Len(queue) /\ n < MaxRuns) => queue[n + 1].when > now
       /\ pass' = [NoPass EXCEPT !.runs = n, !.last =
                     IF n = Len(queue) THEN 0 ELSE queue[n + 1].eventnum]
  /\ pc' = "pass"
  /\ UNCHANGED <<table, frames, instances, compiled, player, now, by, cur,
                 writeonly, rd>>

\* Mutant of PassDone: one event more than maxruns.
PassDoneLate ==
  queue # <<>> => \/ pass.runs < 0
                  \/ pass.last = queue[1].eventnum
                  \/ IsRead(queue[1])

PassDone ==
  queue # <<>> => \/ pass.runs = 0
                  \/ pass.last = queue[1].eventnum
                  \/ IsRead(queue[1])

\* One event is unlinked and handed to its interpreter.
RunMpi ==
  /\ pc' = "mpi" /\ by' = "event"
  /\ UNCHANGED <<cur, writeonly, frames, instances, top_pid>>
RunFrame(e) ==
  /\ pc' = "run" /\ by' = "event"
  /\ cur' = e.fr /\ writeonly' = frames[e.fr].writeonly
  /\ UNCHANGED <<frames, instances, top_pid>>
RunProgram(e) ==
  \/ \E wo \in BOOLEAN :
       interp(e.uid, e.prog, "BACKGROUND", wo \/ interactive[e.uid], "event")
  \/ \* interp refuses: no permission
     /\ pc' = "ret" /\ by' = "event"
     /\ UNCHANGED <<frames, instances, top_pid, cur, writeonly>>

\* Mutant of RunsLeft: maxruns is not counted down.
RunsKept == pass.runs

\* maxruns after an event has been taken.
RunsLeft == pass.runs - 1

RunEvent ==
  /\ pc = "pass" /\ ~PassDone
  /\ queue' = Tail(queue)
  /\ LET e == Head(queue) IN
       /\ pass' = [pass EXCEPT !.runs = RunsLeft, !.uid = e.uid,
                     !.bl = block[e.uid],
                     !.keep = /\ e.kind = "DELAY"
                              /\ frames[e.fr].mode = "BACKGROUND"]
       /\ \/ e.kind = "MPI" /\ RunMpi
          \/ e.kind = "DELAY" /\ RunFrame(e)
          \/ e.kind = "QUEUE" /\ RunProgram(e)
  /\ UNCHANGED <<process_count, compiled, player, now, rd>>

\* Mutant of EndEvent: the event is not counted down.
EndEventUncounted ==
  /\ pc = "ret" /\ by = "event"
  /\ block' = IF pass.keep THEN [block EXCEPT ![pass.uid] = pass.bl] ELSE block
  /\ pc' = "pass" /\ by' = "cmd"
  /\ UNCHANGED <<table, frames, instances, compiled, interactive, now, cur,
                 writeonly,
                 locals>>

\* The event has run: a background process leaves block as it found it.
EndEvent ==
  /\ pc = "ret" /\ by = "event"
  /\ block' = IF pass.keep THEN [block EXCEPT ![pass.uid] = pass.bl] ELSE block
  /\ process_count' = process_count - 1
  /\ pc' = "pass" /\ by' = "cmd"
  /\ UNCHANGED <<queue, top_pid, frames, instances, compiled, interactive, now,
                 cur, writeonly, locals>>

EndPass ==
  /\ pc = "pass" /\ PassDone
  /\ pc' = "idle" /\ pass' = NoPass
  /\ UNCHANGED <<table, frames, instances, compiled, player, now, by, cur,
                 writeonly, rd>>

-----------------------------------------------------------------------------
(* interp_loop. *)

Leave == /\ pc' = IF by = "cmd" THEN "idle" ELSE "ret"
         /\ cur' = 0 /\ writeonly' = FALSE /\ by' = by
Executing == pc = "run"
Me == frames[cur]

\* The entry: a program without code is compiled first, which kills the
\* processes of the program.  If that fails the program aborts.
EnterLoop ==
  /\ pc = "start"
  /\ LET g == ProgramOf(cur) IN
       IF compiled[g]
         THEN /\ pc' = "run"
              /\ UNCHANGED <<queue, process_count, frames, instances, compiled,
                             player>>
         ELSE /\ dequeue_prog(g, 1, frames, instances)
              /\ block' = Unblocked(Doomed(g, 1))
              /\ \E ok \in BOOLEAN :
                   /\ compiled' = [compiled EXCEPT ![g] = ok]
                   /\ pc' = IF ok THEN "run" ELSE "abort"
  /\ UNCHANGED <<top_pid, now, by, cur, writeonly, locals>>

\* The program returns, or aborts: the same assignments in another order.
Finish ==
  /\ pc \in {"run", "abort"}
  /\ block' = [block EXCEPT ![Me.uid] = FALSE]
  /\ Clean({cur}, frames, instances)
  /\ Leave
  /\ UNCHANGED <<table, compiled, interactive, now, locals>>

\* The slice is used up.  add_event, when it refuses, frees the frame, and
\* lets the input of a foreground program's player through.
Slice ==
  /\ Executing /\ Me.mode # "PREEMPT"
  /\ IF Full(Me.uid)
       THEN /\ Clean({cur}, frames, instances)
            /\ block' = [block EXCEPT ![Me.uid] =
                           ~Me.been /\ Me.mode = "BACKGROUND"]
            /\ UNCHANGED <<queue, process_count, locals>>
       ELSE /\ Insert(NewEvent("DELAY", 0, Me.uid, ProgramOf(cur), cur, cur))
            /\ block' = [block EXCEPT ![Me.uid] = ~Me.been]
            /\ UNCHANGED <<frames, instances>>
  /\ Leave
  /\ UNCHANGED <<top_pid, compiled, interactive, now>>

\* IN_SLEEP: here block is set last, whether or not add_event took the frame.
Sleep(d) ==
  /\ Executing
  /\ IF Full(Me.uid)
       THEN /\ Clean({cur}, frames, instances)
            /\ UNCHANGED <<queue, process_count, locals>>
       ELSE /\ Insert(NewEvent("DELAY", d, Me.uid, ProgramOf(cur), cur, cur))
            /\ UNCHANGED <<frames, instances>>
  /\ block' = [block EXCEPT ![Me.uid] = ~Me.been]
  /\ Leave
  /\ UNCHANGED <<top_pid, compiled, interactive, now>>

\* IN_READ: the event is stamped one second in the past.
Read ==
  /\ Executing /\ ~writeonly /\ Me.mode # "BACKGROUND"
  /\ Insert(NewEvent("READ", -1, Me.uid, ProgramOf(cur), cur, cur))
  /\ block' = [block EXCEPT ![Me.uid] = FALSE]
  /\ interactive' = [interactive EXCEPT ![Me.uid] = TRUE]
  /\ Leave
  /\ UNCHANGED <<top_pid, frames, instances, compiled, now>>

\* IN_CALL of another program, compiled first if need be, and its IN_RET.
Call(g) ==
  /\ Executing /\ g # ProgramOf(cur) /\ Len(Me.caller) < MaxCall
  /\ LET fs == [frames EXCEPT ![cur].caller = Append(@, g)]
         inst == [instances EXCEPT ![g] = @ + 1]
     IN IF compiled[g]
          THEN /\ frames' = fs /\ instances' = inst
               /\ UNCHANGED <<queue, process_count, compiled, player, pc>>
          ELSE /\ block' = Unblocked(Doomed(g, 1))
               /\ \/ /\ dequeue_prog(g, 1, fs, inst)
                     /\ compiled' = [compiled EXCEPT ![g] = TRUE]
                     /\ pc' = pc
                  \/ /\ dequeue_prog(g, 1, frames, instances)
                     /\ compiled' = compiled
                     /\ pc' = "abort"
  /\ UNCHANGED <<top_pid, now, by, cur, writeonly, locals>>

\* Mutant of Return: the program returned from stays counted.
ReturnUncounted ==
  /\ Executing /\ Len(Me.caller) > 1
  /\ frames' = [frames EXCEPT ![cur].caller = SubSeq(@, 1, Len(@) - 1)]
  /\ UNCHANGED <<table, instances, compiled, player, now, pc, by, cur,
                 writeonly, locals>>

Return ==
  /\ Executing /\ Len(Me.caller) > 1
  /\ instances' = [instances EXCEPT ![ProgramOf(cur)] = @ - 1]
  /\ frames' = [frames EXCEPT ![cur].caller = SubSeq(@, 1, Len(@) - 1)]
  /\ UNCHANGED <<table, compiled, player, now, pc, by, cur, writeonly, locals>>

\* prim_setmode.
SetMode(m) ==
  /\ Executing /\ m # Me.mode
  /\ m = "FOREGROUND" => ~Me.been
  /\ frames' = [frames EXCEPT ![cur] =
       [Me EXCEPT !.mode = m, !.been = Me.been \/ m = "BACKGROUND",
                  !.writeonly = Me.writeonly \/ m = "BACKGROUND"]]
  /\ UNCHANGED <<table, instances, compiled, player, now, pc, by, cur,
                 writeonly, locals>>

\* prim_fork: the child's frame is cleared memory, so been_background is 0.
Fork ==
  /\ Executing /\ top_pid <= MaxPid
  /\ top_pid' = top_pid + 1
  /\ IF Full(Me.uid)
       THEN UNCHANGED <<queue, process_count, frames, instances, locals>>
       ELSE /\ frames' = [frames EXCEPT ![top_pid] =
                 [Me EXCEPT !.mode = "BACKGROUND", !.been = FALSE,
                            !.writeonly = TRUE]]
            /\ instances' = [g \in Programs |-> instances[g] + Uses(g, {cur})]
            /\ Insert(NewEvent("DELAY", 0, Me.uid, ProgramOf(cur), top_pid, top_pid))
  /\ UNCHANGED <<compiled, player, now, pc, by, cur, writeonly>>

\* prim_queue.
Queue(d, g) ==
  /\ Executing /\ top_pid <= MaxPid
  /\ IF Full(Me.uid)
       THEN UNCHANGED <<table, locals>>
       ELSE /\ top_pid' = top_pid + 1
            /\ Insert(NewEvent("QUEUE", d, Me.uid, g, 0, top_pid))
  /\ UNCHANGED <<frames, instances, compiled, player, now, pc, by, cur,
                 writeonly>>

\* prim_kill of another process (of itself: Finish), or MPI's {kill}.
Kill(n) ==
  /\ Executing \/ pc = "mpi"
  /\ n \in Queued
  /\ dequeue_process(n) /\ process_count' = process_count - 1
  /\ UNCHANGED <<top_pid, compiled, now, pc, by, cur, writeonly, locals>>

\* MPI's {kill:0}, with a trigger that is the player.
MpiKillAll ==
  /\ pc = "mpi"
  /\ dequeue_prog(pass.uid, 0, frames, instances)
  /\ block' = Unblocked(Doomed(pass.uid, 0))
  /\ UNCHANGED <<top_pid, compiled, now, pc, by, cur, writeonly, locals>>

\* MPI's {delay}, at least one second.
MpiDelay(d) ==
  /\ pc = "mpi" /\ d >= 1 /\ top_pid <= MaxPid
  /\ IF Full(pass.uid)
       THEN UNCHANGED <<table, locals>>
       ELSE /\ top_pid' = top_pid + 1
            /\ Insert(NewEvent("MPI", d, pass.uid, NOTHING, 0, top_pid))
  /\ UNCHANGED <<frames, instances, compiled, player, now, pc, by, cur,
                 writeonly>>

EndMpi ==
  /\ pc = "mpi"
  /\ IF by = "event" THEN pc' = "ret" /\ pass' = pass
                     ELSE pc' = "idle" /\ pass' = NoPass
  /\ UNCHANGED <<table, frames, instances, compiled, player, now, by, cur,
                 writeonly, rd>>

Tick ==
  /\ now < MaxNow /\ now' = now + 1
  /\ UNCHANGED <<table, frames, instances, compiled, player, pc, by, cur,
                 writeonly, locals>>

-----------------------------------------------------------------------------
MainLoop ==
  \/ \E p \in Players, g \in Programs :
       \/ \E m \in Mode, wo \in BOOLEAN : Command(p, g, m, wo)
       \/ Propqueue(p, g)
       \/ Listen(p, g)
  \/ \E p \in Players :
       Connect(p) \/ Disconnect(p) \/ BreakLine(p) \/ Message(p)
  \/ \E o \in Players \cup Programs : KillObject(o)
  \/ \E n \in Pid : KillPid(n)
  \/ KillAll
  \/ \E g \in Programs : Uncompile(g) \/ Recompile(g)
  \/ \E p \in Players, line \in {"text", "@Q", "full"} : ReadLine(p, line)

Events == BeginPass \/ RunEvent \/ EndEvent \/ EndPass \/ EndRead

Interpreter ==
  \/ EnterLoop \/ Finish \/ Slice \/ Read \/ Return \/ Fork
  \/ \E d \in Delays :
       Sleep(d) \/ MpiDelay(d) \/ (\E g \in Programs : Queue(d, g))
  \/ \E g \in Programs : Call(g)
  \/ \E m \in Mode : SetMode(m)
  \/ \E n \in Pid : Kill(n)
  \/ MpiKillAll \/ EndMpi

Next == MainLoop \/ Events \/ Interpreter \/ Tick

Spec == Init /\ [][Next]_vars

-----------------------------------------------------------------------------
TypeOK ==
  /\ queue \in Seq(Event)
  /\ process_count \in Int
  /\ top_pid \in 1..(MaxPid + 1)
  /\ frames \in [Pid -> Frame \cup {NoFrame}]
  /\ instances \in [Programs -> Int]
  /\ compiled \in [Programs -> BOOLEAN]
  /\ block \in [Players -> BOOLEAN]
  /\ interactive \in [Players -> BOOLEAN]
  /\ now \in 1..MaxNow
  /\ pc \in {"idle", "pass", "start", "run", "abort", "mpi", "ret"}
  /\ by \in {"cmd", "event", "read"}
  /\ cur \in Pid \cup {0}
  /\ writeonly \in BOOLEAN
  /\ pass \in [last : Pid \cup {0}, runs : 0..MaxRuns,
               uid : Players \cup {NOTHING}, keep : BOOLEAN, bl : BOOLEAN]
  /\ rd \in [uid : Players \cup {NOTHING}, ptr : Pid \cup {0}]

\* The list add_event keeps and next_timequeue_event and next_event_time rely
\* on when they look at the head only: the READs are last, and the other
\* events are in the order in which they are due.
QueueOrder ==
  \A i, j \in DOMAIN queue : i < j =>
     /\ IsRead(queue[i]) => IsRead(queue[j])
     /\ ~IsRead(queue[j]) => queue[i].when <= queue[j].when

\* A frame that is not freed is the one being executed or belongs to exactly
\* one node, and no node holds a freed frame: prog_clean never meets a frame
\* that is on its free list (it calls abort() then), and no frame leaks.
FramesOwned ==
  /\ \A i, j \in DOMAIN queue : queue[i].eventnum = queue[j].eventnum => i = j
  /\ \A i \in DOMAIN queue :
       IF queue[i].kind \in {"DELAY", "READ"}
         THEN queue[i].fr = queue[i].eventnum
         ELSE queue[i].fr = 0
  /\ cur # 0 => cur \in Live \ Queued
  /\ Live \ {cur} = Held

\* Who has control, and what the locals of the C functions on the stack hold.
Control ==
  /\ pc \in {"start", "run", "abort"} <=> cur # 0
  /\ pc \in {"idle", "pass"} => by = "cmd"
  /\ pc = "mpi" => by # "read"
  /\ pc = "ret" => by # "cmd"
  /\ by = "read" => rd.uid \in Players
  /\ pc = "mpi" \/ by = "event" => pass.uid \in Players

\* Process numbers are given out in order; every frame in use executes some
\* program, and every event but an MPI one names a program.
Numbers ==
  /\ \A i \in DOMAIN queue : /\ queue[i].eventnum < top_pid
                             /\ queue[i].kind # "MPI" => queue[i].prog \in Programs
  /\ \A f \in Live : f < top_pid /\ frames[f].caller # <<>>

\* The inductive invariant the proofs rest on.
IInv == TypeOK /\ Control /\ Numbers /\ FramesOwned /\ QueueOrder

\* The instance count of a program, which guards the freeing of its code, is
\* the number of its activations on the call stacks of the frames in use.
InstancesMatch == \A g \in Programs : instances[g] = Uses(g, Live)

\* uncompile_program and do_compile free a program's code only after every
\* frame that would return into it has been killed.
NoDanglingCode ==
  \A f \in Live :
     \/ f = cur /\ pc \in {"start", "abort"}
     \/ \A d \in DOMAIN frames[f].caller : compiled[frames[f].caller[d]]

\* next_timequeue_event counts an event down only after it has run.
InEvent == by = "event"

\* The count add_event refuses new events by never counts an event that is
\* gone: the table is not reported full while there is room in it.
CountNotOver == process_count <= Len(queue) + IF InEvent THEN 1 ELSE 0

\* A player who is not a mage never holds more waiting events, READs aside,
\* than the limit and the one that reached it.
PlayerLimit ==
  \A p \in Players \ Mages :
     Cardinality({i \in DOMAIN queue : queue[i].uid = p /\ ~IsRead(queue[i])})
       <= MaxPlyr + 1

\* The life of each process number, as ProcessLife sees it.
procState ==
  [p \in Pid |->
     IF p = cur THEN "running"
     ELSE IF \E i \in DOMAIN queue : queue[i].eventnum = p /\ IsRead(queue[i])
       THEN "reading"
     ELSE IF p \in Queued THEN "waiting"
     ELSE IF p < top_pid THEN "gone" ELSE "unborn"]

\* The table implements it: no process is lost, runs twice at a time, or runs
\* again after it has been killed or has ended.
Life == INSTANCE ProcessLife WITH state <- procState
ImplementsLife == Life!Spec

-----------------------------------------------------------------------------
(* Fairness: shovechars calls next_muckevent on every turn of the main loop, *)
(* so a pass starts again and again whatever the players type; once called,  *)
(* the C functions run on, and interp_loop ends every stretch of a program   *)
(* by its instruction limit, at the latest.                                  *)
Leaving == Finish \/ Slice \/ Read \/ (\E d \in Delays : Sleep(d))
Fairness ==
  /\ SF_vars(BeginPass)
  /\ WF_vars(RunEvent \/ EndEvent \/ EndPass \/ EndRead)
  /\ WF_vars(EnterLoop) /\ WF_vars(Leaving) /\ WF_vars(EndMpi)
FairSpec == Spec /\ Fairness

\* An event that is due is run, or is killed: it does not stay in the table,
\* behind however many others, and a program that slices does not keep the
\* others out.
DueLeaves ==
  \A n \in Pid :
    (\E i \in DOMAIN queue : /\ queue[i].eventnum = n /\ queue[i].when <= now
                             /\ ~IsRead(queue[i]))
       ~> n \notin Queued

\* A pass gives control back to the main loop, even if every event it runs
\* queues others that are due.
PassEnds == pc = "pass" ~> Idle

=============================================================================
