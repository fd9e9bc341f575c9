# GlowMUCK: models and proofs

GlowMUCK is a MUCK server: one C process that holds a database of objects
(rooms, things, exits, players, programs), accepts connections, reads lines
from them and runs commands, stored programs (MUF) and in-line expressions
(MPI). It is single-threaded. What makes it hard is not parallelism but
re-entrance: everything waits in lists that are global, and nearly every call
made while a list is walked can add to it, take from it or free what the walker
holds. This directory keeps TLA+ models of those parts, the configurations that
check them with TLC and the theorems TLAPS has checked.

    tlc -workers 2 -config TQCore.cfg MCTimequeue      # also TQCalls, TQLive
    tlc -workers 2 -config DSafe.cfg MCDescriptors     # also DLive
    tlc -workers 2 -config OSafe.cfg MCObjects
    tlc -workers 2 -config SFix.cfg MCSanity
    tlc -workers 2 -config GDumps.cfg MCDumps          # also GBack
    tlc -workers 2 -config PPrims.cfg MCPrimitives
    tlc -workers 2 -config CCompile.cfg MCCompiler
    tlc -workers 2 -config MParse.cfg MCMpi
    tlapm TimequeueProofs.tla     # then TimequeueTable
    tlapm DescriptorsProofs.tla   # then DescriptorsTables
    tlapm DumpsProofs.tla
    tlapm ObjectLists.tla         # then ObjectSteps, ObjectsProofs

Sections 1 and 2 are the inventory and the plan; 3 to 7 the process table and
the connections, with their proofs; 8 to 13 one component each (8, the objects,
and 10, the dumps, with their proofs); 14 says what is proved and what is only model-checked; 15 what
is left out.

Paths below are relative to the repository's `src/` unless they begin otherwise.

## 1. Inventory

| part | state | operations | talks to |
|---|---|---|---|
| process table, `timequeue.c` | `tqhead`, `process_count`, the free nodes | add an event, run the due ones, resume a READ, kill by object / by number / all | interpreter (calls it and is called back by it), players' `block` and flags |
| MUF interpreter, `interp.c`, `p_*.c` | frames, `top_pid`, programs' `instances` | enter, slice, call, return, sleep, read, fork, kill, end | process table, compiler, database |
| MUF compiler, `compile.c` | a program's `code`, `start`, `pubs` | compile, uncompile, clean up the unused | process table (kills before it frees) |
| MPI, `msgparse.c`, `mfuns*.c` | stacks of variables and macros, nesting counters | evaluate; `{delay}`, `{kill}`, `{force}` | process table, interpreter |
| connections, `interface.c` | `descriptor_list`, the table of descriptors by number, the array by connection, each player's array; input and output queues | connect, disconnect, boot, broadcast, one turn of `select` | game (`process_command`), process table, resolver |
| main loop, `interface.c: shovechars`, `events.c`, `signal.c` | `shutdown_flag`, `restart_flag`, `dump_flag`, the times of the last dump and clean-up | a turn: events, commands, dump, boots, `select` | all |
| dumps, `game.c`, `db.c` | the database file, the delta file, dirty flags | full dump, delta dump, panic, restore | disk properties |
| database, `db.c` | object array, free list (`recyclable`) | new object, free, read, write | properties |
| disk properties, `diskprop.c` | four ring queues of objects, counters | fetch, dispose, dirty, undirty, clean | dumps |
| properties, `property.c`, `props.c` | a balanced tree per object | set, get, remove, walk | disk properties |
| object graph, `move.c`, `utils.c`, `sanity.c` | location, contents, next, home, owner | move, send home, recycle, check and fix | process table (kills), connections |
| resolver, `netresolve.c`, `resolver.c` | cache of names, requests under way | ask, answer, time out | connections |
| commands, `create.c` `set.c` `look.c` `wiz.c` ... | none of their own | one command each | database |
| helpers, `stringutil.c` `hashtab.c` `compress.c` `smatch.c` ... | none, or a table | pure functions | |

What makes each part correct, and where it is hard:

- **Process table.** A process exists once, runs when it is due, never after it
  is killed, and its frame and its program's code are freed when and only when
  nobody will use them. Hard: a pass over the queue runs programs that queue,
  kill and compile; two walkers keep node pointers across those programs; the
  limit's counter is kept apart from the list.
- **Interpreter and compiler.** A frame is executed, waiting or freed, exactly
  one of these; code is freed only when no frame can return into it.
- **Connections.** The four views of who is connected agree; a descriptor that
  is booted gets its last output and is closed once; a line is executed once
  and in order. Hard: booting one connection while walking an array that
  booting compacts.
- **Dumps, disk properties.** What was changed is in the next dump, whatever is
  thrown out of memory in between, and a crash at any moment leaves a file to
  start from.
- **Object graph.** Containment has no loop, everything is in exactly one place,
  and a recycled number is referred to by nobody. Hard: programs run in the middle
  of recycling, and some places choose a home without the check for loops.
- **Main loop.** Timers fire, a shutdown or a dump asked for happens.
- **MUF compiler.** A jump goes where the structure of the text says. Hard:
  jumps are patched from two stacks when a structure ends, while the functions
  that compile a word call each other for the next one.
- **MUF primitives.** Each tests every operand before it uses it, takes no more
  than there is and frees each exactly once. Hard: the operands are globals, and
  some primitives run other programs between the test and the use.
- **MPI.** Whatever a text calls, and however it fails, the tables of variables
  and functions and the counters of levels come back as they were.

`PROJECT.json` lists these parts under "components" and the individual dangers,
each at its line, under "hazards".

## 2. Plan

| | module | what | state |
|---|---|---|---|
| 1 | `Timequeue`, `ProcessLife`, `TimequeueProofs`, `TimequeueTable` | process table, life of frames, abstract specification, proofs | done, sections 3 to 6 |
| 2 | `Descriptors`, `DescriptorsProofs`, `DescriptorsTables` | connections and the tables over them, proofs | done, section 7 |
| 3 | `ObjectGraph`, `Objects`, `ObjectLists`, `ObjectSteps`, `ObjectsProofs` | the array of objects; every command and primitive that moves, links, makes or recycles; proofs | done, section 8 |
| 4 | `Sanity` | the checker and the repairs, on the same array | done, section 9 |
| 5 | `Dumps`, `DumpsProofs` | files, dumps, delta dumps, property lists on disk, signals, crashes, the script that restarts, proofs | done, section 10 |
| 6 | `MufOps`, `PrimsOn...`, `Primitives` | every primitive's handling of its operands | done, section 11 |
| 7 | `Compiler` | control structures, names, directives, macros | done, section 12 |
| 8 | `MpiOps`, `MpiFuns`, `MpiFuns2`, `Mpi` | the parser and every function | done, section 13 |
| 9 | proofs | every safety property of `Timequeue`, `Descriptors` and `Dumps`, and that `Timequeue` implements `ProcessLife`; every property of `Objects` | done, sections 5, 7, 8, 10 |
| 10 | proofs | `CountersRight` of `Mpi` | to do |
| 11 | `Timequeue` | the debugger's READ events, programs nested in programs | to do |
| 12 | a module on output | output queues, the pager, `close_sockets` | to do |

`ObjectGraph` is used by both `Objects` and `Sanity`: what one builds the other
damages and repairs. `Primitives` and `Mpi` put their tables of functions
(`PrimsOn...`, `MpiFuns...`) on one machine each. The other modules meet where
the code does: what a recycled program means for the queue, what a disconnect
means for processes and what a primitive means for objects is in the module
whose state it changes.

`Sanity` has RECURSIVE operators and can hold no theorems; the other modules
have none.

## 3. The process table: `Timequeue.tla`

### State

| variable | in the code |
|---|---|
| `queue` | the list from `tqhead`: kind, time, player, program, frame, process number of each node |
| `process_count`, `top_pid` | the globals of those names |
| `frames` | by process number: mode, player, `been_background`, `writeonly`, the stack of callers |
| `instances`, `compiled` | `sp.program.instances`, and whether `sp.program.code` is there |
| `block`, `interactive` | `sp.player.block`; the flags INTERACTIVE and READMODE, which this code only sets and clears together |
| `now` | `time(NULL)`, advanced by `Tick` at any moment |
| `pc`, `by`, `cur`, `writeonly` | which C function has control, who called `interp_loop`, the frame it executes, and its local copy of `writeonly` |
| `pass`, `rd` | the locals of `next_timequeue_event` and of `handle_read_event` that live across a program's run |

A node or frame freed is put on a list of free ones and may be handed out again.
A pointer kept to a freed node is therefore modelled as pointing to that
process number for ever, or to the next node allocated (`Reused`), and a loop
that starts at a freed node may find anything (`EndRead`).

### Actions

Between two steps of the main loop (`pc = "idle"`): `Command` (an exit, message
or lock that is a program), `Propqueue` and `Listen` (programs and messages
started by movement, connections and speech), `Message` (MPI evaluated at once),
`Connect`, `Disconnect`, `BreakLine` (the line `@Q`), `KillObject`, `KillPid`
and `KillAll` (`@kill`), `Uncompile`, `Recompile`, and `ReadLine` (a line for a
player in READMODE).

A pass (`next_timequeue_event`): `BeginPass` finds the first event that is not
due, `RunEvent` unlinks the head and enters the program or the message,
`EndEvent` does what follows the return, `EndPass` leaves the loop. `EndRead` is
the second half of `handle_read_event`.

The running program (`interp_loop`): `EnterLoop` (which compiles a program that
is not), `Slice`, `Sleep`, `Read`, `Call`, `Return`, `SetMode`, `Fork`, `Queue`,
`Kill`, `Finish` (return and abort alike). MPI: `MpiDelay`, `MpiKillAll`,
`Kill`, `EndMpi`.

Between two primitives that matter here a program does anything; it is
represented by the choice of its next step. Permissions are represented the
same way: a kill or a compilation may happen, or not. A compilation may fail.

### What it promises: `ProcessLife.tla`

The life of each process number: unborn, waiting, reading, running, gone. One
process runs at a time, a number is used once, and nothing comes back from
"gone". `Timequeue` maps its state to it with `procState` and
`ImplementsLife == Life!Spec` is checked as a property.

### Properties

- `QueueOrder` - READs last, the rest sorted by time. A pass looks only at the
  head, so an event out of place is late or lost.
- `FramesOwned` - a frame in use is being executed or belongs to exactly one
  node, and no node holds a freed frame. `prog_clean` calls `abort()` when it is
  given a frame that is already free.
- `InstancesMatch`, `NoDanglingCode` - the instance counts equal the activations
  on the stacks; code is freed only when nobody will return into it.
- `CountNotOver` - `process_count` never exceeds the events there are, so the
  table is never full for good; `PlayerLimit` - the limit on one player's
  events, which lets one in beyond the configured number.
- `ImplementsLife` - see above.
- `DueLeaves`, `PassEnds` (liveness) - a due event is run or killed; a pass ends
  although the events it runs queue others that are due.

### Runs

| run | instance | shows |
|---|---|---|
| `TQCore` | 1 player, 1 program, 3 processes | `TypeOK`, `QueueOrder`, `FramesOwned`, `CountNotOver`, `ImplementsLife` |
| `TQCalls` | 2 players (1 mage), 2 programs, 2 processes | `InstancesMatch`, `NoDanglingCode`, `PlayerLimit` |
| `TQLive` | 1 player, 1 program, 2 processes | `DueLeaves`, `PassEnds` under `FairSpec` |

Bounds. `MaxPid` processes in a behaviour: three are needed for a pass to run
one event, which kills a second, and go on to a third, and for a READ to be
resumed while two more wait; the real bound is 2^31. `MaxNow` = 2: an event is
due, or due later. `MaxCall` = 2: a program and one it has called. `MaxRuns` = 2
stands for 30: a pass that ends because it has run enough, and one that ends
because nothing is due. `MaxProcess` and `MaxPlyr` are 0 or 1 where the code has
100 and 8, so that both limits are met. The theorems of section 5 have none of
these bounds on players, programs, limits, delays or call depth: the constants
are arbitrary there.
`TQCalls` uses the symmetry of programs, which are not told apart by any
constant; it checks invariants only.

Fairness. `shovechars` calls `next_muckevent` on every turn of its loop, before
any command, so `BeginPass` is strongly fair: whenever there is something due
again and again when the loop comes round, a pass begins. Inside a pass and
inside `interp_loop` control cannot stay for ever: the C code runs on, and every
stretch of a program ends by its instruction limit or earlier (`Leaving`).
`Tick` is not fair, and no property needs time to go on. A program of a mage in
preempt mode has no instruction limit (`interp.c:458-459`); `WF_vars(Leaving)`
assumes that such a program ends.

## 4. Where the code does something else

Each of these, stated as a property of `Timequeue`, was found violated by TLC.
No run keeps them: they are things the code does, and the model has them.

- A pass can run an event early: `next_timequeue_event` ends a pass at the *node* that was the
  first not due when it began. If an event of the pass kills that node, the
  pass runs into sleeping programs (`timequeue.c:440-446`).
- A player can stay blocked: SLEEP sets `block` after `add_event` even when the event
  was refused and the frame freed (`interp.c:775-777`), and the end of a
  background event writes an older value back (`timequeue.c:493-497`); the
  player's input is then held back with no program left to release it.
- A program that reads can be left without the flag: after `@Q` or a full stack `handle_read_event` returns
  before it looks for the player's other READs; they never get a line
  (`timequeue.c:378-394`).
- A player can be left with the flag and no program that reads: the pointer kept for that look may be to a freed node
  (`timequeue.c:420`).
- The limit on processes is exceeded: `@kill <pid>` counts the process down twice
  (`timequeue.c:771`).

Also: the manual says a background program cannot be set
to another mode and cannot READ (`game/data/man.txt:1691-1693`), while SETMODE
refuses the foreground only and READ tests a copy of `writeonly` older than the
change (`p_stack.c:725-738`, `interp.c:429`, `750`), so BACKGROUND, PREEMPT,
READ in one stretch reads; the time of a READ is never -1 as the table of event
types says (`timequeue.c:66`, `298`), so `next_event_time` reports a READ at the
head as due and `select` waits `tp_pause_min` only; `dequeue_prog` tests the
first nodes of the list with a stricter condition than the rest
(`timequeue.c:633-656`), so a compilation kills queued events of the program
unless they stand at the head.

## 5. Proofs: `TimequeueProofs.tla`

`Invariance == Spec => []IInv` and, from it, `TypeCorrect`, `QueueSorted` and
`FramesSafe`, from `ConstantAssumption` alone.

`QueueOrder` and `FramesOwned` are not inductive. That the node removed by
`handle_read_event` gives its frame to `interp_loop` needs to know that only
DELAY and READ nodes have frames and that process numbers of nodes are distinct
(both in `FramesOwned`) and given out below `top_pid` (`Numbers`), so that the
next number is nobody's; that `interp_loop` and its caller agree on who
continues needs `Control`. `IInv` is the conjunction of these. The proof
splits it into what concerns the list (`QInv`), the frames (`FInv`), control and
the rest, and has lemmas on the operators first: `Inserted`, `Kept`, `Unlinked`,
`Removed`, `Popped` (order and distinctness under each change of the list),
`UnlinkStep`, `InsertStep`, `SuspendStep`, `AnnounceStep`, `EndStep`,
`InterpStep` (what each call does to frames and list together), and then one
step per action under `MainLoopStep`, `EventsStep`, `InterpreterStep`.

### The limits: `TimequeueTable.tla`

`CountNeverOver` (`CountNotOver`) and `ShareLimited` (`PlayerLimit`). Each is
inductive beside `IInv`. The work is to say what an action can do to the list and
its counter at all: leave them (`Untouched`), unlink some nodes and count down
that many or more (`Dropped`: `@kill <pid>` counts twice), let one in that the
limits admit (`Admitted`), take the head without counting it (`Taken`), give a
READ's node to the program (`HandedOver`), count what was taken (`CountedDown`).
`TableSteps` proves that every action is one of these; the two theorems, and part
of what follows, then argue about six cases instead of thirty actions. The counts
are of sets of indices, and `ThinnedShare` and `InsertShare` give the injections
between them.

### The abstract specification: `TimequeueTable.tla`

`LifeImplemented == Spec => ImplementsLife`. The mapped state gives each process
number the stage `Stage(p)`. For each thing that can happen to the list and the
running frame there is a lemma that it is a step of `ProcessLife` or a stutter
(`KillLife`, `EnterLife`, `SpawnLife`, `ResumeLife`, `LaunchLife`, `LeaveLife`,
`SuspendLife`, `AnnounceLife`). They need `IInv`: that a killed process does not
run and a new number is one nobody has comes from `Numbers` and `FramesOwned`.

### Instances and code: `TimequeueTable.tla`

`InstancesCounted` (`InstancesMatch`) and `CodeKept` (`NoDanglingCode`).
`NoDanglingCode` is not inductive. `dequeue_prog` finds a program's processes by
the program a node is filed under and by `has_refs`, which looks at all entries of
the stack but the last; that these two together find every frame that would return
into it needs `ProgMatches`: a queued frame is filed under the program it executes.
`Fresh` says the same of a frame not yet entered; `Depth` bounds the stacks, so
that the count is of a finite set. `CodeInv` is the conjunction. The counts are
cardinalities of sets of (frame, level), and `FreedCount`, `AddedCount`,
`EnteredCount`, `LongerCount` and `ForkedCount` say what a kill, an entry, a call
or return, and a fork do to them.

Only model-checked: the liveness properties `DueLeaves` and `PassEnds`, which are
beyond the prover.

## 6. Not modelled

In the interpreter: the MUF debugger, which also uses READ events; programs
nested in programs (a MUF that moves its player, MPI that runs MUF): `cur` is a
single frame; the restart of an AUTOSTART program after a compilation
(`compile.c:570-574`); program addresses on argument stacks, which also count as
instances; a program recycled while it is in the table; negative delays given to
QUEUE; players that are puppets (things), whose `block` lies in another arm of a
union. The editor's INTERACTIVE flag without READMODE. The size of the free
pools. Everything listed as `not_modelled` in `PROJECT.json`.

## 7. The connections: `Descriptors.tla`

### State

| variable | in the code |
|---|---|
| `list` | the list from `descriptor_list`, newest first |
| `conn` | of each descriptor: `connected`, `player`, `booted`, the number of lines waiting |
| `table` | `descr_count_table` up to `current_descr_count`: connections by number, as MUF counts them |
| `lookup` | `descr_lookup_table`: descriptors by slot |
| `descrs` | each player's `sp.player.descrs`: the slots of the player's connections |
| `frobbed` | players turned into things by `@frob` or `@toad` |
| `phase`, `at`, `dnext` | the part of a turn of `shovechars`, and the locals `d` and `dnext` of its loop |
| `quota`, `again` | whose `quota` lets a line run; `nprocessed` of `process_commands` |
| `fresh` | connections accepted since `select` returned, which its sets do not name |
| `stack` | the calls in progress that run programs: what will continue when they return, with the descriptor and player it will use |

A call that runs programs is split where it does: `Login` is `check_connect` up
to `announce_connect`, `LoginDone` the rest; `Close` and `CloseDone` are
`shutdownsock` before and after the disconnect programs; likewise `SetUser`
(`dset_user`) and `WebScript` (`httpd_get`). While `stack` is not empty a
program runs and may take any of the steps `Program`: `CountBoot` (CONBOOT),
`DescrBoot` and `DescrForce` (`dboot`, `dforce`), `BootOff` and `KeepOne`
(`@boot`), `Frob`, `SetUser` (DESCR_SETUSER, `@connect`). Permissions are a
choice: a program may or may not take the step.

`booted` is 0, 1 (close at the next turn) or 3 (close when the answer is
written). The value 2, set by QUIT, differs from 1 by the farewell only and is
written 1.

### Properties

- `CountsMatch` - the table by number is the connected part of the list, at
  every step: six places change `connected` and each must recompute it.
- `PlayerDescrs` - a player's own array has the slot of each of the player's
  connections exactly once. `forget_player_descr` frees a last entry without
  looking at it, and `remember_player_descr` ignores a connection without slot.
- `NoDangling` - list, lookup table, the loops' `d` and `dnext` and the calls in
  progress hold live descriptors only. The loops save `d->next` before they run
  programs, which is right only because nothing but the loop over the booted
  ones frees a descriptor, and nothing but its own visit of that descriptor.
  (Mutant: the commented-out `shutdownsock(d)` in `pboot`.)
- `LoginLimit` - after a login no player has more connections that stay than
  `max_player_logins`, for players no one gives connections to by other means.
- `BootedCloses` (liveness) - a descriptor booted with 1 is closed, whatever
  programs, answers and new connections do meanwhile. It rests on the test of
  `booted` at `interface.c:2833`.

### Runs

| run | instance | shows |
|---|---|---|
| `DSafe` | 2 game connections, 1 web connection, 2 slots, 3 nested calls | `CountsMatch` (with the types), `PlayerDescrs`, `NoDangling`, `LoginLimit` |
| `DLive` | 1 game, 1 web connection, 2 nested calls | `BootedCloses` under `FairSpec` |

Bounds. Three connections over two slots (`MaxSockets`) let one be accepted
beyond MAX_SOCKETS while two others are closed around it. `MaxLogins` = 1 makes
a second login boot one. `MaxDepth` = 3: a command, a change of a connection's
player inside it, and a command or announcement inside that one; deeper calls
find no other kind of state, as every call keeps one descriptor. `MaxLines` = 1:
whether a line waits. `MovedTo` keeps DESCR_SETUSER to one player. `MaxFrob` = 2
keeps `Frob` to players with at most two connections, since with three the code
writes outside what is modelled (below). `DSafe` uses the symmetry of connections of one kind and checks
invariants only; `DLive` uses none.

Fairness. The loop goes on (`LoopStep`, strongly fair because input and
programs interleave with it) and programs come to an end (`Returns`): each is
limited by its instruction count, and the calls a program makes return before
it does. `LastReturns` is strongly fair for the same reason: the outermost call
returns, however often nested ones are made. A loop makes finitely many calls
for each visit: a visit of `process_commands` runs one line for each unit of
quota, and a pass of events ends (`PassEnds` of section 3).

### Where the code does something else

As in section 4, seen in traces of properties no run keeps.

- `boot_player_off` says it is to be "brutal" because the player
  may be getting toaded, but goes through the player's array by index while
  `forget_player_descr` compacts it: of three connections the second is passed
  over and the third met again, now with the player NOTHING
  (`interface.c:3343-3352`). One connection stays attached to an object that is
  no player any more. What the call with NOTHING writes in front of the object
  array is outside the model, and so no property is about this walk: `NoDangling` is
  about the loop of the turn (`interface.c:923`).
- `max_player_logins` is documented as the number of times a
  player can be connected; `dset_user` does not look at it
  (`interface.c:4757-4772`).

Also: `boot_idlest` closes the most idle connection, where
the documentation says the oldest, and since it leaves out the booted ones while
`online` counts them, a login may boot one more than it has to;
`process_commands` goes on running the lines of a descriptor that is booted;
a web script that gives its own connection away with DESCR_SETUSER to #-1 makes
`httpd_get` call `forget_player_descr` with the player NOTHING.

### Proof: `DescriptorsProofs.tla`

`PointersLive == Spec => []NoDangling`, for any finite set of connections, any
players and all limits, from `ConstantAssumption`. `NoDangling` is not
inductive: that `dnext` survives a step needs to know that it still *follows*
`at` in the list, and that a call to close a descriptor stands at the bottom of
the stack while its loop stands still. `IInv` is the conjunction of `ListInv`
(each descriptor listed once), `LookupInv` (slots hold listed
descriptors, each one slot), `LoopInv` (`at` is listed or NONE, and `dnext` is
what follows it, outside the phases without a loop), `StackInv` (only the
bottom call can be a "close", and then of `at`, in the phase "boots") and
`ConnInv` (the fields' types). `LeastOne` gives the least index of a descriptor from the
well-foundedness of the naturals, `FollowingListed` and `UnlinkedList` say what
`Following` and `Unlinked` do to a list without repetitions; then there is one
lemma for each group of actions.

### Proof: `DescriptorsTables.tla`

`TableCounts` (`CountsMatch`), `ArraysRight` (`PlayerDescrs`) and `LoginsLimited`
(`LoginLimit`), from the same assumption. The inductive invariant is `Full`, the
conjunction of `IInv`, `TInv`, `Pending`, `Slotted` and `LoginLimit`:

- `TInv` has the tables: each connection that is a player's is listed and says
  whose it is (`Owned`), the table by number is what `update_desc_count_table`
  would make of the list now (`Counted`), and `PlayerDescrs`.
- `Pending` is about the calls in progress. Between `announce_disconnect` and what
  follows it a descriptor belongs to nobody, and exactly one call is about to give
  it away or to close it; without that, `SetUserDone` could give a player a
  descriptor which is in another player's array.
- `Slotted`: a connection for which there was no slot is booted or being closed.
  `remember_player_descr` ignores it, so a login on it would leave a connection
  that no array has.
- `LoginLimit` is inductive only with a login in progress counted apart, as it is
  stated.

`boot_player_off` is the hard step. `BootCells` is a recursive function, and
`TurnsExist`, by a least counterexample, gives what it is after each turn;
`CellsInHand` is the invariant of that loop (`InHand`): it never has in hand a
slot the player's array did not have, so no other player's connection is cut, for
any number of connections. (That with three it cuts too few is the point above; the
player is a thing then, and `PlayerDescrs` is about players.) `Selected` stands in the model for the library's `SelectSeq`,
which is defined by a recursion the provers cannot use: it is the sequence of
those entries in increasing order of position, and `NumberingUnique`,
`NumberingExists` and `SelectedBy` say that there is exactly one.

Only model-checked: `BootedCloses`, which is a liveness property.

### Not modelled

Output queues and the pager, except that failing output boots; the amount of
quota, beyond whether a line may run; `close_sockets` at shutdown;
`tp_unix_login`, which keeps a name in `player` of a connection that is not
connected; a player without a location, for whom `announce_disconnect` does
nothing; Pueblo, a game connection that differs in output; frobbing a player
whom a call in progress will still use; the resolver's answers, which change a name
that is only displayed.

## 8. Objects: `ObjectGraph.tla`, `Objects.tla`

`ObjectGraph` is the array `db` as a value, with the functions that read and
change it and run no program: `RemoveFrom` (`remove_first`), `PushOn` (`PUSH`),
`NewObject` (`new_object`: from the free list, or at `db_top`), the loop check
`parent_loop_check` with its helper, what `move.c` and `create.c` do to lists.

| variable | in the code |
|---|---|
| `db` | type, location, contents, exits, next, owner, home or dropto, and destinations of every object; `db_top`, `recyclable` |
| `stack` | C calls in progress, innermost first: a frame for what is left of each operation, a frame "prog" for a program in its middle |
| `given` | how many commands were given (a bound) |
| `meddled` | history: a program has reached into an operation in progress |

The code runs programs in the middle of its own operations: `enter_room` runs
the depart and arrive programs, `look` runs descriptions, locks run programs
before a move, and those programs may execute every command. Every operation
that does so is cut there, and its rest is a frame: `EnterRoom`, `MaybeDropto`,
`SendContents`/`SendNext`/`SendEnds`, `SendHome`,
`RecycleNextExit`/`RecycleScan`/`EmptyNext`/`DragOut`/`RecycleEnds` (the loops
of `recycle`), `Frobbed`, `PurgeNext`. An operation that runs no program is one
action: the constructors (`CreateThing`, `OpenExit`, ...), links
(`LinkExit`, `LinkHome`, `LinkDropto`, `Unlink`, `PrimSetLink`), `Chown`,
`Attach`. Actors, permissions, costs and flags are choices. `@dig` puts a room
into any room or thing that is named (`can_link_to`, `predicates.c:36-38`), or into
the first ABODE around, whatever it is (`create.c:520-524`).

Nothing in the code keeps a program from commands about the very objects of the
operation in whose middle it runs, and no action forbids them. `Minds` notes the
first: one that recycles, frobs or purges what an operation in progress is
about, or the place that what is being recycled is in (`LeavesAlone`); that links
to, moves or fills what is being recycled (`NotDying`); or that makes such a thing
the property of a player who is being purged (`MayGive`). From then on `meddled`
holds, and the operation goes on with whatever it finds, as the code does.
Properties that are false of the code after that say so in their first line.

Properties.

- `ListsAgree` - until a program has meddled, whenever a program may look, the
  list of contents and the list of exits of a place hold exactly what says it is
  there, and end.
- `FreeListSound` - until a program has meddled, the free list is the garbage, and
  ends. `recycle` pushes at the very end, after running programs.
- `References` - until a program has meddled, nothing names an object that is gone
  or of a wrong type. `recycle` looks for references in one pass over the array.
- `NoMetaLoops` - whatever programs do: `trigger` follows exits to exits and relies
  on there being no circle.
- `ParentsAcyclic` (action property) - until a program has meddled, a loop of
  locations and homes is closed only at the four places that give a parent without
  `parent_loop_check` (`Unlooked`): `@unlink` of a thing (`set.c:984`), `recycle`
  for a thing whose home goes (`move.c:968`), `@frob`, which makes the home of a
  player that of a thing (`wiz.c:1043`), and the player whom `recycle` drags out
  (`move.c:1062`). All four can do it (below).

`OSafe`: six objects (`MaxTop`), four commands (`MaxCommands`), programs nested
so that a command is given below depth three (`MaxDepth`). There are two starts:
the new database (#0 and #1), and one with a player in a room, who carries a
thing, in which is the room that is his home; getting there counts as a
command. In four commands a thing is made, linked, moved and
recycled, or a room with things and a player in it is recycled while a depart
program moves, makes, links or recycles. Six objects are the furnished start
and a number used again, or the bare one and four new ones. 451,919 states.
A behaviour ends at a database whose
parents have a loop (`Next` demands `Acyclic`), since `parent_loop_check` would
never return there. Deadlock is not checked, as the bounds end behaviours.

### Proof: no loops of exits

`ObjectsProofs.tla`, `THEOREM MetaLinksEnd == Spec => []NoMetaLoops`, for
a database of any size, any number of commands, any depth, and programs that
meddle or not. The invariant is `Sound(db)`: types and destinations of the
objects (`Shape`) and `NoLoops`, that in every set of exits there is one that
leads to none of the set. `NoMetaLoops` alone is not inductive, for nothing
could be said of the new array without the types. Almost every step is one of a
relation `Follows` between the array before and after: what is an exit
afterwards was one before and has no other destinations, or has none. A lemma for each
operator of `ObjectGraph` says so of lists, moves, new numbers and recycling
(`PushFollows`, ..., `BuryFollows`); the relation is closed under composition
(`FollowsOn`) and keeps `NoLoops` (`NoLoopsKept`). In the steps left, those that
link an exit, `LinkKeepsNoLoops` is the reason: `exit_loop_check` found that the destination
does not lead back to the exit, so what a circle through both has among the
exits that can be reached from the destination was a circle before the link. The proof uses nothing about the lists; so the recycling of an exit that
others lead to, or a program that recycles an object twice, cannot close such a
circle, which the runs check for six objects only.

### Proof: lists, free list and references

`ObjectsProofs.tla`: `ListsAreRight`, `FreeListIsRight` and `ReferencesAreRight`,
for a database of any size, any number of commands and any depth of programs. No
program is excluded; what they say ends when one has meddled, after which the
first two are false (below). What is proved to be inductive is
`Kept`: `~meddled => IInv`.

None of the three is inductive, and none can be proved without the others:
`remove_first` finds an object only if it is on the list of its location; a
number may be handed out again only if nothing names it; what an object names can
be looked at only if it is there. The inductive invariant `IInv`
(`ObjectSteps.tla`) has two parts.

- `World(d, D, c, so)` (`ObjectLists.tla`) is about the array. The lists are
  described without recursion (`Strung`): each object that is on a list has the
  label of one list, the free list or the contents or exits of its location; the
  head of a list has its label; each `next` leads to an object with the same label
  that is no head, no two to the same, and to every object but the heads one does;
  and in every set of objects that is not empty there is one whose `next` is not in
  it, so that nothing goes in a circle. `StrungChain` derives from it that what `DOLIST` walks is exactly what
  has the label, which is where `Chain`, a function by recursion, meets the rest.
  `D` are the objects that `recycle` has taken off their lists and not yet
  freed, `c` and `so` the objects that `send_contents` has taken out of `so`: they
  hang on a local variable, and have no location.
- `FramesOk(d, D, so, st)` is about the C calls in progress. `FrameOk` says what each
  of the kinds of calls relies on: what it names is there, of its type, and not
  being recycled; what `recycle` empties is named by nothing (`Unnamed`), has no exits
  on it, and has fewer objects in it than its loop has turns left, so that it
  is empty when `db_top` turns are over. `Over` says that a call takes nothing away that
  one further out names, and `Under` which calls may wait: none that is taking a
  list apart. `Clear` is that what `send_contents` took out is not above
  the place it came from, so that `moveto` can put it back.

`ObjectLists` proves for every operator of `ObjectGraph` what it does to
`World` (`MoveWorld`, `AddWorld`, `ScanWorld`, `BuryWorld`, `OutWorld`, ...);
`ObjectSteps` that each command, primitive and handler keeps `IInv`, in two parts: the
array stays in order, and what waits is spared (`Spared`, `NameKept`,
`EmptyKept`). `ObjectsProofs` has the first states, puts the steps together and
derives the three properties. That there is no loop of parents (`Next` demands it) is
used twice: what is emptied does not hold itself, and `Clear`.

### Proof: no loops of parents

`ObjectsProofs.tla`, `THEOREM ParentsStayAcyclic == Spec => ParentsAcyclic`: until
a program has meddled, no step but the four of `Unlooked` closes a loop of
locations and homes. The lemma of each command and handler says, next to `IInv`,
that it keeps `Acyclic` (the end of `ObjectLists`). There are four reasons:

- `JoinedAcyclic`: x gets a new parent, and `parent_loop_check` did not come to x
  from there (`moveto`, `do_link`, `prim_setlink`). `moveto` asks again when it
  moves, so it does no harm that programs ran between the check of a command
  and the move;
- `HomeAcyclic`: what goes HOME is not asked about, as `moveto` looks at HOME as at
  nothing. A thing's home is one of its parents already, so it does not lie in the
  thing (`NotAbove`) while there is no loop, and the fallback to the owner's home
  is not reached; a program goes to its owner. For a player the home is no
  parent: this reason fails for him, and so does the code (`DragOut`);
- `AddedAcyclic`: a new object is above nothing yet;
- `FewerAcyclic`: nothing gets a parent that it had not.

It needs `References` as it holds between two steps: what is above something
must be there.

Where the code does something else:

- a room whose depart program recycles it again
  (`move.c:894`, `1053`, `p_db.c:1514-1555`) comes to be on the free list twice, which
  closes it into a circle: `new_object` then gives out the same number for ever.
  It needs no second `@recycle`: `do_purge` asks who owns a number when it comes
  to it (`wiz.c:1104`), so if, while a player is purged, the depart
  program of a room that is being recycled makes it his (`prim_setown`, `p_db.c:1204`), the
  purge recycles it inside its recycling. That takes more objects than the run
  has; it came up in planning the proof of `FreeListSound`. `meddled` notes both;
- a room that is being recycled inside another one keeps its location. If the program
  of a player who departs from it recycles the outer room, the location is of
  garbage. An actor still in the inner room may then copy a thing
  (`copyobj`, `p_db.c:519-543`): when the new object takes the number of the outer
  room, `moveto` (`move.c:25`) meets it on the way up, takes it for a loop and
  returns, and the copy is nowhere and on no list. The proof of `ListsAgree` came
  upon it and TLC confirmed it; `meddled` notes it;
- loops of parents. Let the thing V have the home H; `@dig foo=#V` makes a room in it;
  V is dropped in H; its owner says `@link me=#foo`, which is a room like any other.
  `@recycle H` makes the owner's home that of V (`move.c:968`), and V lies in foo,
  which lies in V. `@unlink V`, if its owner has been carried into it, and `@frob` of
  a player whose home is in what he carries do the same, and a player whose depart
  program brings him back to a room that is being recycled is dragged into what he
  carries by `moveto(first, HOME)`, which looks at nothing (`move.c:1062`). The
  next `parent_loop_check` that gets there goes round through homes
  until the stack is full. Without `Unlooked`, `ParentsAcyclic` is violated at each;
- `do_frob` sends home what the one who frobs carries, not what the victim
  does; `trigger` goes on after a program has recycled its exit, and then sends
  to home NOTHING;
- `prog_can_link_to` tests `OkObj(where < 0)`, which always holds
  (`p_db.c:1101`); `prim_setlink` lets a room be its own dropto.

Not modelled: names, properties, locks, pennies, leaders, MAX_PARENTS (a chain
of 50 locations counts as a loop), other players' messages.

## 9. Checks and repairs: `Sanity.tla`

`Sanchange` writes any object number, or one beyond the array, into a field of
any object; `Check` is `@sanity`, which answers "nothing" or "violations", or
calls itself for ever (`down`); `Sanfix` is the whole of `@sanfix`: the cuts of
the lists, `fix_room`, `fix_thing`, `fix_player`, `fix_exit`, the search for
orphans and the repair of the free list, in the code's order, each on what the
one before left. None runs programs, so each is one action.

- `Repaired` - what `@sanfix` leaves is sound: lists agree with locations, owners
  are players, homes are places, the free list is the garbage, everything's
  locations lead to #0. A thing holds its own home only if it did before, or if
  its home was bad and its owner was put there. The repairs follow the very
  fields that are damaged.
- `Detects` - a database in which one field names the wrong object is never
  called clean.
- `Cautious` - what had a good place, owner or home keeps it, and a sound
  database is left as it is but for the owner of garbage and the location of #0.

`SFix`: two sound databases of up to nine objects, one with a player inside a
thing, and any two changes of any of six fields: next, exits, contents, location,
owner, and home or dropto. Two changes are what it takes
to make a list end in another's, to break a list and the place it belongs to, to
put a loop beside a break, or to spoil a home and move the owner into the thing.
The bounds end behaviours, hence no deadlock check.

Where the code does something else: `fix_thing` gives a thing with a bad home its
owner as home without the check for loops (`sanity.c:790`), so a repaired
database can have one (the last conjunct of `Repaired` excuses such a thing, and
no other); a thing whose home is itself makes `@sanity` call itself
until the stack overflows; `@sanity` does not see a wrong location of #0 or rings
off every list; an owner of garbage is not looked at; `fix_exit` loses good
destinations when three or more are shifted; `find_orphan_objects` indexes its
array with numbers that have not been tested (`sanity.c:223`).

## 10. Dumps: `Dumps.tla`

An object is its property list, and that a version number. The default build
("memory") writes the whole database; the build "disk" has DISKBASE, FLUSHCHANGED
and DELTADUMPS: property lists are read when needed, thrown out when clean and
old, written to a delta file between full dumps, and after a dump their places
are in the new file.

| variable | in the code |
|---|---|
| `props`, `changed`, `delta`, `pos`, `input` | `propsmode` and the list, the flags OBJECT_CHANGED and SAVED_DELTA, `propsfpos` and the file that `input_file` has open |
| `files`, `deltas` | the data directory by name ("in", "out", "out.1", the temporary file, "PANIC", ...), and the file of deltas |
| `pc`, `after`, `todo`, `shift` | where `dump_database_internal`, `db_write_deltas`, the exit and `restart.sh` are |
| `shutdown_flag`, `restart_flag`, `dump_flag` | the globals |
| `truth`, `saved`, `asked`, `cut` | history, for the properties |
| `build`, `copies` | how the server was built, and `tp_dump_copies` |

The server: `SetProperty`, `Fetch`, `CheckCleanTime` (property lists are thrown
out), `DumpDue`, `DumpAsked`, `BeginDeltas`, then one step for every object
written (`WriteObject`, `WriteDelta`), `EndWrite`, one for every rename
(`RenameCopy`, `RenameDump`), `TruncateDeltas`, `EndDump`. The signals:
`SigShutdown`, `SigDump`. Faults: `Panic`, which writes PANIC, and `Killed`, at
any step of the server, of a dump or of the script; a write that fails, which no
code notices. `RunScript`, `UsePanic`, `Archive`, `MoveOut`, `CheckIn`,
`AppendDeltas`, `Start` are `restart.sh` and the server's start, line by line
where a line renames.

- `FetchRight` - reading a property gives what was last stored, wherever it is.
- `Recoverable` - a restart after whatever crash starts, on data no older than
  the last dump completed or the panic dump, save the two exceptions below.
- `AskedIsSaved` (action property) - `dump_flag` is cleared after the dump; a
  request made while one is written is served by it only if the later changes
  are in it. They are: signals are handled between turns.
- `KeepsOne` - however many writes fail, and wherever the server and the script are
  stopped, one file is left that is whole.
- `ComesBack` (liveness) - a restart that was asked for ends with the server
  running.

- `GDumps` checks `FetchRight`, `Recoverable` and `AskedIsSaved`: two objects (while
  one is being written the other can change), changed twice each. In the default
  build there are two crashes (one in a dump or at rest, one in the recovery), in the
  build "disk" two delta dumps, so that a list is in one, in a later one and in a
  full dump. `MaxCrashes` is 0 for the build "disk" there: a server that starts takes
  what it has read to be the truth, and `Recoverable` speaks of orderly ends in this
  build; `GBack` has its crashes.
- `GBack` checks `KeepsOne` and `ComesBack` in both builds: one object, one older
  copy, a crash and one failed write.

The first is symmetric in the objects. All of it in one run is beyond five
minutes; the theorems below have none of these bounds. Deadlock is not checked: a server nobody restarts is
at rest.

### Proofs: `DumpsProofs.tla`

From `DumpsAssumption`, for any set of objects, either build or both, and
any numbers of copies, changes, crashes, failed writes and delta dumps:
`OneDumpKept` (`KeepsOne`), `FetchedRight` (`FetchRight`), `ServerRecovers`
(`Recoverable`) and `AskedDumpSaved` (`AskedIsSaved`). The invariants build on
each other, and each was first checked by TLC on small instances:

- `Kinds`: types; what each `pc` may rely on (`Steps`: a rename finds its file, the
  delta file is not empty while it is written, no panic file is left while the
  server runs); and `OneWhole`, that "in" or the newest of the archive is whole,
  which gives `KeepsOne`: the archive is what is left when a truncated dump has
  gone over "in".
- `Settled`: the build without disk properties has all lists in memory and no
  deltas (`InMemory`); which file each offset is in agrees with SAVED_DELTA and with
  how far the dump has come (`Places`); a stopped server leaves nothing
  (`AtRest`). The offsets change one by one while the dump is written, but the file
  they are for is opened at the end only, and `getproperties` may be called in between.
- `Lists`: while no write has failed, each list is in memory in its last version,
  or the file its offset is for has that version (`Right`), and the dump being written
  has the last version of what is written so far (`NewDump`): a list changed after
  it was written cannot be, as turns of the loop are not interleaved with dumps.
  `FetchRight` alone says nothing of a list that is in memory, clean, and may be
  thrown out at the next step.
- `Backed`: the file that the script would take (`Best`) is whole and not older
  than what is saved (`Kept`), at every step of the dump, the exit and the script.
- `Asked`: what is in memory is not older than what was there at the signal.

Only model-checked: `ComesBack`, a liveness property.

### Fairness and exceptions

Fairness. A turn of the loop takes at most some seconds (`LeaveLoop`,
`DumpAsked`), a dump, an exit and the script go on when begun. Nobody has to
send a signal or to run the script after a crash.

Where the code does something else:

- with `dump_copies` above 0 a kill between two renames leaves no "out"
  (`game.c:174-185`), and `restart.sh` starts from the older "in" without a word;
- writes are not checked: a truncated dump is renamed over the good one, and
  moved over "in" before its end marker is looked for; the script then stops,
  and the server stays down until somebody takes a file from the archive. This is
  why `ComesBack` promises nothing once a write has failed, and what `KeepsOne` is for;
- in the disk build a panic in the middle of a dump writes properties from
  places that are no longer theirs; a crash between rename and truncation
  applies old deltas to a newer dump; `restart.sh:51-53` and
  `CHANGESfb5:1088-1092` say the deltas are appended before the restart, but
  `glowmuck -convert` opens the delta file for writing and empties it first
  (`game.c:447`);
- the macro file a panic writes is never read again.

Not modelled: the text of the files, @dump to another name, tunable parameters,
the order of the ring queues (any list old enough may be thrown out).

## 11. Primitives: `MufOps.tla`, `PrimsOnStack/Text/World.tla`, `Primitives.tla`

A primitive is a C function that takes operands off the stack with POP, tests
their types, uses them and frees them with CLEAR, by macros of `interp.h`, with
early ends by `abort_interp`. `MufOps` has these macros as steps and the classes
of values that a test can tell apart (integers by what they count, objects that
exist, are garbage, HOME, NOTHING or no number of the array; strings and null
strings; locks; addresses). The three tables give every primitive as the
sequence of its steps; `Primitives` is the machine: the stack cells, the globals
`oper1..4`, `ref`, `tmp`, `nargs`, who owns which shared value, and one action
for each macro. A step that runs another program (`RunNEST`) leaves in the
globals whatever its primitives may.

- `OperandsTyped` - an operand is read as what its test has shown it to be.
- `OwnOperands` - no operand is read or freed after it was given back, or after a
  nested program has overwritten it.
- `InBounds` - nothing is popped from an empty or pushed on a full stack, no
  count reaches below the bottom.
- `Counted` - the links to strings, locks and addresses are as many as the
  program holds, when a primitive returns and when a program was stopped.

`PPrims`: every primitive once from every stack of values that its tests tell
apart, with enough cells or one too few; a stack of nine cells with the limit
met, counts up to three. Deadlock is checked. What the primitives do between
these steps to objects, processes and connections is in `Objects`, `Timequeue`
and `Descriptors`.

Exceptions, which the properties name because the code does so: INTERP does not
test its string, INTOSTR prints any cell as a number, STATS takes any cell as -1
and reads ops a lock test has overwritten, MOVETO to HOME does not test what is
moved, nor SETLINK from HOME; PLAYER?, THING?, ROOM?, PROGRAM? and EXIT? of #-3
read before the array; SETOWN, CONBOOT, STATS and PROCTIME use operands after
something ran that uses the same globals (`boolexp.c:125`, `p_db.c:1204`,
`p_connects.c:274`, `p_misc.c:403-421`); ROTATE by the least integer
(`p_stack.c:315`); PUT loses a value when the stack is not deep enough
(`p_stack.c:141`), PARSELOCK the lock it pushes a copy of (`p_misc.c:480`).
Division of the least integer by -1 traps (`p_math.c:222`, `271`), and shifts by
32 and more are undefined; amounts are not modelled.

## 12. The compiler: `Compiler.tla`

| variable | in the code |
|---|---|
| `code` | the list from `first_word`: type, and where it jumps |
| `if_stack`, `loop_stack` | the two stacks of addresses to patch |
| `pending` | the calls of `next_word` in progress: BEGIN, THEN, ELSE and ":" compile the word after them before they are finished |
| `curr_proc`, `procs`, `currpubs` | the procedure, the table of procedures, the public names |
| `def`, `ahead`, `macrosubs`, `skipping` | the definition of the macro, what is left of its expansion, the count of substitutions, the directive that skips words |
| `inherited` | history: `def` when the compilation began |
| `text`, `src` | the words read, and the words given to `next_word` |

One action compiles one word (`Compile`, `Refuse`), reads one directive or ends
the text. A behaviour compiles one text after another, so that what a compilation
leaves behind is in the next. An error in a directive (`EnddefAlone`) frees
everything, but only `do_directive` returns: `next_token` reads on (`ReadOn`), in
the line that is freed and then in the rest, and what it finds there may define or
expand something, before `do_compile` looks at `compile_err`. `init_defs` adds
to the definitions that are there, so the next program is compiled with what was
defined so late. `ConditionsRight` reads its text with `inherited` as the
definitions it begins with.

- `JumpsRight` - each control word jumps where counting what opens and closes in
  the text says.
- `IfsStayIn` - a loop does not end around an IF that is open, which would jump
  out of nowhere into its middle.
- `Entries` - calls, quoted names and public names go to the definition meant,
  also after a redefinition; the program starts at the last procedure.
- `ConditionsRight` - of a text with nested `$ifdef`, `$ifndef`, `$else`,
  `$endif` and definitions inside them, just the words of the branches taken are
  compiled. The code skips by counting words.

`CCompile`: all texts of five vocabularies: control structures up to ten words
(two nested structures with a word or two inside), names to eight, macros to
seven, conditions to eight and six. Control words are offered inside a procedure,
openers only while there is room to close. Deadlock is checked.

The preconditions `Plain`, `Apart` and `WellFormed` leave out texts on which the
code does something else: a BEGIN is pushed only after its first word, so WHILE,
BREAK, CONTINUE, UNTIL, REPEAT or ELSE right after it belong to the loop outside,
although the manual describes an empty loop head as legal
(`game/data/man.txt:1740-1743`), and "BEGIN ;" leaves the loop open; ":" as the
first word of a procedure is accepted despite "Definition within definition.";
structures begun between procedures are accepted and left open, and so is "IF
BEGIN THEN UNTIL"; `macrosubs` is not reset when a compilation begins; after an
error in a directive `next_char` points into a line that is freed, and a `$def`
read then is in force in the next program.

Not modelled: variables and their limits, comments, strings, numbers.

## 13. MPI: `MpiOps.tla`, `MpiFuns.tla`, `MpiFuns2.tla`, `Mpi.tla`

As with the primitives, `MpiFuns` and `MpiFuns2` give every function as the
sequence of its steps on arguments, objects and tables, and `Mpi` is the
machine: `mesg_parse` (which calls functions, parses their arguments and perhaps
their results) and `do_parse_mesg_2`, which begins a message.

| variable | in the code |
|---|---|
| `stack`, `ret` | the C calls: messages and levels of `mesg_parse` with the function they run, and what the innermost has returned |
| `varv`, `funcc` | the table of variables, whose entries point to buffers of C frames, and the number of functions |
| `mesg_rec_cnt`, `mesg_instr_cnt` | levels and functions counted |
| `match` | whose text `match_args` and `match_cmdname` hold |
| `mpi_muf_call_levels`, `denied`, `force_level` | nesting of `{muf}`, how often it was refused, of `{force}` |

An error makes every level return NULL, up to `do_parse_mesg_2`, which puts the
tables back.

- `VariablesRight` - a variable's buffer belongs to a call still running, and a
  function gives back as many as it made, whatever failed in its arguments.
- `HowLive` - the report of an error finds the name of the message's kind in a
  buffer that is there.
- `OperandsExist` - no function reads an argument it was not given, nor an object
  before the answers of its lookup that are no objects were turned away.
- `CountersRight` - levels are those running, and at rest everything is zero.

`MParse`: texts call every function; arguments call `{with}`, `{func}`, `{muf}`
and `{force}`, the ones that make variables and functions or run something that
parses messages. Two levels (the code has 26, or 6), a table of five variables (32),
one function (32), three instructions (`tp_mpi_max_commands`), one level of
`{muf}` (18): all limits are met inside an outer message and inside an inner
one. Deadlock is checked; `NewServer` starts over what has leaked.

Where the code does something else: `new_mvar` and `new_mfunc` accept one entry
more than the table has (`msgparse.c:531`, `570`); a message refused because the
table is full leaves "how" and "cmd" behind (`msgparse.c:1162-1178`), and the
functions around it then give back those (`NoneRefused`); a user variable named
"how" makes a report read a C frame that is gone; `{muf}` counts a level before
its test and leaves without counting down (`mfuns2.c:1324`): after 18 refusals
it never works again; `{force}` of several lines keeps its object although a line
may recycle it; that the trigger is garbage is tested only on entry.

Not modelled: the texts themselves, debugging output, profiling.

## 14. What is proved, and what is only model-checked

| module | proved for all values of the constants | only checked by TLC |
|---|---|---|
| `Timequeue` | `TypeOK`, `QueueOrder`, `FramesOwned`, `CountNotOver`, `PlayerLimit`, `InstancesMatch`, `NoDanglingCode`, `ImplementsLife` | `DueLeaves`, `PassEnds` |
| `Descriptors` | `NoDangling`, `CountsMatch`, `PlayerDescrs`, `LoginLimit` | `BootedCloses` |
| `Dumps` | `KeepsOne`, `FetchRight`, `Recoverable`, `AskedIsSaved` | `ComesBack` |
| `Objects` | `NoMetaLoops`; until a program has meddled `ListsAgree`, `FreeListSound`, `References`, `ParentsAcyclic` | |
| `Sanity` | | all three: RECURSIVE operators (the walks of `sanity.c`) |
| `Primitives`, `Mpi`, `Compiler` | | all: what they say depends on tables of steps and on texts, data of which TLC goes through every element |

What is in the right column because of the tools: liveness under fairness, and
what is defined by recursion over data. The rest of it is work not done.

## 15. Not modelled

- The MUF debugger and the line editor: state of one player that no other part
  reads. (Seen on reading: `do_prog` does not mark a new program INTERNAL while
  it is edited; `insert` at the beginning does not set `prev` of the line that
  was first.)
- The balanced trees of `property.c` and `props.c`, hashing, compression, string
  matching and formatting: pure functions on data, sets or values here.
- The resolver: a cache whose answers are displayed. Speech, help, mail:
  output. The MUD extension is off in the default build (`local.h:129`).
- Output queues and the pager; the exact quota of commands.
- The `instr` cells that push and jump in `interp_loop`, and the debugger's hooks.

The process table and the object graph are not composed: what a recycled
location means for a queued message is argued from the code (`move.c:941`), not
checked.
