-------------------------------- MODULE Dumps --------------------------------
(***************************************************************************)
(* What of the database is in memory and what is in which file: the dumps  *)
(* of game.c and db.c, the property lists diskprop.c keeps on disk, the    *)
(* signals, and the script bin/restart.sh that picks the file to start     *)
(* from.  An object is its property list, and that a version number.       *)
(*                                                                         *)
(* Two builds: "memory", the default one, and "disk", with DISKBASE,       *)
(* FLUSHCHANGED and DELTADUMPS.  The macros, written in the same way, are  *)
(* left out, and so are the tunable parameters and @dump to another file.  *)
(*                                                                         *)
(* Faults: the process is killed (kill -9) or panics at any step, and a    *)
(* write to a file fails, which no code notices.                           *)
(***************************************************************************)
EXTENDS Integers, Sequences, FiniteSets

CONSTANTS
    Obj,           \* the objects
    Builds,        \* the builds: a subset of {"memory", "disk"}
    Crashes,       \* how the server may end: a subset of {"panic", "kill"}
    MaxCopies,     \* bound: dump_copies is one of 0 .. MaxCopies
    MaxChanges,    \* bound: so often is an object changed
    MaxCrashes,    \* bound: so often is a server, by its build, or the script killed, or panics
    MaxFull,       \* bound: so many writes fail
    MaxDeltas      \* bound: so many delta dumps in a file

ASSUME DumpsAssumption ==
    /\ Builds \subseteq {"memory", "disk"} /\ Crashes \subseteq {"panic", "kill"} /\ MaxCopies \in 0 .. 3
    /\ {MaxChanges, MaxFull, MaxDeltas} \subseteq Nat /\ MaxCrashes \in [Builds -> Nat]

VARIABLES
    build,
    copies,     \* tp_dump_copies
    pc,         \* what runs: a step of the server or of restart.sh, or nothing
    after,      \* where dump_database_internal returns to
    todo,       \* the objects db_write_list has yet to come to
    shift,      \* the copy that is renamed next
    truth,      \* the version each object should have (history)
    props,      \* the property lists in memory: propsmode, and the version
    changed,    \* the objects with OBJECT_CHANGED
    delta,      \* the objects with SAVED_DELTA
    pos,        \* the file propsfpos is an offset in
    input,      \* the contents of the file that input_file has open
    files,      \* the files of the data directory, by name
    deltas,     \* the file of delta dumps: a sequence of dumps
    shutdown_flag, restart_flag, dump_flag,
    asked,      \* the versions when dump_flag was last set (history)
    saved,      \* the versions that are safe on disk (history)
    cut,        \* ended when there was no "out", between two renames (history)
    crashes, fulls           \* counters for the bounds

memory == <<truth, props, changed, delta, pos, input>>
disk   == <<files, deltas>>
flags  == <<shutdown_flag, restart_flag, dump_flag, asked>>
bounds == <<cut, crashes, fulls>>
vars   == <<build, copies, pc, after, todo, shift, memory, disk, flags, saved, bounds>>

------------------------------------------------------------------------------
(* Files. A dump is what was written so far, and its end marker.           *)

NoFile  == [objs |-> <<>>, whole |-> FALSE, there |-> FALSE]
Empty   == [NoFile EXCEPT !.there = TRUE]
Copy(k) == IF k = 0 THEN "out" ELSE <<"out.1", "out.2", "out.3">>[k]
Names   == {"tmp", "in", "old", "panic"} \union {Copy(k) : k \in 0 .. MaxCopies}
Garbage == -1
Unasked == [o \in Obj |-> Garbage]

\* One dump after another, the later ones on top.
Over(f, g) ==
    [o \in DOMAIN f \union DOMAIN g |-> IF o \in DOMAIN g THEN g[o] ELSE f[o]]

Put(file, o, v) == [file EXCEPT !.objs = Over(@, [x \in {o} |-> v])]
Closed(file)    == [file EXCEPT !.whole = DOMAIN file.objs = Obj]

InDeltas(o) == {i \in 1 .. Len(deltas) : o \in DOMAIN deltas[i].objs}

\* The last of the dumps with these numbers.
Latest(S) == CHOOSE i \in S : \A j \in S : j <= i

------------------------------------------------------------------------------
(* Memory.                                                                 *)

\* The version of o that getproperties finds on disk: it takes the file by
\* SAVED_DELTA, and the offset in it by propsfpos.
OnDisk(o) ==
    IF o \in delta
    THEN IF pos[o] = "delta" /\ InDeltas(o) # {}
         THEN deltas[Latest(InDeltas(o))].objs[o]
         ELSE Garbage
    ELSE IF pos[o] = "input" /\ o \in DOMAIN input.objs THEN input.objs[o] ELSE Garbage

Unloaded == [mode |-> "unloaded", ver |-> 0]
Val(o)   == IF props[o] = Unloaded THEN OnDisk(o) ELSE props[o].ver

\* Mutant of Disposable: whatever is old is thrown out.
DisposableAll(p) == Obj

\* disposeprops_notime: what is neither changed nor already on disk only.
Disposable(p) == {o \in Obj : p[o].mode = "loaded"}

\* disposeprops: S, the old ones, are thrown out.
Disposed(p, S) == [o \in Obj |-> IF o \in S THEN Unloaded ELSE p[o]]

\* undirtyprops: what is written out need not be kept any more.
Undirtied(o) == [props EXCEPT ![o].mode = IF @ = "changed" THEN "loaded" ELSE @]

\* The property lists of a server that has just read its database.
Read(ver) ==
    [o \in Obj |-> IF build = "disk" THEN Unloaded ELSE [mode |-> "changed", ver |-> ver[o]]]

------------------------------------------------------------------------------
(* The server between two commands.                                        *)

Running == {"loop", "write", "copies", "rename", "reopen", "done", "deltas", "exit"}
Script  == {"panic", "archive", "move", "check", "append", "start"}

Init ==
    /\ build \in Builds /\ copies \in 0 .. MaxCopies
    /\ pc = "loop" /\ after = "loop" /\ todo = {} /\ shift = 0
    /\ truth = [o \in Obj |-> 0] /\ props = Read(truth)
    /\ changed = {} /\ delta = {}
    /\ pos = [o \in Obj |-> "input"]
    /\ input = [objs |-> truth, whole |-> TRUE, there |-> TRUE]
    /\ files = [f \in Names |-> IF f = "in" THEN input ELSE NoFile]
    /\ deltas = <<>>
    /\ shutdown_flag = FALSE /\ restart_flag = FALSE /\ dump_flag = FALSE
    /\ asked = Unasked /\ saved = truth
    /\ cut = FALSE /\ crashes = 0 /\ fulls = 0

\* set_property: the list is fetched and changed. housecleanprops may throw
\* others out of memory before.
SetProperty(o) ==
    /\ pc = "loop" /\ truth[o] < MaxChanges
    /\ truth' = [truth EXCEPT ![o] = @ + 1]
    /\ changed' = changed \union {o}
    /\ \E S \in SUBSET (IF props[o] = Unloaded THEN Disposable(props) ELSE {}) :
        props' = [Disposed(props, S) EXCEPT ![o] =
            [mode |-> "changed", ver |-> IF Val(o) = truth[o] THEN truth[o] + 1 ELSE Garbage]]
    /\ UNCHANGED <<build, copies, pc, after, todo, shift, delta, pos, input, disk, flags, saved, bounds>>

\* fetchprops
Fetch(o) ==
    /\ pc = "loop" /\ props[o] = Unloaded
    /\ \E S \in SUBSET Disposable(props) :
        props' = [Disposed(props, S) EXCEPT ![o] = [mode |-> "loaded", ver |-> OnDisk(o)]]
    /\ UNCHANGED <<build, copies, pc, after, todo, shift, truth, changed, delta, pos, input,
                   disk, flags, saved, bounds>>

\* check_clean_time
CheckCleanTime ==
    /\ pc = "loop"
    /\ \E S \in SUBSET Disposable(props) : S # {} /\ props' = Disposed(props, S)
    /\ UNCHANGED <<build, copies, pc, after, todo, shift, truth, changed, delta, pos, input,
                   disk, flags, saved, bounds>>

------------------------------------------------------------------------------
(* A dump.                                                                 *)

\* Mutant of BeginDump: only what has changed since the last dump is written.
BeginDumpChanged(ret) ==
    /\ after' = ret
    /\ pc' = "write" /\ todo' = changed /\ files' = [files EXCEPT !["tmp"] = Empty]
    /\ UNCHANGED <<build, copies, shift, memory, deltas, cut, crashes, fulls>>

\* dump_database_internal begins, and returns to ret. Nothing is written when
\* the file cannot be opened.
BeginDump(ret) ==
    /\ after' = ret
    /\ \/ pc' = "write" /\ todo' = Obj /\ files' = [files EXCEPT !["tmp"] = Empty] /\ UNCHANGED fulls
       \/ fulls < MaxFull /\ fulls' = fulls + 1 /\ pc' = "done" /\ UNCHANGED <<todo, files>>
    /\ UNCHANGED <<build, copies, shift, memory, deltas, cut, crashes>>

\* check_dump_time, in the build without delta dumps or when it is time for all
DumpDue ==
    /\ pc = "loop" /\ BeginDump("loop") /\ UNCHANGED <<flags, saved>>

\* shovechars: dump_flag is cleared after the dump.
DumpAsked ==
    /\ pc = "loop" /\ dump_flag
    /\ BeginDump("loopAsked") /\ UNCHANGED <<flags, saved>>

\* main, after shovechars has seen shutdown_flag
LeaveLoop ==
    /\ pc = "loop" /\ shutdown_flag
    /\ BeginDump("exit") /\ UNCHANGED <<flags, saved>>

\* db_write_object: the object's turn in db_write_list. In the build with
\* property lists on disk the offset is set to the one in the new file, and the
\* list may be thrown out of memory.
WriteObject(o) ==
    /\ pc = "write" /\ o \in todo /\ todo' = todo \ {o}
    /\ \/ files' = [files EXCEPT !["tmp"] = Put(@, o, Val(o))] /\ UNCHANGED fulls
       \/ fulls < MaxFull /\ fulls' = fulls + 1 /\ UNCHANGED files
    /\ changed' = changed \ {o}
    /\ IF build = "memory" THEN UNCHANGED <<props, pos, delta>>
       ELSE /\ pos' = [pos EXCEPT ![o] = "tmp"]
            /\ delta' = delta \ {o}
            /\ \E S \in SUBSET ({o} \intersect Disposable(Undirtied(o))) :
                props' = Disposed(Undirtied(o), S)
    /\ UNCHANGED <<build, copies, pc, after, shift, truth, input, deltas, flags, saved, cut, crashes>>

\* The end marker; tp_dump_copies_decay lets fewer copies be moved.
EndWrite ==
    /\ pc = "write" /\ todo = {}
    /\ files' = [files EXCEPT !["tmp"] = Closed(@)]
    /\ IF copies = 0 THEN pc' = "rename" /\ UNCHANGED shift
       ELSE pc' = "copies" /\ shift' \in 1 .. copies
    /\ UNCHANGED <<build, copies, after, todo, memory, deltas, flags, saved, bounds>>

Renamed(f, from, to) == IF f[from].there THEN [f EXCEPT ![to] = f[from], ![from] = NoFile] ELSE f

\* One rename of the copies.
RenameCopy ==
    /\ pc = "copies"
    /\ files' = Renamed(files, Copy(shift - 1), Copy(shift))
    /\ shift' = shift - 1
    /\ pc' = IF shift = 1 THEN "rename" ELSE "copies"
    /\ UNCHANGED <<build, copies, after, todo, memory, deltas, flags, saved, bounds>>

\* The new dump gets its name, and becomes input_file.
RenameDump ==
    /\ pc = "rename"
    /\ files' = Renamed(files, "tmp", "out")
    /\ IF build = "memory" THEN pc' = "done" /\ UNCHANGED <<pos, input>>
       ELSE /\ pc' = "reopen" /\ input' = files["tmp"]
            /\ pos' = [o \in Obj |-> IF pos[o] = "tmp" THEN "input" ELSE "nowhere"]
    /\ UNCHANGED <<build, copies, after, todo, shift, truth, props, changed, delta, deltas,
                   flags, saved, bounds>>

\* The delta dumps are of an older dump now.
TruncateDeltas ==
    /\ pc = "reopen" /\ pc' = "done" /\ deltas' = <<>>
    /\ UNCHANGED <<build, copies, after, todo, shift, memory, files, flags, saved, bounds>>

\* dispose_all_oldprops, and the return
EndDump ==
    /\ pc = "done" /\ pc' = IF after = "exit" THEN "exit" ELSE "loop"
    /\ after' = "loop"
    /\ \E S \in SUBSET (IF build = "disk" THEN Disposable(props) ELSE {}) : props' = Disposed(props, S)
    /\ IF after = "loopAsked" THEN dump_flag' = FALSE /\ asked' = Unasked ELSE UNCHANGED <<dump_flag, asked>>
    /\ saved' = IF files["out"].whole THEN [o \in Obj |-> files["out"].objs[o]] ELSE saved
    /\ UNCHANGED <<build, copies, todo, shift, truth, changed, delta, pos, input, disk,
                   shutdown_flag, restart_flag, bounds>>

\* dump_deltas, when it is not time for a full dump
BeginDeltas ==
    /\ pc = "loop" /\ build = "disk" /\ Len(deltas) < MaxDeltas
    /\ pc' = "deltas" /\ todo' = changed /\ deltas' = Append(deltas, Empty)
    /\ UNCHANGED <<build, copies, after, shift, memory, files, flags, saved, bounds>>

\* db_write_object in a delta dump
WriteDelta(o) ==
    /\ pc = "deltas" /\ o \in todo /\ todo' = todo \ {o}
    /\ deltas' = [deltas EXCEPT ![Len(deltas)] = Put(@, o, Val(o))]
    /\ changed' = changed \ {o} /\ delta' = delta \union {o}
    /\ pos' = [pos EXCEPT ![o] = "delta"]
    /\ \E S \in SUBSET ({o} \intersect Disposable(Undirtied(o))) : props' = Disposed(Undirtied(o), S)
    /\ UNCHANGED <<build, copies, pc, after, shift, truth, input, files, flags, saved, bounds>>

EndDeltas ==
    /\ pc = "deltas" /\ todo = {} /\ pc' = "loop"
    /\ deltas' = [deltas EXCEPT ![Len(deltas)].whole = TRUE]
    /\ saved' = Over(saved, deltas[Len(deltas)].objs)
    /\ UNCHANGED <<build, copies, after, todo, shift, memory, files, flags, bounds>>

------------------------------------------------------------------------------
(* Signals and the end of the process.                                     *)

\* The server's memory is gone.
Gone ==
    /\ after' = "loop" /\ todo' = {} /\ shift' = 0
    /\ truth' = saved /\ props' = Read(saved)
    /\ changed' = {} /\ delta' = {} /\ pos' = [o \in Obj |-> "input"] /\ input' = NoFile
    /\ shutdown_flag' = FALSE /\ restart_flag' = FALSE /\ dump_flag' = FALSE
    /\ asked' = Unasked

\* The older dump is a copy already, and the new one has not got its name.
NoOut == pc = "rename" /\ copies > 0

\* sig_shutdown, sig_restart
SigShutdown(restart) ==
    /\ pc \in Running /\ ~shutdown_flag
    /\ shutdown_flag' = TRUE /\ restart_flag' = restart
    /\ UNCHANGED <<build, copies, pc, after, todo, shift, memory, disk, dump_flag, asked, saved, bounds>>

\* sig_dump
SigDump ==
    /\ pc \in Running /\ ~shutdown_flag
    /\ dump_flag' = TRUE /\ asked' = truth
    /\ UNCHANGED <<build, copies, pc, after, todo, shift, memory, disk, shutdown_flag, restart_flag, saved,
                   bounds>>

\* bailout and panic: everything is written to a file of its own. What is in
\* no file that is open is garbage; and the dump may end early, when another
\* signal comes in the middle of it.
Panic ==
    /\ "panic" \in Crashes /\ pc \in Running /\ pc' = "down" /\ crashes < MaxCrashes[build] /\ crashes' = crashes + 1
    /\ LET whole == [objs |-> [o \in Obj |-> Val(o)], whole |-> TRUE, there |-> TRUE] IN
       \/ /\ files' = [files EXCEPT !["panic"] = whole] /\ deltas' = <<>>
          /\ saved' = IF build = "memory" \/ pc = "loop" THEN truth ELSE saved
          /\ UNCHANGED fulls
       \/ files' = [files EXCEPT !["panic"] = Empty] /\ UNCHANGED <<deltas, saved, fulls>>
       \/ /\ fulls < MaxFull /\ fulls' = fulls + 1
          /\ files' = [files EXCEPT !["panic"] = Empty] /\ deltas' = <<>> /\ UNCHANGED saved
    /\ cut' = (cut \/ (NoOut /\ ~files'["panic"].whole))
    /\ Gone /\ UNCHANGED <<build, copies>>

\* kill -9, and the loss of power
Killed ==
    /\ "kill" \in Crashes /\ pc \in Running \union Script /\ pc' = "down" /\ crashes < MaxCrashes[build] /\ crashes' = crashes + 1
    /\ cut' = (cut \/ NoOut)
    /\ Gone /\ UNCHANGED <<build, copies, disk, saved, fulls>>

\* Mutant of Exit: restart_flag is forgotten.
ExitDown ==
    /\ pc = "exit" /\ deltas' = <<>> /\ pc' = "down"
    /\ Gone /\ UNCHANGED <<build, copies, files, saved, bounds>>

\* The end of main: the delta dumps are not needed any more; restart_flag
\* executes the script in the server's place.
Exit ==
    /\ pc = "exit" /\ deltas' = <<>>
    /\ pc' = IF restart_flag THEN "panic" ELSE "down"
    /\ Gone /\ UNCHANGED <<build, copies, files, saved, bounds>>

------------------------------------------------------------------------------
(* bin/restart.sh, with DBIN as "in", DBOUT as "out", DBOLD as "old".      *)

RunScript ==
    /\ pc = "down" /\ pc' = "panic"
    /\ UNCHANGED <<build, copies, after, todo, shift, memory, disk, flags, saved, bounds>>

\* Mutant of UsePanic: the end marker is not looked for.
UsePanicAny ==
    /\ pc = "panic" /\ pc' = "archive"
    /\ files' = Renamed(files, "panic", "out")
    /\ deltas' = IF files["panic"].there THEN <<>> ELSE deltas
    /\ UNCHANGED <<build, copies, after, todo, shift, memory, flags, saved, bounds>>

\* A whole panic dump is the newest there is.
UsePanic ==
    /\ pc = "panic" /\ pc' = "archive"
    /\ files' = IF files["panic"].whole THEN Renamed(files, "panic", "out")
                ELSE [files EXCEPT !["panic"] = NoFile]
    /\ deltas' = IF files["panic"].whole THEN <<>> ELSE deltas
    /\ UNCHANGED <<build, copies, after, todo, shift, memory, flags, saved, bounds>>

\* Mutant of Archive: the last database is not kept.
ArchiveNot ==
    /\ pc = "archive" /\ pc' = "move"
    /\ UNCHANGED <<build, copies, after, todo, shift, memory, disk, flags, saved, bounds>>

\* The last database is archived by the server itself, started with -convert:
\* init_game opens the file of delta dumps for writing. ("old" is the newest
\* of the archived ones.)
Archive ==
    /\ pc = "archive" /\ pc' = "move"
    /\ IF files["out"].there /\ files["in"].there
       THEN /\ deltas' = IF build = "disk" THEN <<>> ELSE deltas
            /\ files' = IF files["in"].whole THEN [files EXCEPT !["old"] = files["in"]] ELSE files
       ELSE UNCHANGED disk
    /\ UNCHANGED <<build, copies, after, todo, shift, memory, flags, saved, bounds>>

MoveOut ==
    /\ pc = "move" /\ pc' = "check" /\ files' = Renamed(files, "out", "in")
    /\ UNCHANGED <<build, copies, after, todo, shift, memory, deltas, flags, saved, bounds>>

\* A database without its end marker is not started.
CheckIn ==
    /\ pc = "check" /\ pc' = IF files["in"].whole THEN "append" ELSE "aborted"
    /\ UNCHANGED <<build, copies, after, todo, shift, memory, disk, flags, saved, bounds>>

\* The delta dumps that are whole are appended to the database: what comes
\* later counts.
AppendDeltas ==
    /\ pc = "append" /\ pc' = "start" /\ deltas' = <<>>
    /\ LET whole(o) == {i \in InDeltas(o) : deltas[i].whole} IN
       files' = [files EXCEPT !["in"].objs =
           [o \in Obj |-> IF whole(o) = {} THEN @[o] ELSE deltas[Latest(whole(o))].objs[o]]]
    /\ UNCHANGED <<build, copies, after, todo, shift, memory, flags, saved, bounds>>

\* The server starts: init_game and db_read.
Start ==
    /\ pc = "start" /\ pc' = "loop"
    /\ truth' = [o \in Obj |-> files["in"].objs[o]] /\ props' = Read(truth')
    /\ input' = files["in"] /\ deltas' = <<>>
    /\ UNCHANGED <<build, copies, after, todo, shift, changed, delta, pos, files, flags, saved, bounds>>

------------------------------------------------------------------------------
Dump ==
    \/ (\E o \in Obj : WriteObject(o) \/ WriteDelta(o))
    \/ EndWrite \/ RenameCopy \/ RenameDump \/ TruncateDeltas \/ EndDump \/ EndDeltas

Restart == UsePanic \/ Archive \/ MoveOut \/ CheckIn \/ AppendDeltas \/ Start

Next ==
    \/ (\E o \in Obj : SetProperty(o) \/ Fetch(o))
    \/ CheckCleanTime \/ DumpDue \/ BeginDeltas \/ DumpAsked \/ LeaveLoop
    \/ Dump \/ Exit \/ RunScript \/ Restart
    \/ (\E restart \in BOOLEAN : SigShutdown(restart))
    \/ SigDump \/ Panic \/ Killed

\* A turn of the loop lasts four seconds at most, and the rest runs without
\* waiting; nobody has to run the script, or to send a signal.
Fairness ==
    /\ WF_vars(LeaveLoop) /\ WF_vars(DumpAsked) /\ WF_vars(Dump) /\ WF_vars(Exit) /\ WF_vars(Restart)

Spec     == Init /\ [][Next]_vars
FairSpec == Spec /\ Fairness

------------------------------------------------------------------------------
(* Properties.                                                             *)

Version == {Garbage} \union 0 .. MaxChanges

Contents(c) ==
    /\ DOMAIN c.objs \subseteq Obj /\ \A o \in DOMAIN c.objs : c.objs[o] \in Version
    /\ c.whole => DOMAIN c.objs = Obj /\ c.there

TypeOK ==
    /\ build \in Builds /\ pc \in Running \union Script \union {"down", "aborted"}
    /\ after \in {"loop", "loopAsked", "exit"}
    /\ todo \subseteq Obj /\ shift \in 0 .. MaxCopies
    /\ truth \in [Obj -> Version]
    /\ props \in [Obj -> [mode : {"unloaded", "loaded", "changed"}, ver : Version]]
    /\ changed \subseteq Obj /\ delta \subseteq Obj
    /\ pos \in [Obj -> {"input", "delta", "tmp", "nowhere"}]
    /\ \A f \in Names : Contents(files[f])
    /\ \A i \in 1 .. Len(deltas) : deltas[i].whole => DOMAIN deltas[i].objs \subseteq Obj

\* Nothing is lost while the server runs: wherever a property list is, reading
\* it gives what was last stored. (After a failed write it may not.)
FetchRight == pc = "loop" /\ fulls = 0 => \A o \in Obj : Val(o) = truth[o]

\* Whatever happens to the server and the script, restarting ends with the
\* server running, on data no older than the last dump that was done, or than
\* the panic dump; unless the server is killed between two renames, or at all
\* in the build with delta dumps.
Recoverable ==
    fulls = 0 /\ ~cut /\ (build = "memory" \/ crashes = 0)
        => pc # "aborted" /\ (pc = "loop" => \A o \in Obj : truth[o] >= saved[o])

\* A dump that was asked for by a signal is not lost, although dump_flag is
\* cleared only after the dump: what was there when the signal came is saved.
AskedIsSaved ==
    [][dump_flag /\ ~dump_flag' /\ pc' = "loop" /\ fulls = 0 => \A o \in Obj : saved'[o] >= asked[o]]_vars

\* Failed writes cost at most the dump they failed in: however many fail, and
\* wherever the server and the script are stopped, one file is left that is
\* whole, which means that it holds every object.
KeepsOne == TypeOK /\ \E f \in Names : files[f].whole

\* A restart that was asked for ends with the server running again.
ComesBack == shutdown_flag /\ restart_flag ~> pc = "loop" \/ crashes > 0 \/ fulls > 0
==============================================================================
