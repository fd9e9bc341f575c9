------------------------------- MODULE Objects -------------------------------
(***************************************************************************)
(* The object graph of the server: where every object is, the contents     *)
(* and exits lists that say it again, homes, droptos and the destinations  *)
(* of exits, owners, and the free list of recycled objects (db.c, move.c,  *)
(* create.c, and the building commands and primitives that call them).     *)
(*                                                                         *)
(* The code runs programs in the middle of its own operations: enter_room  *)
(* runs the depart and arrive programs, look runs descriptions, locks and  *)
(* messages run programs before a move.  Those programs may execute every  *)
(* command.  An operation that calls them is cut at the call: what is left *)
(* of it waits on "stack", under a "prog" frame from which commands run.   *)
(*                                                                         *)
(* Permissions, costs and quotas are left open: any player or thing may be *)
(* the actor of any command, and flags (STICKY, ZOMBIE, jail) are choices  *)
(* made when they are read.  Names, properties, locks, money and leaders   *)
(* are not part of the graph.  #0 is the global environment and the player *)
(* start, #1 the Man, as the tune parameters have them by default.         *)
(***************************************************************************)
EXTENDS ObjectGraph, Sequences

CONSTANTS
    MaxDepth,        \* bound: a program issues a command only below this depth
    MaxCommands,     \* bound: so many commands are given, by players and programs
    Kinds            \* the types of objects that the run creates

ASSUME BoundsAssumption ==
    /\ MaxDepth \in Nat /\ MaxCommands \in Nat
    /\ Kinds \subseteq {"room", "player", "thing", "exit", "program"}

VARIABLES
    db,      \* the array of objects (see ObjectGraph)
    stack,   \* what is left of the operations in progress, innermost first
    given,   \* how many commands were given (a bound, not in the code)
    meddled  \* a program has reached into a pending operation (history, see Minds)

vars == <<db, stack, given, meddled>>

------------------------------------------------------------------------------
(* Pending operations.                                                     *)

Ops == {"prog", "put", "drop", "enter", "left", "send", "exits", "emptying", "frob", "purge"}

\* What is left of an operation: on obj, toward to; cur is the object its
\* loop has come to, n the rest of a loop limit or a flag.
Frame(op, obj, to, cur, n) == [op |-> op, obj |-> obj, to |-> to, cur |-> cur, n |-> n]

Prog == Frame("prog", NOTHING, NOTHING, NOTHING, 0)

Top  == stack[1]
Rest == Tail(stack)
Goto(frame) == <<frame>> \o Rest      \* the operation on top goes on as frame

\* The objects recycle() has begun to take apart.
Dying == {stack[i].obj : i \in {j \in 1 .. Len(stack) : stack[j].op = "emptying"}}

\* Commands come from players when nothing is in progress, and from programs.
Commands ==
    /\ given < MaxCommands /\ given' = given + 1
    /\ stack # <<>> => Top.op = "prog" /\ Len(stack) <= MaxDepth

Handle(op) == stack # <<>> /\ Top.op = op /\ UNCHANGED <<given, meddled>>

\* The code does not keep a program from commands about the very objects that
\* the operation it runs in is about, and goes on with them when it returns. No
\* action forbids them either; the first one is only noted in meddled. Such a
\* command recycles, frobs or purges what a pending operation is about, or the
\* place of an object that is being recycled, ...
LeavesAlone(x) ==
    /\ \A i \in 1 .. Len(stack) : x \notin {stack[i].obj, stack[i].to, stack[i].cur}
    /\ \A y \in Dying : x # db.loc[y]

\* ... or names, moves or fills an object that is being recycled, ...
NotDying(x) == x \notin Dying

\* ... or makes something pending the property of a player who is purged.
MayGive(x, p) ==
    (\E i \in 1 .. Len(stack) : stack[i].op = "purge" /\ stack[i].obj = p) => LeavesAlone(x)

Minds(harmless) == meddled' = (meddled \/ ~harmless)

Players == Of(db, "player")
Things  == Of(db, "thing")
Places  == Of(db, "room") \union Players \union Things
Actors  == Players \union Things

------------------------------------------------------------------------------
(* Building.                                                               *)

\* A new object x of type t, first on the list of its location.
Add(t, list, at, o, h) == PushOn(NewObject(db, t, at, o, h), list, at, NewRef(db))

\* do_create: a thing, carried by the actor; its home is where the actor is,
\* when the actor controls that, or the actor.
CreateThing ==
    /\ Commands /\ HasRoom(db) /\ "thing" \in Kinds
    /\ \E a \in Actors : \E h \in {db.loc[a], a} \ {NOTHING} :
        /\ Minds(NotDying(a) /\ NotDying(h))
        /\ db' = Add("thing", "contents", a, db.owner[a], h)
        /\ UNCHANGED stack

\* prim_newobject: a thing, in a room or a player; its home is where the
\* program's player is, or that player's home.
PrimNewObject ==
    /\ Commands /\ HasRoom(db) /\ "thing" \in Kinds
    /\ \E a \in Actors, at \in Of(db, "room") \union Players :
        \E h \in {db.loc[a], db.link[a]} \ {NOTHING} :
            /\ Minds(NotDying(at) /\ NotDying(h))
            /\ db' = Add("thing", "contents", at, db.owner[a], h)
            /\ UNCHANGED stack

\* do_prog of a new program
CreateProgram ==
    /\ Commands /\ HasRoom(db) /\ "program" \in Kinds
    /\ \E a \in Actors :
        /\ Minds(NotDying(a))
        /\ db' = Add("program", "contents", a, db.owner[a], 0)
        /\ UNCHANGED stack

\* What x is in, and so on outwards.
Outwards(x) ==
    {y \in Obj : \A S \in SUBSET Obj :
        (/\ db.loc[x] \in S \union {NOTHING}
         /\ \A z \in S : db.loc[z] \in S \union {NOTHING}) => y \in S}

\* do_dig: the parent that is named is a room or a thing (can_link_to), if
\* moveto takes it; the default is the first ABODE, whatever it is, around the
\* room the actor is in, or #0. prim_newroom: a room.
CreateRoom ==
    /\ Commands /\ HasRoom(db) /\ "room" \in Kinds
    /\ \E a \in {b \in Actors : db.loc[b] # NOTHING} :
        \E parent \in {p \in Of(db, "room") \union Things : ~ParentLoop(db, NewRef(db), p)}
                      \union Outwards(db.loc[a]) \union {Root} :
            /\ Minds(NotDying(parent))
            /\ db' = Add("room", "contents", parent, db.owner[a], NOTHING)
            /\ UNCHANGED stack

\* do_open: an exit of the room the actor is in; its destination is set by
\* LinkExit.
OpenExit ==
    /\ Commands /\ HasRoom(db) /\ "exit" \in Kinds
    /\ \E a \in Actors :
        /\ db.loc[a] # NOTHING /\ Minds(NotDying(db.loc[a]))
        /\ db' = Add("exit", "exits", db.loc[a], db.owner[a], 0)
        /\ UNCHANGED stack

\* do_action, prim_newexit: an exit of any place.
NewAction ==
    /\ Commands /\ HasRoom(db) /\ "exit" \in Kinds
    /\ \E a \in Actors, source \in Places :
        /\ Minds(NotDying(source))
        /\ db' = Add("exit", "exits", source, db.owner[a], 0)
        /\ UNCHANGED stack

\* create_player
CreatePlayer ==
    /\ Commands /\ HasRoom(db) /\ "player" \in Kinds
    /\ db' = PushOn(NewObject(db, "player", Root, NOTHING, Root),
                    "contents", Root, NewRef(db))
    /\ UNCHANGED <<stack, meddled>>

\* prim_copyobj, copyobj: a copy of a thing, moved to the player.
CopyThing ==
    /\ Commands /\ HasRoom(db) /\ "thing" \in Kinds
    /\ \E t \in Things, a \in Actors :
        /\ Minds(NotDying(a) /\ NotDying(db.link[t]))
        /\ db' = Moveto(NewObject(db, "thing", NOTHING, db.owner[t], db.link[t]),
                        NewRef(db), a)
        /\ UNCHANGED stack

\* do_link and do_open of an exit (link_exit): an unlinked exit
\* gets its destinations, of which one may be something else than a thing or
\* an exit. The exit becomes the actor's.
LinkExit ==
    /\ Commands
    /\ \E e \in Of(db, "exit"), a \in Actors, dests \in SUBSET (Live(db) \union {HOME}) :
        /\ db.dests[e] = {} /\ dests # {} /\ Cardinality(dests) <= 2
        /\ \A c, f \in {g \in dests : g = HOME \/ db.typ[g] \notin {"thing", "exit"}} : c = f
        /\ \A c \in dests \ {HOME} : db.typ[c] = "exit" => ~MetaLoop(db, e, c)
        /\ Minds(\A c \in dests \ {HOME} : NotDying(c))
        /\ db' = [db EXCEPT !.dests = [@ EXCEPT ![e] = dests],
                            !.owner = [@ EXCEPT ![e] = db.owner[a]]]
        /\ UNCHANGED stack

\* do_link of a thing or player: its home.
LinkHome ==
    /\ Commands
    /\ \E x \in Actors, dest \in Places :
        /\ db.typ[x] = "player" => db.typ[dest] = "room"
        /\ ~ParentLoop(db, x, dest) /\ Minds(NotDying(dest))
        /\ db' = [db EXCEPT !.link = [@ EXCEPT ![x] = dest]]
        /\ UNCHANGED stack

\* do_link of a room: its dropto.
LinkDropto ==
    /\ Commands
    /\ \E r \in Of(db, "room"), dest \in Of(db, "room") \union Things \union {HOME} :
        /\ r # dest /\ Minds(NotDying(dest))
        /\ db' = [db EXCEPT !.link = [@ EXCEPT ![r] = dest]]
        /\ UNCHANGED stack

\* do_unlink of an exit, a room or a player.
Unlink ==
    /\ Commands
    /\ \E x \in Live(db) :
        \/ db.typ[x] = "exit" /\ db' = [db EXCEPT !.dests = [@ EXCEPT ![x] = {}]]
        \/ db.typ[x] = "room" /\ db' = [db EXCEPT !.link = [@ EXCEPT ![x] = NOTHING]]
        \/ db.typ[x] = "player" /\ db' = [db EXCEPT !.link = [@ EXCEPT ![x] = Root]]
    /\ UNCHANGED <<stack, meddled>>

\* prim_setlink: #-1 unlinks an exit or a room; an exit not linked gets one
\* destination, a room any room as its dropto, itself too.
PrimSetLink ==
    /\ Commands
    /\ \E x \in Live(db) \ Of(db, "program"), dest \in Live(db) \union {NOTHING} :
        /\ Minds(dest # NOTHING => NotDying(dest))
        /\ \/ /\ db.typ[x] = "exit" /\ dest = NOTHING
              /\ db' = [db EXCEPT !.dests = [@ EXCEPT ![x] = {}]]
           \/ /\ db.typ[x] = "exit" /\ dest # NOTHING /\ db.dests[x] = {} /\ ~MetaLoop(db, x, dest)
              /\ db' = [db EXCEPT !.dests = [@ EXCEPT ![x] = {dest}]]
           \/ /\ db.typ[x] = "room" /\ dest \in Of(db, "room") \union {NOTHING}
              /\ db' = [db EXCEPT !.link = [@ EXCEPT ![x] = dest]]
           \/ /\ db.typ[x] = "player" /\ dest \in Of(db, "room")
              /\ db' = [db EXCEPT !.link = [@ EXCEPT ![x] = dest]]
           \/ /\ db.typ[x] = "thing" /\ dest \in Of(db, "room") \union Players
              /\ ~ParentLoop(db, x, dest)
              /\ db' = [db EXCEPT !.link = [@ EXCEPT ![x] = dest]]
        /\ UNCHANGED stack

\* do_unlink of a thing: its home is its owner again. There is no check.
UnlinkThing ==
    /\ Commands
    /\ \E x \in Things :
        /\ db' = [db EXCEPT !.link = [@ EXCEPT ![x] = db.owner[x]]]
        /\ UNCHANGED <<stack, meddled>>

\* do_chown, prim_setown
Chown ==
    /\ Commands
    /\ \E x \in Live(db) \ Players, p \in Players :
        /\ Minds(MayGive(x, p))
        /\ db' = [db EXCEPT !.owner = [@ EXCEPT ![x] = p]]
        /\ UNCHANGED stack

\* do_attach, prim_moveto of an exit: unset_source, then set_source.
Attach ==
    /\ Commands
    /\ \E e \in Of(db, "exit"), source \in Places :
        /\ db.loc[e] \in Places /\ Minds(NotDying(source))
        /\ db' = PushOn([RemoveFrom(db, "exits", db.loc[e], e)
                            EXCEPT !.loc = [@ EXCEPT ![e] = source]],
                        "exits", source, e)
        /\ UNCHANGED stack

------------------------------------------------------------------------------
(* Moving.                                                                 *)

\* What remains of a command that has looked at the parents: x is put down, or
\* enters, at to. A program may run in between when an after is <<Prog>>.
Going(op, x, to, after) ==
    /\ ~ParentLoop(db, x, to) /\ Minds(NotDying(to) /\ NotDying(x))
    /\ stack' = after \o <<Frame(op, x, to, NOTHING, 0)>> \o stack
    /\ UNCHANGED db

Carried == Things \union Of(db, "program")

\* do_get: the lock of the object may run a program before the actor has it.
Get ==
    /\ Commands
    /\ \E x \in Carried, a \in Actors :
        /\ db.loc[x] # a
        /\ Going("put", x, a, <<Prog>>)

\* do_drop: what an actor carries goes where the actor is, or into a container
\* there or carried.
Drop ==
    /\ Commands
    /\ \E x \in Carried :
        /\ db.loc[x] \in Actors
        /\ \E to \in Places :
            /\ to = db.loc[db.loc[x]] \/ db.loc[to] \in {db.loc[x], db.loc[db.loc[x]]}
            /\ Going("drop", x, to, <<>>)

\* do_teleport, of what is carried, of a player, of a room to its parent. (A
\* puppet is put down and does not enter; "home" is looked up first.)
Teleport ==
    /\ Commands
    /\ \/ \E x \in Carried, to \in Places : Going("drop", x, to, <<>>)
       \/ \E x \in Players, to \in Places : Going("enter", x, to, <<>>)
       \/ \E r \in Of(db, "room") \ {Root}, parent \in Of(db, "room") :
            /\ ~ParentLoop(db, r, parent) /\ Minds(NotDying(parent) /\ NotDying(r))
            /\ db' = Moveto(db, r, parent)
            /\ UNCHANGED stack

\* prim_moveto, except of an exit (Attach): a puppet enters.
PrimMoveto ==
    /\ Commands
    /\ \/ \E x \in Carried, to \in Places \union {HOME} : Going("put", x, to, <<>>)
       \/ \E x \in Actors, to \in Places \union {HOME} : Going("enter", x, to, <<>>)
       \/ \E r \in Of(db, "room") \ {Root}, parent \in Of(db, "room") :
            /\ ~ParentLoop(db, r, parent) /\ Minds(NotDying(parent) /\ NotDying(r))
            /\ db' = Moveto(db, r, parent)
            /\ UNCHANGED stack

\* do_move and trigger, for one destination of an exit: the actor goes to a
\* room, into the vehicle the exit is on, or to where a player is, after the
\* drop message, which may be a program; any other thing is brought to the exit.
Trigger ==
    /\ Commands
    /\ \E e \in Of(db, "exit"), a \in Actors : \E d \in db.dests[e] :
        LET dest == IF d = HOME THEN db.link[a] ELSE d
            on   == db.loc[e]
        IN  \/ /\ db.typ[dest] = "room" \/ (db.typ[dest] = "thing" /\ dest = on)
               /\ Going("enter", a, dest, <<Prog>>)
            \/ /\ db.typ[dest] = "player" /\ db.loc[dest] # NOTHING
               /\ ~ParentLoop(db, a, dest)
               /\ Going("enter", a, db.loc[dest], <<Prog>>)
            \/ /\ db.typ[dest] = "thing" /\ on # NOTHING
               /\ Going("put", dest, IF db.typ[on] = "thing" THEN db.loc[on] ELSE on, <<>>)

\* do_leave
Leave ==
    /\ Commands
    /\ \E a \in Actors :
        LET from == db.loc[a] IN
        /\ from \in Actors /\ db.loc[from] \in Of(db, "room") \union Things
        /\ Going("enter", a, db.loc[from], <<>>)

\* The move itself; a room with a dropto passes on what is dropped into it.
PutDown ==
    /\ Handle("put") \/ Handle("drop")
    /\ Top.to = HOME => HasHome(db, Top.obj)
    /\ \E to \in {Top.to} \union
            (IF Top.op = "drop" /\ Top.to # HOME /\ db.typ[Top.to] = "room" /\ db.link[Top.to] # NOTHING
             THEN {db.link[Top.to]} ELSE {}) :
        db' = Moveto(db, Top.obj, to)
    /\ stack' = Rest

\* send_home: the contents of a player, and of a puppet that asked for it, go
\* home first.
SendHome ==
    /\ Commands
    /\ \E x \in Actors, op \in {"enter", "put"} :
        /\ db.typ[x] = "player" => op = "enter"
        /\ Minds(NotDying(x))
        /\ stack' = <<Frame("send", x, HOME, NOTHING, 1),
                      Frame(op, x, HOME, NOTHING, 0)>> \o stack
        /\ UNCHANGED db

\* enter_room, as far as the departure programs; a guest in jail stays.
EnterRoom ==
    /\ Handle("enter")
    /\ LET x   == Top.obj
           loc == IF Top.to = HOME THEN db.link[x] ELSE Top.to
           old == db.loc[x]
       IN  \/ /\ loc # old
              /\ db' = Moveto(db, x, loc)
              /\ stack' = <<Prog, Frame("left", old, NOTHING, NOTHING, 0), Prog>> \o Rest
           \/ /\ stack' = Goto(Prog)
              /\ UNCHANGED db

\* enter_room after the departure programs: the contents of a STICKY room with
\* a dropto go through it when no player is there (maybe_dropto).
MaybeDropto ==
    /\ Handle("left")
    /\ LET old == Top.obj IN
       \/ /\ old # NOTHING /\ db.typ[old] = "room" /\ db.link[old] # NOTHING
          /\ ~ParentLoop(db, old, db.link[old])
          /\ Chain(db, db.contents[old]) \intersect Players = {}
          /\ stack' = Goto(Frame("send", old, db.link[old], NOTHING, 1))
       \/ stack' = Rest
    /\ UNCHANGED db

\* send_contents: everything is taken out of the object, ...
SendContents ==
    /\ Handle("send") /\ Top.n = 1
    /\ LET at == Top.obj IN
       /\ db' = [db EXCEPT !.contents = [@ EXCEPT ![at] = NOTHING],
                           !.loc = [x \in Obj |-> IF x \in Chain(db, db.contents[at])
                                                  THEN NOTHING ELSE db.loc[x]]]
       /\ stack' = Goto([Top EXCEPT !.cur = db.contents[at], !.n = 0])

\* ... and sent on, one by one: players, rooms and zombies back, what is
\* STICKY or would close a loop home.
SendNext ==
    /\ Handle("send") /\ Top.n = 0 /\ Top.cur # NOTHING
    /\ LET x == Top.cur IN
       /\ \E to \in {Top.obj, Top.to, HOME} :
            /\ db.typ[x] \notin {"thing", "program"} => to = Top.obj
            /\ to = Top.to /\ to # HOME => ~ParentLoop(db, x, to)
            /\ to = HOME => HasHome(db, x)
            /\ db' = Moveto(db, x, to)
       /\ stack' = Goto([Top EXCEPT !.cur = db.next[x]])

SendEnds ==
    /\ Handle("send") /\ Top.n = 0 /\ Top.cur = NOTHING
    /\ db' = Reversed(db, Top.obj)
    /\ stack' = Rest

------------------------------------------------------------------------------
(* Recycling.                                                              *)

RecycleFrame(x) == Frame("exits", x, NOTHING, db.exits[x], 0)

\* An exit is first taken off its source's list.
RecycleOf(x) ==
    IF db.typ[x] = "exit"
    THEN /\ db.loc[x] \in Places
         /\ db' = RecycleExit(RemoveFrom(db, "exits", db.loc[x], x), x)
         /\ UNCHANGED stack
    ELSE /\ stack' = <<RecycleFrame(x)>> \o stack
         /\ UNCHANGED db

\* do_recycle: anything but a player and the root room.
Recycle ==
    /\ Commands
    /\ \E x \in Live(db) \ (Players \union {Root}) : Minds(LeavesAlone(x)) /\ RecycleOf(x)

\* prim_recycle; the programs that run are not recycled, which is left open.
PrimRecycle ==
    /\ Commands
    /\ \E x \in Live(db) \ (Players \union {Root}) : Minds(LeavesAlone(x)) /\ RecycleOf(x)

\* The exits of a room or thing are recycled with it, ...
RecycleNextExit ==
    /\ Handle("exits") /\ Top.cur # NOTHING
    /\ db' = IF db.loc[Top.cur] \in {NOTHING, Top.obj} THEN RecycleExit(db, Top.cur) ELSE db
    /\ stack' = Goto([Top EXCEPT !.cur = db.next[Top.cur]])

\* ... then nothing may name it any more, ...
RecycleScan ==
    /\ Handle("exits") /\ Top.cur = NOTHING
    /\ db' = Scan(db, Top.obj)
    /\ stack' = Goto(Frame("emptying", Top.obj, NOTHING, NOTHING, db.top))

\* ... its contents go home, a player through enter_room, ...
EmptyNext ==
    /\ Handle("emptying") /\ Top.cur = NOTHING /\ Top.n > 0
    /\ LET first == db.contents[Top.obj] IN
       /\ first # NOTHING /\ HasHome(db, first)
       /\ IF db.typ[first] = "player"
          THEN /\ stack' = <<Frame("enter", first, HOME, NOTHING, 0),
                             [Top EXCEPT !.cur = first, !.n = @ - 1]>> \o Rest
               /\ UNCHANGED db
          ELSE /\ db' = Moveto(db, first, HOME)
               /\ stack' = Goto([Top EXCEPT !.n = @ - 1])

\* ... from where he is taken by force when his programs brought him back, ...
DragOut ==
    /\ Handle("emptying") /\ Top.cur # NOTHING /\ HasHome(db, Top.cur)
    /\ db' = IF db.loc[Top.cur] = Top.obj THEN Moveto(db, Top.cur, HOME) ELSE db
    /\ stack' = Goto([Top EXCEPT !.cur = NOTHING])

\* ... and it is garbage.
RecycleEnds ==
    /\ Handle("emptying") /\ Top.cur = NOTHING
    /\ Top.n > 0 => db.contents[Top.obj] = NOTHING
    /\ db' = Bury(db, Top.obj)
    /\ stack' = Rest

\* do_frob: what the player who frobs carries goes home, ...
Frob ==
    /\ Commands
    /\ \E victim \in Players \ {Man}, recipient \in Players :
        /\ recipient # victim
        /\ Minds(/\ LeavesAlone(victim)
                 /\ \A x \in Live(db) : db.owner[x] = victim => MayGive(x, recipient))
        /\ stack' = <<Frame("send", Man, HOME, NOTHING, 1),
                      Frame("frob", victim, recipient, NOTHING, 0)>> \o stack
        /\ UNCHANGED db

\* ... what the victim owns is the recipient's, and he is a thing; it may be
\* recycled at once (tp_recycle_frobs).
Frobbed ==
    /\ Handle("frob")
    /\ LET victim == Top.obj IN
       /\ db' = [db EXCEPT
            !.owner = [x \in Obj |->
                IF x = victim THEN Man
                ELSE IF db.owner[x] = victim THEN Top.to ELSE db.owner[x]],
            !.link = [x \in Obj |->
                IF db.typ[x] = "thing" /\ db.link[x] = victim THEN Root ELSE db.link[x]],
            !.typ = [@ EXCEPT ![victim] = "thing"]]
       /\ stack' = Rest \/ stack' = Goto(Frame("exits", victim, NOTHING, db.exits[victim], 0))

\* do_purge: everything a player owns is recycled, by number.
Purge ==
    /\ Commands
    /\ \E victim \in Players \ {Man} :
        /\ Minds(\A x \in Live(db) \ Players : db.owner[x] = victim => LeavesAlone(x))
        /\ stack' = <<Frame("purge", victim, NOTHING, 2, 0)>> \o stack
        /\ UNCHANGED db

PurgeNext ==
    /\ Handle("purge") /\ Top.cur < db.top
    /\ LET x == Top.cur
           on == <<[Top EXCEPT !.cur = x + 1]>> \o Rest
       IN  IF db.owner[x] # Top.obj \/ db.typ[x] \in {"garbage", "player"}
           THEN stack' = on /\ UNCHANGED db
           ELSE IF db.typ[x] = "exit"
           THEN stack' = on /\ db' = RecycleExit(db, x)
           ELSE stack' = <<RecycleFrame(x)>> \o on /\ UNCHANGED db

PurgeEnds ==
    /\ Handle("purge") /\ Top.cur = db.top
    /\ stack' = Rest
    /\ UNCHANGED db

ProgramEnds ==
    /\ Handle("prog")
    /\ stack' = Rest
    /\ UNCHANGED db

------------------------------------------------------------------------------

\* The smallest database, the root room and the Man in it; or, when there is
\* room for them, with a room #2 of a player #3 in it, who carries a thing #4,
\* and in this the room #5, his home; this one counts as a command.
Init ==
    \E furnished \in BOOLEAN :
        LET at(small, all) ==
                [x \in Obj |-> IF x + 1 \in DOMAIN all /\ (furnished \/ x < 2)
                               THEN all[x + 1] ELSE small]
        IN
        /\ furnished => MaxTop >= 6 /\ MaxCommands >= 1
        /\ db = [top        |-> IF furnished THEN 6 ELSE 2,
                 recyclable |-> NOTHING,
                 typ        |-> at("none", <<"room", "player", "room", "player", "thing", "room">>),
                 loc        |-> at(NOTHING, <<NOTHING, 0, 0, 2, 3, 4>>),
                 contents   |-> at(NOTHING, <<1, NOTHING, 3, 4, 5, NOTHING>>),
                 exits      |-> [x \in Obj |-> NOTHING],
                 next       |-> IF furnished THEN [x \in Obj |-> IF x = 1 THEN 2 ELSE NOTHING]
                                ELSE [x \in Obj |-> NOTHING],
                 owner      |-> at(NOTHING, <<1, 1, 3, 3, 3, 3>>),
                 link       |-> at(0, <<NOTHING, 0, NOTHING, 5, 2, NOTHING>>),
                 dests      |-> [x \in Obj |-> {}]]
        /\ stack = <<>>
        /\ given = IF furnished THEN 1 ELSE 0
        /\ meddled = FALSE

Building == CreateThing \/ PrimNewObject \/ CreateProgram \/ CreateRoom \/ OpenExit
            \/ NewAction \/ CreatePlayer \/ CopyThing \/ PrimSetLink \/ LinkExit \/ LinkHome \/ LinkDropto \/ Unlink \/ UnlinkThing
            \/ Chown \/ Attach

Moving == Get \/ Drop \/ Teleport \/ PrimMoveto \/ Trigger \/ Leave \/ PutDown \/ SendHome \/ EnterRoom \/ MaybeDropto
          \/ SendContents \/ SendNext \/ SendEnds

Recycling == Recycle \/ PrimRecycle \/ RecycleNextExit \/ RecycleScan \/ EmptyNext \/ DragOut
             \/ RecycleEnds \/ Frob \/ Frobbed \/ Purge \/ PurgeNext \/ PurgeEnds

\* The model goes no further than a loop of parents. When a thing's home is part
\* of it parent_loop_check calls itself for ever and the server is gone; a loop
\* of locations only is logged, and refuses every move from then on.
Next == Acyclic(db) /\ (Building \/ Moving \/ Recycling \/ ProgramEnds)

Spec == Init /\ [][Next]_vars

------------------------------------------------------------------------------
(* Properties.                                                             *)

Ref == Obj \union {NOTHING}

\* Type invariant: every field of every object, and the frames of pending
\* operations (struct object, db.h, and the locals of the functions).
TypeOK ==
    /\ db \in [top : 2 .. MaxTop, recyclable : Ref, typ : [Obj -> Types],
               loc : [Obj -> Ref], contents : [Obj -> Ref], exits : [Obj -> Ref],
               next : [Obj -> Ref], owner : [Obj -> Ref],
               link : [Obj -> Ref \union {HOME}],
               dests : [Obj -> SUBSET (Obj \union {HOME})]]
    /\ stack \in Seq([op : Ops, obj : Ref, to : Ref \union {HOME},
                      cur : Ref \union {MaxTop}, n : 0 .. MaxTop])
    /\ given \in 0 .. MaxCommands
    /\ meddled \in BOOLEAN

\* No list is being taken apart: everything a program can look at.
Settled == \A i \in 1 .. Len(stack) : stack[i].op = "send" => stack[i].n = 1

\* As long as no program has meddled, the lists and the locations agree
\* whenever a program may look: a list holds exactly the objects that say they
\* are there, and ends. (contents, exits and next are changed by hand in moveto,
\* recycle, attach and every constructor.)
ListsAgree ==
    ~meddled /\ Settled =>
    \A at \in Live(db) :
        /\ Ends(db, db.contents[at]) /\ Ends(db, db.exits[at])
        /\ Chain(db, db.contents[at]) =
             {x \in Live(db) \ Dying : db.typ[x] # "exit" /\ db.loc[x] = at}
        /\ Chain(db, db.exits[at]) = {x \in Live(db) : db.typ[x] = "exit" /\ db.loc[x] = at}

\* As long as no program has meddled, the free list holds exactly the garbage,
\* and ends (recycle pushes there, new_object pops). A second recycle of what is
\* being recycled would make a circle of it.
FreeListSound ==
    ~meddled =>
        /\ Ends(db, db.recyclable)
        /\ Chain(db, db.recyclable) = Of(db, "garbage")

\* As long as no program has meddled, what an object names exists and is of a
\* type it may be (check_room, check_thing, check_player and check_exit of
\* sanity.c), and everything but the root room is somewhere; and also while a
\* list is being taken apart every field holds the number of an object or none.
References ==
    ~meddled =>
        /\ TypeOK
        /\ Settled => \A x \in Live(db) :
            /\ db.owner[x] \in Players
            /\ x # Root /\ x \notin Dying => db.loc[x] \in Places
            /\ db.typ[x] = "room" =>
                 db.link[x] \in {NOTHING, HOME} \union Of(db, "room") \union Things
            /\ db.typ[x] = "thing" => db.link[x] \in Places
            /\ db.typ[x] = "player" => db.link[x] \in Of(db, "room")
            /\ db.dests[x] \subseteq Live(db) \union {HOME}

\* No exit leads to itself through other exits, whatever programs do: trigger()
\* follows meta-links without looking back.
NoMetaLoops ==
    \A S \in SUBSET Of(db, "exit") :
        S # {} => \E e \in S : db.dests[e] \intersect S = {}

\* The four places that give something a parent without parent_loop_check: the
\* owner as the home of a thing in @unlink (set.c:984) and the owner's home in
\* recycle (move.c:968), the home of a player as that of the toad he becomes
\* (wiz.c:1043), and the place a player is dragged to by moveto(first, HOME)
\* when his home is in what he carries (move.c:1062).
Unlooked == UnlinkThing \/ RecycleScan \/ Frobbed \/ DragOut

\* As long as no program has meddled, no other step closes a loop of locations
\* and homes, on which parent_loop_check would not come to an end: no move,
\* whatever it passes through (droptos, homes, programs that undo what was
\* checked before them), no link, and no new object.
ParentsAcyclic ==
    [][~meddled' /\ Acyclic(db) => Acyclic(db') \/ Unlooked]_vars
==============================================================================
