---------------------------- MODULE ObjectGraph ----------------------------
(***************************************************************************)
(* The array of objects as a value: the record                             *)
(*   top, recyclable                      db_top and the free list's head  *)
(*   typ, loc, contents, exits, next, owner   fields of every object       *)
(*   link    home of a player or thing, dropto of a room (one union field) *)
(*   dests   destinations of an exit                                       *)
(* and the functions of utils.c, db.c, move.c and create.c that read and   *)
(* change it without running a program, as operators on such a record d.   *)
(***************************************************************************)
EXTENDS Integers, FiniteSets

CONSTANT MaxTop      \* bound: the database has at most this many objects

ASSUME MaxTopAssumption == MaxTop \in Nat /\ MaxTop >= 2

NOTHING == -1
HOME    == -3
Obj     == 0 .. MaxTop - 1
Man     == 1      \* MAN
Root    == 0      \* GLOBAL_ENVIRONMENT and RootRoom

Types == {"none", "garbage", "room", "player", "thing", "exit", "program"}

\* The objects of type t, and those that exist.
Of(d, t) == {x \in Obj : d.typ[x] = t}
Live(d)  == {x \in Obj : d.typ[x] \notin {"none", "garbage"}}

------------------------------------------------------------------------------
(* Lists: an object heads its contents and its exits, "next" links them.   *)

\* The objects on the list that starts at s (what DOLIST walks).
Chain(d, s) ==
    LET walk[n \in 0 .. MaxTop] ==
            IF n = 0 THEN {s} \ {NOTHING}
            ELSE LET seen == walk[n - 1]
                 IN  seen \union ({d.next[y] : y \in seen} \ {NOTHING})
    IN  walk[MaxTop]

\* The walk comes to an end.
Ends(d, s) == s = NOTHING \/ \E x \in Chain(d, s) : d.next[x] = NOTHING

\* Mutant of RemoveFrom: the head of the list is left as it was.
RemoveFromTail(d, list, at, x) ==
    [d EXCEPT !.next = [y \in Obj |->
        IF y \in Chain(d, d[list][at]) /\ d.next[y] = x
        THEN d.next[x] ELSE d.next[y]]]

\* remove_first: x is taken off the list, which is "contents" or "exits", of at.
RemoveFrom(d, list, at, x) ==
    IF d[list][at] = x
    THEN [d EXCEPT ![list] = [@ EXCEPT ![at] = d.next[x]]]
    ELSE [d EXCEPT !.next = [y \in Obj |->
            IF y \in Chain(d, d[list][at]) /\ d.next[y] = x
            THEN d.next[x] ELSE d.next[y]]]

\* PUSH
PushOn(d, list, at, x) ==
    [d EXCEPT !.next = [@ EXCEPT ![x] = d[list][at]],
              ![list] = [@ EXCEPT ![at] = x]]

\* reverse, of the contents of at
Reversed(d, at) ==
    LET members == Chain(d, d.contents[at]) IN
    [d EXCEPT
        !.next = [x \in Obj |->
            IF x \notin members THEN d.next[x]
            ELSE IF \E y \in members : d.next[y] = x
                 THEN CHOOSE y \in members : d.next[y] = x
                 ELSE NOTHING],
        !.contents = [@ EXCEPT ![at] =
            IF \E x \in members : d.next[x] = NOTHING
            THEN CHOOSE x \in members : d.next[x] = NOTHING
            ELSE NOTHING]]

------------------------------------------------------------------------------
(* The two loop checks.                                                    *)

\* Where parent_loop_check looks from y: its location, and the home of a thing.
Ups(d, y) == {d.loc[y]} \union (IF d.typ[y] = "thing" THEN {d.link[y]} ELSE {})

\* Mutant of ParentLoop: only dest and its location are looked at.
ParentLoopShallow(d, source, dest) ==
    dest \in Obj \ {Root} /\ source \in {dest, d.loc[dest]}

\* parent_loop_check: source is met on the walk up from dest, which stops at
\* #0, NOTHING and HOME before it looks at them. (What the walk meets is the
\* least set that holds dest and the parents of its members.)
ParentLoop(d, source, dest) ==
    \A S \in SUBSET (Obj \ {Root}) :
        (/\ dest \in S \union {Root, NOTHING, HOME}
         /\ \A y \in S : Ups(d, y) \subseteq S \union {Root, NOTHING, HOME})
        => source \in S

\* The parents form no loop: no set of objects in which each has a parent.
Acyclic(d) ==
    ~ \E S \in SUBSET (Obj \ {Root}) :
        S # {} /\ \A x \in S : Ups(d, x) \intersect S # {}

\* Mutant of MetaLoop: only the destination itself is compared.
MetaLoopShallow(d, source, dest) == source = dest

\* exit_loop_check, for an existing dest
MetaLoop(d, source, dest) ==
    \A S \in SUBSET Obj :
        (/\ dest \in S
         /\ \A y \in S : d.typ[y] = "exit" => d.dests[y] \ {HOME} \subseteq S)
        => source \in S

------------------------------------------------------------------------------
(* Allocation and moves.                                                   *)

HasRoom(d) == d.recyclable # NOTHING \/ d.top < MaxTop

\* new_object: the number it hands out, ...
NewRef(d) == IF d.recyclable # NOTHING THEN d.recyclable ELSE d.top

\* ... the size of the database after it, ...
NewTop(d) == IF d.recyclable # NOTHING THEN d.top ELSE d.top + 1

\* ... and the object as its caller fills it in, not yet on any list.
NewObject(d, t, at, o, l) ==
    LET x == NewRef(d) IN
    [d EXCEPT !.recyclable = IF @ # NOTHING THEN d.next[x] ELSE @,
              !.top        = NewTop(d),
              !.typ        = [@ EXCEPT ![x] = t],
              !.loc        = [@ EXCEPT ![x] = at],
              !.contents   = [@ EXCEPT ![x] = NOTHING],
              !.exits      = [@ EXCEPT ![x] = NOTHING],
              !.next       = [@ EXCEPT ![x] = NOTHING],
              !.owner      = [@ EXCEPT ![x] = IF t = "player" THEN x ELSE o],
              !.link       = [@ EXCEPT ![x] = l],
              !.dests      = [@ EXCEPT ![x] = {}]]

\* Mutant of Freed: the free list is cut off behind x.
FreedCut(d, x) == NOTHING

\* What comes after x on the free list.
Freed(d, x) == d.recyclable

\* db_free_object, db_clear_object and the end of recycle: x is garbage, at
\* the head of the free list.
FreeObject(d, x) ==
    [d EXCEPT !.recyclable = x,
              !.typ        = [@ EXCEPT ![x] = "garbage"],
              !.loc        = [@ EXCEPT ![x] = NOTHING],
              !.contents   = [@ EXCEPT ![x] = NOTHING],
              !.exits      = [@ EXCEPT ![x] = NOTHING],
              !.next       = [@ EXCEPT ![x] = Freed(d, x)],
              !.owner      = [@ EXCEPT ![x] = NOTHING],
              !.link       = [@ EXCEPT ![x] = 0],
              !.dests      = [@ EXCEPT ![x] = {}]]

\* Where HOME is for x (the switch of moveto). The home of a thing that is
\* inside the thing is passed over for its owner's, which is not checked.
HomeOf(d, x) ==
    CASE d.typ[x] = "player"  -> d.link[x]
      [] d.typ[x] = "thing"   -> IF ParentLoop(d, x, d.link[x])
                                 THEN d.link[d.owner[x]] ELSE d.link[x]
      [] d.typ[x] = "room"    -> Root
      [] d.typ[x] = "program" -> d.owner[x]

\* There is a HOME for x. An exit has none; moveto would write in front of the
\* array. (An exit is moved only when its number was something else's before.)
HasHome(d, x) == d.typ[x] # "exit" /\ (d.typ[x] # "garbage" => HomeOf(d, x) # HOME)

\* moveto: x is taken from where it is and put first into where.
Moveto(d, x, where) ==
    IF d.typ[x] = "garbage" \/ ParentLoop(d, x, where) THEN d
    ELSE LET out == IF d.loc[x] = NOTHING THEN d
                    ELSE RemoveFrom(d, "contents", d.loc[x], x)
             to  == IF where = HOME THEN HomeOf(out, x) ELSE where
         IN  IF to = NOTHING
             THEN [out EXCEPT !.loc = [@ EXCEPT ![x] = NOTHING]]
             ELSE PushOn([out EXCEPT !.loc = [@ EXCEPT ![x] = to]],
                         "contents", to, x)

------------------------------------------------------------------------------
(* Recycling, the parts that run no program.                               *)

\* Mutant of Rehomed: droptos keep the number.
RehomedNoDropto(d, x) ==
    [y \in Obj |-> IF d.link[y] = x /\ d.typ[y] \in {"thing", "player"} THEN Root
                   ELSE d.link[y]]

\* The homes and droptos of all objects when x goes: a thing's home becomes
\* its owner's.
Rehomed(d, x) ==
    LET home(o) == IF d.link[o] = x THEN Root ELSE d.link[o] IN
    [y \in Obj |->
        IF d.link[y] # x THEN d.link[y]
        ELSE CASE d.typ[y] = "room"   -> NOTHING
               [] d.typ[y] = "thing"  -> home(d.owner[y])
               [] d.typ[y] = "player" -> Root
               [] OTHER               -> d.link[y]]

\* The pass of recycle over the whole database: whatever names x is made to
\* name something else, and x leaves the lists it is on.
Scan(d, x) ==
    LET skip(list, y) == IF d.typ[y] # "none" /\ d[list][y] = x THEN d.next[x] ELSE d[list][y]
    IN
    [d EXCEPT
        !.link     = Rehomed(d, x),
        !.exits    = [y \in Obj |-> IF d.typ[y] \in {"room", "thing", "player"}
                                    THEN skip("exits", y) ELSE d.exits[y]],
        !.dests    = [y \in Obj |-> IF d.typ[y] = "exit" THEN d.dests[y] \ {x} ELSE d.dests[y]],
        !.owner    = [y \in Obj |->
                        IF d.typ[y] \in {"room", "thing", "exit", "program"} /\ d.owner[y] = x
                        THEN Man ELSE d.owner[y]],
        !.contents = [y \in Obj |-> skip("contents", y)],
        !.next     = [y \in Obj |-> skip("next", y)]]

\* The end of recycle(x): x leaves its location and is freed.
Bury(d, x) == FreeObject(Moveto(d, x, NOTHING), x)

\* recycle of an exit, which has no contents and so runs no program.
RecycleExit(d, e) == Bury(Scan(d, e), e)
==============================================================================
