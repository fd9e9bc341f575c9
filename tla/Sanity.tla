------------------------------- MODULE Sanity -------------------------------
(***************************************************************************)
(* The three commands of sanity.c on the array of objects of ObjectGraph:  *)
(*   @sanchange  writes any number into a field of any object              *)
(*   @sanity     looks for violations and reports them                     *)
(*   @sanfix     cuts the lists at whatever is wrong, moves what is        *)
(*               nowhere, and chains in again what is on no list           *)
(* A number that is no object of the database is MaxTop.  None of the      *)
(* commands runs programs.  Names, and the destinations of exits, which    *)
(* @sanchange does not reach, are left out.                                *)
(***************************************************************************)
EXTENDS ObjectGraph, SequencesExt

CONSTANTS
    MaxChanges,    \* bound: so many uses of @sanchange
    MaxFixes,      \* bound: so many uses of @sanfix
    Fields         \* the fields it writes: a subset of AllFields

AllFields == {"next", "exits", "contents", "loc", "owner", "link"}

ASSUME SanityAssumption == MaxChanges \in Nat /\ MaxFixes \in Nat /\ Fields \subseteq AllFields
                          /\ MaxTop >= 9

VARIABLES
    db,        \* the array of objects
    down,      \* the server has crashed: a check called itself for ever
    found,     \* what @sanity has said of db: "nothing" or "violations"
    fixed,     \* db is what @sanfix left
    was,       \* what @sanfix was given then (history)
    changes,   \* how often @sanchange was used (a bound, not in the code)
    fixes      \* how often @sanfix was (a bound)

vars == <<db, down, found, fixed, was, changes, fixes>>

------------------------------------------------------------------------------
(* Tests.                                                                  *)

OkObj(d, x)    == x \in 0 .. d.top - 1
ValidRef(d, x) == x = NOTHING \/ OkObj(d, x)
ValidObj(d, x) == OkObj(d, x) /\ d.typ[x] \notin {"none", "garbage"}
Holder(d, x)   == ValidObj(d, x) /\ d.typ[x] \in {"room", "thing", "player"}

\* parent_loop_check(source, dest) as it is written: "yes", "no", or "hang"
\* when it calls itself for ever on the homes of things. seen is parent[];
\* homes are the things whose calls for the home have not returned.
RECURSIVE LoopCheck(_, _, _, _, _)
LoopCheck(d, source, dest, seen, homes) ==
    IF dest \in {Root, NOTHING} THEN "no"
    ELSE IF source = dest THEN "yes"
    ELSE IF dest = HOME THEN "no"
    ELSE IF ~OkObj(d, dest) THEN "yes"
    ELSE IF d.typ[dest] = "thing" /\ dest \in homes THEN "hang"
    ELSE LET byHome == IF d.typ[dest] = "thing"
                       THEN LoopCheck(d, source, d.link[dest], {}, homes \union {dest})
                       ELSE "no"
         IN  IF byHome # "no" THEN byHome
             ELSE IF dest \in seen THEN "yes"
             ELSE LoopCheck(d, source, d.loc[dest], seen \union {dest}, homes)

Loops(d, x) == LoopCheck(d, x, d.loc[x], {}, {})

\* A crash: some check of the pass over all objects does not return.
Hangs(d) ==
    \E x \in Obj : OkObj(d, x) /\ d.typ[x] # "garbage" /\ Loops(d, x) = "hang"

------------------------------------------------------------------------------
(* @sanity                                                                 *)

\* check_contents_list, check_exits_list: the walk over a list stops at what
\* does not belong there, or after as many steps as there are objects.
BadList(d, list, at) ==
    LET belongs(x) == /\ ValidObj(d, x) /\ d.loc[x] = at
                      /\ (d.typ[x] = "exit") = (list = "exits")
        walk[n \in 0 .. MaxTop] ==
            IF n = 0 THEN d[list][at]
            ELSE LET x == walk[n - 1] IN IF belongs(x) THEN d.next[x] ELSE x
    IN  IF d.typ[at] \in {"program", "exit", "garbage"} THEN d[list][at] # NOTHING
        ELSE walk[d.top - 1] # NOTHING

\* check_room, check_thing, check_player, check_garbage
BadLink(d, x) ==
    CASE d.typ[x] = "room" ->
            \/ ~ValidRef(d, d.link[x]) /\ d.link[x] # HOME
            \/ OkObj(d, d.link[x]) /\ d.typ[d.link[x]] \notin {"thing", "room"}
      [] d.typ[x] = "thing"  -> ~Holder(d, d.link[x])
      [] d.typ[x] = "player" -> ~ValidObj(d, d.link[x]) \/ d.typ[d.link[x]] # "room"
      [] d.typ[x] = "garbage" -> OkObj(d, d.next[x]) /\ d.typ[d.next[x]] # "garbage"
      [] OTHER -> FALSE

\* check_object
BadObject(d, x) ==
    \/ /\ d.typ[x] # "garbage"
       /\ \/ ~ValidObj(d, d.owner[x])
          \/ d.typ[d.owner[x]] # "player"
          \/ ~ValidObj(d, d.loc[x]) /\ ~(x = Root /\ d.loc[x] = NOTHING)
          \/ Loops(d, x) = "yes"
    \/ OkObj(d, d.loc[x]) /\ ~Holder(d, d.loc[x])
    \/ d.typ[x] = "garbage" /\ d.loc[x] # NOTHING
    \/ BadList(d, "contents", x) \/ BadList(d, "exits", x)
    \/ BadLink(d, x)

\* Mutant of BadReferences: what nothing refers to is not missed.
BadReferencesTwice(d) ==
    \E f, g \in {"exits", "contents", "next"}, y, z \in Obj :
        <<f, y>> # <<g, z>> /\ d[f][y] = d[g][z] /\ d[f][y] # NOTHING

\* find_orphan_objects: everything is referred to, and once only: by the free
\* list's head, as #0, or by the exits, contents or next of some object.
BadReferences(d) ==
    LET referrers(x) ==
            {<<f, y>> \in {"exits", "contents", "next"} \X {y \in Obj : y < d.top} : d[f][y] = x}
        own(x) == IF x = d.recyclable \/ x = Root THEN 1 ELSE 0
    IN  \E x \in Obj : x < d.top /\ Cardinality(referrers(x)) + own(x) # 1

Violated(d) == (\E x \in Obj : x < d.top /\ BadObject(d, x)) \/ BadReferences(d)

------------------------------------------------------------------------------
(* @sanfix works on a state s: the objects s.d, the set s.mark of those with  *)
(* their SANEBIT set, the lost+found player s.lost, and s.hang after a crash. *)

\* cut_bad_recyclable, cut_bad_contents, cut_bad_exits: the list is cut where
\* the first object is that is not good or already marked; what is before it
\* gets marked. (The free list is the list of no object: at is NOTHING.)
CutAfter(s, list, at, good(_)) ==
    LET d    == s.d
        head == IF at = NOTHING THEN d.recyclable ELSE d[list][at]
        kept[n \in 0 .. MaxTop] ==
            IF n = 0 THEN <<>>
            ELSE LET k == kept[n - 1]
                     x == IF k = <<>> THEN head ELSE d.next[Last(k)]
                 IN  IF Len(k) < n - 1 \/ x = NOTHING \/ x \in ToSet(k) \union s.mark \/ ~good(x)
                     THEN k ELSE Append(k, x)
        all == kept[MaxTop]
    IN  [s EXCEPT !.mark = @ \union ToSet(all),
                  !.d = IF all # <<>> THEN [d EXCEPT !.next = [@ EXCEPT ![Last(all)] = NOTHING]]
                        ELSE IF at = NOTHING THEN [d EXCEPT !.recyclable = NOTHING]
                        ELSE [d EXCEPT ![list] = [@ EXCEPT ![at] = NOTHING]]]

CutBadRecyclable(s) ==
    CutAfter(s, "next", NOTHING, LAMBDA x : OkObj(s.d, x) /\ s.d.typ[x] = "garbage")

CutBadContents(s, at) ==
    CutAfter(s, "contents", at,
             LAMBDA x : ValidObj(s.d, x) /\ s.d.typ[x] # "exit" /\ s.d.loc[x] = at /\ x # at)

CutBadExits(s, at) ==
    CutAfter(s, "exits", at,
             LAMBDA x : ValidObj(s.d, x) /\ s.d.typ[x] = "exit" /\ s.d.loc[x] = at)

CutAllChains(s, x) ==
    [s EXCEPT !.d = [@ EXCEPT !.contents = [@ EXCEPT ![x] = NOTHING],
                              !.exits = [@ EXCEPT ![x] = NOTHING]]]

\* What the loops over the objects do, one object after the other.
ForAll(op(_, _), s) ==
    LET after[n \in 0 .. MaxTop] ==
            IF n = 0 THEN s
            ELSE LET t == after[n - 1] IN IF n - 1 < t.d.top THEN op(t, n - 1) ELSE t
    IN  after[MaxTop]

\* hacksaw_bad_chains
HacksawBadChains(s) ==
    ForAll(LAMBDA t, x : IF t.d.typ[x] \in {"room", "thing", "player"}
                         THEN CutBadExits(CutBadContents(t, x), x)
                         ELSE CutAllChains(t, x),
           CutBadRecyclable(s))

\* create_lostandfound: a room in #0, and a player in it who owns it.
CreateLostAndFound(s) ==
    LET room   == NewRef(s.d)
        d1     == PushOn(NewObject(s.d, "room", Root, NOTHING, NOTHING), "contents", Root, room)
        player == NewRef(d1)
        d2     == PushOn(NewObject(d1, "player", room, NOTHING, room), "contents", room, player)
    IN  [d    |-> [d2 EXCEPT !.owner = [@ EXCEPT ![room] = player]],
         mark |-> s.mark \union {room, player},
         lost |-> player,
         hang |-> s.hang]

\* find_misplaced_objects, the owner: lost+found, who is made when needed.
FixOwner(s, x) ==
    IF s.d.typ[x] = "garbage" THEN [s EXCEPT !.d = [@ EXCEPT !.owner = [@ EXCEPT ![x] = NOTHING]]]
    ELSE IF ValidObj(s.d, s.d.owner[x]) /\ s.d.typ[s.d.owner[x]] = "player" THEN s
    ELSE LET t == IF s.lost = NOTHING THEN CreateLostAndFound(s) ELSE s
         IN  [t EXCEPT !.d = [@ EXCEPT !.owner = [@ EXCEPT ![x] = t.lost]]]

\* Mutant of Misplaced: loops are not looked for.
MisplacedOnly(d, x) == ~Holder(d, d.loc[x])

\* Where an object cannot stay.
Misplaced(d, x) == ~Holder(d, d.loc[x]) \/ Loops(d, x) = "yes"

\* Mutant of FixLocation: everything on the list of a bad object goes with it.
FixLocationList(s, x) ==
    LET d == s.d IN
    IF d.typ[x] = "garbage" THEN [s EXCEPT !.d = [@ EXCEPT !.loc = [@ EXCEPT ![x] = NOTHING]]]
    ELSE IF x = Root \/ Holder(d, d.loc[x]) THEN s
    ELSE [s EXCEPT !.mark = @ \ {x}, !.d = [d EXCEPT !.loc = [y \in Obj |->
                IF (y # Root /\ d.loc[y] = d.loc[x]) \/ d.loc[y] = x THEN Root ELSE d.loc[y]]]]

\* find_misplaced_objects, the location: what cannot stay leaves the list it is
\* on and goes to #0.
FixLocation(s, x) ==
    LET d    == s.d
        hung == Holder(d, d.loc[x]) /\ Loops(d, x) = "hang"
        list == IF d.typ[x] = "exit" THEN "exits" ELSE "contents"
        out  == IF ValidObj(d, d.loc[x]) THEN RemoveFrom(d, list, d.loc[x], x) ELSE d
    IN  IF d.typ[x] = "garbage" THEN [s EXCEPT !.d = [@ EXCEPT !.loc = [@ EXCEPT ![x] = NOTHING]]]
        ELSE IF x = Root THEN s
        ELSE IF ~Misplaced(d, x) THEN [s EXCEPT !.hang = @ \/ hung]
        ELSE [s EXCEPT !.mark = @ \union {x},
                       !.d = PushOn([out EXCEPT !.loc = [@ EXCEPT ![x] = Root]], list, Root, x)]

\* fix_room, fix_thing, fix_player
FixLink(s, x) ==
    LET d == s.d
        good == CASE d.typ[x] = "room"   -> NOTHING
                  [] d.typ[x] = "thing"  -> d.owner[x]
                  [] d.typ[x] = "player" -> Root
                  [] OTHER               -> d.link[x]
    IN  IF d.typ[x] # "garbage" /\ BadLink(d, x)
        THEN [s EXCEPT !.d = [@ EXCEPT !.link = [@ EXCEPT ![x] = good]]] ELSE s

FindMisplacedObjects(s) ==
    ForAll(LAMBDA t, x : FixLink(FixLocation(FixOwner(t, x), x), x), s)

\* adopt_orphans, for one object: what is not marked is put on its list.
Adopt(s, x) ==
    IF x \in s.mark THEN s
    ELSE IF s.d.typ[x] = "garbage"
    THEN [s EXCEPT !.d = [@ EXCEPT !.next = [@ EXCEPT ![x] = s.d.recyclable], !.recyclable = x]]
    ELSE [s EXCEPT !.d = PushOn(@, IF s.d.typ[x] = "exit" THEN "exits" ELSE "contents",
                                s.d.loc[x], x)]

AdoptOrphans(s) == ForAll(Adopt, s)

\* clean_global_environment
CleanGlobalEnvironment(s) ==
    [s EXCEPT !.d = [@ EXCEPT !.next = [@ EXCEPT ![Root] = NOTHING],
                              !.loc  = [@ EXCEPT ![Root] = NOTHING]]]

------------------------------------------------------------------------------
(* The commands. The databases they start from are sound ones.             *)

\* The root room #0 and the Man #1; a room #2 in #0 with a player #3 and an
\* exit #4 to #0; a thing #5 that the player carries; garbage #6.
Furnished ==
    LET row(small, all) == [x \in 0 .. MaxTop - 1 |-> IF x < 7 THEN all[x + 1] ELSE small] IN
    [top        |-> 7,
     recyclable |-> 6,
     typ        |-> row("none", <<"room", "player", "room", "player", "exit", "thing", "garbage">>),
     loc        |-> row(-1, <<-1, 0, 0, 2, 2, 3, -1>>),
     contents   |-> row(-1, <<1, -1, 3, 5, -1, -1, -1>>),
     exits      |-> row(-1, <<-1, -1, 4, -1, -1, -1, -1>>),
     next       |-> row(-1, <<-1, 2, -1, -1, -1, -1, -1>>),
     owner      |-> row(-1, <<1, 1, 3, 3, 3, 3, -1>>),
     link       |-> row(0, <<-1, 0, -1, 0, 0, 2, 0>>),
     dests      |-> row({}, <<{}, {}, {}, {}, {0}, {}, {}>>)]

\* The same, but the player sits in the thing, which is in #2.
Vehicle ==
    [Furnished EXCEPT !.loc = [@ EXCEPT ![5] = 2, ![3] = 5],
                      !.contents = [@ EXCEPT ![2] = 5, ![5] = 3, ![3] = -1]]

Init ==
    /\ db \in {Furnished, Vehicle} /\ was = db
    /\ down = FALSE /\ found = "unknown" /\ fixed = FALSE
    /\ changes = 0 /\ fixes = 0

\* sanechange: any value; only players and things have a home to set. (Bound:
\* nothing is changed after a repair.)
Sanchange ==
    /\ ~down /\ fixes = 0 /\ changes < MaxChanges /\ changes' = changes + 1
    /\ \E f \in Fields, x \in {y \in Obj : y < db.top} :
       \E v \in {y \in Obj : y < db.top} \union {NOTHING, MaxTop} :
        /\ v # db[f][x]
        /\ f = "link" => db.typ[x] \in {"player", "thing"}
        /\ db' = [db EXCEPT ![f] = [@ EXCEPT ![x] = v]]
    /\ found' = "unknown" /\ fixed' = FALSE
    /\ UNCHANGED <<down, was, fixes>>

\* sanity
Check ==
    /\ ~down /\ found = "unknown"
    /\ LET hangs == Hangs(db)
       IN  /\ down' = hangs
           /\ found' = IF hangs THEN found ELSE IF Violated(db) THEN "violations" ELSE "nothing"
    /\ UNCHANGED <<db, fixed, was, changes, fixes>>

\* sanfix, which runs to its end without a break
Sanfix ==
    /\ ~down /\ fixes < MaxFixes /\ fixes' = fixes + 1
    /\ LET cut    == HacksawBadChains([d |-> db, mark |-> {Root}, lost |-> NOTHING, hang |-> FALSE])
           placed == FindMisplacedObjects(cut)
       IN  IF placed.hang THEN down' = TRUE /\ UNCHANGED <<db, fixed, was, found>>
           ELSE /\ db' = CleanGlobalEnvironment(AdoptOrphans(placed)).d
                /\ was' = db /\ fixed' = TRUE /\ found' = "unknown"
                /\ UNCHANGED down
    /\ UNCHANGED changes

Next == Sanchange \/ Check \/ Sanfix

Spec == Init /\ [][Next]_vars

------------------------------------------------------------------------------
(* Properties.                                                             *)

Value == Obj \union {HOME, NOTHING, MaxTop}

\* Type invariant: every field holds a number, and top is where the objects end.
TypeOK ==
    /\ \A f \in AllFields : db[f] \in [Obj -> Value]
    /\ db.typ \in [Obj -> Types] /\ db.top \in 2 .. MaxTop /\ db.recyclable \in Value
    /\ \A x \in Obj : db.typ[x] = "none" <=> x >= db.top
    /\ found \in {"unknown", "nothing", "violations"}
    /\ down \in BOOLEAN /\ fixed \in BOOLEAN
    /\ changes \in 0 .. MaxChanges /\ fixes \in 0 .. MaxFixes

\* What a database has to be, said of the whole instead of field by field.
InRange(d) ==
    \A x \in Obj : x < d.top =>
        \A f \in AllFields : ValidRef(d, d[f][x]) \/ (f = "link" /\ d.link[x] = HOME)

Sound(d) ==
    /\ InRange(d)
    /\ \A x \in Live(d) :
        /\ x # Root => Holder(d, d.loc[x])
        /\ ValidObj(d, d.owner[x]) /\ d.typ[d.owner[x]] = "player"
        /\ \A list \in {"contents", "exits"} :
            /\ Ends(d, d[list][x])
            /\ Chain(d, d[list][x]) = {y \in Live(d) \ {Root} : /\ d.loc[y] = x
                                                       /\ (d.typ[y] = "exit") = (list = "exits")}
        /\ d.typ[x] \in {"room", "thing", "player"} => ~BadLink(d, x)
    /\ \A x \in Of(d, "garbage") : d.loc[x] = NOTHING /\ d.contents[x] = NOTHING /\ d.exits[x] = NOTHING
    /\ d.next[Root] = NOTHING
    /\ Ends(d, d.recyclable) /\ Chain(d, d.recyclable) = Of(d, "garbage")

\* Everything the walk of parent_loop_check from y could come to.
Above(d, y) ==
    LET walk[n \in 0 .. MaxTop] ==
            IF n = 0 THEN {y}
            ELSE LET seen == walk[n - 1]
                 IN  seen \union UNION {Ups(d, z) : z \in (seen \intersect Obj) \ {Root}}
    IN  walk[MaxTop]

\* Thing x holds its own home.
HomeInside(d, x) == d.typ[x] = "thing" /\ x \in Above(d, d.link[x])

\* What @sanfix has repaired is sound: "Database repair complete" holds of
\* every damage @sanchange can do, homes included. All locations lead to #0.
\* Homes may not, as they are looked at for their type only and a bad one is
\* replaced by the owner, who may be in the thing; but a thing that holds its
\* home held it before, or has such a new one.
Repaired ==
    TypeOK /\ (fixed =>
        /\ Sound(db) /\ db.loc[Root] = NOTHING
        /\ LET homeless == [db EXCEPT !.typ = [x \in Obj |-> "none"]]
           IN  \A x \in Live(db) : Root \in Above(homeless, x)
        /\ \A x \in Obj : HomeInside(db, x) => HomeInside(was, x) \/ BadLink(was, x))

\* @sanity misses nothing when one field names the wrong object, unless it is
\* the location of #0. (A number that is no object makes find_orphan_objects
\* read outside the array.)
Detects == found = "nothing" /\ changes <= 1 /\ InRange(db) => Sound(db)

\* @sanfix is cautious: what had a good place, owner or home keeps it, and a
\* sound database is left as it is.
Cautious ==
    fixed =>
        /\ Sound(was) /\ Acyclic(was) =>
             db = [was EXCEPT !.loc = [@ EXCEPT ![Root] = NOTHING],
                              !.owner = [x \in Obj |-> IF was.typ[x] = "garbage" THEN NOTHING
                                                       ELSE was.owner[x]]]
        /\ \A x \in Live(was) \ {Root} :
            /\ Holder(was, was.loc[x]) /\ Loops(was, x) = "no" => db.loc[x] = was.loc[x]
            /\ ValidObj(was, was.owner[x]) /\ was.typ[was.owner[x]] = "player"
                 => db.owner[x] = was.owner[x]
            /\ was.typ[x] \in {"room", "thing", "player"} /\ ~BadLink(was, x)
                 => db.link[x] = was.link[x]
==============================================================================
