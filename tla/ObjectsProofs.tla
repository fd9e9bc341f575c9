--------------------------- MODULE ObjectsProofs ----------------------------
(***************************************************************************)
(* Theorems about the object graph, for a database of any size, any number *)
(* of commands and any depth of programs. No exit leads to itself through  *)
(* the destinations of exits (src/src/utils.c: exit_loop_check, and the    *)
(* commands of create.c and p_db.c that rely on it), whatever programs do. *)
(* And until a program has reached into a pending operation: the lists     *)
(* hold what the locations say, the free list holds the garbage, what      *)
(* objects name is there, and only the four places of the server that do   *)
(* not ask parent_loop_check close a loop of locations (db.c, move.c,      *)
(* create.c, set.c, wiz.c, and what sanity.c checks).                      *)
(***************************************************************************)
EXTENDS ObjectSteps

-----------------------------------------------------------------------------
(* No loops of exits.                                                      *)

\* The fields of the array of objects that the proof looks at: d is a record
\* with the fields of db, among them a type and destinations for each object.
Fields == {"top", "recyclable", "typ", "loc", "contents", "exits", "next",
           "owner", "link", "dests"}
Shape(d) ==
  /\ DOMAIN d = Fields
  /\ d.typ \in [Obj -> Types]
  /\ d.dests \in [Obj -> SUBSET (Obj \union {HOME})]

\* Between d and c no exit has got a destination: whatever is an exit now was
\* one and has no others than it had, or has none.
NoneLinked(d, c) ==
  \A y \in Obj :
    c.typ[y] = "exit" =>
      \/ c.dests[y] = {}
      \/ d.typ[y] = "exit" /\ c.dests[y] \subseteq d.dests[y]

Follows(d, c) == Shape(c) /\ NoneLinked(d, c)

\* NoMetaLoops, of any such array.
NoLoops(d) ==
  \A S \in SUBSET Of(d, "exit") :
    S # {} => \E e \in S : d.dests[e] \intersect S = {}

-----------------------------------------------------------------------------
(* What the operators of ObjectGraph do to types and destinations. *)

\* No list operation gives an exit a destination.
LEMMA SameFollows ==
  ASSUME NEW d, Shape(d), NEW c, DOMAIN c = Fields,
         c.typ = d.typ, c.dests = d.dests
  PROVE  Follows(d, c)
BY DEF Shape, Follows, NoneLinked

\* One change after the other.
LEMMA FollowsOn ==
  ASSUME NEW d, NEW c, NEW b, Follows(d, c), Follows(c, b)
  PROVE  Follows(d, b)
BY DEF Follows, NoneLinked

\* PUSH
LEMMA PushFollows ==
  ASSUME NEW d, Shape(d), NEW list \in {"contents", "exits"}, NEW at, NEW x
  PROVE  Follows(d, PushOn(d, list, at, x))
<1> DEFINE c == PushOn(d, list, at, x)
<1>1. DOMAIN c = Fields
  BY DEF PushOn, Shape
<1>2. c.typ = d.typ /\ c.dests = d.dests
  BY DEF PushOn, Shape, Fields
<1> HIDE DEF c
<1>3. Follows(d, c) BY <1>1, <1>2, SameFollows
<1> QED BY <1>3 DEF c

\* remove_first
LEMMA RemoveFollows ==
  ASSUME NEW d, Shape(d), NEW list \in {"contents", "exits"}, NEW at, NEW x
  PROVE  Follows(d, RemoveFrom(d, list, at, x))
<1> DEFINE c == RemoveFrom(d, list, at, x)
<1>1. DOMAIN c = Fields
  BY DEF RemoveFrom, Shape
<1>2. c.typ = d.typ /\ c.dests = d.dests
  BY DEF RemoveFrom, Shape, Fields
<1> HIDE DEF c
<1>3. Follows(d, c) BY <1>1, <1>2, SameFollows
<1> QED BY <1>3 DEF c

\* The location of one object, and the fields of many.
LEMMA FieldFollows ==
  ASSUME NEW d, Shape(d), NEW f \in Fields \ {"typ", "dests"}, NEW v
  PROVE  Follows(d, [d EXCEPT ![f] = v])
<1> DEFINE c == [d EXCEPT ![f] = v]
<1>1. DOMAIN c = Fields
  BY DEF Shape
<1>2. c.typ = d.typ /\ c.dests = d.dests
  BY DEF Shape, Fields
<1> HIDE DEF c
<1>3. Follows(d, c) BY <1>1, <1>2, SameFollows
<1> QED BY <1>3 DEF c

\* moveto
LEMMA MovetoFollows ==
  ASSUME NEW d, Shape(d), NEW x, NEW where
  PROVE  Follows(d, Moveto(d, x, where))
<1> DEFINE out == IF d.loc[x] = NOTHING THEN d
                  ELSE RemoveFrom(d, "contents", d.loc[x], x)
           to == IF where = HOME THEN HomeOf(out, x) ELSE where
           put(v) == [out EXCEPT !.loc = v]
           nowhere == [out EXCEPT !.loc = [@ EXCEPT ![x] = NOTHING]]
           there == [out EXCEPT !.loc = [@ EXCEPT ![x] = to]]
<1>1. Follows(d, d) BY SameFollows DEF Shape
<1>2. Follows(d, out) BY <1>1, RemoveFollows
<1>3. Shape(out) BY <1>2 DEF Follows
<1> HIDE DEF out
<1>4. \A v : Follows(out, [out EXCEPT !["loc"] = v])
  BY <1>3, FieldFollows DEF Fields
<1>5. Follows(out, nowhere) /\ Follows(out, there) BY <1>4
<1>6. Shape(there) BY <1>5 DEF Follows
<1> HIDE DEF there, nowhere, to
<1>7. Follows(there, PushOn(there, "contents", to, x)) BY <1>6, PushFollows
<1>8. Follows(d, nowhere) /\ Follows(d, PushOn(there, "contents", to, x))
  BY <1>2, <1>5, <1>7, FollowsOn
<1>9. Moveto(d, x, where) \in {d, nowhere, PushOn(there, "contents", to, x)}
  BY DEF Moveto, out, to, nowhere, there
<1> QED BY <1>1, <1>8, <1>9

\* new_object: its exits have no destination yet.
LEMMA NewFollows ==
  ASSUME NEW d, Shape(d), NEW t \in Types, NEW at, NEW o, NEW l
  PROVE  Follows(d, NewObject(d, t, at, o, l))
<1> DEFINE x == NewRef(d)
           c == NewObject(d, t, at, o, l)
<1>1. DOMAIN c = Fields BY DEF NewObject, Shape
<1>2. /\ c.typ = [d.typ EXCEPT ![x] = t]
      /\ c.dests = [d.dests EXCEPT ![x] = {}]
  BY DEF NewObject, Shape, Fields
<1> HIDE DEF c, x
<1>3. Shape(c) BY <1>1, <1>2 DEF Shape
<1>4. \A y \in Obj : \/ c.dests[y] = {}
                     \/ c.typ[y] = d.typ[y] /\ c.dests[y] = d.dests[y]
  BY <1>2 DEF Shape
<1>5. Follows(d, c) BY <1>3, <1>4 DEF Follows, NoneLinked
<1> QED BY <1>5 DEF c

\* The end of recycle.
LEMMA FreeFollows ==
  ASSUME NEW d, Shape(d), NEW x
  PROVE  Follows(d, FreeObject(d, x))
<1> DEFINE c == FreeObject(d, x)
<1>1. DOMAIN c = Fields BY DEF FreeObject, Shape
<1>2. /\ c.typ = [d.typ EXCEPT ![x] = "garbage"]
      /\ c.dests = [d.dests EXCEPT ![x] = {}]
  BY DEF FreeObject, Shape, Fields
<1> HIDE DEF c
<1>3. Shape(c) BY <1>1, <1>2 DEF Shape, Types
<1>4. \A y \in Obj : \/ c.dests[y] = {}
                     \/ c.typ[y] = d.typ[y] /\ c.dests[y] = d.dests[y]
  BY <1>2 DEF Shape
<1>5. Follows(d, c) BY <1>3, <1>4 DEF Follows, NoneLinked
<1> QED BY <1>5 DEF c

\* The pass of recycle over the database takes destinations away.
LEMMA ScanFollows ==
  ASSUME NEW d, Shape(d), NEW x
  PROVE  Follows(d, Scan(d, x))
<1> DEFINE c == Scan(d, x)
<1>1. DOMAIN c = Fields BY DEF Scan, Shape
<1>2. /\ c.typ = d.typ
      /\ c.dests = [y \in Obj |-> IF d.typ[y] = "exit" THEN d.dests[y] \ {x}
                                  ELSE d.dests[y]]
  BY DEF Scan, Shape, Fields
<1> HIDE DEF c
<1>3. \A y \in Obj : /\ d.dests[y] \subseteq Obj \union {HOME}
                     /\ c.dests[y] \subseteq d.dests[y]
  BY <1>2 DEF Shape
<1>4. c.dests \in [Obj -> SUBSET (Obj \union {HOME})]
  <2>1. c.dests = [y \in Obj |-> c.dests[y]] BY <1>2
  <2>2. \A y \in Obj : c.dests[y] \in SUBSET (Obj \union {HOME}) BY <1>3
  <2> QED BY <2>1, <2>2
<1>5. Shape(c) BY <1>1, <1>2, <1>4 DEF Shape
<1>6. Follows(d, c) BY <1>2, <1>3, <1>5 DEF Follows, NoneLinked
<1> QED BY <1>6 DEF c

\* The end of recycle with its move.
LEMMA BuryFollows ==
  ASSUME NEW d, Shape(d), NEW x
  PROVE  Follows(d, Bury(d, x))
<1>1. Follows(d, Moveto(d, x, NOTHING)) BY MovetoFollows
<1>2. Shape(Moveto(d, x, NOTHING)) BY <1>1 DEF Follows
<1>3. Follows(Moveto(d, x, NOTHING), Bury(d, x))
  BY <1>2, FreeFollows DEF Bury
<1> QED BY <1>1, <1>3, FollowsOn

\* recycle of an exit
LEMMA RecycleExitFollows ==
  ASSUME NEW d, Shape(d), NEW e
  PROVE  Follows(d, RecycleExit(d, e))
<1>1. Follows(d, Scan(d, e)) BY ScanFollows
<1>2. Shape(Scan(d, e)) BY <1>1 DEF Follows
<1>3. Follows(Scan(d, e), RecycleExit(d, e)) BY <1>2, BuryFollows DEF RecycleExit
<1> QED BY <1>1, <1>3, FollowsOn

\* reverse
LEMMA ReversedFollows ==
  ASSUME NEW d, Shape(d), NEW at
  PROVE  Follows(d, Reversed(d, at))
<1> DEFINE c == Reversed(d, at)
<1>1. DOMAIN c = Fields BY DEF Reversed, Shape
<1>2. c.typ = d.typ /\ c.dests = d.dests
  BY DEF Reversed, Shape, Fields
<1> HIDE DEF c
<1>3. Follows(d, c) BY <1>1, <1>2, SameFollows
<1> QED BY <1>3 DEF c

-----------------------------------------------------------------------------
(* Loops. *)

\* Where no exit is linked, no loop is closed.
LEMMA NoLoopsKept ==
  ASSUME NEW d, NEW c, Shape(d), Follows(d, c), NoLoops(d)
  PROVE  NoLoops(c)
<1> SUFFICES ASSUME NEW S \in SUBSET Of(c, "exit"), S # {},
                    \A e \in S : c.dests[e] \intersect S # {}
             PROVE  FALSE
  BY DEF NoLoops
<1>1. \A e \in S : e \in Obj /\ c.typ[e] = "exit" BY DEF Of
<1>2. \A e \in S : d.typ[e] = "exit" /\ c.dests[e] \subseteq d.dests[e]
  BY <1>1 DEF Follows, NoneLinked
<1>3. S \in SUBSET Of(d, "exit") BY <1>1, <1>2 DEF Of
<1>4. PICK e \in S : d.dests[e] \intersect S = {} BY <1>3 DEF NoLoops
<1> QED BY <1>2, <1>4

\* exit_loop_check: an exit may lead to what does not lead back to it. A set
\* of exits each of which leads into the set would have been one before, in
\* what can be reached from the new destination.
LEMMA LinkKeepsNoLoops ==
  ASSUME NEW d, NEW c, Shape(d), NoLoops(d), NEW e, c.typ = d.typ,
         \A y \in Obj \ {e} : c.dests[y] = d.dests[y],
         \A g \in c.dests[e] :
            g \in Obj /\ d.typ[g] = "exit" => ~MetaLoop(d, e, g)
  PROVE  NoLoops(c)
<1> SUFFICES ASSUME NEW S \in SUBSET Of(c, "exit"), S # {},
                    \A y \in S : c.dests[y] \intersect S # {}
             PROVE  FALSE
  BY DEF NoLoops
<1>1. \A y \in S : y \in Obj /\ d.typ[y] = "exit" BY DEF Of
<1>2. CASE e \notin S
  <2>1. \A y \in S : d.dests[y] \intersect S # {} BY <1>1, <1>2
  <2>2. S \in SUBSET Of(d, "exit") BY <1>1 DEF Of
  <2> QED BY <2>1, <2>2 DEF NoLoops
<1>3. CASE e \in S
  <2>1. PICK g : g \in c.dests[e] \intersect S BY <1>3
  <2>2. ~MetaLoop(d, e, g) BY <1>1, <2>1
  <2>3. PICK T \in SUBSET Obj :
          /\ g \in T
          /\ \A y \in T : d.typ[y] = "exit" => d.dests[y] \ {HOME} \subseteq T
          /\ e \notin T
    BY <2>2 DEF MetaLoop
  <2>4. S \intersect T \in SUBSET Of(d, "exit") /\ S \intersect T # {}
    BY <1>1, <2>1, <2>3 DEF Of
  <2>5. HOME \notin S BY <1>1 DEF HOME, Obj
  <2>6. \A y \in S \intersect T : d.dests[y] \intersect (S \intersect T) # {}
    BY <1>1, <2>3, <2>5
  <2> QED BY <2>4, <2>6 DEF NoLoops
<1> QED BY <1>2, <1>3

-----------------------------------------------------------------------------
(* The steps. *)

Sound(d) == Shape(d) /\ NoLoops(d)

\* A step after which the array follows from the one before.
LEMMA FollowsSound ==
  ASSUME NEW d, NEW c, Sound(d), Follows(d, c)
  PROVE  Sound(c)
BY NoLoopsKept DEF Sound, Follows

\* A constructor
LEMMA AddFollows ==
  ASSUME Shape(db), NEW t \in Types, NEW list \in {"contents", "exits"},
         NEW at, NEW o, NEW h
  PROVE  Follows(db, Add(t, list, at, o, h))
<1> DEFINE new == NewObject(db, t, at, o, h)
<1>1. Follows(db, new) BY NewFollows
<1>2. Shape(new) BY <1>1 DEF Follows
<1> HIDE DEF new
<1>3. Follows(new, PushOn(new, list, at, NewRef(db))) BY <1>2, PushFollows
<1>4. Follows(db, PushOn(new, list, at, NewRef(db))) BY <1>1, <1>3, FollowsOn
<1> QED BY <1>4 DEF Add, new

\* One field of one exit, or of many objects.
LEMMA LinkedSound ==
  ASSUME Sound(db), NEW e \in Obj, NEW D \in SUBSET (Obj \union {HOME}), NEW o,
         \A g \in D : g \in Obj /\ db.typ[g] = "exit" => ~MetaLoop(db, e, g)
  PROVE  /\ Sound([db EXCEPT !.dests = [@ EXCEPT ![e] = D]])
         /\ Sound([db EXCEPT !.dests = [@ EXCEPT ![e] = D],
                             !.owner = [@ EXCEPT ![e] = o]])
<1> SUFFICES ASSUME NEW c, c.typ = db.typ, DOMAIN c = Fields,
                    c.dests = [db.dests EXCEPT ![e] = D]
             PROVE  Sound(c)
  BY DEF Sound, Shape, Fields
<1>1. Shape(c) BY DEF Shape, Sound
<1>2. \A y \in Obj \ {e} : c.dests[y] = db.dests[y] BY DEF Shape, Sound
<1>3. c.dests[e] = D BY DEF Shape, Sound
<1>4. NoLoops(c) BY ZenonT(30), <1>2, <1>3, LinkKeepsNoLoops DEF Sound
<1> QED BY <1>1, <1>4 DEF Sound

\* Everything that is made, linked and unlinked.
LEMMA BuildingSound == ASSUME Sound(db), Building PROVE Sound(db')
<1>1. Shape(db) BY DEF Sound
<1>2. {"room", "thing", "exit", "program", "player"} \subseteq Types BY DEF Types
<1>3. CASE CreateThing \/ PrimNewObject \/ CreateProgram \/ CreateRoom
           \/ OpenExit \/ NewAction
  <2>1. PICK t \in {"room", "thing", "exit", "program"},
             list \in {"contents", "exits"} :
          \E at, o, h : db' = Add(t, list, at, o, h)
    BY <1>3 DEF CreateThing, PrimNewObject, CreateProgram, CreateRoom,
                OpenExit, NewAction
  <2>2. PICK at, o, h : db' = Add(t, list, at, o, h) BY <2>1
  <2>3. Follows(db, db') BY <1>1, <1>2, <2>2, AddFollows
  <2> QED BY <2>3, FollowsSound
<1>4. CASE CreatePlayer
  <2> DEFINE new == NewObject(db, "player", Root, NOTHING, Root)
  <2>1. Follows(db, new) BY <1>1, <1>2, NewFollows
  <2>2. Shape(new) BY <2>1 DEF Follows
  <2>3. db' = PushOn(new, "contents", Root, NewRef(db)) BY <1>4 DEF CreatePlayer
  <2> HIDE DEF new
  <2>4. Follows(new, db') BY <2>2, <2>3, PushFollows
  <2> QED BY <2>1, <2>4, FollowsOn, FollowsSound
<1>5. CASE CopyThing
  <2>1. PICK o, h, a :
          db' = Moveto(NewObject(db, "thing", NOTHING, o, h), NewRef(db), a)
    BY <1>5 DEF CopyThing
  <2> DEFINE new == NewObject(db, "thing", NOTHING, o, h)
  <2>2. Follows(db, new) BY <1>1, <1>2, NewFollows
  <2>3. Shape(new) BY <2>2 DEF Follows
  <2> HIDE DEF new
  <2>4. Follows(new, db') BY <2>1, <2>3, MovetoFollows DEF new
  <2> QED BY <2>2, <2>4, FollowsOn, FollowsSound
<1>6. CASE LinkExit
  <2>1. PICK e \in Of(db, "exit"), a \in Actors,
             D \in SUBSET (Live(db) \union {HOME}) :
          /\ \A c \in D \ {HOME} : db.typ[c] = "exit" => ~MetaLoop(db, e, c)
          /\ db' = [db EXCEPT !.dests = [@ EXCEPT ![e] = D],
                              !.owner = [@ EXCEPT ![e] = db.owner[a]]]
    BY <1>6 DEF LinkExit
  <2>2. e \in Obj /\ D \in SUBSET (Obj \union {HOME}) BY DEF Of, Live
  <2>3. HOME \notin Obj BY DEF HOME, Obj
  <2>4. \A g \in D : g \in Obj /\ db.typ[g] = "exit" => ~MetaLoop(db, e, g)
    BY <2>1, <2>3
  <2> QED BY <2>1, <2>2, <2>4, LinkedSound
<1>7. CASE PrimSetLink
  <2>1. PICK x \in Live(db), dest \in Live(db) \union {NOTHING} :
          \/ db' = [db EXCEPT !.dests = [@ EXCEPT ![x] = {}]]
          \/ /\ dest # NOTHING /\ ~MetaLoop(db, x, dest)
             /\ db' = [db EXCEPT !.dests = [@ EXCEPT ![x] = {dest}]]
          \/ \E v : db' = [db EXCEPT !.link = v]
    <3>1. PICK x \in Live(db), dest \in Live(db) \union {NOTHING} :
            \/ db' = [db EXCEPT !.dests = [@ EXCEPT ![x] = {}]]
            \/ /\ dest # NOTHING /\ ~MetaLoop(db, x, dest)
               /\ db' = [db EXCEPT !.dests = [@ EXCEPT ![x] = {dest}]]
            \/ db' = [db EXCEPT !.link = [@ EXCEPT ![x] = dest]]
      BY <1>7 DEF PrimSetLink
    <3> QED BY <3>1
  <2>2. x \in Obj BY DEF Live
  <2>3. CASE db' = [db EXCEPT !.dests = [@ EXCEPT ![x] = {}]]
    BY <2>2, <2>3, LinkedSound
  <2>4. CASE /\ dest # NOTHING /\ ~MetaLoop(db, x, dest)
             /\ db' = [db EXCEPT !.dests = [@ EXCEPT ![x] = {dest}]]
    <3>1. dest \in Obj BY <2>4 DEF Live
    <3> QED BY <2>2, <2>4, <3>1, LinkedSound
  <2>5. CASE \E v : db' = [db EXCEPT !.link = v]
    <3>1. PICK v : db' = [db EXCEPT !["link"] = v] BY <2>5
    <3>2. Follows(db, db') BY <1>1, <3>1, FieldFollows DEF Fields
    <3> QED BY <3>2, FollowsSound
  <2> QED BY <2>1, <2>3, <2>4, <2>5
<1>8. CASE Unlink
  <2>1. PICK x \in Live(db) :
          \/ db' = [db EXCEPT !.dests = [@ EXCEPT ![x] = {}]]
          \/ \E v : db' = [db EXCEPT !.link = v]
    BY <1>8 DEF Unlink
  <2>2. x \in Obj BY DEF Live
  <2>3. CASE db' = [db EXCEPT !.dests = [@ EXCEPT ![x] = {}]]
    BY <2>2, <2>3, LinkedSound
  <2>4. CASE \E v : db' = [db EXCEPT !.link = v]
    <3>1. PICK v : db' = [db EXCEPT !["link"] = v] BY <2>4
    <3>2. Follows(db, db') BY <1>1, <3>1, FieldFollows DEF Fields
    <3> QED BY <3>2, FollowsSound
  <2> QED BY <2>1, <2>3, <2>4
<1>9. CASE LinkHome \/ LinkDropto \/ UnlinkThing
  <2>1. PICK v : db' = [db EXCEPT !["link"] = v]
    BY <1>9 DEF LinkHome, LinkDropto, UnlinkThing
  <2>2. Follows(db, db') BY <1>1, <2>1, FieldFollows DEF Fields
  <2> QED BY <2>2, FollowsSound
<1>10. CASE Chown
  <2>1. PICK v : db' = [db EXCEPT !["owner"] = v] BY <1>10 DEF Chown
  <2>2. Follows(db, db') BY <1>1, <2>1, FieldFollows DEF Fields
  <2> QED BY <2>2, FollowsSound
<1>11. CASE Attach
  <2>1. PICK e, source, v :
          db' = PushOn([RemoveFrom(db, "exits", db.loc[e], e) EXCEPT !["loc"] = v],
                       "exits", source, e)
    BY <1>11 DEF Attach
  <2> DEFINE out == RemoveFrom(db, "exits", db.loc[e], e)
             there == [out EXCEPT !["loc"] = v]
  <2>2. Follows(db, out) BY <1>1, RemoveFollows
  <2>3. Shape(out) BY <2>2 DEF Follows
  <2>4. db' = PushOn(there, "exits", source, e) BY <2>1
  <2> HIDE DEF out
  <2>5. Follows(out, there) BY <2>3, FieldFollows DEF Fields
  <2>6. Shape(there) BY <2>5 DEF Follows
  <2> HIDE DEF there
  <2>7. Follows(there, db') BY <2>4, <2>6, PushFollows
  <2>8. Follows(db, db') BY <2>2, <2>5, <2>7, FollowsOn
  <2> QED BY <2>8, FollowsSound
<1> QED BY <1>3, <1>4, <1>5, <1>6, <1>7, <1>8, <1>9, <1>10, <1>11 DEF Building

\* Moves change lists and places only.
LEMMA MovingSound == ASSUME Sound(db), Moving PROVE Sound(db')
<1>1. Shape(db) BY DEF Sound
<1>2. CASE Get \/ Drop \/ Trigger \/ Leave \/ SendHome \/ MaybeDropto
  <2>1. \A op, x, to, after : Going(op, x, to, after) => db' = db BY DEF Going
  <2>2. CASE Get \/ Drop \/ Leave BY <2>1, <2>2 DEF Get, Drop, Leave
  <2>3. CASE Trigger
    <3>1. \E op, x, to, after : Going(op, x, to, after)
      <4>1. PICK e \in Of(db, "exit"), a \in Actors : \E d \in db.dests[e] :
              \E op, x, to, after : Going(op, x, to, after)
        BY <2>3 DEF Trigger
      <4> QED BY <4>1
    <3> QED BY <2>1, <3>1
  <2>4. CASE SendHome \/ MaybeDropto
    <3>1. CASE SendHome BY <3>1 DEF SendHome
    <3>2. CASE MaybeDropto BY <3>2 DEF MaybeDropto
    <3> QED BY <2>4, <3>1, <3>2
  <2> QED BY <1>2, <2>2, <2>3, <2>4
<1>3. CASE Teleport \/ PrimMoveto \/ PutDown \/ EnterRoom \/ SendNext
  <2>1. db' = db \/ \E x, to : db' = Moveto(db, x, to)
    BY <1>3 DEF Teleport, PrimMoveto, PutDown, EnterRoom, SendNext, Going
  <2>2. db' = db \/ Follows(db, db') BY <1>1, <2>1, MovetoFollows
  <2> QED BY <2>2, FollowsSound
<1>4. CASE SendContents
  <2> DEFINE c(v) == [db EXCEPT !["contents"] = v]
  <2>1. PICK v, w : db' = [c(v) EXCEPT !["loc"] = w]
    <3>1. db' = [db EXCEPT !["contents"] = [db.contents EXCEPT ![Top.obj] = NOTHING],
                   !["loc"] = [x \in Obj |-> IF x \in Chain(db, db.contents[Top.obj])
                                             THEN NOTHING ELSE db.loc[x]]]
      BY <1>4 DEF SendContents
    <3> QED BY <3>1
  <2>2. Follows(db, c(v)) BY <1>1, FieldFollows DEF Fields
  <2>3. Shape(c(v)) BY <2>2 DEF Follows
  <2> HIDE DEF c
  <2>4. Follows(c(v), db') BY <2>1, <2>3, FieldFollows DEF Fields
  <2> QED BY <2>2, <2>4, FollowsOn, FollowsSound
<1>5. CASE SendEnds
  <2>1. db' = Reversed(db, Top.obj) BY <1>5 DEF SendEnds
  <2>2. Follows(db, db') BY <1>1, <2>1, ReversedFollows
  <2> QED BY <2>2, FollowsSound
<1> QED BY <1>2, <1>3, <1>4, <1>5 DEF Moving

\* Recycling takes destinations away; a player who is frobbed becomes no exit.
LEMMA RecyclingSound == ASSUME Sound(db), Recycling PROVE Sound(db')
<1>1. Shape(db) BY DEF Sound
<1>2. CASE Recycle \/ PrimRecycle
  <2>1. PICK x : RecycleOf(x) BY <1>2 DEF Recycle, PrimRecycle
  <2>2. CASE db' = db BY <2>2
  <2>3. CASE db' = RecycleExit(RemoveFrom(db, "exits", db.loc[x], x), x)
    <3> DEFINE out == RemoveFrom(db, "exits", db.loc[x], x)
    <3>1. Follows(db, out) BY <1>1, RemoveFollows
    <3>2. Shape(out) BY <3>1 DEF Follows
    <3> HIDE DEF out
    <3>3. Follows(out, db') BY <2>3, <3>2, RecycleExitFollows DEF out
    <3> QED BY <3>1, <3>3, FollowsOn, FollowsSound
  <2> QED BY <2>1, <2>2, <2>3 DEF RecycleOf
<1>3. CASE RecycleNextExit \/ PurgeNext
  <2>1. db' = db \/ \E e : db' = RecycleExit(db, e)
    BY <1>3 DEF RecycleNextExit, PurgeNext
  <2>2. db' = db \/ Follows(db, db') BY <1>1, <2>1, RecycleExitFollows
  <2> QED BY <2>2, FollowsSound
<1>4. CASE RecycleScan \/ EmptyNext \/ DragOut \/ RecycleEnds
  <2>1. \/ db' = db \/ db' = Scan(db, Top.obj) \/ db' = Bury(db, Top.obj)
        \/ \E x : db' = Moveto(db, x, HOME)
    BY <1>4 DEF RecycleScan, EmptyNext, DragOut, RecycleEnds
  <2>2. db' = db \/ Follows(db, db')
    BY <1>1, <2>1, ScanFollows, BuryFollows, MovetoFollows
  <2> QED BY <2>2, FollowsSound
<1>5. CASE Frob \/ Purge \/ PurgeEnds
  <2>1. db' = db BY <1>5 DEF Frob, Purge, PurgeEnds
  <2> QED BY <2>1
<1>6. CASE Frobbed
  <2>1. /\ DOMAIN db' = Fields
        /\ db'.typ = [db.typ EXCEPT ![Top.obj] = "thing"]
        /\ db'.dests = db.dests
    BY <1>1, <1>6 DEF Frobbed, Shape, Fields
  <2>2. Shape(db') BY <1>1, <2>1 DEF Shape, Types
  <2>3. \A y \in Obj : db'.typ[y] = "exit" => db.typ[y] = "exit"
    BY <1>1, <2>1 DEF Shape
  <2>4. Follows(db, db') BY <2>1, <2>2, <2>3 DEF Follows, NoneLinked
  <2> QED BY <2>4, FollowsSound
<1> QED BY <1>2, <1>3, <1>4, <1>5, <1>6 DEF Recycling

\* Both databases the server may start with.
LEMMA InitSound == Init => Sound(db)
<1> SUFFICES ASSUME Init PROVE Sound(db)
  OBVIOUS
<1>1. PICK furnished \in BOOLEAN :
        /\ DOMAIN db = Fields
        /\ db.typ = [x \in Obj |->
             IF x + 1 \in 1..6 /\ (furnished \/ x < 2)
             THEN <<"room", "player", "room", "player", "thing", "room">>[x + 1]
             ELSE "none"]
        /\ db.dests = [x \in Obj |-> {}]
  BY DEF Init, Fields
<1>2. \A x \in Obj : x \in Nat BY MaxTopAssumption DEF Obj
<1>3. Shape(db) BY <1>1, <1>2, MaxTopAssumption DEF Shape, Types, Obj
<1>4. NoLoops(db)
  <2> SUFFICES ASSUME NEW S \in SUBSET Of(db, "exit"), S # {}
               PROVE  \E e \in S : db.dests[e] \intersect S = {}
    BY DEF NoLoops
  <2>1. \A x \in S : x \in Obj /\ db.typ[x] = "exit" BY DEF Of
  <2>2. PICK e : e \in S OBVIOUS
  <2>3. db.dests[e] = {} BY <1>1, <2>1, <2>2
  <2> QED BY <2>2, <2>3
<1> QED BY <1>3, <1>4 DEF Sound

\* The inductive invariant.
LinksSound == Sound(db)

\* trigger() follows the exits that an exit leads to without looking back. It
\* comes to an end, whatever is linked, copied, recycled or frobbed while moves
\* and recycling are under way: an exit is linked only to what exit_loop_check
\* has gone through, and everything else takes destinations away. This needs
\* nothing of the lists, and no good behaviour of programs.
THEOREM MetaLinksEnd == Spec => []NoMetaLoops
<1>1. Init => LinksSound BY InitSound DEF LinksSound
<1>2. LinksSound /\ [Next]_vars => LinksSound'
  <2> SUFFICES ASSUME Sound(db), [Next]_vars PROVE Sound(db')
    BY DEF LinksSound
  <2>1. CASE Building BY <2>1, BuildingSound
  <2>2. CASE Moving BY <2>2, MovingSound
  <2>3. CASE Recycling BY <2>3, RecyclingSound
  <2>4. CASE ProgramEnds \/ UNCHANGED vars
    <3>1. db' = db BY <2>4 DEF ProgramEnds, vars
    <3> QED BY <3>1
  <2> QED BY <2>1, <2>2, <2>3, <2>4 DEF Next
<1>3. LinksSound => NoMetaLoops
  BY DEF LinksSound, Sound, NoLoops, NoMetaLoops
<1> QED BY <1>1, <1>2, <1>3, PTL DEF Spec

-----------------------------------------------------------------------------
(* The first states.                                                       *)

\* The value for x of six for the first objects, and one for the others.
SixOf(all, small, x) ==
  IF x = 0 THEN all[1] ELSE IF x = 1 THEN all[2] ELSE IF x = 2 THEN all[3]
  ELSE IF x = 3 THEN all[4] ELSE IF x = 4 THEN all[5] ELSE IF x = 5 THEN all[6]
  ELSE small

\* What Init says of each object of the furnished array, ...
Furnished(d) ==
  /\ MaxTop >= 6 /\ d.top = 6 /\ d.recyclable = NOTHING
  /\ \A x \in Obj :
       /\ d.typ[x] = SixOf(<<"room", "player", "room", "player", "thing", "room">>, "none", x)
       /\ d.loc[x] = SixOf(<<NOTHING, 0, 0, 2, 3, 4>>, NOTHING, x)
       /\ d.contents[x] = SixOf(<<1, NOTHING, 3, 4, 5, NOTHING>>, NOTHING, x)
       /\ d.exits[x] = NOTHING
       /\ d.next[x] = IF x = 1 THEN 2 ELSE NOTHING
       /\ d.owner[x] = SixOf(<<1, 1, 3, 3, 3, 3>>, NOTHING, x)
       /\ d.link[x] = SixOf(<<NOTHING, 0, NOTHING, 5, 2, NOTHING>>, 0, x)
       /\ d.dests[x] = {}

\* ... and of the smallest.
Bare(d) ==
  /\ d.top = 2 /\ d.recyclable = NOTHING
  /\ \A x \in Obj :
       /\ d.typ[x] = IF x = 0 THEN "room" ELSE IF x = 1 THEN "player" ELSE "none"
       /\ d.loc[x] = IF x = 1 THEN 0 ELSE NOTHING
       /\ d.contents[x] = IF x = 0 THEN 1 ELSE NOTHING
       /\ d.exits[x] = NOTHING /\ d.next[x] = NOTHING
       /\ d.owner[x] = IF x < 2 THEN 1 ELSE NOTHING
       /\ d.link[x] = IF x = 0 THEN NOTHING ELSE 0
       /\ d.dests[x] = {}

\* A field of the first array.
LEMMA FieldIs ==
  ASSUME NEW furnished \in BOOLEAN, NEW T, NEW small \in T,
         NEW a \in T, NEW b \in T, NEW c, NEW e, NEW f, NEW g,
         furnished => c \in T /\ e \in T /\ f \in T /\ g \in T,
         NEW v, v = [x \in Obj |->
                       IF x + 1 \in DOMAIN <<a, b, c, e, f, g>> /\ (furnished \/ x < 2)
                       THEN <<a, b, c, e, f, g>>[x + 1] ELSE small]
  PROVE  /\ v \in [Obj -> T]
         /\ \A x \in Obj :
              v[x] = IF furnished THEN SixOf(<<a, b, c, e, f, g>>, small, x)
                     ELSE IF x = 0 THEN a ELSE IF x = 1 THEN b ELSE small
<1>1. ASSUME NEW x \in Obj
      PROVE  /\ v[x] \in T
             /\ v[x] = IF furnished THEN SixOf(<<a, b, c, e, f, g>>, small, x)
                       ELSE IF x = 0 THEN a ELSE IF x = 1 THEN b ELSE small
  <2>1. x \in Int /\ x >= 0 BY MaxTopAssumption DEF Obj
  <2>2. DOMAIN <<a, b, c, e, f, g>> = 1 .. 6 OBVIOUS
  <2>3. v[x] = IF x + 1 \in 1 .. 6 /\ (furnished \/ x < 2)
               THEN <<a, b, c, e, f, g>>[x + 1] ELSE small
    BY <2>2
  <2>4. x = 0 \/ x = 1 \/ x = 2 \/ x = 3 \/ x = 4 \/ x = 5 \/ x >= 6 BY <2>1
  <2>5. CASE x = 0 BY <2>3, <2>5 DEF SixOf
  <2>6. CASE x = 1 BY <2>3, <2>6 DEF SixOf
  <2>7. CASE x = 2 BY <2>3, <2>7 DEF SixOf
  <2>8. CASE x = 3 BY <2>3, <2>8 DEF SixOf
  <2>9. CASE x = 4 BY <2>3, <2>9 DEF SixOf
  <2>10. CASE x = 5 BY <2>3, <2>10 DEF SixOf
  <2>11. CASE x >= 6 BY <2>1, <2>3, <2>11 DEF SixOf
  <2> QED BY <2>4, <2>5, <2>6, <2>7, <2>8, <2>9, <2>10, <2>11
<1>2. v \in [Obj -> T] BY <1>1
<1> QED BY <1>1, <1>2

\* What Init says, field by field.
LEMMA InitFields ==
  ASSUME Init
  PROVE  \E furnished \in BOOLEAN :
        /\ furnished => MaxTop >= 6 /\ MaxCommands >= 1
        /\ DOMAIN db = {"top", "recyclable", "typ", "loc", "contents", "exits", "next",
                        "owner", "link", "dests"}
        /\ db = [top |-> db.top, recyclable |-> db.recyclable, typ |-> db.typ,
                 loc |-> db.loc, contents |-> db.contents, exits |-> db.exits,
                 next |-> db.next, owner |-> db.owner, link |-> db.link, dests |-> db.dests]
        /\ db.top = IF furnished THEN 6 ELSE 2
        /\ db.recyclable = NOTHING
        /\ db.typ = [x \in Obj |->
               IF x + 1 \in DOMAIN <<"room", "player", "room", "player", "thing", "room">> /\ (furnished \/ x < 2)
               THEN <<"room", "player", "room", "player", "thing", "room">>[x + 1] ELSE "none"]
        /\ db.loc = [x \in Obj |->
               IF x + 1 \in DOMAIN <<NOTHING, 0, 0, 2, 3, 4>> /\ (furnished \/ x < 2)
               THEN <<NOTHING, 0, 0, 2, 3, 4>>[x + 1] ELSE NOTHING]
        /\ db.contents = [x \in Obj |->
               IF x + 1 \in DOMAIN <<1, NOTHING, 3, 4, 5, NOTHING>> /\ (furnished \/ x < 2)
               THEN <<1, NOTHING, 3, 4, 5, NOTHING>>[x + 1] ELSE NOTHING]
        /\ db.exits = [x \in Obj |-> NOTHING]
        /\ db.owner = [x \in Obj |->
               IF x + 1 \in DOMAIN <<1, 1, 3, 3, 3, 3>> /\ (furnished \/ x < 2)
               THEN <<1, 1, 3, 3, 3, 3>>[x + 1] ELSE NOTHING]
        /\ db.link = [x \in Obj |->
               IF x + 1 \in DOMAIN <<NOTHING, 0, NOTHING, 5, 2, NOTHING>> /\ (furnished \/ x < 2)
               THEN <<NOTHING, 0, NOTHING, 5, 2, NOTHING>>[x + 1] ELSE 0]
        /\ db.next = IF furnished THEN [x \in Obj |-> IF x = 1 THEN 2 ELSE NOTHING]
                     ELSE [x \in Obj |-> NOTHING]
        /\ db.dests = [x \in Obj |-> {}]
        /\ stack = <<>>
        /\ given = IF furnished THEN 1 ELSE 0
        /\ meddled = FALSE
BY DEF Init

\* What Init says of the first array.
LEMMA InitIs ==
  ASSUME Init
  PROVE  /\ db \in DB /\ (Furnished(db) \/ Bare(db))
         /\ stack = <<>> /\ given \in 0 .. MaxCommands /\ meddled = FALSE
<1>1. PICK furnished \in BOOLEAN :
        /\ furnished => MaxTop >= 6 /\ MaxCommands >= 1
        /\ DOMAIN db = {"top", "recyclable", "typ", "loc", "contents", "exits", "next",
                        "owner", "link", "dests"}
        /\ db = [top |-> db.top, recyclable |-> db.recyclable, typ |-> db.typ,
                 loc |-> db.loc, contents |-> db.contents, exits |-> db.exits,
                 next |-> db.next, owner |-> db.owner, link |-> db.link, dests |-> db.dests]
        /\ db.top = IF furnished THEN 6 ELSE 2
        /\ db.recyclable = NOTHING
        /\ db.typ = [x \in Obj |->
               IF x + 1 \in DOMAIN <<"room", "player", "room", "player", "thing", "room">> /\ (furnished \/ x < 2)
               THEN <<"room", "player", "room", "player", "thing", "room">>[x + 1] ELSE "none"]
        /\ db.loc = [x \in Obj |->
               IF x + 1 \in DOMAIN <<NOTHING, 0, 0, 2, 3, 4>> /\ (furnished \/ x < 2)
               THEN <<NOTHING, 0, 0, 2, 3, 4>>[x + 1] ELSE NOTHING]
        /\ db.contents = [x \in Obj |->
               IF x + 1 \in DOMAIN <<1, NOTHING, 3, 4, 5, NOTHING>> /\ (furnished \/ x < 2)
               THEN <<1, NOTHING, 3, 4, 5, NOTHING>>[x + 1] ELSE NOTHING]
        /\ db.exits = [x \in Obj |-> NOTHING]
        /\ db.owner = [x \in Obj |->
               IF x + 1 \in DOMAIN <<1, 1, 3, 3, 3, 3>> /\ (furnished \/ x < 2)
               THEN <<1, 1, 3, 3, 3, 3>>[x + 1] ELSE NOTHING]
        /\ db.link = [x \in Obj |->
               IF x + 1 \in DOMAIN <<NOTHING, 0, NOTHING, 5, 2, NOTHING>> /\ (furnished \/ x < 2)
               THEN <<NOTHING, 0, NOTHING, 5, 2, NOTHING>>[x + 1] ELSE 0]
        /\ db.next = IF furnished THEN [x \in Obj |-> IF x = 1 THEN 2 ELSE NOTHING]
                     ELSE [x \in Obj |-> NOTHING]
        /\ db.dests = [x \in Obj |-> {}]
        /\ stack = <<>>
        /\ given = IF furnished THEN 1 ELSE 0
        /\ meddled = FALSE
  BY InitFields
<1>2. /\ 0 \in Obj /\ 1 \in Obj /\ 0 \in OrNone /\ 1 \in OrNone /\ NOTHING \in OrNone
      /\ \A x \in Obj : x \in Nat
      /\ 0 \in OrNone \union {HOME} /\ NOTHING \in OrNone \union {HOME}
  BY MaxTopAssumption DEF Obj, OrNone
<1>3. furnished => /\ 2 \in OrNone /\ 3 \in OrNone /\ 4 \in OrNone /\ 5 \in OrNone
                   /\ 2 \in OrNone \union {HOME} /\ 5 \in OrNone \union {HOME}
  BY <1>1, MaxTopAssumption DEF Obj, OrNone
<1>4. {"none", "room", "player", "thing", "exit"} \subseteq Types BY DEF Types
<1>5. /\ db.typ \in [Obj -> Types]
      /\ \A x \in Obj :
           db.typ[x] = IF furnished THEN SixOf(<<"room", "player", "room", "player", "thing", "room">>, "none", x)
                       ELSE IF x = 0 THEN "room" ELSE IF x = 1 THEN "player" ELSE "none"
  <2> DEFINE v == db.typ
             S == Types
  <2>1. /\ "none" \in S /\ "room" \in S /\ "player" \in S
        /\ furnished => "room" \in S /\ "player" \in S /\ "thing" \in S
    BY <1>2, <1>3, <1>4
  <2>2. v = [x \in Obj |->
               IF x + 1 \in DOMAIN <<"room", "player", "room", "player", "thing", "room">> /\ (furnished \/ x < 2)
               THEN <<"room", "player", "room", "player", "thing", "room">>[x + 1] ELSE "none"]
    BY <1>1
  <2> HIDE DEF v, S
  <2>3. /\ v \in [Obj -> S]
        /\ \A x \in Obj :
             v[x] = IF furnished THEN SixOf(<<"room", "player", "room", "player", "thing", "room">>, "none", x)
                    ELSE IF x = 0 THEN "room" ELSE IF x = 1 THEN "player" ELSE "none"
    BY <2>1, <2>2, FieldIs, SMTT(60)
  <2> QED BY <2>3 DEF v, S
<1>6. /\ db.loc \in [Obj -> OrNone]
      /\ \A x \in Obj :
           db.loc[x] = IF furnished THEN SixOf(<<NOTHING, 0, 0, 2, 3, 4>>, NOTHING, x)
                       ELSE IF x = 0 THEN NOTHING ELSE IF x = 1 THEN 0 ELSE NOTHING
  <2> DEFINE v == db.loc
             S == OrNone
  <2>1. /\ NOTHING \in S /\ 0 \in S
        /\ furnished => 0 \in S /\ 2 \in S /\ 3 \in S /\ 4 \in S
    BY <1>2, <1>3, <1>4
  <2>2. v = [x \in Obj |->
               IF x + 1 \in DOMAIN <<NOTHING, 0, 0, 2, 3, 4>> /\ (furnished \/ x < 2)
               THEN <<NOTHING, 0, 0, 2, 3, 4>>[x + 1] ELSE NOTHING]
    BY <1>1
  <2> HIDE DEF v, S
  <2>3. /\ v \in [Obj -> S]
        /\ \A x \in Obj :
             v[x] = IF furnished THEN SixOf(<<NOTHING, 0, 0, 2, 3, 4>>, NOTHING, x)
                    ELSE IF x = 0 THEN NOTHING ELSE IF x = 1 THEN 0 ELSE NOTHING
    BY <2>1, <2>2, FieldIs, SMTT(60)
  <2> QED BY <2>3 DEF v, S
<1>7. /\ db.contents \in [Obj -> OrNone]
      /\ \A x \in Obj :
           db.contents[x] = IF furnished THEN SixOf(<<1, NOTHING, 3, 4, 5, NOTHING>>, NOTHING, x)
                       ELSE IF x = 0 THEN 1 ELSE IF x = 1 THEN NOTHING ELSE NOTHING
  <2> DEFINE v == db.contents
             S == OrNone
  <2>1. /\ NOTHING \in S /\ 1 \in S
        /\ furnished => 3 \in S /\ 4 \in S /\ 5 \in S /\ NOTHING \in S
    BY <1>2, <1>3, <1>4
  <2>2. v = [x \in Obj |->
               IF x + 1 \in DOMAIN <<1, NOTHING, 3, 4, 5, NOTHING>> /\ (furnished \/ x < 2)
               THEN <<1, NOTHING, 3, 4, 5, NOTHING>>[x + 1] ELSE NOTHING]
    BY <1>1
  <2> HIDE DEF v, S
  <2>3. /\ v \in [Obj -> S]
        /\ \A x \in Obj :
             v[x] = IF furnished THEN SixOf(<<1, NOTHING, 3, 4, 5, NOTHING>>, NOTHING, x)
                    ELSE IF x = 0 THEN 1 ELSE IF x = 1 THEN NOTHING ELSE NOTHING
    BY <2>1, <2>2, FieldIs, SMTT(60)
  <2> QED BY <2>3 DEF v, S
<1>8. db.exits \in [Obj -> OrNone] /\ \A x \in Obj : db.exits[x] = NOTHING
  BY <1>1, <1>2
<1>9. /\ db.owner \in [Obj -> OrNone]
      /\ \A x \in Obj :
           db.owner[x] = IF furnished THEN SixOf(<<1, 1, 3, 3, 3, 3>>, NOTHING, x)
                       ELSE IF x = 0 THEN 1 ELSE IF x = 1 THEN 1 ELSE NOTHING
  <2> DEFINE v == db.owner
             S == OrNone
  <2>1. /\ NOTHING \in S /\ 1 \in S
        /\ furnished => 3 \in S
    BY <1>2, <1>3, <1>4
  <2>2. v = [x \in Obj |->
               IF x + 1 \in DOMAIN <<1, 1, 3, 3, 3, 3>> /\ (furnished \/ x < 2)
               THEN <<1, 1, 3, 3, 3, 3>>[x + 1] ELSE NOTHING]
    BY <1>1
  <2> HIDE DEF v, S
  <2>3. /\ v \in [Obj -> S]
        /\ \A x \in Obj :
             v[x] = IF furnished THEN SixOf(<<1, 1, 3, 3, 3, 3>>, NOTHING, x)
                    ELSE IF x = 0 THEN 1 ELSE IF x = 1 THEN 1 ELSE NOTHING
    BY <2>1, <2>2, FieldIs, SMTT(60)
  <2> QED BY <2>3 DEF v, S
<1>10. /\ db.link \in [Obj -> OrNone \union {HOME}]
      /\ \A x \in Obj :
           db.link[x] = IF furnished THEN SixOf(<<NOTHING, 0, NOTHING, 5, 2, NOTHING>>, 0, x)
                       ELSE IF x = 0 THEN NOTHING ELSE IF x = 1 THEN 0 ELSE 0
  <2> DEFINE v == db.link
             S == OrNone \union {HOME}
  <2>1. /\ 0 \in S /\ NOTHING \in S
        /\ furnished => NOTHING \in S /\ 5 \in S /\ 2 \in S
    BY <1>2, <1>3, <1>4
  <2>2. v = [x \in Obj |->
               IF x + 1 \in DOMAIN <<NOTHING, 0, NOTHING, 5, 2, NOTHING>> /\ (furnished \/ x < 2)
               THEN <<NOTHING, 0, NOTHING, 5, 2, NOTHING>>[x + 1] ELSE 0]
    BY <1>1
  <2> HIDE DEF v, S
  <2>3. /\ v \in [Obj -> S]
        /\ \A x \in Obj :
             v[x] = IF furnished THEN SixOf(<<NOTHING, 0, NOTHING, 5, 2, NOTHING>>, 0, x)
                    ELSE IF x = 0 THEN NOTHING ELSE IF x = 1 THEN 0 ELSE 0
    BY <2>1, <2>2, FieldIs, SMTT(120)
  <2> QED BY <2>3 DEF v, S
<1>11. /\ db.next \in [Obj -> OrNone] /\ db.dests \in [Obj -> SUBSET (Obj \union {HOME})]
      /\ db.top \in 2 .. MaxTop /\ db.recyclable \in OrNone
  BY <1>1, <1>2, <1>3, MaxTopAssumption
<1>12. db \in DB BY <1>1, <1>5, <1>6, <1>7, <1>8, <1>9, <1>10, <1>11 DEF DB
<1>13. given \in 0 .. MaxCommands BY <1>1, BoundsAssumption
<1>14. CASE furnished
  <2>1. /\ db.top = 6 /\ MaxTop >= 6 /\ db.recyclable = NOTHING
        /\ db.next = [x \in Obj |-> IF x = 1 THEN 2 ELSE NOTHING]
        /\ db.dests = [x \in Obj |-> {}]
    BY <1>1, <1>14
  <2>2. \A x \in Obj : /\ db.next[x] = IF x = 1 THEN 2 ELSE NOTHING
                       /\ db.dests[x] = {}
    BY <2>1
  <2>3. Furnished(db)
    BY <1>5, <1>6, <1>7, <1>8, <1>9, <1>10, <1>14, <2>1, <2>2, Zenon DEF Furnished
  <2> QED BY <1>1, <1>12, <1>13, <2>3
<1>15. CASE ~furnished
  <2>1. \A x \in Obj : x < 2 <=> x = 0 \/ x = 1 BY <1>2
  <2> QED BY <1>1, <1>2, <1>5, <1>6, <1>7, <1>8, <1>9, <1>10, <1>12, <1>13, <1>15, <2>1 DEF Bare
<1> QED BY <1>1, <1>12, <1>13, <1>14, <1>15

\* Lists of one member each, but for the first, which may be 1 and then 2.
ShortLists(d) ==
  /\ d.recyclable = NOTHING
  /\ \A at \in Obj :
       /\ d.contents[at] # NOTHING =>
            /\ d.contents[at] \in On(d, {}) /\ d.loc[d.contents[at]] = at
            /\ d.typ[d.contents[at]] # "exit"
       /\ d.exits[at] # NOTHING =>
            /\ d.exits[at] \in On(d, {}) /\ d.loc[d.exits[at]] = at
            /\ d.typ[d.exits[at]] = "exit"
  /\ \A x \in On(d, {}) :
       /\ d.typ[x] # "garbage" /\ d.loc[x] \in Obj
       /\ d.next[x] # NOTHING =>
            /\ x = 1 /\ d.next[x] = 2 /\ 2 \in On(d, {})
            /\ d.typ[1] # "exit" /\ d.typ[2] # "exit"
            /\ d.loc[1] = d.loc[2] /\ d.contents[d.loc[1]] = 1
       /\ \/ x = d.contents[d.loc[x]] /\ d.typ[x] # "exit"
          \/ x = d.exits[d.loc[x]] /\ d.typ[x] = "exit"
          \/ x = 2 /\ 1 \in On(d, {}) /\ d.next[1] = 2

\* Lists of at most one object each are lists.
LEMMA ShortLinked ==
  ASSUME NEW d \in DB, ShortLists(d)
  PROVE  Linked(d, {}, NOTHING)
<1> DEFINE on == On(d, {})
           lab == Lab(d)
           head == Heads(d, NOTHING)
<1>1. on \in SUBSET Obj /\ NOTHING \notin on BY OnFacts
<1>2. DOMAIN head = Labels BY HeadsAre
<1>3. ASSUME NEW x \in on
      PROVE  /\ d.loc[x] \in Obj
             /\ d.typ[x] # "exit" => /\ lab[x] = Label("contents", d.loc[x])
                                     /\ lab[x] \in Labels /\ head[lab[x]] = d.contents[d.loc[x]]
             /\ d.typ[x] = "exit" => /\ lab[x] = Label("exits", d.loc[x])
                                     /\ lab[x] \in Labels /\ head[lab[x]] = d.exits[d.loc[x]]
  <2>1. d.typ[x] # "garbage" /\ d.loc[x] \in Obj /\ x \in Obj BY <1>1 DEF ShortLists
  <2>2. /\ Label("contents", d.loc[x]) \in Labels /\ Label("exits", d.loc[x]) \in Labels
        /\ head[Label("contents", d.loc[x])] = d.contents[d.loc[x]]
        /\ head[Label("exits", d.loc[x])] = d.exits[d.loc[x]]
    BY <2>1, HeadsAre
  <2>3. d.typ[x] # "exit" => lab[x] = Label("contents", d.loc[x]) BY <2>1 DEF Lab
  <2>4. d.typ[x] = "exit" => lab[x] = Label("exits", d.loc[x]) BY <2>1 DEF Lab
  <2> HIDE DEF lab, head
  <2> QED BY <2>1, <2>2, <2>3, <2>4
<1>4. ASSUME NEW k \in Labels, head[k] # NOTHING
      PROVE  head[k] \in on /\ lab[head[k]] = k
  <2>1. CASE k \in {FREE, Label("contents", NOTHING), Label("exits", NOTHING)}
    <3>1. head[k] = NOTHING BY <2>1, HeadsAre DEF ShortLists
    <3> QED BY <1>4, <3>1
  <2>2. ASSUME NEW at \in Obj, k = Label("contents", at) PROVE head[k] \in on /\ lab[head[k]] = k
    <3>1. head[k] = d.contents[at] BY <2>2, HeadsAre
    <3>2. /\ d.contents[at] \in on /\ d.loc[d.contents[at]] = at
          /\ d.typ[d.contents[at]] # "exit"
      BY <1>4, <3>1 DEF ShortLists
    <3> HIDE DEF on, lab, head
    <3> QED BY <1>3, <2>2, <3>1, <3>2
  <2>3. ASSUME NEW at \in Obj, k = Label("exits", at) PROVE head[k] \in on /\ lab[head[k]] = k
    <3>1. head[k] = d.exits[at] BY <2>3, HeadsAre
    <3>2. /\ d.exits[at] \in on /\ d.loc[d.exits[at]] = at
          /\ d.typ[d.exits[at]] = "exit"
      BY <1>4, <3>1 DEF ShortLists
    <3> HIDE DEF on, lab, head
    <3> QED BY <1>3, <2>3, <3>1, <3>2
  <2> HIDE DEF on, lab, head
  <2> QED BY <2>1, <2>2, <2>3, LabelKinds
<1>5. ASSUME NEW x \in on
      PROVE  /\ d.next[x] # NOTHING =>
                  /\ x = 1 /\ d.next[x] = 2 /\ 2 \in on
                  /\ d.typ[1] # "exit" /\ d.typ[2] # "exit"
                  /\ d.loc[1] = d.loc[2] /\ d.contents[d.loc[1]] = 1
             /\ \/ x = d.contents[d.loc[x]] /\ d.typ[x] # "exit"
                \/ x = d.exits[d.loc[x]] /\ d.typ[x] = "exit"
                \/ x = 2 /\ 1 \in on /\ d.next[1] = 2
  BY DEF ShortLists
<1> HIDE DEF on, lab, head
<1>6. ASSUME NEW x \in on, d.next[x] # NOTHING
      PROVE  d.next[x] \in on /\ lab[d.next[x]] = lab[x] /\ d.next[x] # head[lab[x]]
  <2>1. /\ x = 1 /\ d.next[x] = 2 /\ 2 \in on /\ 1 \in on
        /\ d.typ[1] # "exit" /\ d.typ[2] # "exit"
        /\ d.loc[1] = d.loc[2] /\ d.contents[d.loc[1]] = 1
    BY <1>5, <1>6
  <2>2. lab[1] = Label("contents", d.loc[1]) /\ head[lab[1]] = d.contents[d.loc[1]]
    BY <1>3, <2>1
  <2>3. lab[2] = Label("contents", d.loc[2]) BY <1>3, <2>1
  <2> QED BY <2>1, <2>2, <2>3
<1>7. \A x \in on : x # head[lab[x]] => \E y \in on : d.next[y] = x BY <1>3, <1>5
<1>8. \A x, y \in on : d.next[x] = d.next[y] /\ d.next[x] # NOTHING => x = y BY <1>5
<1>9. ASSUME NEW S \in SUBSET on, S # {} PROVE \E x \in S : d.next[x] \notin S
  <2>1. CASE 2 \in S
    <3>1. d.next[2] = NOTHING BY <1>5, <2>1
    <3> QED BY <1>1, <2>1, <3>1
  <2>2. CASE 2 \notin S
    <3>1. PICK x : x \in S BY <1>9
    <3>2. d.next[x] \in {NOTHING, 2} BY <1>5, <3>1
    <3> QED BY <1>1, <2>2, <3>1, <3>2
  <2> QED BY <2>1, <2>2
<1>10. Strung(on, lab, head, d.next)
  <2>1. \A x \in on : lab[x] \in DOMAIN head BY <1>2, <1>3
  <2>2. \A k \in DOMAIN head : head[k] # NOTHING => head[k] \in on /\ lab[head[k]] = k
    BY <1>2, <1>4
  <2> QED BY <1>6, <1>7, <1>8, <1>9, <2>1, <2>2 DEF Strung
<1> QED BY <1>10 DEF Linked, on, lab, head

\* The furnished array is in order.
LEMMA FurnishedWorld ==
  ASSUME NEW d \in DB, Furnished(d)
  PROVE  World(d, {}, NOTHING, NOTHING)
<1>1. /\ 0 \in Obj /\ 1 \in Obj /\ 2 \in Obj /\ 3 \in Obj /\ 4 \in Obj /\ 5 \in Obj
      /\ \A x \in Obj : x \in Nat
      /\ NOTHING \notin Obj /\ NOTHING # HOME /\ Root = 0 /\ Man = 1
  BY MaxTopAssumption, Numbers DEF Furnished, Obj, Root, Man
<1>2. \A x \in Obj : x \in {0, 1, 2, 3, 4, 5} \/ x >= 6 BY <1>1
<1>3. /\ d.typ[0] = "room" /\ d.typ[1] = "player" /\ d.typ[2] = "room"
      /\ d.typ[3] = "player" /\ d.typ[4] = "thing" /\ d.typ[5] = "room"
      /\ \A x \in Obj : x >= 6 => d.typ[x] = "none"
  BY <1>1 DEF Furnished, SixOf
<1>4. /\ d.loc[0] = NOTHING /\ d.loc[1] = 0 /\ d.loc[2] = 0
      /\ d.loc[3] = 2 /\ d.loc[4] = 3 /\ d.loc[5] = 4
  BY <1>1 DEF Furnished, SixOf
<1>5. /\ d.contents[0] = 1 /\ d.contents[2] = 3 /\ d.contents[3] = 4 /\ d.contents[4] = 5
      /\ \A x \in Obj : x \notin {0, 2, 3, 4} => d.contents[x] = NOTHING
  BY <1>1, <1>2 DEF Furnished, SixOf
<1>6. \A x \in Obj : d.exits[x] = NOTHING BY DEF Furnished
<1>7. /\ d.owner[0] = 1 /\ d.owner[1] = 1 /\ d.owner[2] = 3
      /\ d.owner[3] = 3 /\ d.owner[4] = 3 /\ d.owner[5] = 3
  BY <1>1 DEF Furnished, SixOf
<1>8. /\ d.link[0] = NOTHING /\ d.link[1] = 0 /\ d.link[2] = NOTHING
      /\ d.link[3] = 5 /\ d.link[4] = 2 /\ d.link[5] = NOTHING
  BY <1>1 DEF Furnished, SixOf
<1>9. /\ \A x \in Obj : d.next[x] = IF x = 1 THEN 2 ELSE NOTHING
      /\ \A x \in Obj : d.dests[x] = {}
      /\ d.top = 6 /\ d.recyclable = NOTHING
  BY DEF Furnished
<1>10. On(d, {}) = {1, 2, 3, 4, 5}
  <2>1. \A x : x \in On(d, {}) <=> x \in Obj /\ x # 0 /\ d.typ[x] # "none" BY <1>1 DEF On
  <2>2. \A x \in {1, 2, 3, 4, 5} : x \in Obj /\ x # 0 /\ d.typ[x] # "none"
    BY <1>1, <1>3
  <2> QED BY <1>2, <1>3, <2>1, <2>2
<1>11. ShortLists(d)
  <2>1. ASSUME NEW at \in Obj
        PROVE  /\ d.contents[at] # NOTHING =>
                    /\ d.contents[at] \in On(d, {}) /\ d.loc[d.contents[at]] = at
                    /\ d.typ[d.contents[at]] # "exit"
               /\ d.exits[at] # NOTHING =>
                    /\ d.exits[at] \in On(d, {}) /\ d.loc[d.exits[at]] = at
                    /\ d.typ[d.exits[at]] = "exit"
    BY <1>3, <1>4, <1>5, <1>6, <1>10
  <2>2. ASSUME NEW x \in {1, 2, 3, 4, 5}
        PROVE  /\ d.typ[x] # "garbage" /\ d.loc[x] \in Obj
               /\ d.next[x] # NOTHING =>
                    /\ x = 1 /\ d.next[x] = 2 /\ 2 \in On(d, {})
                    /\ d.typ[1] # "exit" /\ d.typ[2] # "exit"
                    /\ d.loc[1] = d.loc[2] /\ d.contents[d.loc[1]] = 1
               /\ \/ x = d.contents[d.loc[x]] /\ d.typ[x] # "exit"
                  \/ x = d.exits[d.loc[x]] /\ d.typ[x] = "exit"
                  \/ x = 2 /\ 1 \in On(d, {}) /\ d.next[1] = 2
    BY <1>1, <1>3, <1>4, <1>5, <1>6, <1>9, <1>10
  <2> QED BY <1>9, <1>10, <2>1, <2>2 DEF ShortLists
<1>12. Linked(d, {}, NOTHING) BY <1>11, ShortLinked
<1>13. Live(d) = {0, 1, 2, 3, 4, 5}
  <2>1. \A x \in {0, 1, 2, 3, 4, 5} : x \in Obj /\ d.typ[x] \notin {"none", "garbage"}
    BY <1>1, <1>3
  <2>2. \A x : x \in Live(d) <=> x \in Obj /\ d.typ[x] \notin {"none", "garbage"}
    BY TypesAre
  <2> QED BY <1>2, <1>3, <2>1, <2>2
<1>14. Base(d)
  <2>1. \A x \in Obj : d.typ[x] = "none" <=> x >= 6 BY <1>1, <1>2, <1>3
  <2>2. \A x \in Obj : d.typ[x] # "garbage" BY <1>2, <1>3
  <2>3. \A x \in Obj : x >= 6 => d.loc[x] = NOTHING BY <1>1 DEF Furnished, SixOf
  <2> QED BY <1>1, <1>3, <1>4, <1>9, <2>1, <2>2, <2>3 DEF Base
<1>15. /\ {0, 2, 5} \subseteq Of(d, "room") /\ {1, 3} \subseteq Of(d, "player")
       /\ {0, 1, 2, 3, 4} \subseteq PlacesOf(d)
  BY <1>1, <1>3, TypesAre
<1>16. ASSUME NEW x \in Live(d) PROVE RefOk(d, NOTHING, x)
  <2>1. x \in {0, 1, 2, 3, 4, 5} BY <1>13
  <2>2. d.owner[x] \in Of(d, "player") BY <1>7, <1>15, <2>1
  <2>3. x # 0 => d.loc[x] # NOTHING /\ d.loc[x] \in PlacesOf(d) BY <1>1, <1>4, <1>15, <2>1
  <2>4. At(d, NOTHING, x) = d.loc[x] BY DEF At
  <2>5. d.typ[x] = "room" => x \in {0, 2, 5} BY <1>3, <2>1
  <2>6. d.typ[x] = "thing" => x = 4 BY <1>3, <2>1
  <2>7. d.typ[x] = "player" => x \in {1, 3} BY <1>3, <2>1
  <2>8. d.dests[x] \subseteq Live(d) \union {HOME} /\ (d.typ[x] # "exit" => d.dests[x] = {})
    BY <1>1, <1>3, <1>9, <1>13, <2>1
  <2>9. d.typ[x] # "exit" BY <1>3, <2>1
  <2> QED BY <1>1, <1>3, <1>4, <1>8, <1>15, <2>2, <2>3, <2>4, <2>5, <2>6, <2>7, <2>8, <2>9
          DEF RefOk
<1> QED BY <1>12, <1>14, <1>16 DEF World, Refs

\* So is the smallest one.
LEMMA BareWorld ==
  ASSUME NEW d \in DB, Bare(d)
  PROVE  World(d, {}, NOTHING, NOTHING)
<1>1. /\ 0 \in Obj /\ 1 \in Obj /\ \A x \in Obj : x \in Nat
      /\ NOTHING \notin Obj /\ Root = 0 /\ Man = 1
  BY MaxTopAssumption, Numbers DEF Obj, Root, Man
<1>2. \A x \in Obj : x \in {0, 1} \/ x >= 2 BY <1>1
<1>3. /\ d.typ[0] = "room" /\ d.typ[1] = "player" /\ d.loc[0] = NOTHING /\ d.loc[1] = 0
      /\ d.contents[0] = 1 /\ d.link[0] = NOTHING /\ d.link[1] = 0
      /\ d.owner[0] = 1 /\ d.owner[1] = 1 /\ d.top = 2 /\ d.recyclable = NOTHING
      /\ \A x \in Obj : /\ d.exits[x] = NOTHING /\ d.next[x] = NOTHING /\ d.dests[x] = {}
                        /\ x # 0 => d.contents[x] = NOTHING
                        /\ x \notin {0, 1} => d.typ[x] = "none" /\ d.loc[x] = NOTHING
  BY <1>1 DEF Bare
<1>4. On(d, {}) = {1}
  <2>1. \A x : x \in On(d, {}) <=> x \in Obj /\ x # 0 /\ d.typ[x] # "none" BY <1>1 DEF On
  <2> QED BY <1>1, <1>3, <2>1
<1>5. ShortLists(d) BY <1>1, <1>3, <1>4 DEF ShortLists
<1>6. Linked(d, {}, NOTHING) BY <1>5, ShortLinked
<1>7. Live(d) = {0, 1} BY <1>1, <1>3, TypesAre
<1>8. Base(d) BY <1>1, <1>2, <1>3 DEF Base
<1>9. 0 \in Of(d, "room") /\ 1 \in Of(d, "player") /\ {0, 1} \subseteq PlacesOf(d)
  BY <1>1, <1>3, TypesAre
<1>10. ASSUME NEW x \in Live(d) PROVE RefOk(d, NOTHING, x)
  <2>1. x = 0 \/ x = 1 BY <1>7
  <2>2. At(d, NOTHING, x) = d.loc[x] BY DEF At
  <2> QED BY <1>1, <1>3, <1>9, <2>1, <2>2 DEF RefOk
<1> QED BY <1>6, <1>8, <1>10 DEF World, Refs

\* Both are in order, and no operation waits.
LEMMA InitInv == Init => IInv
<1> SUFFICES ASSUME Init PROVE IInv OBVIOUS
<1>1. db \in DB /\ (Furnished(db) \/ Bare(db)) /\ stack = <<>> /\ given \in 0 .. MaxCommands
      /\ meddled = FALSE
  BY InitIs
<1>2. World(db, {}, NOTHING, NOTHING) BY <1>1, FurnishedWorld, BareWorld
<1>3. stack \in Seq(Frames) /\ Len(stack) = 0 BY <1>1
<1>4. Off(stack) = {} BY <1>3 DEF Off, Objs
<1>5. FramesOk(db, {}, NOTHING, stack) BY <1>3 DEF FramesOk
<1>6. Quiet(stack) BY <1>3 DEF Quiet
<1>7. Calm(db, stack) BY <1>2, <1>3, <1>4, <1>5, <1>6 DEF Calm, Rests
<1> QED BY <1>1, <1>7, CalmInv DEF IInv

-----------------------------------------------------------------------------
(* Every step keeps the inductive invariant.                               *)

\* A command begins when nothing waits, or under a program.
LEMMA CommandStarts ==
  ASSUME Inv(db, stack), given \in 0 .. MaxCommands, Commands
  PROVE  Calm(db, stack) /\ Dying = Off(stack) /\ given' \in 0 .. MaxCommands
<1>1. stack # <<>> => Top.op = "prog" BY DEF Commands
<1>2. given < MaxCommands /\ given' = given + 1 /\ MaxCommands \in Nat
  BY BoundsAssumption DEF Commands
<1> QED BY <1>1, <1>2, CommandCalm

\* What every step does: it keeps the array and what waits in order, and closes
\* no loop of locations and homes, except where it does not look.
StepRight == IInv' /\ (StaysAcyclic(db, db') \/ Unlooked)

\* The building commands.
LEMMA BuildingInv ==
  ASSUME ~meddled', IInv, Building
  PROVE  StepRight
<1>1. Commands
  BY DEF Building, CreateThing, PrimNewObject, CreateProgram, CreateRoom, OpenExit,
         NewAction, CreatePlayer, CopyThing, PrimSetLink, LinkExit, LinkHome,
         LinkDropto, Unlink, UnlinkThing, Chown, Attach
<1>2. Calm(db, stack) /\ Dying = Off(stack) /\ given' \in 0 .. MaxCommands
  BY <1>1, CommandStarts DEF IInv
<1>3. CASE \/ CreateThing \/ PrimNewObject \/ CreateProgram \/ CreateRoom
           \/ OpenExit \/ NewAction \/ CreatePlayer
  BY <1>2, <1>3, CreateStep DEF IInv, StepRight
<1>4. CASE CopyThing BY <1>2, <1>4, CopyStep DEF IInv, StepRight
<1>5. CASE LinkExit \/ LinkHome \/ LinkDropto \/ UnlinkThing \/ Chown
  BY <1>2, <1>5, LinkStep, LinkAcyclic DEF IInv, StepRight, Unlooked
<1>6. CASE Unlink \/ PrimSetLink
  BY <1>2, <1>6, UnlinkStep, LinkAcyclic DEF IInv, StepRight
<1>7. CASE Attach BY <1>2, <1>7, AttachStep DEF IInv, StepRight
<1> QED BY <1>3, <1>4, <1>5, <1>6, <1>7 DEF Building

\* The moves: commands, and what is left of them.
LEMMA MovingInv ==
  ASSUME ~meddled', IInv, Acyclic(db), Moving
  PROVE  StepRight
<1>1. ASSUME Get \/ Drop \/ Teleport \/ PrimMoveto \/ Trigger \/ Leave \/ SendHome
      PROVE  StepRight
  <2>1. Commands
    BY <1>1 DEF Get, Drop, Teleport, PrimMoveto, Trigger, Leave, SendHome
  <2>2. Calm(db, stack) /\ Dying = Off(stack) /\ given' \in 0 .. MaxCommands
    BY <2>1, CommandStarts DEF IInv
  <2>3. CASE Get \/ Drop \/ Teleport \/ PrimMoveto \/ Trigger \/ Leave
    BY <2>2, <2>3, GoStep DEF IInv, StepRight
  <2>4. CASE SendHome
    <3>1. db' = db BY <2>4 DEF SendHome
    <3> QED BY <2>2, <2>4, <3>1, SendHomeStep, SameAcyclic DEF IInv, StepRight
  <2> QED BY <1>1, <2>3, <2>4
<1>2. ASSUME \/ PutDown \/ EnterRoom \/ MaybeDropto \/ SendContents \/ SendNext \/ SendEnds
      PROVE  StepRight
  <2>1. given' = given
    BY <1>2 DEF PutDown, EnterRoom, MaybeDropto, SendContents, SendNext, SendEnds, Handle
  <2>2. Inv(db, stack) /\ given' \in 0 .. MaxCommands BY <2>1 DEF IInv
  <2>3. CASE PutDown BY <2>2, <2>3, PutDownStep DEF IInv, StepRight
  <2>4. CASE EnterRoom BY <2>2, <2>4, EnterRoomStep DEF IInv, StepRight
  <2>5. CASE MaybeDropto
    <3>1. db' = db BY <2>5 DEF MaybeDropto
    <3> QED BY <2>2, <2>5, <3>1, MaybeDroptoStep, SameAcyclic DEF IInv, StepRight
  <2>6. CASE SendContents BY <2>2, <2>6, SendContentsStep DEF IInv, StepRight
  <2>7. CASE SendNext BY <2>2, <2>7, SendNextStep DEF IInv, StepRight
  <2>8. CASE SendEnds BY <2>2, <2>8, SendEndsStep DEF IInv, StepRight
  <2> QED BY <1>2, <2>3, <2>4, <2>5, <2>6, <2>7, <2>8
<1> QED BY <1>1, <1>2 DEF Moving

\* The recycling: commands, and what is left of them.
LEMMA RecyclingInv ==
  ASSUME ~meddled', IInv, Acyclic(db), Recycling
  PROVE  StepRight
<1>1. ASSUME Recycle \/ PrimRecycle \/ Frob \/ Purge
      PROVE  StepRight
  <2>1. Commands BY <1>1 DEF Recycle, PrimRecycle, Frob, Purge
  <2>2. Calm(db, stack) /\ Dying = Off(stack) /\ given' \in 0 .. MaxCommands
    BY <2>1, CommandStarts DEF IInv
  <2>3. CASE Recycle \/ PrimRecycle BY <2>2, <2>3, RecycleStep DEF IInv, StepRight
  <2>4. CASE Frob
    <3>1. db' = db BY <2>4 DEF Frob
    <3> QED BY <2>2, <2>4, <3>1, FrobStep, SameAcyclic DEF IInv, StepRight
  <2>5. CASE Purge
    <3>1. db' = db BY <2>5 DEF Purge
    <3> QED BY <2>2, <2>5, <3>1, PurgeStep, SameAcyclic DEF IInv, StepRight
  <2> QED BY <1>1, <2>3, <2>4, <2>5
<1>2. ASSUME \/ RecycleNextExit \/ RecycleScan \/ EmptyNext \/ DragOut
             \/ RecycleEnds \/ Frobbed \/ PurgeNext \/ PurgeEnds
      PROVE  StepRight
  <2>1. given' = given
    BY <1>2 DEF RecycleNextExit, RecycleScan, EmptyNext, DragOut, RecycleEnds, Frobbed,
                PurgeNext, PurgeEnds, Handle
  <2>2. Inv(db, stack) /\ given' \in 0 .. MaxCommands BY <2>1 DEF IInv
  <2>3. CASE RecycleNextExit BY <2>2, <2>3, NextExitStep DEF IInv, StepRight
  <2>4. CASE RecycleScan BY <2>2, <2>4, ScanStep DEF IInv, StepRight, Unlooked
  <2>5. CASE EmptyNext BY <2>2, <2>5, EmptyNextStep DEF IInv, StepRight
  <2>6. CASE DragOut BY <2>2, <2>6, DragOutStep DEF IInv, StepRight, Unlooked
  <2>7. CASE RecycleEnds BY <2>2, <2>7, RecycleEndsStep DEF IInv, StepRight
  <2>8. CASE Frobbed BY <2>2, <2>8, FrobbedStep DEF IInv, StepRight, Unlooked
  <2>9. CASE PurgeNext BY <2>2, <2>9, PurgeNextStep DEF IInv, StepRight
  <2>10. CASE PurgeEnds
    <3>1. db' = db BY <2>10 DEF PurgeEnds
    <3> QED BY <2>2, <2>10, <3>1, PurgeEndsStep, SameAcyclic DEF IInv, StepRight
  <2> QED BY <1>2, <2>3, <2>4, <2>5, <2>6, <2>7, <2>8, <2>9, <2>10
<1> QED BY <1>1, <1>2 DEF Recycling

\* Every step, as long as no program has meddled.
LEMMA StepInv ==
  ASSUME ~meddled', IInv, [Next]_vars
  PROVE  StepRight
<1>1. CASE UNCHANGED vars
  <2>1. db' = db BY <1>1 DEF vars
  <2> QED BY <1>1, <2>1, SameAcyclic DEF vars, IInv, StepRight
<1>2. CASE Next
  <2>1. Acyclic(db) /\ (Building \/ Moving \/ Recycling \/ ProgramEnds) BY <1>2 DEF Next
  <2>2. CASE Building BY <2>2, BuildingInv
  <2>3. CASE Moving BY <2>1, <2>3, MovingInv
  <2>4. CASE Recycling BY <2>1, <2>4, RecyclingInv
  <2>5. CASE ProgramEnds
    <3>1. given' = given /\ db' = db BY <2>5 DEF ProgramEnds, Handle
    <3> QED BY <2>5, <3>1, ProgramEndsStep, SameAcyclic DEF IInv, StepRight
  <2> QED BY <2>1, <2>2, <2>3, <2>4, <2>5
<1> QED BY <1>1, <1>2

\* What a program has meddled with stays so.
Grows == meddled' \in BOOLEAN /\ (meddled => meddled')

LEMMA MindsGrows ==
  ASSUME meddled \in BOOLEAN, NEW h, Minds(h) PROVE Grows
BY DEF Minds, Grows

LEMMA StepGrows ==
  ASSUME meddled \in BOOLEAN, [Next]_vars PROVE Grows
<1>1. (\E h : Minds(h)) => Grows BY MindsGrows
<1>2. meddled' = meddled => Grows BY DEF Grows
<1>3. \A op, x, to, after : Going(op, x, to, after) => Grows
  <2>1. \A op, x, to, after : Going(op, x, to, after) => \E h : Minds(h) BY DEF Going
  <2> QED BY <1>1, <2>1
<1>4. \A op : Handle(op) => Grows BY <1>2 DEF Handle
<1>5. CASE UNCHANGED vars \/ ProgramEnds BY <1>2, <1>4, <1>5 DEF vars, ProgramEnds
<1>6. CASE Building
  <2>1. CASE CreatePlayer \/ Unlink \/ UnlinkThing
    BY <1>2, <2>1 DEF CreatePlayer, Unlink, UnlinkThing
  <2>2. CASE \/ CreateThing \/ PrimNewObject \/ CreateProgram \/ CreateRoom \/ OpenExit
             \/ NewAction \/ CopyThing \/ LinkExit \/ LinkHome \/ LinkDropto \/ Chown
             \/ Attach \/ PrimSetLink
    <3>1. \E h : Minds(h)
      BY <2>2 DEF CreateThing, PrimNewObject, CreateProgram, CreateRoom, OpenExit, NewAction,
                  CopyThing, LinkExit, LinkHome, LinkDropto, Chown, Attach, PrimSetLink
    <3> QED BY <1>1, <3>1
  <2> QED BY <1>6, <2>1, <2>2 DEF Building
<1>7. CASE Moving
  <2>1. CASE Get \/ Drop \/ Leave BY <1>3, <2>1 DEF Get, Drop, Leave
  <2>2. CASE Teleport \/ PrimMoveto
    <3>1. \/ \E op, x, to, after : Going(op, x, to, after)
          \/ \E h : Minds(h)
      BY <2>2 DEF Teleport, PrimMoveto
    <3> QED BY <1>1, <1>3, <3>1
  <2>3. CASE Trigger
    <3>1. PICK e \in Of(db, "exit"), a \in Actors : \E d \in db.dests[e] :
            \E op, x, to, after : Going(op, x, to, after)
      BY <2>3 DEF Trigger
    <3> QED BY <1>3, <3>1
  <2>4. CASE SendHome
    <3>1. \E h : Minds(h) BY <2>4 DEF SendHome
    <3> QED BY <1>1, <3>1
  <2>5. CASE PutDown \/ EnterRoom \/ MaybeDropto \/ SendContents \/ SendNext \/ SendEnds
    BY <1>4, <2>5 DEF PutDown, EnterRoom, MaybeDropto, SendContents, SendNext, SendEnds
  <2> QED BY <1>7, <2>1, <2>2, <2>3, <2>4, <2>5 DEF Moving
<1>8. CASE Recycling
  <2>1. CASE Recycle \/ PrimRecycle \/ Frob \/ Purge
    <3>1. \E h : Minds(h) BY <2>1 DEF Recycle, PrimRecycle, Frob, Purge
    <3> QED BY <1>1, <3>1
  <2>2. CASE \/ RecycleNextExit \/ RecycleScan \/ EmptyNext \/ DragOut \/ RecycleEnds
             \/ Frobbed \/ PurgeNext \/ PurgeEnds
    BY <1>4, <2>2 DEF RecycleNextExit, RecycleScan, EmptyNext, DragOut, RecycleEnds, Frobbed,
                      PurgeNext, PurgeEnds
  <2> QED BY <1>8, <2>1, <2>2 DEF Recycling
<1> QED BY <1>5, <1>6, <1>7, <1>8 DEF Next

-----------------------------------------------------------------------------
(* What that says of the properties.                                       *)

\* The array and the objects on no list, when nothing is taken out.
LEMMA SettledWorld ==
  ASSUME Inv(db, stack)
  PROVE  /\ Dying = Off(stack) /\ AllEmptied(db, Dying)
         /\ Settled => World(db, Dying, NOTHING, NOTHING)
<1>1. Dying = Off(stack) BY DEF Dying, Off, Objs
<1>2. /\ stack \in Seq(Frames) /\ FramesOk(db, Off(stack), Origin(stack), stack)
      /\ World(db, Off(stack), First(stack), Origin(stack))
  BY DEF Inv
<1>3. AllEmptied(db, Off(stack)) BY <1>2, OffEmptied
<1>4. ASSUME Settled PROVE World(db, Off(stack), NOTHING, NOTHING)
  <2>1. ~Sending(stack)
    <3>1. ASSUME Sending(stack) PROVE FALSE
      <4>1. stack # <<>> /\ stack[1].op = "send" /\ stack[1].n = 0 BY <3>1 DEF Sending
      <4>2. 1 \in 1 .. Len(stack) BY <1>2, <4>1
      <4> QED BY <1>4, <4>1, <4>2 DEF Settled
    <3> QED BY <3>1
  <2>2. First(stack) = NOTHING /\ Origin(stack) = NOTHING BY <2>1 DEF First, Origin
  <2> QED BY <1>2, <2>2
<1> QED BY <1>1, <1>3, <1>4

\* Lists and locations.
LEMMA InvLists ==
  ASSUME Inv(db, stack) PROVE ListsAgree
<1> SUFFICES ASSUME Settled, NEW at \in Live(db)
             PROVE  /\ Ends(db, db.contents[at]) /\ Ends(db, db.exits[at])
                    /\ Chain(db, db.contents[at]) =
                         {x \in Live(db) \ Dying : db.typ[x] # "exit" /\ db.loc[x] = at}
                    /\ Chain(db, db.exits[at]) =
                         {x \in Live(db) : db.typ[x] = "exit" /\ db.loc[x] = at}
  BY DEF ListsAgree
<1> DEFINE D == Dying
<1>1. World(db, D, NOTHING, NOTHING) /\ AllEmptied(db, D) BY SettledWorld
<1> HIDE DEF D
<1>2. Base(db) /\ db \in DB /\ Linked(db, D, NOTHING) /\ D \subseteq Live(db) \ {Root}
  BY <1>1, WorldIs
<1>3. at \in Obj /\ at # NOTHING /\ db.loc[Root] = NOTHING BY <1>2, TypesAre, Numbers DEF Base
<1>4. \A z \in D : db.typ[z] # "exit" BY <1>1 DEF AllEmptied, Emptied, Recyclables
<1>5. {x \in On(db, D) : db.typ[x] \notin {"garbage", "exit"} /\ db.loc[x] = at} =
      {x \in Live(db) \ D : db.typ[x] # "exit" /\ db.loc[x] = at}
  BY <1>3, TypesAre DEF On
<1>6. {x \in On(db, D) : db.typ[x] = "exit" /\ db.loc[x] = at} =
      {x \in Live(db) : db.typ[x] = "exit" /\ db.loc[x] = at}
  BY <1>3, <1>4, TypesAre DEF On
<1>7. /\ Ends(db, db.contents[at]) /\ Ends(db, db.exits[at])
      /\ Chain(db, db.contents[at]) =
           {x \in On(db, D) : db.typ[x] \notin {"garbage", "exit"} /\ db.loc[x] = at}
      /\ Chain(db, db.exits[at]) =
           {x \in On(db, D) : db.typ[x] = "exit" /\ db.loc[x] = at}
  BY <1>2, <1>3, LinkedChains
<1> QED BY <1>5, <1>6, <1>7 DEF D

\* The free list, also while a list is being taken apart.
LEMMA InvFree ==
  ASSUME Inv(db, stack) PROVE FreeListSound
<1> DEFINE D == Off(stack)
           c == First(stack)
<1>1. World(db, D, c, Origin(stack)) BY DEF Inv
<1> HIDE DEF D, c
<1>2. Base(db) /\ db \in DB /\ Linked(db, D, c) /\ D \subseteq Live(db) \ {Root}
  BY <1>1, WorldIs
<1>3. {x \in On(db, D) : db.typ[x] = "garbage"} = Of(db, "garbage")
  BY <1>2, TypesAre DEF On, Base
<1>4. /\ Ends(db, db.recyclable)
      /\ Chain(db, db.recyclable) = {x \in On(db, D) : db.typ[x] = "garbage"}
  BY <1>2, LinkedChains
<1> QED BY <1>3, <1>4 DEF FreeListSound

\* What objects name.
LEMMA InvReferences ==
  ASSUME IInv, meddled \in BOOLEAN PROVE References
<1>1. TypeOK
  <2>1. db \in DB /\ stack \in Seq(Frames) /\ given \in 0 .. MaxCommands
    BY WorldIs DEF IInv, Inv
  <2> QED BY <2>1 DEF TypeOK, DB, Frames, Ref, OrNone
<1>2. ASSUME Settled, NEW x \in Live(db)
      PROVE  /\ db.owner[x] \in Players
             /\ x # Root /\ x \notin Dying => db.loc[x] \in Places
             /\ db.typ[x] = "room" =>
                  db.link[x] \in {NOTHING, HOME} \union Of(db, "room") \union Things
             /\ db.typ[x] = "thing" => db.link[x] \in Places
             /\ db.typ[x] = "player" => db.link[x] \in Of(db, "room")
             /\ db.dests[x] \subseteq Live(db) \union {HOME}
  <2>1. World(db, Dying, NOTHING, NOTHING) BY <1>2, SettledWorld DEF IInv
  <2>2. RefNow(db, x) BY <2>1, RefsNow
  <2> QED BY <2>2, ActorsAre DEF RefNow
<1> QED BY <1>1, <1>2 DEF References

-----------------------------------------------------------------------------
(* The theorems.                                                           *)

\* The inductive invariant: the array and the operations that wait are in
\* order until a program has meddled.
Kept == meddled \in BOOLEAN /\ (~meddled => IInv)

LEMMA Inductive == Spec => []Kept
<1>1. Init => Kept BY InitInv, InitIs DEF Kept
<1>2. ASSUME Kept, [Next]_vars PROVE Kept'
  <2>1. Grows BY <1>2, StepGrows DEF Kept
  <2>2. ASSUME ~meddled' PROVE IInv'
    <3>1. ~meddled BY <2>1, <2>2 DEF Grows
    <3>2. IInv BY <1>2, <3>1 DEF Kept
    <3> QED BY <1>2, <2>2, <3>2, StepInv DEF StepRight
  <2> QED BY <2>1, <2>2 DEF Kept, Grows
<1> QED BY <1>1, <1>2, PTL DEF Spec

\* Whatever commands players and programs give, in whatever order and however
\* deep inside operations of the server, until a program has reached into a
\* pending operation: whenever no list is being taken apart, the contents and
\* exits lists hold exactly the objects whose locations say so, and end
\* (moveto, recycle, attach and the constructors).
THEOREM ListsAreRight == Spec => []ListsAgree
<1>1. Kept => ListsAgree
  <2>1. ~meddled /\ Kept => ListsAgree BY InvLists DEF Kept, IInv
  <2>2. meddled => ListsAgree BY DEF ListsAgree
  <2> QED BY <2>1, <2>2
<1> QED BY <1>1, Inductive, PTL

\* Until then the free list holds exactly the garbage at every moment, and ends
\* (new_object, recycle, db_free_object).
THEOREM FreeListIsRight == Spec => []FreeListSound
<1>1. Kept => FreeListSound
  <2>1. ~meddled /\ Kept => FreeListSound BY InvFree DEF Kept, IInv
  <2>2. meddled => FreeListSound BY DEF FreeListSound
  <2> QED BY <2>1, <2>2
<1> QED BY <1>1, Inductive, PTL

\* Until then what an object names is there and of a type it may be, and the
\* fields and the pending operations have their types (sanity.c's checks).
THEOREM ReferencesAreRight == Spec => []References
<1>1. Kept => References
  <2>1. ~meddled /\ Kept => References BY InvReferences DEF Kept
  <2>2. meddled => References BY DEF References
  <2> QED BY <2>1, <2>2
<1> QED BY <1>1, Inductive, PTL

\* Until then the locations of objects and the homes of things stay free of
\* loops, on which parent_loop_check and everything that climbs would not come
\* to an end: each command, move, home and recycling, however they interleave,
\* leaves them so. The four places that give a parent without asking
\* parent_loop_check are the only ones that may close a loop: @unlink of a thing
\* (set.c:984), recycle of a home (move.c:968) and its dragging of players
\* (move.c:1062), and @frob (wiz.c:1043).
THEOREM ParentsStayAcyclic == Spec => ParentsAcyclic
<1>1. ASSUME Kept, [Next]_vars
      PROVE  [~meddled' /\ Acyclic(db) => Acyclic(db') \/ Unlooked]_vars
  <2> SUFFICES ASSUME ~meddled', Acyclic(db) PROVE Acyclic(db') \/ Unlooked
    OBVIOUS
  <2>1. Grows BY <1>1, StepGrows DEF Kept
  <2>2. IInv BY <1>1, <2>1 DEF Kept, Grows
  <2> QED BY <1>1, <2>2, StepInv DEF StepRight, StaysAcyclic
<1> QED BY <1>1, Inductive, PTL DEF Spec, ParentsAcyclic
=============================================================================
