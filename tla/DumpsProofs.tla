----------------------------- MODULE DumpsProofs -----------------------------
(***************************************************************************)
(* Proofs about Dumps, for every value of its constants: any objects, one  *)
(* or both builds, any number of changes, crashes, failed writes and delta *)
(* dumps.                                                                  *)
(***************************************************************************)
EXTENDS Dumps, SequenceTheorems, WellFoundedInduction, TLAPS

\* A file holds the versions of some objects.
Part == UNION {[S -> Version] : S \in SUBSET Obj}
File == [objs : Part, whole : BOOLEAN, there : BOOLEAN]
Sound(c) == c.whole => DOMAIN c.objs = Obj /\ c.there
FilesOK == files \in [Names -> File] /\ \A n \in Names : Sound(files[n])
List == [mode : {"unloaded", "loaded", "changed"}, ver : Version]

\* The types, in three parts.
ControlOK ==
  /\ build \in Builds /\ copies \in 0 .. MaxCopies
  /\ pc \in Running \union Script \union {"down", "aborted"}
  /\ after \in {"loop", "loopAsked", "exit"}
  /\ todo \subseteq Obj /\ shift \in 0 .. MaxCopies
  /\ shutdown_flag \in BOOLEAN /\ restart_flag \in BOOLEAN
  /\ dump_flag \in BOOLEAN /\ cut \in BOOLEAN
  /\ crashes \in Nat /\ fulls \in Nat
MemoryOK ==
  /\ truth \in [Obj -> Version] /\ props \in [Obj -> List]
  /\ changed \subseteq Obj /\ delta \subseteq Obj
  /\ pos \in [Obj -> {"input", "delta", "tmp", "nowhere"}]
  /\ input \in File /\ Sound(input)
  /\ asked \in [Obj -> Version]
DiskOK ==
  /\ FilesOK /\ deltas \in Seq(File) /\ saved \in [Obj -> Version]

\* What every step of the server and of the script relies on.
Steps ==
  /\ pc = "copies" => shift \in 1 .. copies
  /\ pc \in {"reopen", "deltas"} => build = "disk"
  /\ pc = "deltas" => deltas # <<>>
  /\ pc = "write" => files["tmp"].there
  /\ pc \in {"append", "start"} => files["in"].whole
  /\ pc \in (Script \ {"panic"}) \union Running => ~files["panic"].whole
  /\ pc \in {"check", "append", "start"} => ~files["out"].there

\* The database or the last one of the archive is whole.
OneWhole ==
  /\ files["in"].whole \/ files["old"].whole
  /\ pc \in Running => files["in"].whole
  /\ pc = "move" /\ files["out"].there => files["old"].whole

Kinds == ControlOK /\ MemoryOK /\ DiskOK /\ Steps /\ OneWhole

-----------------------------------------------------------------------------
(* Files and their names. *)

\* The copies have names of their own.
LEMMA CopyNames ==
  /\ {"tmp", "in", "old", "panic", "out"} \subseteq Names
  /\ \A k \in 0 .. MaxCopies :
       /\ Copy(k) \in Names /\ Copy(k) \notin {"tmp", "in", "old", "panic"}
       /\ Copy(k) = "out" => k = 0
<1>1. MaxCopies \in 0 .. 3 BY DumpsAssumption
<1>2. Copy(0) = "out" BY DEF Copy
<1>3. 0 \in 0 .. MaxCopies BY <1>1
<1>4. \A k \in 1 .. 3 : Copy(k) \in {"out.1", "out.2", "out.3"} BY DEF Copy
<1>5. ASSUME NEW k \in 0 .. MaxCopies
      PROVE  k = 0 \/ k \in 1 .. 3
  BY <1>1
<1> QED BY <1>2, <1>3, <1>4, <1>5 DEF Names

\* What a file holds.
LEMMA FileObjs ==
  ASSUME NEW c \in File
  PROVE  /\ DOMAIN c.objs \subseteq Obj
         /\ \A o \in DOMAIN c.objs : c.objs[o] \in Version
         /\ c.whole \in BOOLEAN /\ c.there \in BOOLEAN
<1>1. c.objs \in Part BY DEF File
<1>2. PICK S \in SUBSET Obj : c.objs \in [S -> Version] BY <1>1 DEF Part
<1> QED BY <1>2 DEF File

LEMMA MakePart ==
  ASSUME NEW S, S \subseteq Obj, NEW f \in [S -> Version]
  PROVE  f \in Part
BY DEF Part

LEMMA EmptyFiles ==
  /\ NoFile \in File /\ Sound(NoFile) /\ ~NoFile.whole /\ ~NoFile.there
  /\ Empty \in File /\ Sound(Empty) /\ ~Empty.whole
  /\ DOMAIN NoFile.objs = {} /\ DOMAIN Empty.objs = {}
<1>1. <<>> \in Seq(Version) /\ Len(<<>>) = 0 BY EmptySeq
<1>2. DOMAIN <<>> = 1 .. 0 /\ 1 .. 0 = {} BY <1>1
<1>3. <<>> \in [{} -> Version] BY <1>1, <1>2
<1>4. <<>> \in Part BY <1>3, MakePart
<1>5. NoFile \in File BY <1>4 DEF NoFile, File
<1>6. Empty = [objs |-> <<>>, whole |-> FALSE, there |-> TRUE]
  <2> DEFINE e == <<>>
  <2>1. Empty = [[objs |-> e, whole |-> FALSE, there |-> FALSE] EXCEPT !.there = TRUE]
    BY DEF Empty, NoFile
  <2> HIDE DEF e
  <2>2. Empty = [objs |-> e, whole |-> FALSE, there |-> TRUE] BY <2>1
  <2> QED BY <2>2 DEF e
<1>7. Empty \in File BY <1>4, <1>6 DEF File
<1> QED BY <1>2, <1>5, <1>6, <1>7 DEF NoFile, Sound

\* One part over another.
LEMMA OverPart ==
  ASSUME NEW f, NEW g, DOMAIN f \subseteq Obj, DOMAIN g \subseteq Obj,
         \A o \in DOMAIN f : f[o] \in Version,
         \A o \in DOMAIN g : g[o] \in Version
  PROVE  /\ Over(f, g) \in [DOMAIN f \union DOMAIN g -> Version]
         /\ Over(f, g) \in Part
         /\ DOMAIN Over(f, g) = DOMAIN f \union DOMAIN g
         /\ \A o \in DOMAIN f \union DOMAIN g :
              Over(f, g)[o] = IF o \in DOMAIN g THEN g[o] ELSE f[o]
<1>1. Over(f, g) \in [DOMAIN f \union DOMAIN g -> Version] BY DEF Over
<1>2. DOMAIN f \union DOMAIN g \subseteq Obj OBVIOUS
<1>3. Over(f, g) \in Part BY <1>1, <1>2, MakePart
<1> QED BY <1>1, <1>3 DEF Over

\* One object more in a file.
LEMMA PutFile ==
  ASSUME NEW c \in File, NEW o \in Obj, NEW v \in Version
  PROVE  /\ Put(c, o, v) \in File /\ (Sound(c) => Sound(Put(c, o, v)))
         /\ Put(c, o, v).whole = c.whole /\ Put(c, o, v).there = c.there
         /\ DOMAIN Put(c, o, v).objs = DOMAIN c.objs \union {o}
         /\ \A x \in DOMAIN c.objs \union {o} :
              Put(c, o, v).objs[x] = IF x = o THEN v ELSE c.objs[x]
<1> DEFINE g == [x \in {o} |-> v]
           h == Over(c.objs, g)
<1>1. /\ DOMAIN c.objs \subseteq Obj /\ c.whole \in BOOLEAN /\ c.there \in BOOLEAN
      /\ \A x \in DOMAIN c.objs : c.objs[x] \in Version
  BY FileObjs
<1>2. DOMAIN g = {o} /\ g[o] = v OBVIOUS
<1> HIDE DEF g
<1>3. /\ h \in Part /\ DOMAIN h = DOMAIN c.objs \union {o}
      /\ \A x \in DOMAIN c.objs \union {o} : h[x] = IF x \in {o} THEN g[x] ELSE c.objs[x]
  <2>1. DOMAIN g \subseteq Obj /\ \A x \in DOMAIN g : g[x] \in Version BY <1>2
  <2>2. /\ h \in Part /\ DOMAIN h = DOMAIN c.objs \union DOMAIN g
        /\ \A x \in DOMAIN c.objs \union DOMAIN g :
             h[x] = IF x \in DOMAIN g THEN g[x] ELSE c.objs[x]
    BY <1>1, <2>1, OverPart
  <2> HIDE DEF h
  <2> QED BY <1>2, <2>2
<1>4. Put(c, o, v) = [c EXCEPT !.objs = h] BY DEF Put, g
<1> HIDE DEF h
<1>5. /\ Put(c, o, v) = [objs |-> h, whole |-> c.whole, there |-> c.there]
  BY <1>4 DEF File
<1>6. Put(c, o, v) \in File BY <1>1, <1>3, <1>5 DEF File
<1>7. Sound(c) /\ c.whole => DOMAIN c.objs \union {o} = Obj /\ c.there BY DEF Sound
<1>8. Sound(c) => Sound(Put(c, o, v)) BY <1>3, <1>5, <1>7 DEF Sound
<1> QED BY <1>2, <1>3, <1>5, <1>6, <1>8

\* The end marker.
LEMMA ClosedFile ==
  ASSUME NEW c \in File, c.there
  PROVE  /\ Closed(c) \in File /\ Sound(Closed(c))
         /\ Closed(c).objs = c.objs /\ Closed(c).there
         /\ Closed(c).whole <=> DOMAIN c.objs = Obj
BY FileObjs DEF Closed, File, Sound

\* One file of the directory is written anew.
LEMMA NewFile ==
  ASSUME FilesOK, NEW n \in Names, NEW c \in File, Sound(c),
         files' = [files EXCEPT ![n] = c]
  PROVE  /\ FilesOK' /\ files'[n] = c
         /\ \A m \in Names \ {n} : files'[m] = files[m]
BY DEF FilesOK

\* A rename.
LEMMA RenamedFiles ==
  ASSUME FilesOK, NEW from \in Names, NEW to \in Names, from # to,
         files' = Renamed(files, from, to)
  PROVE  /\ FilesOK'
         /\ \A m \in Names \ {from, to} : files'[m] = files[m]
         /\ files[from].there => files'[to] = files[from] /\ files'[from] = NoFile
         /\ ~files[from].there => files' = files
<1>1. NoFile \in File /\ Sound(NoFile) BY EmptyFiles
<1>2. files[from] \in File /\ Sound(files[from]) /\ files \in [Names -> File] BY DEF FilesOK
<1> DEFINE g == [files EXCEPT ![to] = files[from], ![from] = NoFile]
<1>3. g \in [Names -> File] BY <1>1, <1>2
<1>4. \A m \in Names : g[m] = IF m = from THEN NoFile ELSE IF m = to THEN files[from] ELSE files[m]
  BY <1>1, <1>2
<1>5. files' = IF files[from].there THEN g ELSE files BY DEF Renamed
<1> HIDE DEF g
<1> QED BY <1>1, <1>2, <1>3, <1>4, <1>5 DEF FilesOK

\* The last of some numbers.
LEMMA LatestLast ==
  ASSUME NEW n \in Nat, NEW S, S \subseteq 1 .. n, S # {}
  PROVE  Latest(S) \in S /\ \A j \in S : j <= Latest(S)
<1> DEFINE T == {k \in Nat : \E i \in S : k = n - i}
<1>1. T \subseteq Nat OBVIOUS
<1>2. T # {}
  <2>1. PICK i \in S : TRUE OBVIOUS
  <2>2. n - i \in Nat BY <2>1
  <2>3. n - i \in T BY <2>1, <2>2
  <2> QED BY <2>3
<1>3. PICK k \in T : \A j \in T : k <= j
  <2> HIDE DEF T
  <2>1. IsWellFoundedOn(OpToRel(<, Nat), Nat) BY NatLessThanWellFounded
  <2>2. PICK k \in T : \A j \in T : ~(<<j, k>> \in OpToRel(<, Nat))
    BY <1>1, <1>2, <2>1, WFMin
  <2>3. \A j \in T : ~(j < k) BY <1>1, <2>2 DEF OpToRel
  <2>4. \A j \in T : k <= j BY <1>1, <2>3, SMT
  <2> QED BY <2>4
<1>4. PICK i \in S : k = n - i OBVIOUS
<1>5. ASSUME NEW j \in S PROVE j <= i
  <2>1. n - j \in T OBVIOUS
  <2>2. k <= n - j BY <1>3, <2>1
  <2> QED BY <1>4, <2>2
<1>6. \E l \in S : \A j \in S : j <= l BY <1>5
<1> QED BY <1>6 DEF Latest

\* What is read is a version.
LEMMA ReadVersion ==
  ASSUME MemoryOK, DiskOK, NEW o \in Obj
  PROVE  OnDisk(o) \in Version /\ Val(o) \in Version
<1>1. Garbage \in Version BY DEF Version
<1>2. ASSUME o \in delta, InDeltas(o) # {}
      PROVE  deltas[Latest(InDeltas(o))].objs[o] \in Version
  <2>1. Len(deltas) \in Nat /\ InDeltas(o) \subseteq 1 .. Len(deltas)
    BY DEF DiskOK, InDeltas
  <2>2. Latest(InDeltas(o)) \in InDeltas(o) BY <1>2, <2>1, LatestLast
  <2>3. PICK i \in 1 .. Len(deltas) : i = Latest(InDeltas(o)) /\ o \in DOMAIN deltas[i].objs
    BY <2>2 DEF InDeltas
  <2>4. deltas[i] \in File BY <2>3 DEF DiskOK
  <2> QED BY <2>3, <2>4, FileObjs
<1>3. ASSUME o \in DOMAIN input.objs PROVE input.objs[o] \in Version
  BY <1>3, FileObjs DEF MemoryOK
<1>4. OnDisk(o) \in Version BY <1>1, <1>2, <1>3 DEF OnDisk
<1>5. props[o].ver \in Version BY DEF MemoryOK, List
<1> QED BY <1>4, <1>5 DEF Val

LEMMA Versions ==
  /\ Garbage \in Version /\ 0 \in Version /\ Version \subseteq Int
  /\ \A v \in Version : v < MaxChanges => v + 1 \in Version
  /\ \A v \in Version : v <= MaxChanges
BY DumpsAssumption DEF Version, Garbage

\* What becomes of a property list that is written out.
LEMMA UndirtiedLists ==
  ASSUME MemoryOK, NEW o \in Obj
  PROVE  /\ Undirtied(o) \in [Obj -> List]
         /\ \A x \in Obj \ {o} : Undirtied(o)[x] = props[x]
         /\ Undirtied(o)[o].ver = props[o].ver
         /\ Undirtied(o)[o].mode =
              IF props[o].mode = "changed" THEN "loaded" ELSE props[o].mode
<1> DEFINE m == IF props[o].mode = "changed" THEN "loaded" ELSE props[o].mode
           l == [mode |-> m, ver |-> props[o].ver]
<1>1. props \in [Obj -> List] /\ props[o] \in List BY DEF MemoryOK
<1>2. l \in List BY <1>1 DEF List
<1>3. [props[o] EXCEPT !.mode = m] = l BY <1>1 DEF List
<1>4. Undirtied(o) = [props EXCEPT ![o] = l]
  <2>1. Undirtied(o) = [props EXCEPT ![o] = [props[o] EXCEPT !.mode = m]]
    BY DEF Undirtied
  <2> HIDE DEF l
  <2> QED BY <1>3, <2>1
<1>5. l.mode = m /\ l.ver = props[o].ver OBVIOUS
<1> HIDE DEF l
<1> QED BY <1>1, <1>2, <1>4, <1>5

\* Property lists are thrown out of memory, and one is put in it.
LEMMA DisposedLists ==
  ASSUME MemoryOK, NEW S
  PROVE  /\ Disposed(props, S) \in [Obj -> List]
         /\ \A o \in Obj : Disposed(props, S)[o] = IF o \in S THEN Unloaded ELSE props[o]
         /\ \A o \in Obj, l \in List : [Disposed(props, S) EXCEPT ![o] = l] \in [Obj -> List]
         /\ \A v \in [Obj -> Version] : Read(v) \in [Obj -> List]
         /\ \A o \in Obj : Undirtied(o) \in [Obj -> List]
         /\ \A o \in Obj : Disposed(Undirtied(o), S) \in [Obj -> List]
<1>1. Unloaded \in List BY Versions DEF Unloaded, List
<1>2. props \in [Obj -> List] BY DEF MemoryOK
<1>3. \A v \in Version : [mode |-> "changed", ver |-> v] \in List BY DEF List
<1>4. \A v \in [Obj -> Version] : Read(v) \in [Obj -> List] BY <1>1, <1>3 DEF Read
<1>5. \A o \in Obj : Undirtied(o) \in [Obj -> List] BY UndirtiedLists
<1>6. \A p \in [Obj -> List] : Disposed(p, S) \in [Obj -> List] BY <1>1 DEF Disposed
<1> QED BY <1>1, <1>2, <1>4, <1>5, <1>6 DEF Disposed

-----------------------------------------------------------------------------
(* Kinds is inductive. *)

\* The steps that leave the files and the control alone.
LEMMA MemoryKinds ==
  ASSUME Kinds, MemoryOK', UNCHANGED <<build, copies, pc, after, shift, disk, bounds>>,
         todo' \subseteq Obj, saved' \in [Obj -> Version],
         shutdown_flag' \in BOOLEAN, restart_flag' \in BOOLEAN, dump_flag' \in BOOLEAN
  PROVE  Kinds'
BY DEF Kinds, ControlOK, DiskOK, FilesOK, Steps, OneWhole, disk, bounds

LEMMA ServingKinds ==
  ASSUME Kinds,
         \/ \E o \in Obj : SetProperty(o) \/ Fetch(o)
         \/ CheckCleanTime \/ SigDump
         \/ \E restart \in BOOLEAN : SigShutdown(restart)
  PROVE  Kinds'
<1>1. MemoryOK /\ DiskOK /\ ControlOK BY DEF Kinds
<1>2. ASSUME NEW o \in Obj, SetProperty(o) PROVE Kinds'
  <2>1. truth' \in [Obj -> Version] /\ changed' \subseteq Obj
    <3>1. truth \in [Obj -> Version] BY <1>1 DEF MemoryOK
    <3>2. truth[o] + 1 \in Version BY <1>2, <3>1, Versions DEF SetProperty
    <3>3. truth' = [truth EXCEPT ![o] = truth[o] + 1] BY <1>2 DEF SetProperty
    <3>4. truth' \in [Obj -> Version] BY <3>1, <3>2, <3>3
    <3> QED BY <1>1, <1>2, <3>4 DEF MemoryOK, SetProperty
  <2>2. props' \in [Obj -> List]
    <3> DEFINE l == [mode |-> "changed", ver |-> IF Val(o) = truth[o] THEN truth[o] + 1 ELSE Garbage]
    <3>1. l \in List
      <4>1. truth[o] + 1 \in Version BY <1>1, <1>2, Versions DEF SetProperty, MemoryOK
      <4> QED BY <4>1, Versions DEF List
    <3>2. \E S : props' = [Disposed(props, S) EXCEPT ![o] = l] BY <1>2 DEF SetProperty
    <3> HIDE DEF l
    <3> QED BY <1>1, <3>1, <3>2, DisposedLists
  <2>3. MemoryOK' BY <1>1, <1>2, <2>1, <2>2 DEF MemoryOK, SetProperty, flags
  <2> QED BY <1>1, <1>2, <2>3, MemoryKinds DEF SetProperty, flags, ControlOK, DiskOK
<1>3. ASSUME NEW o \in Obj, Fetch(o) PROVE Kinds'
  <2> DEFINE l == [mode |-> "loaded", ver |-> OnDisk(o)]
  <2>1. l \in List BY <1>1, ReadVersion DEF List
  <2>2. \E S : props' = [Disposed(props, S) EXCEPT ![o] = l] BY <1>3 DEF Fetch
  <2> HIDE DEF l
  <2>3. props' \in [Obj -> List] BY <1>1, <2>1, <2>2, DisposedLists
  <2>4. MemoryOK' BY <1>1, <1>3, <2>3 DEF MemoryOK, Fetch, flags
  <2> QED BY <1>1, <1>3, <2>4, MemoryKinds DEF Fetch, flags, ControlOK, DiskOK
<1>4. ASSUME CheckCleanTime PROVE Kinds'
  <2>1. \E S : props' = Disposed(props, S) BY <1>4 DEF CheckCleanTime
  <2>2. props' \in [Obj -> List] BY <1>1, <2>1, DisposedLists
  <2>3. MemoryOK' BY <1>1, <1>4, <2>2 DEF MemoryOK, CheckCleanTime, flags
  <2> QED BY <1>1, <1>4, <2>3, MemoryKinds DEF CheckCleanTime, flags, ControlOK, DiskOK
<1>5. ASSUME SigDump PROVE Kinds'
  <2>1. MemoryOK' BY <1>1, <1>5 DEF MemoryOK, SigDump, memory
  <2> QED BY <1>1, <1>5, <2>1, MemoryKinds DEF SigDump, ControlOK, DiskOK
<1>6. ASSUME NEW restart \in BOOLEAN, SigShutdown(restart) PROVE Kinds'
  <2>1. MemoryOK' BY <1>1, <1>6 DEF MemoryOK, SigShutdown, memory
  <2> QED BY <1>1, <1>6, <2>1, MemoryKinds DEF SigShutdown, ControlOK, DiskOK
<1> QED BY <1>2, <1>3, <1>4, <1>5, <1>6

\* The new dump is the one file that is written.
LEMMA TmpKinds ==
  ASSUME Kinds, ControlOK', MemoryOK', NEW c \in File, Sound(c),
         files' = [files EXCEPT !["tmp"] = c], pc \in Running,
         UNCHANGED <<deltas, saved>>,
         pc' \in {"write", "copies", "rename"},
         pc' = "copies" => shift' \in 1 .. copies', pc' = "write" => c.there
  PROVE  Kinds'
<1>1. Kinds /\ FilesOK BY DEF Kinds, DiskOK
<1>2. FilesOK' /\ \A n \in Names \ {"tmp"} : files'[n] = files[n]
  <2>1. "tmp" \in Names BY CopyNames
  <2> QED BY <1>1, <2>1, NewFile
<1>3. files'["tmp"] = c BY <1>1, CopyNames, NewFile
<1>4. /\ files'["in"] = files["in"] /\ files'["out"] = files["out"]
      /\ files'["old"] = files["old"] /\ files'["panic"] = files["panic"]
  BY <1>2, CopyNames
<1>5. Steps' /\ OneWhole' BY <1>1, <1>3, <1>4 DEF Kinds, Steps, OneWhole, Running, Script
<1>6. DiskOK' BY <1>1, <1>2 DEF DiskOK, Kinds
<1> QED BY <1>5, <1>6 DEF Kinds

\* What the steps after the loop's have in common: the files that the script
\* looks at are as they were.
LEMMA FilesKinds ==
  ASSUME Kinds, ControlOK', MemoryOK', DiskOK', pc \in Running, pc' \in Running,
         \A n \in {"in", "old", "panic"} : files'[n] = files[n],
         pc' = "copies" => shift' \in 1 .. copies',
         pc' \in {"reopen", "deltas"} => build' = "disk",
         pc' = "deltas" => deltas' # <<>>, pc' # "write"
  PROVE  Kinds'
<1>1. Steps' BY DEF Kinds, Steps, Running, Script
<1>2. OneWhole' BY DEF Kinds, OneWhole, Running
<1> QED BY <1>1, <1>2 DEF Kinds

LEMMA BeginKinds ==
  ASSUME Kinds, NEW ret \in {"loop", "loopAsked", "exit"}, pc = "loop",
         BeginDump(ret), UNCHANGED <<flags, saved>>
  PROVE  Kinds'
<1>1. MemoryOK' BY DEF BeginDump, memory, flags, Kinds, MemoryOK
<1>2. ControlOK'
  <2>1. fulls' \in Nat
    <3>1. fulls' = fulls \/ fulls' = fulls + 1 BY DEF BeginDump
    <3>2. fulls \in Nat BY DEF Kinds, ControlOK
    <3> QED BY <3>1, <3>2
  <2>2. pc' \in Running /\ todo' \subseteq Obj /\ after' = ret
    BY DEF BeginDump, Kinds, ControlOK, Running
  <2> QED BY <2>1, <2>2 DEF BeginDump, flags, Kinds, ControlOK
<1>3. CASE pc' = "write" /\ files' = [files EXCEPT !["tmp"] = Empty]
  <2>1. Empty \in File /\ Sound(Empty) /\ Empty.there BY EmptyFiles DEF Empty, NoFile
  <2> QED BY <1>1, <1>2, <1>3, <2>1, TmpKinds DEF BeginDump, Running
<1>4. CASE pc' = "done" /\ UNCHANGED files
  <2>1. DiskOK' BY <1>4 DEF BeginDump, Kinds, DiskOK, FilesOK
  <2> QED BY <1>1, <1>2, <1>4, <2>1, FilesKinds DEF Running
<1> QED BY <1>3, <1>4 DEF BeginDump

LEMMA WriteKinds ==
  ASSUME Kinds, NEW o \in Obj, WriteObject(o)
  PROVE  Kinds'
<1>1. MemoryOK /\ DiskOK /\ ControlOK /\ Steps BY DEF Kinds
<1>2. ControlOK'
  <2>1. fulls' \in Nat
    <3>1. fulls' = fulls \/ fulls' = fulls + 1 BY DEF WriteObject
    <3>2. fulls \in Nat BY <1>1 DEF ControlOK
    <3> QED BY <3>1, <3>2
  <2>2. todo' \subseteq Obj BY <1>1 DEF WriteObject, ControlOK
  <2> QED BY <1>1, <2>1, <2>2 DEF WriteObject, flags, ControlOK
<1>3. MemoryOK'
  <2>1. CASE build = "memory" BY <1>1, <2>1 DEF WriteObject, flags, MemoryOK
  <2>2. CASE build # "memory"
    <3>1. \E S : props' = Disposed(Undirtied(o), S) BY <2>2 DEF WriteObject
    <3>2. \A S : Disposed(Undirtied(o), S) \in [Obj -> List] BY <1>1, DisposedLists
    <3>3. props' \in [Obj -> List] BY <3>1, <3>2
    <3> QED BY <1>1, <2>2, <3>3 DEF WriteObject, flags, MemoryOK
  <2> QED BY <2>1, <2>2
<1>4. files["tmp"] \in File /\ Sound(files["tmp"]) /\ files["tmp"].there
  BY <1>1, CopyNames DEF DiskOK, FilesOK, WriteObject, Steps
<1>5. CASE files' = [files EXCEPT !["tmp"] = Put(@, o, Val(o))]
  <2> DEFINE c == Put(files["tmp"], o, Val(o))
  <2>1. c \in File /\ Sound(c) /\ c.there BY <1>1, <1>4, ReadVersion, PutFile
  <2>2. files' = [files EXCEPT !["tmp"] = c] BY <1>5
  <2> HIDE DEF c
  <2> QED BY <1>2, <1>3, <2>1, <2>2, TmpKinds DEF WriteObject, Running
<1>6. CASE UNCHANGED files
  <2>1. files' = [files EXCEPT !["tmp"] = files["tmp"]]
    BY <1>1, <1>6 DEF DiskOK, FilesOK
  <2> QED BY <1>2, <1>3, <1>4, <2>1, TmpKinds DEF WriteObject, Running
<1> QED BY <1>5, <1>6 DEF WriteObject

LEMMA DumpKinds ==
  ASSUME Kinds, EndWrite \/ RenameCopy \/ RenameDump \/ TruncateDeltas \/ EndDump
  PROVE  Kinds'
<1>1. MemoryOK /\ DiskOK /\ ControlOK /\ Steps /\ FilesOK BY DEF Kinds, DiskOK
<1>2. MaxCopies \in Nat BY DumpsAssumption
<1>3. ASSUME EndWrite PROVE Kinds'
  <2>1. ControlOK'
    <3>1. shift' \in 0 .. MaxCopies
      <4>1. copies \in 0 .. MaxCopies /\ shift \in 0 .. MaxCopies BY <1>1 DEF ControlOK
      <4>2. shift' = shift \/ shift' \in 1 .. copies BY <1>3 DEF EndWrite
      <4> QED BY <1>2, <4>1, <4>2
    <3>2. pc' \in Running BY <1>3 DEF EndWrite, Running
    <3> QED BY <1>1, <1>3, <3>1, <3>2 DEF EndWrite, flags, bounds, ControlOK
  <2>2. MemoryOK' BY <1>1, <1>3 DEF EndWrite, flags, memory, MemoryOK
  <2>3. files["tmp"] \in File /\ files["tmp"].there
    BY <1>1, <1>3, CopyNames DEF FilesOK, EndWrite, Steps
  <2>4. Closed(files["tmp"]) \in File /\ Sound(Closed(files["tmp"])) BY <2>3, ClosedFile
  <2>5. files' = [files EXCEPT !["tmp"] = Closed(files["tmp"])] BY <1>3 DEF EndWrite
  <2> QED BY <1>3, <2>1, <2>2, <2>4, <2>5, TmpKinds DEF EndWrite, Running
<1>4. ASSUME RenameCopy PROVE Kinds'
  <2>1. shift \in 1 .. copies /\ shift - 1 \in 0 .. MaxCopies /\ shift \in 0 .. MaxCopies
        /\ shift # 0 /\ copies \in Nat
    <3>1. shift \in 1 .. copies BY <1>1, <1>4 DEF RenameCopy, Steps
    <3>2. copies \in 0 .. MaxCopies BY <1>1 DEF ControlOK
    <3> QED BY <1>2, <3>1, <3>2
  <2>2. ControlOK' BY <1>1, <1>4, <2>1 DEF RenameCopy, flags, bounds, ControlOK, Running
  <2>3. MemoryOK' BY <1>1, <1>4 DEF RenameCopy, flags, memory, MemoryOK
  <2>4. /\ Copy(shift - 1) \in Names /\ Copy(shift) \in Names
        /\ Copy(shift - 1) \notin {"tmp", "in", "old", "panic"}
        /\ Copy(shift) \notin {"tmp", "in", "old", "panic"}
    BY <2>1, CopyNames
  <2>5. Copy(shift - 1) # Copy(shift)
    <3>1. MaxCopies \in 0 .. 3 BY DumpsAssumption
    <3>2. shift \in 1 .. 3 BY <2>1, <3>1
    <3> QED BY <3>2 DEF Copy
  <2>6. /\ FilesOK' /\ \A n \in {"in", "old", "panic"} : files'[n] = files[n]
    <3>1. files' = Renamed(files, Copy(shift - 1), Copy(shift)) BY <1>4 DEF RenameCopy
    <3>2. /\ FilesOK'
          /\ \A m \in Names \ {Copy(shift - 1), Copy(shift)} : files'[m] = files[m]
      BY <1>1, <2>4, <2>5, <3>1, RenamedFiles
    <3>3. \A n \in {"in", "old", "panic"} : n \in Names \ {Copy(shift - 1), Copy(shift)}
      BY <2>4, CopyNames
    <3> QED BY <3>2, <3>3
  <2>7. DiskOK' BY <1>1, <1>4, <2>6 DEF RenameCopy, DiskOK
  <2>8. pc' \in {"rename", "copies"} /\ (pc' = "copies" => shift' \in 1 .. copies')
    BY <1>4, <2>1 DEF RenameCopy
  <2> QED BY <1>4, <2>2, <2>3, <2>6, <2>7, <2>8, FilesKinds DEF RenameCopy, Running
<1>5. ASSUME RenameDump PROVE Kinds'
  <2>1. ControlOK' BY <1>1, <1>5 DEF RenameDump, flags, bounds, ControlOK, Running
  <2>2. /\ FilesOK' /\ \A n \in {"in", "old", "panic"} : files'[n] = files[n]
    <3>1. files' = Renamed(files, "tmp", "out") BY <1>5 DEF RenameDump
    <3>2. "tmp" \in Names /\ "out" \in Names BY CopyNames
    <3>3. /\ FilesOK'
          /\ \A m \in Names \ {"tmp", "out"} : files'[m] = files[m]
      BY <1>1, <3>1, <3>2, RenamedFiles
    <3>4. \A n \in {"in", "old", "panic"} : n \in Names \ {"tmp", "out"}
      BY CopyNames
    <3> QED BY <3>3, <3>4
  <2>3. MemoryOK'
    <3>1. files["tmp"] \in File /\ Sound(files["tmp"])
      BY <1>1, CopyNames DEF FilesOK
    <3> QED BY <1>1, <1>5, <3>1 DEF RenameDump, flags, MemoryOK
  <2>4. DiskOK' BY <1>1, <1>5, <2>2 DEF RenameDump, DiskOK
  <2>5. build \in {"memory", "disk"} BY <1>1, DumpsAssumption DEF ControlOK
  <2> QED BY <1>5, <2>1, <2>2, <2>3, <2>4, <2>5, FilesKinds DEF RenameDump, Running
<1>6. ASSUME TruncateDeltas PROVE Kinds'
  <2>1. ControlOK' BY <1>1, <1>6 DEF TruncateDeltas, flags, bounds, ControlOK, Running
  <2>2. MemoryOK' BY <1>1, <1>6 DEF TruncateDeltas, flags, memory, MemoryOK
  <2>3. DiskOK' BY <1>1, <1>6, EmptySeq DEF TruncateDeltas, DiskOK, FilesOK
  <2> QED BY <1>6, <2>1, <2>2, <2>3, FilesKinds DEF TruncateDeltas, Running
<1>7. ASSUME EndDump PROVE Kinds'
  <2>1. ControlOK' BY <1>1, <1>7 DEF EndDump, bounds, ControlOK, Running
  <2>2. MemoryOK'
    <3>1. \E S : props' = Disposed(props, S) BY <1>7 DEF EndDump
    <3>2. props' \in [Obj -> List] BY <1>1, <3>1, DisposedLists
    <3>3. Unasked \in [Obj -> Version] BY Versions DEF Unasked
    <3> QED BY <1>1, <1>7, <3>2, <3>3 DEF EndDump, MemoryOK
  <2>3. saved' \in [Obj -> Version]
    <3>1. CASE files["out"].whole
      <4>1. files["out"] \in File /\ Sound(files["out"]) BY <1>1, CopyNames DEF FilesOK
      <4>2. \A o \in Obj : files["out"].objs[o] \in Version
        BY <3>1, <4>1, FileObjs DEF Sound
      <4> QED BY <1>7, <3>1, <4>2 DEF EndDump
    <3>2. CASE ~files["out"].whole BY <1>1, <1>7, <3>2 DEF EndDump, DiskOK
    <3> QED BY <3>1, <3>2
  <2>4. DiskOK' BY <1>1, <1>7, <2>3 DEF EndDump, DiskOK, FilesOK, disk
  <2> QED BY <1>7, <2>1, <2>2, <2>4, FilesKinds DEF EndDump, Running, disk
<1> QED BY <1>3, <1>4, <1>5, <1>6, <1>7

\* The delta dump that is written.
LEMMA LastDelta ==
  ASSUME DiskOK, NEW c \in File, deltas # <<>>,
         deltas' = [deltas EXCEPT ![Len(deltas)] = c]
  PROVE  /\ deltas' \in Seq(File) /\ deltas' # <<>> /\ Len(deltas') = Len(deltas)
         /\ Len(deltas) \in 1 .. Len(deltas) /\ deltas[Len(deltas)] \in File
         /\ deltas'[Len(deltas)] = c
         /\ \A i \in 1 .. Len(deltas) : i # Len(deltas) => deltas'[i] = deltas[i]
<1>1. deltas \in Seq(File) BY DEF DiskOK
<1>2. Len(deltas) \in Nat /\ Len(deltas) # 0 BY <1>1, EmptySeq
<1>3. deltas' \in Seq(File) /\ Len(deltas') = Len(deltas) BY <1>1, <1>2
<1>4. deltas' # <<>> BY <1>2, <1>3, EmptySeq
<1>5. Len(deltas) \in 1 .. Len(deltas) /\ deltas[Len(deltas)] \in File BY <1>1, <1>2
<1>6. DOMAIN deltas = 1 .. Len(deltas) BY <1>1
<1> QED BY <1>3, <1>4, <1>5, <1>6

LEMMA DeltaKinds ==
  ASSUME Kinds, BeginDeltas \/ EndDeltas \/ \E o \in Obj : WriteDelta(o)
  PROVE  Kinds'
<1>1. MemoryOK /\ DiskOK /\ ControlOK /\ Steps /\ FilesOK BY DEF Kinds, DiskOK
<1>2. \A n \in {"in", "old", "panic"} : UNCHANGED files => files'[n] = files[n]
  OBVIOUS
<1>3. ASSUME BeginDeltas PROVE Kinds'
  <2>1. ControlOK' BY <1>1, <1>3 DEF BeginDeltas, flags, bounds, ControlOK, Running, MemoryOK
  <2>2. MemoryOK' BY <1>1, <1>3 DEF BeginDeltas, flags, memory, MemoryOK
  <2>3. deltas' \in Seq(File) /\ deltas' # <<>>
    <3>1. deltas \in Seq(File) /\ Empty \in File BY <1>1, EmptyFiles DEF DiskOK
    <3>2. deltas' = Append(deltas, Empty) BY <1>3 DEF BeginDeltas
    <3>3. deltas' \in Seq(File) /\ deltas' # <<>>
      <4> DEFINE new == Append(deltas, Empty)
      <4>1. new \in Seq(File) /\ new # <<>> BY <3>1, AppendProperties
      <4> QED BY <3>2, <4>1
    <3> QED BY <3>3
  <2>4. DiskOK' BY <1>1, <1>3, <2>3 DEF BeginDeltas, DiskOK, FilesOK
  <2> QED BY <1>3, <1>2, <2>1, <2>2, <2>3, <2>4, FilesKinds DEF BeginDeltas, Running
<1>4. ASSUME NEW o \in Obj, WriteDelta(o) PROVE Kinds'
  <2>1. ControlOK' BY <1>1, <1>4 DEF WriteDelta, flags, bounds, ControlOK, Running
  <2>2. MemoryOK'
    <3>1. \E S : props' = Disposed(Undirtied(o), S) BY <1>4 DEF WriteDelta
    <3>2. \A S : Disposed(Undirtied(o), S) \in [Obj -> List] BY <1>1, DisposedLists
    <3>3. props' \in [Obj -> List] BY <3>1, <3>2
    <3> QED BY <1>1, <1>4, <3>3 DEF WriteDelta, flags, MemoryOK
  <2>3. deltas' \in Seq(File) /\ deltas' # <<>> /\ build = "disk"
    <3>1. deltas # <<>> /\ build = "disk" BY <1>1, <1>4 DEF WriteDelta, Steps
    <3>2. deltas[Len(deltas)] \in File
      <4>1. deltas \in Seq(File) BY <1>1 DEF DiskOK
      <4>2. Len(deltas) \in Nat /\ Len(deltas) # 0 BY <3>1, <4>1, EmptySeq
      <4> QED BY <4>1, <4>2
    <3> DEFINE c == Put(deltas[Len(deltas)], o, Val(o))
    <3>3. c \in File BY <1>1, <3>2, ReadVersion, PutFile
    <3>4. deltas' = [deltas EXCEPT ![Len(deltas)] = c] BY <1>4 DEF WriteDelta
    <3> HIDE DEF c
    <3> QED BY <1>1, <3>1, <3>3, <3>4, LastDelta
  <2>4. DiskOK' BY <1>1, <1>4, <2>3 DEF WriteDelta, DiskOK, FilesOK
  <2> QED BY <1>4, <1>2, <2>1, <2>2, <2>3, <2>4, FilesKinds DEF WriteDelta, Running
<1>5. ASSUME EndDeltas PROVE Kinds'
  <2>1. ControlOK' BY <1>1, <1>5 DEF EndDeltas, flags, bounds, ControlOK, Running
  <2>2. MemoryOK' BY <1>1, <1>5 DEF EndDeltas, flags, memory, MemoryOK
  <2> DEFINE c == [deltas[Len(deltas)] EXCEPT !.whole = TRUE]
  <2>3. deltas # <<>> BY <1>1, <1>5 DEF EndDeltas, Steps
  <2>4. deltas[Len(deltas)] \in File
    <3>1. deltas \in Seq(File) BY <1>1 DEF DiskOK
    <3>2. Len(deltas) \in Nat /\ Len(deltas) # 0 BY <2>3, <3>1, EmptySeq
    <3> QED BY <3>1, <3>2
  <2>5. c \in File BY <2>4 DEF File
  <2>6. deltas' = [deltas EXCEPT ![Len(deltas)] = c] BY <1>5 DEF EndDeltas
  <2> HIDE DEF c
  <2>7. deltas' \in Seq(File) BY <1>1, <2>3, <2>5, <2>6, LastDelta
  <2>8. saved' \in [Obj -> Version]
    <3>1. saved \in [Obj -> Version] BY <1>1 DEF DiskOK
    <3>2. DOMAIN saved = Obj /\ \A o \in Obj : saved[o] \in Version BY <3>1
    <3> DEFINE g == deltas[Len(deltas)].objs
    <3>3. DOMAIN g \subseteq Obj /\ \A o \in DOMAIN g : g[o] \in Version
      BY <2>4, FileObjs
    <3>4. saved' = Over(saved, g) BY <1>5 DEF EndDeltas
    <3> HIDE DEF g
    <3>5. saved' \in [Obj \union DOMAIN g -> Version] BY <3>2, <3>3, <3>4, OverPart
    <3>6. Obj \union DOMAIN g = Obj BY <3>3
    <3> QED BY <3>5, <3>6
  <2>9. DiskOK' BY <1>1, <1>5, <2>7, <2>8 DEF EndDeltas, DiskOK, FilesOK
  <2> QED BY <1>5, <1>2, <2>1, <2>2, <2>9, FilesKinds DEF EndDeltas, Running
<1> QED BY <1>3, <1>4, <1>5

\* The server is gone.
LEMMA GoneKinds ==
  ASSUME MemoryOK, DiskOK, Gone
  PROVE  /\ MemoryOK'
         /\ after' = "loop" /\ todo' = {} /\ shift' = 0
         /\ shutdown_flag' = FALSE /\ restart_flag' = FALSE /\ dump_flag' = FALSE
<1>1. NoFile \in File /\ Sound(NoFile) BY EmptyFiles
<1>2. Unasked \in [Obj -> Version] BY Versions DEF Unasked
<1>3. saved \in [Obj -> Version] BY DEF DiskOK
<1>4. Read(saved) \in [Obj -> List] BY <1>3, DisposedLists
<1> QED BY <1>1, <1>2, <1>3, <1>4 DEF Gone, MemoryOK

\* Nothing runs, or the script has just begun.
LEMMA DownKinds ==
  ASSUME ControlOK', MemoryOK', DiskOK', OneWhole, pc' \in {"down", "panic", "archive", "aborted"},
         files'["in"].whole \/ files'["old"].whole,
         pc' = "archive" => ~files'["panic"].whole
  PROVE  Kinds'
<1>1. Steps' BY DEF Steps, Running, Script
<1>2. OneWhole' BY DEF OneWhole, Running
<1> QED BY <1>1, <1>2 DEF Kinds

LEMMA EndKinds ==
  ASSUME Kinds, Panic \/ Killed \/ Exit \/ RunScript \/ UsePanic \/ CheckIn
  PROVE  Kinds'
<1>1. MemoryOK /\ DiskOK /\ ControlOK /\ Steps /\ OneWhole /\ FilesOK BY DEF Kinds, DiskOK
<1>2. 0 \in 0 .. MaxCopies BY DumpsAssumption
<1>3. files["in"].whole \/ files["old"].whole BY <1>1 DEF OneWhole
<1>4. {"in", "old", "panic", "out", "tmp"} \subseteq Names BY CopyNames
<1>5. ASSUME Panic PROVE Kinds'
  <2>1. Gone /\ pc' = "down" /\ UNCHANGED <<build, copies>> /\ crashes' = crashes + 1
        /\ (fulls' = fulls \/ fulls' = fulls + 1)
        /\ cut' = (cut \/ (NoOut /\ ~files'["panic"].whole))
    BY <1>5 DEF Panic
  <2>2. /\ MemoryOK' /\ after' = "loop" /\ todo' = {} /\ shift' = 0
        /\ shutdown_flag' = FALSE /\ restart_flag' = FALSE /\ dump_flag' = FALSE
    BY <1>1, <2>1, GoneKinds
  <2>3. crashes \in Nat /\ fulls \in Nat BY <1>1 DEF ControlOK
  <2>4. crashes' \in Nat /\ fulls' \in Nat /\ cut' \in BOOLEAN BY <2>1, <2>3
  <2>5. ControlOK' BY <1>1, <1>2, <2>1, <2>2, <2>4 DEF ControlOK
  <2> DEFINE c == [objs |-> [o \in Obj |-> Val(o)], whole |-> TRUE, there |-> TRUE]
  <2>6. c \in File /\ Sound(c)
    <3>1. [o \in Obj |-> Val(o)] \in [Obj -> Version] BY <1>1, ReadVersion
    <3>2. [o \in Obj |-> Val(o)] \in Part BY <3>1, MakePart
    <3> QED BY <3>1, <3>2 DEF File, Sound
  <2>7. \/ files' = [files EXCEPT !["panic"] = c]
        \/ files' = [files EXCEPT !["panic"] = Empty]
    BY <1>5 DEF Panic
  <2> HIDE DEF c
  <2>8. FilesOK' /\ files'["in"] = files["in"] /\ files'["old"] = files["old"]
    <3>1. Empty \in File /\ Sound(Empty) BY EmptyFiles
    <3>2. PICK d \in {c, Empty} : files' = [files EXCEPT !["panic"] = d] BY <2>7
    <3>3. d \in File /\ Sound(d) BY <2>6, <3>1
    <3>4. FilesOK' /\ \A m \in Names \ {"panic"} : files'[m] = files[m]
      BY <1>1, <1>4, <3>2, <3>3, NewFile
    <3> QED BY <1>4, <3>4
  <2>9. deltas' \in Seq(File)
    <3>1. deltas' = <<>> \/ deltas' = deltas BY <1>5 DEF Panic
    <3> QED BY <1>1, <3>1, EmptySeq DEF DiskOK
  <2>10. saved' \in [Obj -> Version]
    <3>1. saved' = truth \/ saved' = saved BY <1>5 DEF Panic
    <3> QED BY <1>1, <3>1 DEF DiskOK, MemoryOK
  <2>11. DiskOK' BY <2>8, <2>9, <2>10 DEF DiskOK
  <2> QED BY <1>1, <1>3, <2>1, <2>2, <2>5, <2>8, <2>11, DownKinds
<1>6. ASSUME Killed PROVE Kinds'
  <2>1. Gone /\ pc' = "down" /\ UNCHANGED <<build, copies, disk, saved, fulls>>
        /\ crashes' = crashes + 1 /\ cut' = (cut \/ NoOut)
    BY <1>6 DEF Killed
  <2>2. /\ MemoryOK' /\ after' = "loop" /\ todo' = {} /\ shift' = 0
        /\ shutdown_flag' = FALSE /\ restart_flag' = FALSE /\ dump_flag' = FALSE
    BY <1>1, <2>1, GoneKinds
  <2>3. crashes' \in Nat /\ cut' \in BOOLEAN
    <3>1. crashes \in Nat BY <1>1 DEF ControlOK
    <3> QED BY <2>1, <3>1
  <2>4. ControlOK' BY <1>1, <1>2, <2>1, <2>2, <2>3 DEF ControlOK
  <2>5. DiskOK' BY <1>1, <2>1 DEF DiskOK, FilesOK, disk
  <2> QED BY <1>1, <1>3, <2>1, <2>2, <2>4, <2>5, DownKinds DEF disk
<1>7. ASSUME Exit PROVE Kinds'
  <2>1. Gone /\ pc' \in {"down", "panic"} /\ UNCHANGED <<build, copies, files, saved, bounds>>
        /\ deltas' = <<>>
    BY <1>7 DEF Exit
  <2>2. /\ MemoryOK' /\ after' = "loop" /\ todo' = {} /\ shift' = 0
        /\ shutdown_flag' = FALSE /\ restart_flag' = FALSE /\ dump_flag' = FALSE
    BY <1>1, <2>1, GoneKinds
  <2>3. ControlOK' BY <1>1, <1>2, <2>1, <2>2 DEF ControlOK, bounds, Script
  <2>4. DiskOK' BY <1>1, <2>1, EmptySeq DEF DiskOK, FilesOK
  <2> QED BY <1>1, <1>3, <2>1, <2>2, <2>3, <2>4, DownKinds
<1>8. ASSUME RunScript PROVE Kinds'
  <2>1. ControlOK' BY <1>1, <1>8 DEF RunScript, ControlOK, flags, bounds, Script
  <2>2. MemoryOK' BY <1>1, <1>8 DEF RunScript, MemoryOK, flags, memory
  <2>3. DiskOK' BY <1>1, <1>8 DEF RunScript, DiskOK, FilesOK, disk
  <2> QED BY <1>1, <1>3, <1>8, <2>1, <2>2, <2>3, DownKinds DEF RunScript, disk
<1>9. ASSUME UsePanic PROVE Kinds'
  <2>1. ControlOK' BY <1>1, <1>9 DEF UsePanic, ControlOK, flags, bounds, Script
  <2>2. MemoryOK' BY <1>1, <1>9 DEF UsePanic, MemoryOK, flags, memory
  <2>3. /\ FilesOK' /\ files'["in"] = files["in"] /\ files'["old"] = files["old"]
        /\ ~files'["panic"].whole
    <3>1. CASE files["panic"].whole
      <4>1. files' = Renamed(files, "panic", "out") BY <1>9, <3>1 DEF UsePanic
      <4>2. files["panic"].there BY <1>1, <1>4, <3>1 DEF FilesOK, Sound
      <4>3. /\ FilesOK' /\ files'["panic"] = NoFile
            /\ \A m \in Names \ {"panic", "out"} : files'[m] = files[m]
        BY <1>1, <1>4, <4>1, <4>2, RenamedFiles
      <4> QED BY <1>4, <4>3, EmptyFiles
    <3>2. CASE ~files["panic"].whole
      <4>1. files' = [files EXCEPT !["panic"] = NoFile] BY <1>9, <3>2 DEF UsePanic
      <4>2. NoFile \in File /\ Sound(NoFile) BY EmptyFiles
      <4>3. /\ FilesOK' /\ files'["panic"] = NoFile
            /\ \A m \in Names \ {"panic"} : files'[m] = files[m]
        BY <1>1, <1>4, <4>1, <4>2, NewFile
      <4> QED BY <1>4, <4>3, EmptyFiles
    <3> QED BY <3>1, <3>2
  <2>4. deltas' = <<>> \/ deltas' = deltas BY <1>9 DEF UsePanic
  <2>5. DiskOK' BY <1>1, <1>9, <2>3, <2>4, EmptySeq DEF UsePanic, DiskOK
  <2> QED BY <1>1, <1>3, <1>9, <2>1, <2>2, <2>3, <2>5, DownKinds DEF UsePanic
<1>10. ASSUME CheckIn PROVE Kinds'
  <2>1. ControlOK' BY <1>1, <1>10 DEF CheckIn, ControlOK, flags, bounds, Script
  <2>2. MemoryOK' BY <1>1, <1>10 DEF CheckIn, MemoryOK, flags, memory
  <2>3. DiskOK' BY <1>1, <1>10 DEF CheckIn, DiskOK, FilesOK, disk
  <2>4. Steps' BY <1>1, <1>10 DEF CheckIn, Steps, Script, Running, disk
  <2>5. OneWhole' BY <1>1, <1>10 DEF CheckIn, OneWhole, Script, Running, disk
  <2> QED BY <2>1, <2>2, <2>3, <2>4, <2>5 DEF Kinds
<1> QED BY <1>5, <1>6, <1>7, <1>8, <1>9, <1>10

LEMMA RestartKinds ==
  ASSUME Kinds, Archive \/ MoveOut \/ AppendDeltas \/ Start
  PROVE  Kinds'
<1>1. MemoryOK /\ DiskOK /\ ControlOK /\ Steps /\ OneWhole /\ FilesOK BY DEF Kinds, DiskOK
<1>2. {"in", "old", "panic", "out", "tmp"} \subseteq Names BY CopyNames
<1>3. files["in"] \in File /\ Sound(files["in"]) BY <1>1, <1>2 DEF FilesOK
<1>4. ASSUME Archive PROVE Kinds'
  <2>1. ControlOK' BY <1>1, <1>4 DEF Archive, ControlOK, flags, bounds, Script
  <2>2. MemoryOK' BY <1>1, <1>4 DEF Archive, MemoryOK, flags, memory
  <2>3. CASE files' = [files EXCEPT !["old"] = files["in"]] /\ files["in"].whole
    <3>1. FilesOK' /\ files'["old"] = files["in"]
          /\ \A m \in Names \ {"old"} : files'[m] = files[m]
      BY <1>1, <1>2, <1>3, <2>3, NewFile
    <3>2. deltas' = <<>> \/ deltas' = deltas BY <1>4 DEF Archive, disk
    <3>3. DiskOK' BY <1>1, <1>4, <3>1, <3>2, EmptySeq DEF Archive, DiskOK
    <3>4. files'["in"] = files["in"] /\ files'["panic"] = files["panic"] BY <1>2, <3>1
    <3>5. Steps' BY <1>1, <1>4, <3>4 DEF Archive, Steps, Script, Running
    <3>6. OneWhole' BY <1>4, <2>3, <3>1, <3>4 DEF Archive, OneWhole, Running
    <3> QED BY <2>1, <2>2, <3>3, <3>5, <3>6 DEF Kinds
  <2>4. CASE UNCHANGED files
    <3>1. deltas' = <<>> \/ deltas' = deltas BY <1>4 DEF Archive, disk
    <3>2. DiskOK' BY <1>1, <1>4, <2>4, <3>1, EmptySeq DEF Archive, DiskOK, FilesOK
    <3>3. Steps' BY <1>1, <1>4, <2>4 DEF Archive, Steps, Script, Running
    <3>4. ~(files["out"].there /\ files["in"].whole) \/ files["old"].whole
      <4>1. CASE files["out"].there /\ files["in"].whole
        <5>1. files["in"].there BY <1>3, <4>1 DEF Sound
        <5>2. files' = [files EXCEPT !["old"] = files["in"]] BY <1>4, <4>1, <5>1 DEF Archive
        <5>3. files'["old"] = files["in"] BY <1>1, <1>2, <1>3, <5>2, NewFile
        <5> QED BY <2>4, <4>1, <5>3
      <4> QED BY <4>1
    <3>5. OneWhole' BY <1>1, <1>4, <2>4, <3>4 DEF Archive, OneWhole, Running
    <3> QED BY <2>1, <2>2, <3>2, <3>3, <3>5 DEF Kinds
  <2> QED BY <1>4, <2>3, <2>4 DEF Archive, disk
<1>5. ASSUME MoveOut PROVE Kinds'
  <2>1. ControlOK' BY <1>1, <1>5 DEF MoveOut, ControlOK, flags, bounds, Script
  <2>2. MemoryOK' BY <1>1, <1>5 DEF MoveOut, MemoryOK, flags, memory
  <2>3. files' = Renamed(files, "out", "in") BY <1>5 DEF MoveOut
  <2>4. /\ FilesOK' /\ \A m \in Names \ {"out", "in"} : files'[m] = files[m]
        /\ files["out"].there => files'["in"] = files["out"] /\ files'["out"] = NoFile
        /\ ~files["out"].there => files' = files
    BY <1>1, <1>2, <2>3, RenamedFiles
  <2>5. DiskOK' BY <1>1, <1>5, <2>4 DEF MoveOut, DiskOK
  <2>6. files'["old"] = files["old"] /\ files'["panic"] = files["panic"] BY <1>2, <2>4
  <2>7. ~files'["out"].there BY <2>4, EmptyFiles
  <2>8. Steps' BY <1>1, <1>5, <2>6, <2>7 DEF MoveOut, Steps, Script, Running
  <2>9. OneWhole' BY <1>1, <1>5, <2>4, <2>6 DEF MoveOut, OneWhole, Running
  <2> QED BY <2>1, <2>2, <2>5, <2>8, <2>9 DEF Kinds
<1>6. ASSUME AppendDeltas PROVE Kinds'
  <2>1. ControlOK' BY <1>1, <1>6 DEF AppendDeltas, ControlOK, flags, bounds, Script
  <2>2. MemoryOK' BY <1>1, <1>6 DEF AppendDeltas, MemoryOK, flags, memory
  <2> DEFINE whole(o) == {i \in InDeltas(o) : deltas[i].whole}
             p == [o \in Obj |-> IF whole(o) = {} THEN files["in"].objs[o]
                                 ELSE deltas[Latest(whole(o))].objs[o]]
             c == [files["in"] EXCEPT !.objs = p]
  <2>3. files["in"].whole BY <1>1, <1>6 DEF AppendDeltas, Steps
  <2>4. ASSUME NEW o \in Obj, whole(o) # {} PROVE deltas[Latest(whole(o))].objs[o] \in Version
    <3>1. Len(deltas) \in Nat /\ whole(o) \subseteq 1 .. Len(deltas)
      BY <1>1 DEF DiskOK, InDeltas
    <3>2. Latest(whole(o)) \in whole(o)
      <4> HIDE DEF whole
      <4> QED BY <2>4, <3>1, LatestLast
    <3>3. PICK i \in 1 .. Len(deltas) : i = Latest(whole(o)) /\ o \in DOMAIN deltas[i].objs
      BY <3>2 DEF InDeltas
    <3>4. deltas[i] \in File BY <1>1, <3>3 DEF DiskOK
    <3> QED BY <3>3, <3>4, FileObjs
  <2>5. \A o \in Obj : files["in"].objs[o] \in Version
    BY <1>3, <2>3, FileObjs DEF Sound
  <2>6. files' = [files EXCEPT !["in"] = c] BY <1>6 DEF AppendDeltas
  <2> HIDE DEF whole
  <2>7. p \in [Obj -> Version] BY <2>4, <2>5
  <2> HIDE DEF p
  <2>8. p \in Part /\ DOMAIN p = Obj BY <2>7, MakePart
  <2>9. files["in"].there BY <1>3, <2>3 DEF Sound
  <2>10. c = [objs |-> p, whole |-> files["in"].whole, there |-> files["in"].there]
    <3>1. \A q \in File :
            [q EXCEPT !.objs = p] = [objs |-> p, whole |-> q.whole, there |-> q.there]
      BY DEF File
    <3> QED BY <1>3, <3>1
  <2> HIDE DEF c
  <2>11. c \in File /\ Sound(c) /\ c.whole
    <3>1. files["in"].whole \in BOOLEAN /\ files["in"].there \in BOOLEAN
      BY <1>3, FileObjs
    <3> QED BY <2>3, <2>8, <2>9, <2>10, <3>1 DEF File, Sound
  <2>12. FilesOK' /\ files'["in"] = c /\ \A m \in Names \ {"in"} : files'[m] = files[m]
    BY <1>1, <1>2, <2>6, <2>11, NewFile
  <2>13. DiskOK' BY <1>1, <1>6, <2>12, EmptySeq DEF AppendDeltas, DiskOK
  <2>14. files'["out"] = files["out"] /\ files'["panic"] = files["panic"] BY <1>2, <2>12
  <2>15. Steps' BY <1>1, <1>6, <2>11, <2>12, <2>14 DEF AppendDeltas, Steps, Script, Running
  <2>16. OneWhole' BY <1>6, <2>11, <2>12 DEF AppendDeltas, OneWhole, Running
  <2> QED BY <2>1, <2>2, <2>13, <2>15, <2>16 DEF Kinds
<1>7. ASSUME Start PROVE Kinds'
  <2>1. ControlOK' BY <1>1, <1>7 DEF Start, ControlOK, flags, bounds, Running
  <2>2. files["in"].whole BY <1>1, <1>7 DEF Start, Steps
  <2>3. \A o \in Obj : files["in"].objs[o] \in Version
    BY <1>3, <2>2, FileObjs DEF Sound
  <2>4. truth' \in [Obj -> Version] BY <1>7, <2>3 DEF Start
  <2>5. props' \in [Obj -> List]
    <3>1. props' = [o \in Obj |-> IF build = "disk" THEN Unloaded
                                  ELSE [mode |-> "changed", ver |-> truth'[o]]]
      BY <1>7 DEF Start, Read
    <3>2. Unloaded \in List BY Versions DEF Unloaded, List
    <3>3. \A o \in Obj : [mode |-> "changed", ver |-> truth'[o]] \in List
      BY <2>4 DEF List
    <3> QED BY <3>1, <3>2, <3>3
  <2>6. MemoryOK' BY <1>1, <1>3, <1>7, <2>4, <2>5 DEF Start, MemoryOK, flags
  <2>7. DiskOK' BY <1>1, <1>7, EmptySeq DEF Start, DiskOK, FilesOK
  <2>8. Steps' BY <1>1, <1>7 DEF Start, Steps, Script, Running
  <2>9. OneWhole' BY <1>7, <2>2 DEF Start, OneWhole, Running
  <2> QED BY <2>1, <2>6, <2>7, <2>8, <2>9 DEF Kinds
<1> QED BY <1>4, <1>5, <1>6, <1>7

LEMMA NextKinds ==
  ASSUME Kinds, [Next]_vars
  PROVE  Kinds'
<1>1. CASE UNCHANGED vars
  BY <1>1 DEF vars, memory, disk, flags, bounds, Kinds, ControlOK, MemoryOK, DiskOK, FilesOK,
     Steps, OneWhole
<1>2. CASE \/ \E o \in Obj : SetProperty(o) \/ Fetch(o)
           \/ CheckCleanTime \/ SigDump
           \/ \E restart \in BOOLEAN : SigShutdown(restart)
  BY <1>2, ServingKinds
<1>3. CASE DumpDue \/ DumpAsked \/ LeaveLoop
  BY <1>3, BeginKinds DEF DumpDue, DumpAsked, LeaveLoop
<1>4. CASE Dump
  <2>1. CASE \E o \in Obj : WriteObject(o) BY <2>1, WriteKinds
  <2>2. CASE EndWrite \/ RenameCopy \/ RenameDump \/ TruncateDeltas \/ EndDump
    BY <2>2, DumpKinds
  <2>3. CASE EndDeltas \/ \E o \in Obj : WriteDelta(o) BY <2>3, DeltaKinds
  <2> QED BY <1>4, <2>1, <2>2, <2>3 DEF Dump
<1>5. CASE BeginDeltas BY <1>5, DeltaKinds
<1>6. CASE Panic \/ Killed \/ Exit \/ RunScript BY <1>6, EndKinds
<1>7. CASE Restart BY <1>7, EndKinds, RestartKinds DEF Restart
<1> QED BY <1>1, <1>2, <1>3, <1>4, <1>5, <1>6, <1>7 DEF Next

LEMMA InitKinds ==
  ASSUME Init
  PROVE  Kinds
<1> DEFINE t == [o \in Obj |-> 0]
           c == [objs |-> t, whole |-> TRUE, there |-> TRUE]
<1>1. t \in [Obj -> Version] BY Versions
<1>2. c \in File /\ Sound(c) /\ c.whole BY <1>1, MakePart DEF File, Sound
<1>3. truth = t /\ input = c /\ saved = t BY DEF Init
<1>4. ControlOK
  <2>1. 0 \in 0 .. MaxCopies /\ 0 \in Nat BY DumpsAssumption
  <2> QED BY <2>1 DEF Init, ControlOK, Running
<1>5. Read(truth) \in [Obj -> List]
  <2>1. Unloaded \in List /\ [mode |-> "changed", ver |-> 0] \in List
    BY Versions DEF Unloaded, List
  <2>2. \A o \in Obj : truth[o] = 0 BY <1>3
  <2> QED BY <2>1, <2>2 DEF Read
<1> HIDE DEF t, c
<1>6. MemoryOK
  <2>1. Unasked \in [Obj -> Version] BY Versions DEF Unasked
  <2> QED BY <1>1, <1>2, <1>3, <1>5, <2>1 DEF Init, MemoryOK
<1>7. files \in [Names -> File]
      /\ \A n \in Names : files[n] = IF n = "in" THEN c ELSE NoFile
  BY <1>2, <1>3, EmptyFiles DEF Init
<1>8. DiskOK BY <1>1, <1>2, <1>3, <1>7, EmptyFiles, EmptySeq DEF Init, DiskOK, FilesOK
<1>9. files["in"] = c /\ files["panic"] = NoFile BY <1>7, CopyNames
<1>10. Steps BY <1>9, EmptyFiles DEF Init, Steps
<1>11. OneWhole BY <1>2, <1>9 DEF Init, OneWhole
<1> QED BY <1>4, <1>6, <1>8, <1>10, <1>11 DEF Kinds

LEMMA KindsAlways == Spec => []Kinds
BY InitKinds, NextKinds, PTL DEF Spec

\* However many writes fail, and wherever the server and the script are
\* stopped: the database, or the last one of the archive, is whole. (KeepsOne)
THEOREM OneDumpKept == Spec => []KeepsOne
<1>1. Kinds => KeepsOne
  <2> SUFFICES ASSUME Kinds PROVE KeepsOne
    OBVIOUS
  <2>1. ControlOK /\ MemoryOK /\ DiskOK /\ FilesOK /\ OneWhole BY DEF Kinds, DiskOK
  <2>2. \A n \in Names : Contents(files[n]) BY <2>1, FileObjs DEF FilesOK, Contents, Sound
  <2>3. \A i \in 1 .. Len(deltas) : DOMAIN deltas[i].objs \subseteq Obj
    <3>1. \A i \in 1 .. Len(deltas) : deltas[i] \in File BY <2>1 DEF DiskOK
    <3> QED BY <3>1, FileObjs
  <2>4. TypeOK BY <2>1, <2>2, <2>3 DEF TypeOK, ControlOK, MemoryOK, List
  <2>5. \E f \in Names : files[f].whole BY <2>1, CopyNames DEF OneWhole
  <2> QED BY <2>4, <2>5 DEF KeepsOne
<1> QED BY <1>1, KindsAlways, PTL

-----------------------------------------------------------------------------
(* What is in memory, and which file an offset is in. *)

\* The build without property lists on disk has them all in memory, and no
\* delta dumps.
InMemory ==
  build = "memory" =>
    deltas = <<>> /\ delta = {} /\ \A o \in Obj : props[o].mode = "changed"

\* The objects that are in the new dump.
Written ==
  IF pc = "write" THEN Obj \ todo ELSE IF pc \in {"copies", "rename"} THEN Obj ELSE {}

\* The offsets are in the file that SAVED_DELTA, and the dump, say.
Places ==
  /\ \A o \in Obj : pos[o] = "delta" <=> o \in delta
  /\ build = "disk" => \A o \in Obj : pos[o] = "tmp" <=> o \in Written
  /\ pc = "reopen" => delta = {}

\* A server that starts finds nothing of the last one.
AtRest ==
  pc \notin Running =>
    delta = {} /\ ~dump_flag /\ \A o \in Obj : pos[o] = "input"

Settled == InMemory /\ Places /\ AtRest

LEMMA TwoBuilds == ControlOK => build \in {"memory", "disk"}
BY DumpsAssumption DEF ControlOK

\* What is thrown out, when it is not all in memory.
LEMMA NoneDisposable ==
  ASSUME Settled, MemoryOK, build = "memory"
  PROVE  Disposable(props) = {} /\ \A o \in Obj : props[o] # Unloaded
BY DEF Settled, InMemory, Disposable, Unloaded

LEMMA ServingSettled ==
  ASSUME Kinds, Settled,
         \/ \E o \in Obj : SetProperty(o) \/ Fetch(o)
         \/ CheckCleanTime \/ SigDump
         \/ \E restart \in BOOLEAN : SigShutdown(restart)
  PROVE  Settled'
<1>1. MemoryOK /\ ControlOK /\ Steps BY DEF Kinds
<1>2. /\ pc \in Running /\ pc' = pc /\ todo' = todo /\ build' = build
      /\ deltas' = deltas /\ delta' = delta /\ pos' = pos
  BY DEF SetProperty, Fetch, CheckCleanTime, SigDump, SigShutdown, Running, memory, disk
<1>3. Places' /\ AtRest' BY <1>2 DEF Settled, Places, Written, AtRest
<1>4. ASSUME build = "memory", NEW x \in Obj PROVE props'[x].mode = "changed"
  <2>1. Disposable(props) = {} /\ \A o \in Obj : props[o] # Unloaded
    BY <1>1, <1>4, NoneDisposable
  <2>2. props[x].mode = "changed" BY <1>4 DEF Settled, InMemory
  <2>3. ~CheckCleanTime /\ \A o \in Obj : ~Fetch(o) BY <2>1 DEF CheckCleanTime, Fetch
  <2>4. CASE UNCHANGED props BY <2>2, <2>4
  <2>5. ASSUME NEW o \in Obj, SetProperty(o) PROVE props'[x].mode = "changed"
    <3> DEFINE l == [mode |-> "changed", ver |-> IF Val(o) = truth[o] THEN truth[o] + 1 ELSE Garbage]
    <3>1. props' = [Disposed(props, {}) EXCEPT ![o] = l] BY <2>1, <2>5 DEF SetProperty
    <3>2. l.mode = "changed" OBVIOUS
    <3> HIDE DEF l
    <3>3. /\ Disposed(props, {}) \in [Obj -> List]
          /\ \A y \in Obj : Disposed(props, {})[y] = props[y]
      BY <1>1, DisposedLists
    <3> QED BY <2>2, <3>1, <3>2, <3>3
  <2>6. \/ UNCHANGED props
        \/ \E o \in Obj : SetProperty(o)
    BY <2>3 DEF SigDump, SigShutdown, memory
  <2> QED BY <2>4, <2>5, <2>6
<1>5. InMemory' BY <1>2, <1>4 DEF Settled, InMemory
<1> QED BY <1>3, <1>5 DEF Settled

LEMMA DumpSettled ==
  ASSUME Kinds, Settled, Dump \/ DumpDue \/ DumpAsked \/ LeaveLoop \/ BeginDeltas
  PROVE  Settled'
<1>1. MemoryOK /\ ControlOK /\ Steps /\ DiskOK BY DEF Kinds
<1>2. build \in {"memory", "disk"} BY <1>1, TwoBuilds
<1>3. ASSUME NEW ret, BeginDump(ret), pc = "loop" PROVE Settled'
  <2>1. /\ UNCHANGED <<build, deltas, delta, pos, props>> /\ pc' \in {"write", "done"}
        /\ pc' = "write" => todo' = Obj
    BY <1>3 DEF BeginDump, memory
  <2>2. InMemory' BY <2>1 DEF Settled, InMemory
  <2>3. Written = {} /\ Written' = {} BY <1>3, <2>1 DEF Written
  <2>4. Places' BY <1>3, <2>1, <2>3 DEF Settled, Places
  <2>5. AtRest' BY <2>1 DEF AtRest, Running
  <2> QED BY <2>2, <2>4, <2>5 DEF Settled
<1>4. ASSUME NEW o \in Obj, WriteObject(o) PROVE Settled'
  <2>1. /\ build' = build /\ deltas' = deltas /\ pc = "write" /\ pc' = "write"
        /\ o \in todo /\ todo' = todo \ {o}
    BY <1>4 DEF WriteObject
  <2>2. InMemory' BY <1>4, <2>1 DEF WriteObject, Settled, InMemory
  <2>3. Written' = Written \union {o} BY <1>1, <2>1 DEF Written, ControlOK
  <2>4. Places'
    <3>1. CASE build = "memory"
      <4>1. pos' = pos /\ delta' = delta BY <1>4, <3>1 DEF WriteObject
      <4> QED BY <2>1, <3>1, <4>1 DEF Settled, Places
    <3>2. CASE build = "disk"
      <4>1. pos' = [pos EXCEPT ![o] = "tmp"] /\ delta' = delta \ {o}
        BY <1>4, <3>2 DEF WriteObject
      <4>2. \A x \in Obj : pos'[x] = IF x = o THEN "tmp" ELSE pos[x]
        BY <1>1, <4>1 DEF MemoryOK
      <4> QED BY <2>1, <2>3, <4>1, <4>2 DEF Settled, Places
    <3> QED BY <1>2, <3>1, <3>2
  <2>5. AtRest' BY <2>1 DEF AtRest, Running
  <2> QED BY <2>2, <2>4, <2>5 DEF Settled
<1>5. ASSUME EndWrite \/ RenameCopy PROVE Settled'
  <2>1. /\ UNCHANGED <<build, deltas, delta, pos, props>> /\ pc' \in {"copies", "rename"}
        /\ (pc = "write" /\ todo = {}) \/ pc = "copies"
    BY <1>5 DEF EndWrite, RenameCopy, memory
  <2>2. Written' = Written BY <2>1 DEF Written
  <2>3. InMemory' BY <2>1 DEF Settled, InMemory
  <2>4. Places' BY <2>1, <2>2 DEF Settled, Places
  <2>5. AtRest' BY <2>1 DEF AtRest, Running
  <2> QED BY <2>3, <2>4, <2>5 DEF Settled
<1>6. ASSUME RenameDump PROVE Settled'
  <2>1. UNCHANGED <<build, deltas, delta, props>> /\ pc = "rename" /\ pc' \in {"done", "reopen"}
    BY <1>6 DEF RenameDump
  <2>2. Written' = {} /\ Written = Obj BY <2>1 DEF Written
  <2>3. InMemory' BY <2>1 DEF Settled, InMemory
  <2>4. Places'
    <3>1. CASE build = "memory"
      <4>1. pos' = pos /\ pc' = "done" BY <1>6, <3>1 DEF RenameDump
      <4> QED BY <2>1, <3>1, <4>1 DEF Settled, Places
    <3>2. CASE build = "disk"
      <4>1. pos' = [x \in Obj |-> IF pos[x] = "tmp" THEN "input" ELSE "nowhere"]
        BY <1>6, <3>2 DEF RenameDump
      <4>2. \A x \in Obj : pos[x] = "tmp" /\ x \notin delta
        BY <2>2, <3>2 DEF Settled, Places
      <4>3. \A x \in Obj : pos'[x] = "input" BY <4>1, <4>2
      <4>4. delta' = {} BY <1>1, <2>1, <4>2 DEF MemoryOK
      <4> QED BY <2>1, <2>2, <4>3, <4>4 DEF Places
    <3> QED BY <1>2, <3>1, <3>2
  <2>5. AtRest' BY <2>1 DEF AtRest, Running
  <2> QED BY <2>3, <2>4, <2>5 DEF Settled
<1>7. ASSUME TruncateDeltas \/ EndDeltas \/ BeginDeltas PROVE Settled'
  <2>1. /\ UNCHANGED <<build, delta, pos, props>> /\ pc \in {"loop", "reopen", "deltas"}
        /\ pc' \in {"loop", "done", "deltas"} /\ build = "disk"
    BY <1>1, <1>7 DEF TruncateDeltas, EndDeltas, BeginDeltas, memory, Steps
  <2>2. Written' = {} /\ Written = {} BY <2>1 DEF Written
  <2>3. InMemory' BY <2>1 DEF InMemory
  <2>4. Places' BY <2>1, <2>2 DEF Settled, Places
  <2>5. AtRest' BY <2>1 DEF AtRest, Running
  <2> QED BY <2>3, <2>4, <2>5 DEF Settled
<1>8. ASSUME NEW o \in Obj, WriteDelta(o) PROVE Settled'
  <2>1. /\ build' = build /\ build = "disk" /\ pc = "deltas" /\ pc' = "deltas"
        /\ delta' = delta \union {o} /\ pos' = [pos EXCEPT ![o] = "delta"]
    BY <1>1, <1>8 DEF WriteDelta, Steps
  <2>2. Written' = {} /\ Written = {} BY <2>1 DEF Written
  <2>3. InMemory' BY <2>1 DEF InMemory
  <2>4. \A x \in Obj : pos'[x] = IF x = o THEN "delta" ELSE pos[x]
    BY <1>1, <2>1 DEF MemoryOK
  <2>5. Places' BY <2>1, <2>2, <2>4 DEF Settled, Places
  <2>6. AtRest' BY <2>1 DEF AtRest, Running
  <2> QED BY <2>3, <2>5, <2>6 DEF Settled
<1>9. ASSUME EndDump PROVE Settled'
  <2>1. UNCHANGED <<build, deltas, delta, pos>> /\ pc = "done" /\ pc' \in {"loop", "exit"}
    BY <1>9 DEF EndDump, disk
  <2>2. Written' = {} /\ Written = {} BY <2>1 DEF Written
  <2>3. Places' BY <2>1, <2>2 DEF Settled, Places
  <2>4. AtRest' BY <2>1 DEF AtRest, Running
  <2>5. ASSUME build = "memory", NEW x \in Obj PROVE props'[x].mode = "changed"
    <3>1. props' = Disposed(props, {}) BY <1>9, <2>5 DEF EndDump
    <3>2. props'[x] = props[x] BY <1>1, <3>1, DisposedLists
    <3> QED BY <2>5, <3>2 DEF Settled, InMemory
  <2>6. InMemory' BY <2>1, <2>5 DEF Settled, InMemory
  <2> QED BY <2>3, <2>4, <2>6 DEF Settled
<1> QED BY <1>3, <1>4, <1>5, <1>6, <1>7, <1>8, <1>9
     DEF Dump, DumpDue, DumpAsked, LeaveLoop

LEMMA EndSettled ==
  ASSUME Kinds, Settled, Panic \/ Killed \/ Exit \/ RunScript \/ Restart
  PROVE  Settled'
<1>1. MemoryOK /\ ControlOK /\ Steps /\ DiskOK BY DEF Kinds
<1>2. build \in {"memory", "disk"} BY <1>1, TwoBuilds
<1>3. CASE Panic \/ Killed \/ Exit
  <2>1. Gone /\ pc' \in {"down", "panic"} /\ build' = build
        /\ (deltas' = deltas \/ deltas' = <<>>)
    BY <1>3 DEF Panic, Killed, Exit, disk
  <2>2. /\ props' = Read(saved) /\ delta' = {} /\ ~dump_flag'
        /\ \A o \in Obj : pos'[o] = "input"
    BY <2>1 DEF Gone
  <2>3. Written' = {} BY <2>1 DEF Written
  <2>4. build = "memory" => \A o \in Obj : props'[o].mode = "changed"
    BY <2>2 DEF Read
  <2>5. InMemory' BY <2>1, <2>2, <2>4 DEF Settled, InMemory
  <2>6. Places' BY <2>1, <2>2, <2>3 DEF Places
  <2>7. AtRest' BY <2>2 DEF AtRest
  <2> QED BY <2>5, <2>6, <2>7 DEF Settled
<1>4. CASE RunScript \/ UsePanic \/ Archive \/ MoveOut \/ CheckIn \/ AppendDeltas
  <2>1. /\ UNCHANGED <<build, delta, pos, props, dump_flag>>
        /\ pc \in {"down", "panic", "archive", "move", "check", "append"}
        /\ pc' \in {"panic", "archive", "move", "check", "append", "aborted", "start"}
        /\ deltas' = deltas \/ deltas' = <<>>
    BY <1>4 DEF RunScript, UsePanic, Archive, MoveOut, CheckIn, AppendDeltas, memory, flags, disk
  <2>2. Written' = {} /\ Written = {} BY <2>1 DEF Written
  <2>3. InMemory' BY <2>1 DEF Settled, InMemory
  <2>4. Places' BY <2>1, <2>2 DEF Settled, Places
  <2>5. AtRest' BY <2>1 DEF Settled, AtRest, Running
  <2> QED BY <2>3, <2>4, <2>5 DEF Settled
<1>5. CASE Start
  <2>1. /\ UNCHANGED <<build, delta, pos>> /\ pc = "start" /\ pc' = "loop" /\ deltas' = <<>>
        /\ props' = Read(truth')
    BY <1>5 DEF Start
  <2>2. delta = {} /\ \A o \in Obj : pos[o] = "input"
    BY <2>1 DEF Settled, AtRest, Running
  <2>3. Written' = {} BY <2>1 DEF Written
  <2>4. build = "memory" => \A o \in Obj : props'[o].mode = "changed"
    BY <2>1 DEF Read
  <2>5. InMemory' BY <2>1, <2>2, <2>4 DEF InMemory
  <2>6. Places' BY <2>1, <2>2, <2>3 DEF Places
  <2>7. AtRest' BY <2>1 DEF AtRest, Running
  <2> QED BY <2>5, <2>6, <2>7 DEF Settled
<1> QED BY <1>3, <1>4, <1>5 DEF Restart

LEMMA NextSettled ==
  ASSUME Kinds, Settled, [Next]_vars
  PROVE  Settled'
<1>1. CASE UNCHANGED vars
  BY <1>1 DEF vars, memory, disk, flags, bounds, Settled, InMemory, Places, Written, AtRest
<1> QED BY <1>1, ServingSettled, DumpSettled, EndSettled DEF Next

LEMMA InitSettled ==
  ASSUME Init
  PROVE  Settled
<1>1. Written = {} BY DEF Init, Written
<1>2. Places BY <1>1 DEF Init, Places
<1>3. InMemory BY DEF Init, InMemory, Read
<1>4. AtRest BY DEF Init, AtRest, Running
<1> QED BY <1>2, <1>3, <1>4 DEF Settled

-----------------------------------------------------------------------------
(* Where the property lists are, as long as no write has failed. *)

\* The file that a list would be read from holds its last version.
Stored(o) ==
  IF pos[o] = "tmp"
  THEN o \in DOMAIN files["tmp"].objs /\ files["tmp"].objs[o] = truth[o]
  ELSE OnDisk(o) = truth[o]

\* A list is in memory, or where its offset says, in its last version.
Right(o) ==
  /\ props[o] = Unloaded \/ (props[o].mode # "unloaded" /\ props[o].ver = truth[o])
  /\ props[o].mode # "changed" => Stored(o)

\* The new dump holds the last versions.
NewDump ==
  /\ \A o \in Written : o \in DOMAIN files["tmp"].objs /\ files["tmp"].objs[o] = truth[o]
  /\ pc \in {"copies", "rename"} => files["tmp"].whole
  /\ pc \in {"reopen", "done"} =>
       files["out"].whole /\ \A o \in Obj : files["out"].objs[o] = truth[o]
  /\ pc = "deltas" =>
       \A o \in DOMAIN deltas[Len(deltas)].objs : deltas[Len(deltas)].objs[o] = truth[o]

Lists == pc \in Running /\ fulls = 0 => NewDump /\ \A o \in Obj : Right(o)

LEMMA UnloadedList ==
  \A l \in List : l.mode = "unloaded" /\ l.ver = 0 <=> l = Unloaded
BY DEF List, Unloaded

\* What is read, in memory or from a file, is the last version.
LEMMA ValTruth ==
  ASSUME Kinds, Settled, Lists, pc \in Running, fulls = 0, NEW o \in Obj,
         o \notin Written \/ build = "memory"
  PROVE  Val(o) = truth[o]
<1>1. Right(o) BY DEF Lists
<1>2. ControlOK BY DEF Kinds
<1>3. CASE build = "memory"
  <2>1. props[o].mode = "changed" BY <1>3 DEF Settled, InMemory
  <2>2. props[o] # Unloaded BY <2>1 DEF Unloaded
  <2> QED BY <1>1, <2>2 DEF Right, Val
<1>4. CASE build = "disk" /\ o \notin Written
  <2>1. pos[o] # "tmp" BY <1>4 DEF Settled, Places
  <2>2. CASE props[o] = Unloaded
    <3>1. props[o].mode # "changed" BY <2>2 DEF Unloaded
    <3> QED BY <1>1, <2>1, <2>2, <3>1 DEF Right, Stored, Val
  <2>3. CASE props[o] # Unloaded BY <1>1, <2>3 DEF Right, Val
  <2> QED BY <2>2, <2>3
<1> QED BY <1>2, <1>3, <1>4, TwoBuilds

\* What is on disk only changes with the files and the offset.
LEMMA SameOnDisk ==
  ASSUME DiskOK, DiskOK', NEW o \in Obj, o \in delta' <=> o \in delta, pos'[o] = pos[o], input' = input,
         o \in delta => /\ InDeltas(o)' = InDeltas(o)
                        /\ \A i \in InDeltas(o) : deltas'[i].objs[o] = deltas[i].objs[o]
  PROVE  OnDisk(o)' = OnDisk(o)
<1>1. CASE o \notin delta BY <1>1 DEF OnDisk
<1>2. CASE o \in delta /\ InDeltas(o) = {} BY <1>2 DEF OnDisk
<1>3. CASE o \in delta /\ InDeltas(o) # {}
  <2>1. Latest(InDeltas(o))' = Latest(InDeltas(o)) BY <1>3 DEF Latest
  <2>2. Len(deltas) \in Nat /\ InDeltas(o) \subseteq 1 .. Len(deltas) BY DEF DiskOK, InDeltas
  <2>3. Latest(InDeltas(o)) \in InDeltas(o) BY <1>3, <2>2, LatestLast
  <2> QED BY <1>3, <2>1, <2>3 DEF OnDisk
<1> QED BY <1>1, <1>2, <1>3

\* Nothing of what a list's place depends on has changed.
LEMMA StoredKept ==
  ASSUME NEW o \in Obj, Stored(o), truth'[o] = truth[o], pos'[o] = pos[o],
         OnDisk(o)' = OnDisk(o), pos[o] = "tmp" => files'["tmp"] = files["tmp"]
  PROVE  Stored(o)'
BY DEF Stored

\* A list that is in a file may be thrown out.
LEMMA RightKept ==
  ASSUME NEW o \in Obj, Right(o), truth'[o] = truth[o], Stored(o) => Stored(o)',
         props'[o] = props[o] \/ (props[o].mode = "loaded" /\ props'[o] = Unloaded)
  PROVE  Right(o)'
<1>1. CASE props'[o] = props[o] BY <1>1 DEF Right
<1>2. CASE props[o].mode = "loaded" /\ props'[o] = Unloaded BY <1>2 DEF Right
<1> QED BY <1>1, <1>2

\* What is thrown out was in a file.
LEMMA DisposedOnes ==
  ASSUME MemoryOK, NEW S, S \subseteq Disposable(props), NEW o \in Obj
  PROVE  \/ Disposed(props, S)[o] = props[o]
         \/ (props[o].mode = "loaded" /\ Disposed(props, S)[o] = Unloaded)
<1>1. Disposed(props, S)[o] = IF o \in S THEN Unloaded ELSE props[o] BY DisposedLists
<1>2. o \in S => props[o].mode = "loaded" BY DEF Disposable
<1> QED BY <1>1, <1>2

LEMMA ServingLists ==
  ASSUME Kinds, Settled, Lists,
         \/ \E o \in Obj : SetProperty(o) \/ Fetch(o)
         \/ CheckCleanTime \/ SigDump
         \/ \E restart \in BOOLEAN : SigShutdown(restart)
  PROVE  Lists'
<1>1. MemoryOK /\ DiskOK BY DEF Kinds
<1>2. CASE SigDump \/ \E restart \in BOOLEAN : SigShutdown(restart)
  <2>1. UNCHANGED <<pc, todo, fulls, props, truth, delta, pos, input, files, deltas>>
    BY <1>2 DEF SigDump, SigShutdown, memory, disk, bounds
  <2>2. \A o \in Obj : OnDisk(o)' = OnDisk(o) BY <2>1 DEF OnDisk, InDeltas, Latest
  <2>3. \A o \in Obj : Right(o) => Right(o)' BY <2>1, <2>2 DEF Right, Stored
  <2>4. NewDump => NewDump' BY <2>1 DEF NewDump, Written
  <2> QED BY <2>1, <2>3, <2>4 DEF Lists
<1>3. ASSUME \/ \E o \in Obj : SetProperty(o) \/ Fetch(o)
             \/ CheckCleanTime,
             fulls = 0
      PROVE  Lists'
  <2>1. pc = "loop" /\ UNCHANGED <<pc, todo, fulls, delta, pos, input, files, deltas>>
    BY <1>3 DEF SetProperty, Fetch, CheckCleanTime, disk, bounds
  <2>2. Written = {} /\ Written' = {} BY <2>1 DEF Written
  <2>3. NewDump' BY <2>1, <2>2 DEF NewDump
  <2>4. \A o \in Obj : OnDisk(o)' = OnDisk(o) BY <2>1 DEF OnDisk, InDeltas, Latest
  <2>5. pc \in Running /\ \A o \in Obj : Right(o) BY <1>3, <2>1 DEF Lists, Running
  <2>6. \A o \in Obj : Val(o) = truth[o] BY <1>3, <2>2, <2>5, ValTruth
  <2>7. \A x \in Obj : truth'[x] = truth[x] => (Stored(x) => Stored(x)')
    BY <2>1, <2>4, StoredKept
  <2>8. CASE CheckCleanTime
    <3>1. PICK S \in SUBSET Disposable(props) : props' = Disposed(props, S)
      BY <2>8 DEF CheckCleanTime
    <3>2. truth' = truth BY <2>8 DEF CheckCleanTime
    <3>3. ASSUME NEW x \in Obj PROVE Right(x)'
      <4>1. props'[x] = props[x] \/ (props[x].mode = "loaded" /\ props'[x] = Unloaded)
        BY <1>1, <3>1, DisposedOnes
      <4> QED BY <2>5, <2>7, <3>2, <4>1, RightKept
    <3> QED BY <2>3, <3>3 DEF Lists
  <2>9. ASSUME NEW o \in Obj, SetProperty(o) \/ Fetch(o) PROVE Lists'
    <3>1. PICK l \in List, S \in SUBSET Disposable(props) :
            /\ props' = [Disposed(props, S) EXCEPT ![o] = l]
            /\ l.mode # "unloaded" /\ l.ver = truth'[o]
            /\ l.mode = "changed" \/ (OnDisk(o) = truth[o] /\ truth'[o] = truth[o])
      <4>1. CASE SetProperty(o)
        <5> DEFINE l == [mode |-> "changed", ver |-> IF Val(o) = truth[o] THEN truth[o] + 1 ELSE Garbage]
        <5>1. /\ truth' = [truth EXCEPT ![o] = truth[o] + 1] /\ truth[o] < MaxChanges
              /\ \E S \in SUBSET Disposable(props) : props' = [Disposed(props, S) EXCEPT ![o] = l]
          BY <4>1 DEF SetProperty
        <5>2. truth[o] + 1 \in Version BY <1>1, <5>1, Versions DEF MemoryOK
        <5>3. l \in List BY <5>2, Versions DEF List
        <5>4. truth'[o] = truth[o] + 1 BY <1>1, <5>1 DEF MemoryOK
        <5>5. l.mode = "changed" /\ l.ver = truth'[o] BY <2>6, <5>4
        <5> HIDE DEF l
        <5> QED BY <5>1, <5>3, <5>5
      <4>2. CASE Fetch(o)
        <5> DEFINE l == [mode |-> "loaded", ver |-> OnDisk(o)]
        <5>1. /\ truth' = truth /\ props[o] = Unloaded
              /\ \E S \in SUBSET Disposable(props) : props' = [Disposed(props, S) EXCEPT ![o] = l]
          BY <4>2 DEF Fetch
        <5>2. OnDisk(o) = truth[o] BY <2>6, <5>1 DEF Val
        <5>3. l \in List BY <1>1, ReadVersion DEF List
        <5>4. l.mode = "loaded" /\ l.ver = OnDisk(o) OBVIOUS
        <5> HIDE DEF l
        <5> QED BY <5>1, <5>2, <5>3, <5>4
      <4> QED BY <2>9, <4>1, <4>2
    <3>2. \A x \in Obj \ {o} : truth'[x] = truth[x]
      BY <1>1, <2>9 DEF SetProperty, Fetch, MemoryOK
    <3>3. Disposed(props, S) \in [Obj -> List] BY <1>1, DisposedLists
    <3>4. props'[o] = l BY <3>1, <3>3
    <3>5. Right(o)'
      <4>1. l.mode = "changed" \/ Stored(o)'
        <5>1. pos[o] = "tmp" => build # "disk" BY <2>2 DEF Settled, Places
        <5>2. props[o].mode = "changed" \/ build = "disk"
          BY TwoBuilds DEF Kinds, Settled, InMemory
        <5>3. ASSUME l.mode # "changed" PROVE pos[o] # "tmp"
          <6>1. Fetch(o)
            <7>1. SetProperty(o) => truth'[o] # truth[o]
              <8>1. SetProperty(o) => truth' = [truth EXCEPT ![o] = truth[o] + 1]
                BY DEF SetProperty
              <8>2. truth \in [Obj -> Version] /\ truth[o] \in Int BY <1>1, Versions DEF MemoryOK
              <8> QED BY <8>1, <8>2
            <7> QED BY <2>9, <3>1, <5>3, <7>1
          <6>2. props[o].mode # "changed" BY <6>1 DEF Fetch, Unloaded
          <6> QED BY <5>1, <5>2, <6>2
        <5> QED BY <2>1, <2>4, <3>1, <5>3 DEF Stored
      <4> QED BY <3>1, <3>4, <4>1 DEF Right
    <3>6. ASSUME NEW x \in Obj \ {o} PROVE Right(x)'
      <4>1. props'[x] = Disposed(props, S)[x] BY <3>1, <3>3
      <4>2. props'[x] = props[x] \/ (props[x].mode = "loaded" /\ props'[x] = Unloaded)
        BY <1>1, <4>1, DisposedOnes
      <4> QED BY <2>5, <2>7, <3>2, <4>2, RightKept
    <3> QED BY <2>3, <3>5, <3>6 DEF Lists
  <2> QED BY <1>3, <2>8, <2>9
<1>4. CASE fulls # 0
  <2>1. fulls' = fulls
    BY DEF SetProperty, Fetch, CheckCleanTime, SigDump, SigShutdown, bounds
  <2> QED BY <1>4, <2>1 DEF Lists
<1> QED BY <1>2, <1>3, <1>4

\* Steps that leave memory, and what is read, as it is.
LEMMA QuietLists ==
  ASSUME Lists, pc \in Running, fulls = 0,
         UNCHANGED <<truth, props, delta, pos, input, deltas>>,
         \A o \in Obj : pos[o] = "tmp" => files'["tmp"].objs = files["tmp"].objs
  PROVE  \A o \in Obj : Right(o)'
<1>1. \A o \in Obj : OnDisk(o)' = OnDisk(o) BY DEF OnDisk, InDeltas, Latest
<1>2. \A o \in Obj : Stored(o) => Stored(o)' BY <1>1 DEF Stored
<1> QED BY <1>2, RightKept DEF Lists

LEMMA BeginLists ==
  ASSUME Kinds, Settled, Lists, NEW ret, BeginDump(ret), pc = "loop"
  PROVE  Lists'
<1>1. CASE fulls' # 0 BY <1>1 DEF Lists
<1>2. CASE fulls' = 0
  <2>1. fulls = 0 /\ pc' = "write" /\ todo' = Obj
        /\ UNCHANGED <<build, truth, props, delta, pos, input, deltas>>
    <3>1. fulls \in Nat BY DEF Kinds, ControlOK
    <3>2. fulls' # fulls + 1 BY <1>2, <3>1
    <3> QED BY <1>2, <3>2 DEF BeginDump, memory
  <2>2. Written = {} /\ Written' = {} BY <2>1 DEF Written
  <2>3. NewDump' BY <2>1, <2>2 DEF NewDump
  <2>4. \A o \in Obj : pos[o] # "tmp" \/ build = "memory"
    BY <2>2, TwoBuilds DEF Settled, Places, Kinds
  <2>5. \A o \in Obj : OnDisk(o)' = OnDisk(o) BY <2>1 DEF OnDisk, InDeltas, Latest
  <2>6. ASSUME NEW o \in Obj PROVE Right(o)'
    <3>1. Right(o) BY <2>1 DEF Lists, Running
    <3>2. CASE build = "memory"
      <4>1. props[o].mode = "changed" BY <3>2 DEF Settled, InMemory
      <4> QED BY <2>1, <3>1, <4>1 DEF Right
    <3>3. CASE pos[o] # "tmp"
      <4>1. Stored(o) => Stored(o)' BY <2>1, <2>5, <3>3, StoredKept
      <4> QED BY <2>1, <3>1, <4>1, RightKept
    <3> QED BY <2>4, <3>2, <3>3
  <2> QED BY <2>3, <2>6 DEF Lists
<1> QED BY <1>1, <1>2

\* A list that is written out, and that is thrown out of memory or not.
LEMMA WrittenOut ==
  ASSUME MemoryOK, NEW o \in Obj, NEW S, S \subseteq {o} \intersect Disposable(Undirtied(o)),
         props' = Disposed(Undirtied(o), S)
  PROVE  /\ \A x \in Obj \ {o} : props'[x] = props[x]
         /\ props[o] = Unloaded => props'[o] = Unloaded
         /\ props[o].mode # "unloaded" =>
              \/ props'[o] = Unloaded
              \/ props'[o].mode # "unloaded" /\ props'[o].ver = props[o].ver
<1>1. /\ Undirtied(o) \in [Obj -> List]
      /\ \A x \in Obj \ {o} : Undirtied(o)[x] = props[x]
      /\ Undirtied(o)[o].ver = props[o].ver
      /\ Undirtied(o)[o].mode =
           IF props[o].mode = "changed" THEN "loaded" ELSE props[o].mode
  BY UndirtiedLists
<1>2. \A x \in Obj : props'[x] = IF x \in S THEN Unloaded ELSE Undirtied(o)[x]
  BY DEF Disposed
<1>3. \A x \in Obj \ {o} : x \notin S OBVIOUS
<1>4. props[o] = Unloaded => Undirtied(o)[o] = Unloaded
  <2>1. Undirtied(o)[o] \in List BY <1>1
  <2>2. props[o] = Unloaded => props[o].mode = "unloaded" /\ props[o].ver = 0 BY DEF Unloaded
  <2>3. props[o] = Unloaded => Undirtied(o)[o].mode = "unloaded" /\ Undirtied(o)[o].ver = 0
    BY <1>1, <2>2
  <2> QED BY <2>1, <2>3, UnloadedList
<1>5. props[o].mode # "unloaded" => Undirtied(o)[o].mode # "unloaded" BY <1>1
<1>6. props'[o] = Unloaded \/ props'[o] = Undirtied(o)[o] BY <1>2
<1>7. \A x \in Obj \ {o} : props'[x] = props[x] BY <1>1, <1>2, <1>3
<1> QED BY <1>1, <1>4, <1>5, <1>6, <1>7

\* Whatever the list was, it is right when it is stored.
LEMMA WrittenRight ==
  ASSUME MemoryOK, NEW o \in Obj, NEW S, S \subseteq {o} \intersect Disposable(Undirtied(o)),
         props' = Disposed(Undirtied(o), S), Right(o), Stored(o)', truth'[o] = truth[o]
  PROVE  Right(o)'
<1>1. CASE props[o] = Unloaded
  <2>1. props'[o] = Unloaded BY <1>1, WrittenOut
  <2> QED BY <2>1 DEF Right
<1>2. CASE props[o].mode # "unloaded" /\ props[o].ver = truth[o]
  <2>1. \/ props'[o] = Unloaded
        \/ props'[o].mode # "unloaded" /\ props'[o].ver = props[o].ver
    BY <1>2, WrittenOut
  <2> QED BY <1>2, <2>1 DEF Right
<1> QED BY <1>1, <1>2 DEF Right

LEMMA WriteLists ==
  ASSUME Kinds, Settled, Lists, NEW o \in Obj, WriteObject(o)
  PROVE  Lists'
<1>1. MemoryOK /\ DiskOK /\ ControlOK /\ FilesOK BY DEF Kinds, DiskOK
<1>2. CASE fulls' # 0 BY <1>2 DEF Lists
<1>3. CASE fulls' = 0
  <2>1. /\ fulls = 0 /\ pc = "write" /\ pc' = "write" /\ o \in todo /\ todo' = todo \ {o}
        /\ files' = [files EXCEPT !["tmp"] = Put(@, o, Val(o))]
        /\ UNCHANGED <<build, truth, input, deltas>>
    <3>1. fulls \in Nat BY <1>1 DEF ControlOK
    <3>2. fulls' # fulls + 1 BY <1>3, <3>1
    <3> QED BY <1>3, <3>2 DEF WriteObject
  <2>2. o \notin Written /\ Written' = Written \union {o}
    BY <1>1, <2>1 DEF Written, ControlOK
  <2>3. pc \in Running /\ \A x \in Obj : Right(x) BY <2>1 DEF Lists, Running
  <2>4. Val(o) = truth[o] BY <2>1, <2>2, <2>3, ValTruth
  <2>5. NewDump BY <2>1, <2>3 DEF Lists
  <2> DEFINE c == Put(files["tmp"], o, Val(o))
  <2>6. files["tmp"] \in File /\ Sound(files["tmp"]) BY <1>1, CopyNames DEF FilesOK
  <2>7. /\ c \in File /\ Sound(c) /\ DOMAIN c.objs = DOMAIN files["tmp"].objs \union {o}
        /\ \A x \in DOMAIN files["tmp"].objs \union {o} :
              c.objs[x] = IF x = o THEN truth[o] ELSE files["tmp"].objs[x]
    BY <1>1, <2>4, <2>6, ReadVersion, PutFile
  <2>8. files' = [files EXCEPT !["tmp"] = c] BY <2>1
  <2> HIDE DEF c
  <2>9. files'["tmp"] = c BY <1>1, <2>7, <2>8, CopyNames, NewFile
  <2>10. NewDump'
    <3>1. \A x \in Written' : x \in DOMAIN c.objs /\ c.objs[x] = truth[x]
      BY <2>2, <2>5, <2>7 DEF NewDump
    <3> QED BY <2>1, <2>9, <3>1 DEF NewDump
  <2>11. ASSUME NEW x \in Obj PROVE Right(x)'
    <3>1. CASE build = "memory"
      <4>1. props' = props BY <2>1, <3>1 DEF WriteObject
      <4>2. props[x].mode = "changed" BY <3>1 DEF Settled, InMemory
      <4> QED BY <2>1, <2>3, <4>1, <4>2 DEF Right
    <3>2. CASE build = "disk"
      <4>1. /\ pos' = [pos EXCEPT ![o] = "tmp"] /\ delta' = delta \ {o}
            /\ \E S \in SUBSET ({o} \intersect Disposable(Undirtied(o))) :
                 props' = Disposed(Undirtied(o), S)
        BY <3>2 DEF WriteObject
      <4>2. PICK S \in SUBSET ({o} \intersect Disposable(Undirtied(o))) :
              props' = Disposed(Undirtied(o), S)
        BY <4>1
      <4>3. pos'[x] = IF x = o THEN "tmp" ELSE pos[x] BY <1>1, <4>1 DEF MemoryOK
      <4>4. CASE x = o
        <5>1. Stored(o)' BY <2>1, <2>7, <2>9, <4>3, <4>4 DEF Stored
        <5> QED BY <1>1, <2>1, <2>3, <4>2, <4>4, <5>1, WrittenRight
      <4>5. CASE x # o
        <5>1. props'[x] = props[x] BY <1>1, <4>2, <4>5, WrittenOut
        <5>2. OnDisk(x)' = OnDisk(x)
          BY <2>1, <4>1, <4>3, <4>5 DEF OnDisk, InDeltas, Latest
        <5>3. Stored(x) => Stored(x)'
          BY <2>1, <2>7, <2>9, <4>3, <4>5, <5>2 DEF Stored
        <5> QED BY <2>1, <2>3, <5>1, <5>3, RightKept
      <4> QED BY <4>4, <4>5
    <3> QED BY <1>1, <3>1, <3>2, TwoBuilds
  <2> QED BY <2>10, <2>11 DEF Lists
<1> QED BY <1>2, <1>3

LEMMA DumpLists ==
  ASSUME Kinds, Settled, Lists,
         EndWrite \/ RenameCopy \/ RenameDump \/ TruncateDeltas \/ EndDump
  PROVE  Lists'
<1>1. /\ MemoryOK /\ DiskOK /\ ControlOK /\ Steps /\ FilesOK
      /\ fulls' = fulls /\ pc \in Running
  BY DEF Kinds, DiskOK, EndWrite, RenameCopy, RenameDump, TruncateDeltas, EndDump, bounds, Running
<1>2. CASE fulls # 0 BY <1>1, <1>2 DEF Lists
<1>3. ASSUME fulls = 0 PROVE Lists'
  <2>1. NewDump /\ \A o \in Obj : Right(o) BY <1>1, <1>3 DEF Lists
  <2>2. CASE EndWrite
    <3>1. /\ UNCHANGED <<truth, props, delta, pos, input, deltas>> /\ pc = "write" /\ todo = {}
          /\ pc' \in {"copies", "rename"}
      BY <2>2 DEF EndWrite, memory
    <3> DEFINE c == Closed(files["tmp"])
    <3>2. files["tmp"] \in File /\ files["tmp"].there
      BY <1>1, <3>1, CopyNames DEF FilesOK, Steps
    <3>3. /\ c \in File /\ Sound(c) /\ c.objs = files["tmp"].objs
          /\ c.whole <=> DOMAIN files["tmp"].objs = Obj
      BY <3>2, ClosedFile
    <3>4. files' = [files EXCEPT !["tmp"] = c] BY <2>2 DEF EndWrite
    <3> HIDE DEF c
    <3>5. files'["tmp"] = c BY <1>1, <3>3, <3>4, CopyNames, NewFile
    <3>6. Written = Obj /\ Written' = Obj BY <3>1 DEF Written
    <3>7. \A o \in Obj : o \in DOMAIN files["tmp"].objs /\ files["tmp"].objs[o] = truth[o]
      BY <2>1, <3>6 DEF NewDump
    <3>8. DOMAIN files["tmp"].objs = Obj BY <3>2, <3>7, FileObjs
    <3>9. NewDump' BY <3>1, <3>3, <3>5, <3>6, <3>7, <3>8 DEF NewDump
    <3>10. \A o \in Obj : Right(o)' BY <1>1, <1>3, <3>1, <3>3, <3>5, QuietLists
    <3> QED BY <3>9, <3>10 DEF Lists
  <2>3. CASE RenameCopy
    <3>1. /\ UNCHANGED <<truth, props, delta, pos, input, deltas>> /\ pc = "copies"
          /\ pc' \in {"copies", "rename"} /\ files' = Renamed(files, Copy(shift - 1), Copy(shift))
      BY <2>3 DEF RenameCopy, memory
    <3>2. shift \in 1 .. 3 /\ shift - 1 \in 0 .. MaxCopies /\ shift \in 0 .. MaxCopies
      <4>1. shift \in 1 .. copies BY <1>1, <3>1 DEF Steps
      <4>2. copies \in 0 .. MaxCopies /\ MaxCopies \in 0 .. 3
        BY <1>1, DumpsAssumption DEF ControlOK
      <4> QED BY <4>1, <4>2
    <3>3. /\ Copy(shift - 1) \in Names /\ Copy(shift) \in Names
          /\ Copy(shift - 1) # "tmp" /\ Copy(shift) # "tmp" /\ "tmp" \in Names
      BY <3>2, CopyNames
    <3>4. Copy(shift - 1) # Copy(shift) BY <3>2 DEF Copy
    <3>5. files'["tmp"] = files["tmp"] BY <1>1, <3>1, <3>3, <3>4, RenamedFiles
    <3>6. Written = Obj /\ Written' = Obj BY <3>1 DEF Written
    <3>7. NewDump' BY <2>1, <3>1, <3>5, <3>6 DEF NewDump
    <3>8. \A o \in Obj : Right(o)' BY <1>1, <1>3, <3>1, <3>5, QuietLists
    <3> QED BY <3>7, <3>8 DEF Lists
  <2>4. CASE RenameDump
    <3>1. /\ UNCHANGED <<build, truth, props, delta, deltas>> /\ pc = "rename"
          /\ pc' \in {"done", "reopen"} /\ files' = Renamed(files, "tmp", "out")
      BY <2>4 DEF RenameDump
    <3>2. Written = Obj /\ Written' = {} BY <3>1 DEF Written
    <3>3. /\ files["tmp"].whole
          /\ \A o \in Obj : o \in DOMAIN files["tmp"].objs /\ files["tmp"].objs[o] = truth[o]
      BY <2>1, <3>1, <3>2 DEF NewDump
    <3>4. files["tmp"].there BY <1>1, <3>3, CopyNames DEF FilesOK, Sound
    <3>5. files'["out"] = files["tmp"] BY <1>1, <3>1, <3>4, CopyNames, RenamedFiles
    <3>6. NewDump' BY <3>1, <3>2, <3>3, <3>5 DEF NewDump
    <3>7. ASSUME NEW o \in Obj PROVE Right(o)'
      <4>1. CASE build = "memory"
        <5>1. props[o].mode = "changed" BY <4>1 DEF Settled, InMemory
        <5> QED BY <2>1, <3>1, <5>1 DEF Right
      <4>2. CASE build = "disk"
        <5>1. /\ input' = files["tmp"]
              /\ pos' = [x \in Obj |-> IF pos[x] = "tmp" THEN "input" ELSE "nowhere"]
          BY <2>4, <4>2 DEF RenameDump
        <5>2. pos[o] = "tmp" /\ o \notin delta BY <3>2, <4>2 DEF Settled, Places
        <5>3. pos'[o] = "input" BY <5>1, <5>2
        <5>4. Stored(o)' BY <3>1, <3>3, <5>1, <5>2, <5>3 DEF Stored, OnDisk
        <5> QED BY <2>1, <3>1, <5>4, RightKept
      <4> QED BY <1>1, <4>1, <4>2, TwoBuilds
    <3> QED BY <3>6, <3>7 DEF Lists
  <2>5. CASE TruncateDeltas
    <3>1. /\ UNCHANGED <<truth, props, delta, pos, input, files>> /\ pc = "reopen" /\ pc' = "done"
      BY <2>5 DEF TruncateDeltas, memory
    <3>2. Written' = {} BY <3>1 DEF Written
    <3>3. NewDump' BY <2>1, <3>1, <3>2 DEF NewDump
    <3>4. delta = {} BY <3>1 DEF Settled, Places
    <3>5. \A o \in Obj : OnDisk(o)' = OnDisk(o) BY <3>1, <3>4 DEF OnDisk
    <3>6. \A o \in Obj : Stored(o) => Stored(o)' BY <3>1, <3>5 DEF Stored
    <3>7. \A o \in Obj : Right(o)' BY <2>1, <3>1, <3>6, RightKept
    <3> QED BY <3>3, <3>7 DEF Lists
  <2>6. CASE EndDump
    <3>1. /\ UNCHANGED <<truth, delta, pos, input, deltas, files>> /\ pc = "done"
          /\ pc' \in {"exit", "loop"}
      BY <2>6 DEF EndDump, disk
    <3>2. Written' = {} BY <3>1 DEF Written
    <3>3. NewDump' BY <3>1, <3>2 DEF NewDump
    <3>4. \A o \in Obj : OnDisk(o)' = OnDisk(o) BY <3>1 DEF OnDisk, InDeltas, Latest
    <3>5. \A o \in Obj : Stored(o) => Stored(o)' BY <3>1, <3>4 DEF Stored
    <3>6. PICK S \in SUBSET Disposable(props) : props' = Disposed(props, S)
      BY <2>6 DEF EndDump
    <3>7. ASSUME NEW o \in Obj PROVE Right(o)'
      <4>1. props'[o] = props[o] \/ (props[o].mode = "loaded" /\ props'[o] = Unloaded)
        BY <1>1, <3>6, DisposedOnes
      <4> QED BY <2>1, <3>1, <3>5, <4>1, RightKept
    <3> QED BY <3>3, <3>7 DEF Lists
  <2> QED BY <2>2, <2>3, <2>4, <2>5, <2>6
<1> QED BY <1>2, <1>3

\* A delta dump more, with nothing in it.
LEMMA MoreDeltas ==
  ASSUME DiskOK, deltas' = Append(deltas, Empty)
  PROVE  /\ deltas' \in Seq(File) /\ Len(deltas') = Len(deltas) + 1 /\ Len(deltas) \in Nat
         /\ deltas'[Len(deltas')] = Empty
         /\ \A i \in 1 .. Len(deltas) : deltas'[i] = deltas[i]
         /\ \A o : InDeltas(o)' = InDeltas(o)
<1>1. deltas \in Seq(File) /\ Empty \in File /\ DOMAIN Empty.objs = {}
  BY EmptyFiles DEF DiskOK
<1> DEFINE e == Empty
<1>2. e \in File /\ DOMAIN e.objs = {} BY <1>1
<1>3. deltas' = Append(deltas, e) OBVIOUS
<1> HIDE DEF e
<1>4. /\ deltas' \in Seq(File) /\ Len(deltas') = Len(deltas) + 1 /\ Len(deltas) \in Nat
      /\ deltas'[Len(deltas) + 1] = e
      /\ \A i \in 1 .. Len(deltas) : deltas'[i] = deltas[i]
  BY <1>1, <1>2, <1>3
<1>5. ASSUME NEW o PROVE InDeltas(o)' = InDeltas(o)
  <2>1. \A i \in 1 .. Len(deltas') : i \in 1 .. Len(deltas) \/ i = Len(deltas) + 1
    BY <1>4
  <2>2. \A i \in 1 .. Len(deltas) : i \in 1 .. Len(deltas') BY <1>4
  <2>3. ~(o \in DOMAIN deltas'[Len(deltas) + 1].objs) BY <1>2, <1>4
  <2>4. InDeltas(o)' = {i \in 1 .. Len(deltas') : o \in DOMAIN deltas'[i].objs}
    BY DEF InDeltas
  <2>5. \A i : i \in InDeltas(o)' <=> i \in InDeltas(o)
    BY <1>4, <2>1, <2>2, <2>3, <2>4 DEF InDeltas
  <2> QED BY <2>4, <2>5 DEF InDeltas
<1> QED BY <1>4, <1>5 DEF e

LEMMA DeltaLists ==
  ASSUME Kinds, Settled, Lists, BeginDeltas \/ EndDeltas \/ \E o \in Obj : WriteDelta(o)
  PROVE  Lists'
<1>1. /\ MemoryOK /\ DiskOK /\ ControlOK /\ Steps
      /\ fulls' = fulls /\ pc \in Running /\ DiskOK'
  <2>1. Kinds' BY DeltaKinds
  <2> QED BY <2>1 DEF Kinds, BeginDeltas, EndDeltas, WriteDelta, bounds, Running
<1>2. CASE fulls # 0 BY <1>1, <1>2 DEF Lists
<1>3. ASSUME fulls = 0 PROVE Lists'
  <2>1. NewDump /\ \A o \in Obj : Right(o) BY <1>1, <1>3 DEF Lists
  <2> DEFINE n == Len(deltas)
  <2>2. CASE BeginDeltas
    <3>1. /\ UNCHANGED <<truth, props, delta, pos, input, files>> /\ pc = "loop" /\ pc' = "deltas"
          /\ deltas' = Append(deltas, Empty)
      BY <2>2 DEF BeginDeltas, memory
    <3>2. /\ n \in Nat /\ deltas'[Len(deltas')] = Empty
          /\ \A i \in 1 .. n : deltas'[i] = deltas[i]
          /\ \A o : InDeltas(o)' = InDeltas(o)
      BY <1>1, <3>1, MoreDeltas
    <3>3. Written' = {} BY <3>1 DEF Written
    <3>4. NewDump' BY <3>1, <3>2, <3>3, EmptyFiles DEF NewDump
    <3>5. ASSUME NEW o \in Obj PROVE Right(o)'
      <4>1. \A i \in InDeltas(o) : deltas'[i].objs[o] = deltas[i].objs[o]
        BY <3>2 DEF InDeltas
      <4>2. OnDisk(o)' = OnDisk(o) BY <1>1, <3>1, <3>2, <4>1, SameOnDisk
      <4>3. Stored(o) => Stored(o)' BY <3>1, <4>2 DEF Stored
      <4> QED BY <2>1, <3>1, <4>3, RightKept
    <3> QED BY <3>4, <3>5 DEF Lists
  <2>3. CASE EndDeltas
    <3>1. /\ UNCHANGED <<truth, props, delta, pos, input, files>> /\ pc = "deltas" /\ pc' = "loop"
          /\ deltas' = [deltas EXCEPT ![n].whole = TRUE]
      BY <2>3 DEF EndDeltas, memory
    <3> DEFINE c == [deltas[n] EXCEPT !.whole = TRUE]
    <3>2. deltas # <<>> BY <1>1, <3>1 DEF Steps
    <3>3. deltas[n] \in File
      <4>1. deltas \in Seq(File) BY <1>1 DEF DiskOK
      <4>2. n \in Nat /\ n # 0 BY <3>2, <4>1, EmptySeq
      <4> QED BY <4>1, <4>2
    <3>4. c \in File /\ c.objs = deltas[n].objs BY <3>3 DEF File
    <3>5. deltas' = [deltas EXCEPT ![Len(deltas)] = c] BY <3>1
    <3> HIDE DEF c
    <3>6. /\ Len(deltas') = n /\ n \in 1 .. n /\ deltas'[n] = c
          /\ \A i \in 1 .. n : i # n => deltas'[i] = deltas[i]
      BY <1>1, <3>2, <3>4, <3>5, LastDelta
    <3>7. \A i \in 1 .. n : deltas'[i].objs = deltas[i].objs BY <3>4, <3>6
    <3>8. Written' = {} BY <3>1 DEF Written
    <3>9. NewDump' BY <3>1, <3>8 DEF NewDump
    <3>10. ASSUME NEW o \in Obj PROVE Right(o)'
      <4>1. InDeltas(o)' = InDeltas(o) BY <3>6, <3>7 DEF InDeltas
      <4>2. \A i \in InDeltas(o) : deltas'[i].objs[o] = deltas[i].objs[o]
        BY <3>7 DEF InDeltas
      <4>3. OnDisk(o)' = OnDisk(o) BY <1>1, <3>1, <4>1, <4>2, SameOnDisk
      <4>4. Stored(o) => Stored(o)' BY <3>1, <4>3 DEF Stored
      <4> QED BY <2>1, <3>1, <4>4, RightKept
    <3> QED BY <3>9, <3>10 DEF Lists
  <2>4. ASSUME NEW o \in Obj, WriteDelta(o) PROVE Lists'
    <3>1. /\ UNCHANGED <<truth, input, files>> /\ pc = "deltas" /\ pc' = "deltas"
          /\ deltas' = [deltas EXCEPT ![n] = Put(@, o, Val(o))]
          /\ delta' = delta \union {o} /\ pos' = [pos EXCEPT ![o] = "delta"]
      BY <2>4 DEF WriteDelta
    <3>2. PICK S \in SUBSET ({o} \intersect Disposable(Undirtied(o))) :
            props' = Disposed(Undirtied(o), S)
      BY <2>4 DEF WriteDelta
    <3>3. deltas # <<>> BY <1>1, <3>1 DEF Steps
    <3>4. deltas[n] \in File
      <4>1. deltas \in Seq(File) BY <1>1 DEF DiskOK
      <4>2. n \in Nat /\ n # 0 BY <3>3, <4>1, EmptySeq
      <4> QED BY <4>1, <4>2
    <3>5. Written = {} /\ Written' = {} BY <3>1 DEF Written
    <3>6. Val(o) = truth[o] BY <1>1, <1>3, <3>5, ValTruth
    <3> DEFINE c == Put(deltas[n], o, Val(o))
    <3>7. /\ c \in File /\ DOMAIN c.objs = DOMAIN deltas[n].objs \union {o}
          /\ \A x \in DOMAIN deltas[n].objs \union {o} :
               c.objs[x] = IF x = o THEN truth[o] ELSE deltas[n].objs[x]
      <4>1. Val(o) \in Version BY <1>1, ReadVersion
      <4>2. /\ c \in File /\ DOMAIN c.objs = DOMAIN deltas[n].objs \union {o}
            /\ \A x \in DOMAIN deltas[n].objs \union {o} :
                 c.objs[x] = IF x = o THEN Val(o) ELSE deltas[n].objs[x]
        BY <3>4, <4>1, PutFile
      <4> HIDE DEF c
      <4> QED BY <3>6, <4>2
    <3>8. deltas' = [deltas EXCEPT ![Len(deltas)] = c] BY <3>1
    <3> HIDE DEF c
    <3>9. /\ Len(deltas') = n /\ n \in 1 .. n /\ n \in Nat /\ deltas'[n] = c
          /\ \A i \in 1 .. n : i # n => deltas'[i] = deltas[i]
      <4>1. n \in Nat BY <1>1 DEF DiskOK
      <4> QED BY <1>1, <3>3, <3>7, <3>8, <4>1, LastDelta
    <3>10. NewDump'
      <4>1. \A x \in DOMAIN c.objs : c.objs[x] = truth[x]
        BY <2>1, <3>1, <3>7 DEF NewDump
      <4> QED BY <3>1, <3>5, <3>9, <4>1 DEF NewDump
    <3>11. \A x \in Obj : pos'[x] = IF x = o THEN "delta" ELSE pos[x]
      BY <1>1, <3>1 DEF MemoryOK
    <3>12. ASSUME NEW x \in Obj, x # o PROVE Right(x)'
      <4>1. props'[x] = props[x] BY <1>1, <3>2, <3>12, WrittenOut
      <4>2. \A i \in 1 .. n : x \in DOMAIN deltas'[i].objs <=> x \in DOMAIN deltas[i].objs
        BY <3>7, <3>9, <3>12
      <4>3. InDeltas(x)' = InDeltas(x) BY <3>9, <4>2 DEF InDeltas
      <4>4. \A i \in InDeltas(x) : deltas'[i].objs[x] = deltas[i].objs[x]
        BY <3>7, <3>9, <3>12 DEF InDeltas
      <4>5. OnDisk(x)' = OnDisk(x)
        BY <1>1, <3>1, <3>11, <3>12, <4>3, <4>4, SameOnDisk
      <4>6. Stored(x) => Stored(x)' BY <3>1, <3>11, <3>12, <4>5 DEF Stored
      <4> QED BY <2>1, <3>1, <4>1, <4>6, RightKept
    <3>13. Right(o)'
      <4>1. n \in InDeltas(o)' /\ InDeltas(o)' \subseteq 1 .. n
        BY <3>7, <3>9 DEF InDeltas
      <4>2. Latest(InDeltas(o)') = n
        <5> DEFINE T == InDeltas(o)'
        <5>1. T \subseteq 1 .. n /\ n \in T BY <4>1
        <5> HIDE DEF T
        <5>2. Latest(T) \in T /\ \A j \in T : j <= Latest(T) BY <3>9, <5>1, LatestLast
        <5>3. Latest(T) \in 1 .. n /\ n <= Latest(T) BY <5>1, <5>2
        <5>4. Latest(T) = n BY <3>9, <5>3
        <5> QED BY <5>4 DEF T
      <4>3. o \in delta' /\ pos'[o] = "delta" /\ InDeltas(o)' # {} BY <3>1, <3>11, <4>1
      <4>4. OnDisk(o)' = deltas'[Latest(InDeltas(o)')].objs[o] BY <4>3 DEF OnDisk
      <4>5. OnDisk(o)' = truth[o] BY <3>7, <3>9, <4>2, <4>4
      <4>6. Stored(o)' BY <3>1, <4>3, <4>5 DEF Stored
      <4> QED BY <1>1, <2>1, <3>1, <3>2, <4>6, WrittenRight
    <3> QED BY <3>10, <3>12, <3>13 DEF Lists
  <2> QED BY <2>2, <2>3, <2>4
<1> QED BY <1>2, <1>3

LEMMA EndLists ==
  ASSUME Kinds, Settled, Lists, Panic \/ Killed \/ Exit \/ RunScript \/ Restart
  PROVE  Lists'
<1>1. /\ MemoryOK /\ DiskOK /\ ControlOK /\ Steps /\ FilesOK BY DEF Kinds, DiskOK
<1>2. CASE pc' \notin Running BY <1>2 DEF Lists
<1>3. CASE Start
  <2>1. /\ UNCHANGED <<build, delta, pos>> /\ pc = "start" /\ pc' = "loop"
        /\ truth' = [o \in Obj |-> files["in"].objs[o]] /\ props' = Read(truth')
        /\ input' = files["in"]
    BY <1>3 DEF Start
  <2>2. delta = {} /\ \A o \in Obj : pos[o] = "input"
    BY <2>1 DEF Settled, AtRest, Running
  <2>3. Written' = {} BY <2>1 DEF Written
  <2>4. NewDump' BY <2>1, <2>3 DEF NewDump
  <2>5. DOMAIN files["in"].objs = Obj
    BY <1>1, <2>1, CopyNames DEF Steps, FilesOK, Sound
  <2>6. ASSUME NEW o \in Obj PROVE Right(o)'
    <3>1. truth'[o] = files["in"].objs[o] BY <2>1
    <3>2. OnDisk(o)' = truth'[o] BY <2>1, <2>2, <2>5, <3>1 DEF OnDisk
    <3>3. Stored(o)' BY <2>1, <2>2, <3>2 DEF Stored
    <3>4. props'[o] = Unloaded \/ (props'[o].mode # "unloaded" /\ props'[o].ver = truth'[o])
      BY <2>1 DEF Read
    <3> QED BY <3>3, <3>4 DEF Right
  <2> QED BY <2>4, <2>6 DEF Lists
<1>4. Start \/ pc' \in {"down", "panic", "archive", "move", "check", "append", "aborted", "start"}
  BY DEF Panic, Killed, Exit, RunScript, Restart, UsePanic, Archive, MoveOut, CheckIn, AppendDeltas
<1>5. \A p \in {"down", "panic", "archive", "move", "check", "append", "aborted", "start"} :
        p \notin Running
  BY DEF Running
<1> QED BY <1>2, <1>3, <1>4, <1>5

LEMMA NextLists ==
  ASSUME Kinds, Settled, Lists, [Next]_vars
  PROVE  Lists'
<1>1. CASE UNCHANGED vars
  BY SMTT(30), <1>1 DEF vars, memory, disk, flags, bounds, Lists, NewDump, Written, Right, Stored,
     OnDisk, InDeltas, Latest
<1>2. CASE \/ \E o \in Obj : SetProperty(o) \/ Fetch(o)
           \/ CheckCleanTime \/ SigDump
           \/ \E restart \in BOOLEAN : SigShutdown(restart)
  BY <1>2, ServingLists
<1>3. CASE DumpDue \/ DumpAsked \/ LeaveLoop
  BY <1>3, BeginLists DEF DumpDue, DumpAsked, LeaveLoop
<1>4. CASE Dump
  <2>1. CASE \E o \in Obj : WriteObject(o) BY <2>1, WriteLists
  <2>2. CASE EndWrite \/ RenameCopy \/ RenameDump \/ TruncateDeltas \/ EndDump
    BY <2>2, DumpLists
  <2>3. CASE EndDeltas \/ \E o \in Obj : WriteDelta(o) BY <2>3, DeltaLists
  <2> QED BY <1>4, <2>1, <2>2, <2>3 DEF Dump
<1>5. CASE BeginDeltas BY <1>5, DeltaLists
<1>6. CASE Panic \/ Killed \/ Exit \/ RunScript \/ Restart BY <1>6, EndLists
<1> QED BY <1>1, <1>2, <1>3, <1>4, <1>5, <1>6 DEF Next

LEMMA InitLists ==
  ASSUME Init
  PROVE  Lists
<1>1. Written = {} BY DEF Init, Written
<1>2. NewDump BY <1>1 DEF Init, NewDump
<1>3. ASSUME NEW o \in Obj PROVE Right(o)
  <2>1. truth[o] = 0 /\ input.objs = truth /\ DOMAIN truth = Obj BY DEF Init
  <2>2. Stored(o) BY <2>1 DEF Init, Stored, OnDisk
  <2>3. props[o] = Unloaded \/ (props[o].mode # "unloaded" /\ props[o].ver = truth[o])
    BY DEF Init, Read
  <2> QED BY <2>2, <2>3 DEF Right
<1> QED BY <1>2, <1>3 DEF Lists

LEMMA ListsAlways == Spec => [](Kinds /\ Settled /\ Lists)
<1>1. Init => Kinds /\ Settled /\ Lists BY InitKinds, InitSettled, InitLists
<1>2. Kinds /\ Settled /\ Lists /\ [Next]_vars => (Kinds /\ Settled /\ Lists)'
  BY NextKinds, NextSettled, NextLists
<1> QED BY <1>1, <1>2, PTL DEF Spec

\* Wherever a property list is, in memory, in the last dump or in a delta
\* dump, reading it gives what was last stored, as long as no write has
\* failed. (FetchRight)
THEOREM FetchedRight == Spec => []FetchRight
<1>1. Kinds /\ Settled /\ Lists => FetchRight
  <2> SUFFICES ASSUME Kinds, Settled, Lists, pc = "loop", fulls = 0, NEW o \in Obj
               PROVE  Val(o) = truth[o]
    BY DEF FetchRight
  <2>1. Written = {} /\ pc \in Running BY DEF Written, Running
  <2> QED BY <2>1, ValTruth
<1> QED BY <1>1, ListsAlways, PTL

-----------------------------------------------------------------------------
(* What a crash costs, and what a signal asked for. *)

\* As long as nothing has happened that Recoverable excepts.
Safe == fulls = 0 /\ ~cut /\ (build = "memory" \/ crashes = 0)

\* The file that the script would start the server from.
Best == IF files["panic"].whole THEN "panic" ELSE IF files["out"].there THEN "out" ELSE "in"
Kept == files[Best].whole /\ \A o \in Obj : files[Best].objs[o] >= saved[o]

\* What is saved is older than what is in memory, and is where the script
\* finds it; in the build with delta dumps, when the server has ended.
Backed ==
  Safe =>
    /\ pc # "aborted"
    /\ pc \in Running => \A o \in Obj : truth[o] >= saved[o]
    /\ pc \notin Running => deltas = <<>>
    /\ (pc \in Running \ {"exit"} => build = "memory") /\ ~NoOut => Kept

\* What was there when the dump was asked for is there still.
Asked == dump_flag => \A o \in Obj : truth[o] >= asked[o]

\* A bad thing that has happened has happened.
LEMMA StaysUnsafe ==
  ASSUME ControlOK, [Next]_vars, Safe'
  PROVE  Safe /\ build' = build /\ copies' = copies /\ fulls' = fulls
<1>1. build' = build /\ copies' = copies
      /\ (fulls' = fulls \/ fulls' = fulls + 1)
      /\ (crashes' = crashes \/ crashes' = crashes + 1)
      /\ (cut => cut')
  <2>1. CASE UNCHANGED vars BY <2>1 DEF vars, bounds
  <2>2. CASE \/ \E o \in Obj : SetProperty(o) \/ Fetch(o)
             \/ CheckCleanTime \/ SigDump
             \/ \E restart \in BOOLEAN : SigShutdown(restart)
    BY <2>2 DEF SetProperty, Fetch, CheckCleanTime, SigDump, SigShutdown, bounds
  <2>3. CASE DumpDue \/ DumpAsked \/ LeaveLoop
    BY <2>3 DEF DumpDue, DumpAsked, LeaveLoop, BeginDump
  <2>4. CASE \E o \in Obj : WriteObject(o) BY <2>4 DEF WriteObject
  <2>5. CASE EndWrite \/ RenameCopy \/ RenameDump \/ TruncateDeltas \/ EndDump
    BY <2>5 DEF EndWrite, RenameCopy, RenameDump, TruncateDeltas, EndDump, bounds
  <2>6. CASE BeginDeltas \/ EndDeltas \/ \E o \in Obj : WriteDelta(o)
    BY <2>6 DEF BeginDeltas, EndDeltas, WriteDelta, bounds
  <2>7. CASE Panic \/ Killed \/ Exit
    <3>1. CASE Panic
      <4>1. fulls' = fulls \/ fulls' = fulls + 1 BY <3>1 DEF Panic
      <4>2. cut' = (cut \/ (NoOut /\ ~files'["panic"].whole)) BY <3>1 DEF Panic
      <4>3. build' = build /\ copies' = copies /\ crashes' = crashes + 1 BY <3>1 DEF Panic
      <4>4. cut => cut' BY <4>2
      <4> QED BY <4>1, <4>3, <4>4
    <3>2. CASE Killed BY <3>2 DEF Killed
    <3>3. CASE Exit BY <3>3 DEF Exit, bounds
    <3> QED BY <2>7, <3>1, <3>2, <3>3
  <2>8. CASE RunScript \/ Restart
    BY <2>8 DEF RunScript, Restart, UsePanic, Archive, MoveOut, CheckIn, AppendDeltas, Start, bounds
  <2> QED BY <2>1, <2>2, <2>3, <2>4, <2>5, <2>6, <2>7, <2>8 DEF Next, Dump
<1>2. fulls \in Nat /\ crashes \in Nat BY DEF ControlOK
<1>3. fulls' = 0 /\ ~cut' /\ (build' = "memory" \/ crashes' = 0) BY DEF Safe
<1>4. fulls' = fulls /\ fulls = 0 BY <1>1, <1>2, <1>3
<1>5. crashes' = 0 => crashes = 0 BY <1>1, <1>2
<1> QED BY <1>1, <1>3, <1>4, <1>5 DEF Safe

\* The file to start from is as it was.
LEMMA SameKept ==
  ASSUME Kept, saved' = saved, \A n \in {"in", "out", "panic"} : files'[n] = files[n]
  PROVE  Kept'
<1>1. Best' = Best /\ Best \in {"in", "out", "panic"} BY DEF Best
<1> QED BY <1>1 DEF Kept

\* The steps of a server that leave that file alone.
LEMMA SameBacked ==
  ASSUME ControlOK, MemoryOK, DiskOK, Backed, Safe, build' = build, saved' = saved,
         pc \in Running, pc' \in Running, pc' = "exit" => pc = "exit", NoOut => NoOut',
         \A o \in Obj : truth'[o] = truth[o] \/ truth'[o] = truth[o] + 1,
         build = "memory" \/ pc' = "exit" =>
           \A n \in {"in", "out", "panic"} : files'[n] = files[n]
  PROVE  Backed'
<1>1. \A o \in Obj : truth'[o] >= saved'[o]
  <2>1. \A o \in Obj : truth[o] >= saved[o] BY DEF Backed
  <2>2. \A o \in Obj : truth[o] \in Int /\ saved[o] \in Int
    BY Versions DEF MemoryOK, DiskOK
  <2> QED BY <2>1, <2>2
<1>2. pc' # "aborted" BY DEF Running
<1>3. ASSUME pc' \in Running \ {"exit"} => build' = "memory", ~NoOut' PROVE Kept'
  <2>1. Kept BY <1>3 DEF Backed
  <2>2. build = "memory" \/ pc' = "exit" BY <1>3
  <2> QED BY <2>1, <2>2, SameKept
<1> QED BY <1>1, <1>2, <1>3 DEF Backed

LEMMA ServingBacked ==
  ASSUME Kinds, Backed, Safe,
         \/ \E o \in Obj : SetProperty(o) \/ Fetch(o)
         \/ CheckCleanTime \/ SigDump
         \/ \E restart \in BOOLEAN : SigShutdown(restart)
  PROVE  Backed'
<1>1. ControlOK /\ MemoryOK /\ DiskOK BY DEF Kinds
<1>2. UNCHANGED <<build, copies, pc, saved, files>> /\ pc \in Running
  BY DEF SetProperty, Fetch, CheckCleanTime, SigDump, SigShutdown, disk, Running
<1>3. \A o \in Obj : truth'[o] = truth[o] \/ truth'[o] = truth[o] + 1
  <2>1. ASSUME NEW o \in Obj, SetProperty(o)
        PROVE  \A x \in Obj : truth'[x] = truth[x] \/ truth'[x] = truth[x] + 1
    BY <1>1, <2>1 DEF SetProperty, MemoryOK
  <2>2. truth' = truth \/ \E o \in Obj : SetProperty(o)
    BY DEF Fetch, CheckCleanTime, SigDump, SigShutdown, memory
  <2> QED BY <2>1, <2>2
<1>4. NoOut' <=> NoOut BY <1>2 DEF NoOut
<1> QED BY <1>1, <1>2, <1>3, <1>4, SameBacked

LEMMA DumpBacked ==
  ASSUME Kinds, Settled, Lists, Backed, Safe, Safe', build' = build, copies' = copies,
         Dump \/ DumpDue \/ DumpAsked \/ LeaveLoop \/ BeginDeltas
  PROVE  Backed'
<1>1. ControlOK /\ MemoryOK /\ DiskOK /\ Steps /\ FilesOK BY DEF Kinds, DiskOK
<1>2. {"in", "out", "panic", "tmp", "old"} \subseteq Names BY CopyNames
<1>3. fulls = 0 /\ fulls' = 0 BY DEF Safe
<1>4. ASSUME NEW ret, BeginDump(ret), pc = "loop", saved' = saved PROVE Backed'
  <2>1. pc' = "write" /\ files' = [files EXCEPT !["tmp"] = Empty] /\ truth' = truth
    BY <1>3, <1>4 DEF BeginDump, memory
  <2>2. Empty \in File /\ Sound(Empty) BY EmptyFiles
  <2>3. \A n \in {"in", "out", "panic"} : files'[n] = files[n]
    BY <1>1, <1>2, <2>1, <2>2, NewFile
  <2>4. ~NoOut BY <1>4 DEF NoOut
  <2> QED BY <1>1, <1>4, <2>1, <2>3, <2>4, SameBacked DEF Running
<1>5. ASSUME EndWrite \/ \E o \in Obj : WriteObject(o) PROVE Backed'
  <2>1. /\ UNCHANGED <<saved, truth>> /\ pc = "write" /\ pc' \in {"write", "copies", "rename"}
        /\ (pc' = "rename" => copies = 0)
        /\ \A n \in Names \ {"tmp"} : files'[n] = files[n]
    <3>1. ASSUME EndWrite PROVE \A n \in Names \ {"tmp"} : files'[n] = files[n]
      BY <1>1, <3>1 DEF EndWrite, FilesOK
    <3>2. ASSUME NEW o \in Obj, WriteObject(o)
          PROVE \A n \in Names \ {"tmp"} : files'[n] = files[n]
      BY <1>1, <3>2 DEF WriteObject, FilesOK
    <3>3. (UNCHANGED <<saved, truth>> /\ pc = "write" /\ pc' \in {"write", "copies", "rename"}
           /\ (pc' = "rename" => copies = 0))
      BY <1>5 DEF EndWrite, WriteObject, memory
    <3> QED BY <1>5, <3>1, <3>2, <3>3
  <2>2. \A n \in {"in", "out", "panic"} : files'[n] = files[n] BY <1>2, <2>1
  <2>3. ~NoOut BY <2>1 DEF NoOut
  <2> QED BY <1>1, <2>1, <2>2, <2>3, SameBacked DEF Running
<1>6. ASSUME RenameCopy PROVE Backed'
  <2>1. /\ UNCHANGED <<saved, truth>> /\ pc = "copies"
        /\ pc' = (IF shift = 1 THEN "rename" ELSE "copies")
        /\ files' = Renamed(files, Copy(shift - 1), Copy(shift))
    BY <1>6 DEF RenameCopy, memory
  <2>2. /\ shift \in 1 .. 3 /\ shift - 1 \in 0 .. MaxCopies /\ shift \in 0 .. MaxCopies
        /\ copies > 0
    <3>1. shift \in 1 .. copies BY <1>1, <2>1 DEF Steps
    <3>2. copies \in 0 .. MaxCopies /\ MaxCopies \in 0 .. 3
      BY <1>1, DumpsAssumption DEF ControlOK
    <3> QED BY <3>1, <3>2
  <2>3. /\ Copy(shift - 1) \in Names /\ Copy(shift) \in Names
        /\ Copy(shift - 1) \notin {"in", "panic"} /\ Copy(shift) \notin {"in", "panic"}
        /\ Copy(shift - 1) # Copy(shift)
        /\ shift # 1 => Copy(shift - 1) # "out"
        /\ Copy(shift) # "out"
    <3>1. Copy(shift - 1) # Copy(shift) BY <2>2 DEF Copy
    <3>2. shift # 1 => shift - 1 # 0 BY <2>2
    <3>3. shift # 0 BY <2>2
    <3> QED BY <2>2, <3>1, <3>2, <3>3, CopyNames
  <2>4. \A m \in Names \ {Copy(shift - 1), Copy(shift)} : files'[m] = files[m]
    BY <1>1, <2>1, <2>3, RenamedFiles
  <2>5. \A o \in Obj : truth'[o] >= saved'[o] BY <2>1 DEF Backed, Running
  <2>6. CASE shift = 1
    <3>1. NoOut' BY <2>1, <2>2, <2>6 DEF NoOut
    <3>2. pc' \in Running /\ pc' # "aborted" BY <2>1 DEF Running
    <3> QED BY <2>5, <3>1, <3>2 DEF Backed
  <2>7. CASE shift # 1
    <3>1. \A n \in {"in", "out", "panic"} : files'[n] = files[n]
      BY <1>2, <2>3, <2>4, <2>7
    <3>2. ~NoOut BY <2>1 DEF NoOut
    <3> QED BY <1>1, <2>1, <3>1, <3>2, SameBacked DEF Running
  <2> QED BY <2>6, <2>7
<1>7. ASSUME RenameDump PROVE Backed'
  <2>1. /\ UNCHANGED <<saved, truth>> /\ pc = "rename" /\ files' = Renamed(files, "tmp", "out")
        /\ pc' \in {"done", "reopen"}
    BY <1>7 DEF RenameDump
  <2>2. /\ files["tmp"].whole /\ \A o \in Obj : files["tmp"].objs[o] = truth[o]
    <3>1. NewDump /\ Written = Obj BY <1>3, <2>1 DEF Lists, Written, Running
    <3> QED BY <2>1, <3>1 DEF NewDump
  <2>3. files["tmp"].there BY <1>1, <1>2, <2>2 DEF FilesOK, Sound
  <2>4. files'["out"] = files["tmp"] /\ files'["panic"] = files["panic"]
    BY <1>1, <1>2, <2>1, <2>3, RenamedFiles
  <2>5. ~files["panic"].whole BY <1>1, <2>1 DEF Steps, Running
  <2>6. \A o \in Obj : truth[o] >= saved[o] BY <2>1 DEF Backed, Running
  <2>7. Best' = "out" BY <2>3, <2>4, <2>5 DEF Best
  <2>8. Kept' BY <2>1, <2>2, <2>4, <2>6, <2>7 DEF Kept
  <2> QED BY <2>1, <2>6, <2>8 DEF Backed, Running
<1>8. ASSUME EndDump PROVE Backed'
  <2>1. /\ truth' = truth /\ files' = files /\ pc = "done" /\ pc' \in {"exit", "loop"}
        /\ saved' = IF files["out"].whole THEN [o \in Obj |-> files["out"].objs[o]] ELSE saved
    BY <1>8 DEF EndDump, disk
  <2>2. /\ files["out"].whole /\ \A o \in Obj : files["out"].objs[o] = truth[o]
    BY <1>3, <2>1 DEF Lists, NewDump, Running
  <2>3. \A o \in Obj : saved'[o] = truth[o] BY <2>1, <2>2
  <2>4. files["out"].there BY <1>1, <1>2, <2>2 DEF FilesOK, Sound
  <2>5. ~files["panic"].whole BY <1>1, <2>1 DEF Steps, Running
  <2>6. Best' = "out" BY <2>1, <2>4, <2>5 DEF Best
  <2>7. \A o \in Obj : truth[o] \in Int BY <1>1, Versions DEF MemoryOK
  <2>8. Kept' BY <2>1, <2>2, <2>3, <2>6, <2>7 DEF Kept
  <2> QED BY <2>1, <2>3, <2>7, <2>8 DEF Backed, Running
<1>9. ASSUME TruncateDeltas \/ BeginDeltas \/ \E o \in Obj : WriteDelta(o) PROVE Backed'
  <2>1. /\ UNCHANGED <<truth, saved, files>> /\ pc \in {"reopen", "loop", "deltas"}
        /\ pc' \in {"done", "deltas"}
    BY <1>9 DEF TruncateDeltas, BeginDeltas, WriteDelta, memory
  <2>2. ~NoOut BY <2>1 DEF NoOut
  <2> QED BY <1>1, <2>1, <2>2, SameBacked DEF Running
<1>10. ASSUME EndDeltas PROVE Backed'
  <2> DEFINE g == deltas[Len(deltas)].objs
  <2>1. /\ truth' = truth /\ pc = "deltas" /\ pc' = "loop" /\ saved' = Over(saved, g)
    BY <1>10 DEF EndDeltas, memory
  <2>2. build = "disk" /\ deltas # <<>> BY <1>1, <2>1 DEF Steps
  <2>3. \A o \in DOMAIN g : g[o] = truth[o] BY <1>3, <2>1 DEF Lists, NewDump, Running
  <2> HIDE DEF g
  <2>4. \A o \in Obj : truth[o] >= saved[o] BY <2>1 DEF Backed, Running
  <2>5. DOMAIN saved = Obj /\ \A o \in Obj : truth[o] \in Int
    BY <1>1, Versions DEF DiskOK, MemoryOK
  <2>6. \A o \in Obj : saved'[o] = IF o \in DOMAIN g THEN g[o] ELSE saved[o]
    BY <2>1, <2>5 DEF Over
  <2>7. \A o \in Obj : truth'[o] >= saved'[o] BY <2>1, <2>3, <2>4, <2>5, <2>6
  <2> QED BY <2>1, <2>2, <2>7 DEF Backed, Running
<1>11. ASSUME DumpDue \/ DumpAsked \/ LeaveLoop PROVE Backed'
  BY <1>4, <1>11 DEF DumpDue, DumpAsked, LeaveLoop
<1>12. ASSUME Dump PROVE Backed'
  BY <1>5, <1>6, <1>7, <1>8, <1>9, <1>10, <1>12 DEF Dump
<1> QED BY <1>9, <1>11, <1>12

LEMMA EndBacked ==
  ASSUME Kinds, Settled, Lists, Backed, Safe, Safe', build' = build, copies' = copies,
         Panic \/ Killed \/ Exit \/ RunScript \/ Restart
  PROVE  Backed'
<1>1. ControlOK /\ MemoryOK /\ DiskOK /\ Steps /\ FilesOK BY DEF Kinds, DiskOK
<1>2. {"in", "out", "panic", "tmp", "old"} \subseteq Names BY CopyNames
<1>3. fulls = 0 /\ fulls' = 0 BY DEF Safe
<1>4. \A o \in Obj : truth[o] \in Int /\ saved[o] \in Int
  BY <1>1, Versions DEF MemoryOK, DiskOK
<1>5. ASSUME Panic PROVE Backed'
  <2> DEFINE c == [objs |-> [o \in Obj |-> Val(o)], whole |-> TRUE, there |-> TRUE]
  <2>1. /\ pc \in Running /\ pc' = "down" /\ crashes' = crashes + 1
        /\ cut' = (cut \/ (NoOut /\ ~files'["panic"].whole))
    BY <1>5 DEF Panic
  <2>2. \/ /\ files' = [files EXCEPT !["panic"] = c] /\ deltas' = <<>>
           /\ saved' = IF build = "memory" \/ pc = "loop" THEN truth ELSE saved
        \/ files' = [files EXCEPT !["panic"] = Empty] /\ UNCHANGED <<deltas, saved>>
    <3>1. fulls' # fulls + 1 BY <1>3
    <3> QED BY <1>5, <3>1 DEF Panic
  <2>3. build = "memory"
    <3>1. crashes \in Nat BY <1>1 DEF ControlOK
    <3>2. crashes' # 0 BY <2>1, <3>1
    <3> QED BY <3>2 DEF Safe
  <2>4. deltas' = <<>> BY <2>2, <2>3 DEF Settled, InMemory
  <2>5. CASE files' = [files EXCEPT !["panic"] = c] /\ saved' = truth
    <3>1. \A o \in Obj : Val(o) = truth[o] BY <1>3, <2>1, <2>3, ValTruth
    <3>2. c.whole /\ \A o \in Obj : c.objs[o] = truth[o] BY <3>1
    <3> HIDE DEF c
    <3>3. files'["panic"] = c BY <1>1, <1>2, <2>5 DEF FilesOK
    <3>4. Best' = "panic" BY <3>2, <3>3 DEF Best
    <3>5. Kept' BY <1>4, <2>5, <3>2, <3>3, <3>4 DEF Kept
    <3> QED BY <2>1, <2>4, <3>5 DEF Backed, Running
  <2> HIDE DEF c
  <2>6. CASE files' = [files EXCEPT !["panic"] = Empty] /\ saved' = saved
    <3>1. /\ files'["panic"] = Empty /\ files'["in"] = files["in"]
          /\ files'["out"] = files["out"]
      BY <1>1, <1>2, <2>6 DEF FilesOK
    <3>2. ~files'["panic"].whole /\ ~files["panic"].whole
      BY <1>1, <2>1, <3>1, EmptyFiles DEF Steps
    <3>3. ~NoOut BY <2>1, <3>2 DEF Safe
    <3>4. Kept BY <2>3, <3>3 DEF Backed
    <3>5. Best' = Best /\ Best \in {"in", "out"} BY <3>1, <3>2 DEF Best
    <3>6. Kept' BY <2>6, <3>1, <3>4, <3>5 DEF Kept
    <3> QED BY <2>1, <2>4, <3>6 DEF Backed, Running
  <2> QED BY <2>2, <2>3, <2>5, <2>6
<1>6. ASSUME Killed PROVE Backed'
  <2>1. /\ pc' = "down" /\ crashes' = crashes + 1 /\ cut' = (cut \/ NoOut)
        /\ UNCHANGED <<files, deltas, saved>>
    BY <1>6 DEF Killed, disk
  <2>2. build = "memory"
    <3>1. crashes \in Nat BY <1>1 DEF ControlOK
    <3>2. crashes' # 0 BY <2>1, <3>1
    <3> QED BY <3>2 DEF Safe
  <2>3. deltas' = <<>> BY <2>1, <2>2 DEF Settled, InMemory
  <2>4. ~NoOut BY <2>1 DEF Safe
  <2>5. Kept BY <2>2, <2>4 DEF Backed
  <2>6. Kept' BY <2>1, <2>5, SameKept
  <2> QED BY <2>1, <2>3, <2>6 DEF Backed, Running
<1>7. ASSUME Exit PROVE Backed'
  <2>1. /\ pc = "exit" /\ pc' \in {"panic", "down"} /\ deltas' = <<>> /\ UNCHANGED <<files, saved>>
    BY <1>7 DEF Exit
  <2>2. Kept BY <2>1 DEF Backed, NoOut
  <2>3. Kept' BY <2>1, <2>2, SameKept
  <2> QED BY <2>1, <2>3 DEF Backed, Running
<1>8. ASSUME pc \notin Running, pc' \notin Running, pc' # "aborted", Kept', deltas' = deltas \/ deltas' = <<>>
      PROVE  Backed'
  BY <1>8 DEF Backed
<1>9. pc \notin Running => Kept BY DEF Backed, NoOut, Running
<1>10. ASSUME RunScript \/ Archive \/ CheckIn PROVE Backed'
  <2>1. /\ pc \in {"down", "archive", "check"} /\ pc' \in {"panic", "move", "append", "aborted"}
        /\ saved' = saved /\ (deltas' = deltas \/ deltas' = <<>>)
    BY <1>10 DEF RunScript, Archive, CheckIn, disk
  <2>2. \A n \in {"in", "out", "panic"} : files'[n] = files[n]
    <3>1. files' = files \/ files' = [files EXCEPT !["old"] = files["in"]]
      BY <1>10 DEF RunScript, Archive, CheckIn, disk
    <3> QED BY <1>1, <1>2, <3>1 DEF FilesOK
  <2>3. Kept BY <1>9, <2>1 DEF Running
  <2>4. Kept' BY <2>1, <2>2, <2>3, SameKept
  <2>5. pc' # "aborted"
    <3>1. ASSUME CheckIn PROVE files["in"].whole
      <4>1. pc = "check" BY <3>1 DEF CheckIn
      <4>2. ~files["panic"].whole /\ ~files["out"].there BY <1>1, <4>1 DEF Steps, Script
      <4> QED BY <2>3, <4>2 DEF Kept, Best
    <3> QED BY <1>10, <3>1 DEF RunScript, Archive, CheckIn
  <2> QED BY <1>8, <2>1, <2>4, <2>5 DEF Running
<1>11. ASSUME UsePanic PROVE Backed'
  <2>1. /\ pc = "panic" /\ pc' = "archive" /\ saved' = saved /\ (deltas' = deltas \/ deltas' = <<>>)
    BY <1>11 DEF UsePanic
  <2>2. Kept BY <1>9, <2>1 DEF Running
  <2>3. CASE files["panic"].whole
    <3>1. files' = Renamed(files, "panic", "out") BY <1>11, <2>3 DEF UsePanic
    <3>2. files["panic"].there BY <1>1, <1>2, <2>3 DEF FilesOK, Sound
    <3>3. files'["out"] = files["panic"] /\ files'["panic"] = NoFile
      BY <1>1, <1>2, <3>1, <3>2, RenamedFiles
    <3>4. Best = "panic" /\ Best' = "out" BY <2>3, <3>2, <3>3, EmptyFiles DEF Best
    <3>5. Kept' BY <2>1, <2>2, <3>3, <3>4 DEF Kept
    <3> QED BY <1>8, <2>1, <3>5 DEF Running
  <2>4. CASE ~files["panic"].whole
    <3>1. files' = [files EXCEPT !["panic"] = NoFile] BY <1>11, <2>4 DEF UsePanic
    <3>2. /\ files'["panic"] = NoFile /\ files'["in"] = files["in"]
          /\ files'["out"] = files["out"]
      BY <1>1, <1>2, <3>1 DEF FilesOK
    <3>3. Best' = Best /\ Best \in {"in", "out"} BY <2>4, <3>2, EmptyFiles DEF Best
    <3>4. Kept' BY <2>1, <2>2, <3>2, <3>3 DEF Kept
    <3> QED BY <1>8, <2>1, <3>4 DEF Running
  <2> QED BY <2>3, <2>4
<1>12. ASSUME MoveOut PROVE Backed'
  <2>1. /\ pc = "move" /\ pc' = "check" /\ UNCHANGED <<saved, deltas>>
        /\ files' = Renamed(files, "out", "in")
    BY <1>12 DEF MoveOut
  <2>2. Kept /\ ~files["panic"].whole BY <1>1, <1>9, <2>1 DEF Running, Steps, Script
  <2>3. /\ files["out"].there => files'["in"] = files["out"] /\ files'["out"] = NoFile
        /\ ~files["out"].there => files' = files
        /\ files'["panic"] = files["panic"]
    BY <1>1, <1>2, <2>1, RenamedFiles
  <2>4. Best' = "in" /\ files'["in"] = files[Best] BY <2>2, <2>3, EmptyFiles DEF Best
  <2>5. Kept' BY <2>1, <2>2, <2>4 DEF Kept
  <2> QED BY <1>8, <2>1, <2>5 DEF Running
<1>13. ASSUME AppendDeltas PROVE Backed'
  <2>1. pc = "append" /\ pc' = "start" /\ deltas' = <<>> /\ saved' = saved
    BY <1>13 DEF AppendDeltas
  <2>2. Kept /\ deltas = <<>> BY <1>9, <2>1 DEF Running, Backed
  <2>3. Best = "in" BY <1>1, <2>1 DEF Steps, Script, Best
  <2> DEFINE p == [o \in Obj |->
                     IF {i \in InDeltas(o) : deltas[i].whole} = {} THEN files["in"].objs[o]
                     ELSE deltas[Latest({i \in InDeltas(o) : deltas[i].whole})].objs[o]]
             c == [files["in"] EXCEPT !.objs = p]
  <2>4. \A o : InDeltas(o) = {}
    <3>1. Len(deltas) = 0 BY <2>2, EmptySeq
    <3> QED BY <3>1 DEF InDeltas
  <2>5. p = [o \in Obj |-> files["in"].objs[o]] BY <2>4
  <2>6. files' = [files EXCEPT !["in"] = c] BY <1>13 DEF AppendDeltas
  <2> HIDE DEF p
  <2>7. files["in"] \in File BY <1>1, <1>2 DEF FilesOK
  <2>8. c.whole = files["in"].whole /\ c.objs = p BY <2>7 DEF File
  <2> HIDE DEF c
  <2>9. /\ files'["in"] = c /\ files'["out"] = files["out"] /\ files'["panic"] = files["panic"]
    BY <1>1, <1>2, <2>6 DEF FilesOK
  <2>10. Best' = "in" BY <2>3, <2>9 DEF Best
  <2>11. Kept' BY <2>1, <2>2, <2>3, <2>5, <2>8, <2>9, <2>10 DEF Kept
  <2> QED BY <1>8, <2>1, <2>11 DEF Running
<1>14. ASSUME Start PROVE Backed'
  <2>1. /\ pc = "start" /\ pc' = "loop" /\ UNCHANGED <<files, saved>>
        /\ truth' = [o \in Obj |-> files["in"].objs[o]]
    BY <1>14 DEF Start
  <2>2. Kept BY <1>9, <2>1 DEF Running
  <2>3. Best = "in" BY <1>1, <2>1 DEF Steps, Script, Best
  <2>4. \A o \in Obj : truth'[o] >= saved'[o] BY <2>1, <2>2, <2>3 DEF Kept
  <2>5. Kept' BY <2>1, <2>2, SameKept
  <2> QED BY <2>1, <2>4, <2>5 DEF Backed, Running
<1> QED BY <1>5, <1>6, <1>7, <1>10, <1>11, <1>12, <1>13, <1>14 DEF Restart

LEMMA NextBacked ==
  ASSUME Kinds, Settled, Lists, Backed, [Next]_vars
  PROVE  Backed'
<1>1. CASE ~Safe' BY <1>1 DEF Backed
<1>2. CASE Safe'
  <2>1. Safe /\ build' = build /\ copies' = copies BY <1>2, StaysUnsafe DEF Kinds
  <2>2. CASE UNCHANGED vars
    BY <2>1, <2>2 DEF vars, memory, disk, flags, bounds, Backed, Kept, Best, NoOut
  <2>3. CASE \/ \E o \in Obj : SetProperty(o) \/ Fetch(o)
             \/ CheckCleanTime \/ SigDump
             \/ \E restart \in BOOLEAN : SigShutdown(restart)
    BY <2>1, <2>3, ServingBacked
  <2>4. CASE Dump \/ DumpDue \/ DumpAsked \/ LeaveLoop \/ BeginDeltas
    BY <1>2, <2>1, <2>4, DumpBacked
  <2>5. CASE Panic \/ Killed \/ Exit \/ RunScript \/ Restart
    BY <1>2, <2>1, <2>5, EndBacked
  <2> QED BY <2>2, <2>3, <2>4, <2>5 DEF Next
<1> QED BY <1>1, <1>2

LEMMA InitBacked ==
  ASSUME Init
  PROVE  Backed
<1>1. Kinds BY InitKinds
<1>2. \A o \in Obj : truth[o] = 0 /\ saved[o] = 0 BY DEF Init
<1>3. files["in"] = input /\ files["panic"] = NoFile /\ files["out"] = NoFile
  BY CopyNames DEF Init
<1>4. Best = "in" BY <1>3, EmptyFiles DEF Best
<1>5. input.whole /\ input.objs = truth BY DEF Init
<1>6. Kept BY <1>2, <1>3, <1>4, <1>5 DEF Kept
<1> QED BY <1>2, <1>6 DEF Init, Backed, Running

\* Whatever happens to the server and to the script, the server comes back on
\* data no older than what is safe on disk. (Recoverable)
THEOREM ServerRecovers == Spec => []Recoverable
<1>1. Spec => []Backed
  <2>1. Init => Backed BY InitBacked
  <2>2. Kinds /\ Settled /\ Lists /\ Backed /\ [Next]_vars => Backed' BY NextBacked
  <2> QED BY <2>1, <2>2, ListsAlways, PTL DEF Spec
<1>2. Backed => Recoverable
  BY DEF Backed, Safe, Recoverable, Running
<1> QED BY <1>1, <1>2, PTL

-----------------------------------------------------------------------------
(* A dump that was asked for. *)

LEMMA NextAsked ==
  ASSUME Kinds, Settled, Asked, [Next]_vars
  PROVE  Asked'
<1>1. MemoryOK BY DEF Kinds
<1>2. \A o \in Obj : truth[o] \in Int /\ asked[o] \in Int BY <1>1, Versions DEF MemoryOK
<1>3. CASE ~dump_flag' BY <1>3 DEF Asked
<1>4. CASE SigDump BY <1>2, <1>4 DEF SigDump, memory, Asked
<1>5. ASSUME NEW o \in Obj, SetProperty(o) PROVE Asked'
  <2>1. truth' = [truth EXCEPT ![o] = truth[o] + 1] /\ UNCHANGED <<dump_flag, asked>>
    BY <1>5 DEF SetProperty, flags
  <2>2. \A x \in Obj : truth'[x] = truth[x] \/ truth'[x] = truth[x] + 1
    BY <1>1, <2>1 DEF MemoryOK
  <2> QED BY <1>2, <2>1, <2>2 DEF Asked
<1>6. CASE UNCHANGED <<truth, dump_flag, asked>> BY <1>6 DEF Asked
<1>7. CASE Panic \/ Killed \/ Exit
  <2>1. ~dump_flag' BY <1>7 DEF Panic, Killed, Exit, Gone
  <2> QED BY <1>3, <2>1
<1>8. CASE Start
  <2>1. pc = "start" /\ dump_flag' = dump_flag BY <1>8 DEF Start, flags
  <2>2. ~dump_flag' BY <2>1 DEF Settled, AtRest, Running
  <2> QED BY <1>3, <2>2
<1>9. CASE EndDump
  <2>1. ~dump_flag' \/ UNCHANGED <<truth, dump_flag, asked>> BY <1>9 DEF EndDump
  <2> QED BY <1>3, <1>6, <2>1
<1>10. CASE UNCHANGED vars BY <1>6, <1>10 DEF vars, memory, flags
<1>11. CASE \/ \E o \in Obj : Fetch(o)
            \/ CheckCleanTime \/ \E restart \in BOOLEAN : SigShutdown(restart)
  BY <1>6, <1>11 DEF Fetch, CheckCleanTime, SigShutdown, memory, flags
<1>12. CASE DumpDue \/ DumpAsked \/ LeaveLoop
  BY <1>6, <1>12 DEF DumpDue, DumpAsked, LeaveLoop, BeginDump, memory, flags
<1>13. CASE \/ \E o \in Obj : WriteObject(o) \/ WriteDelta(o)
            \/ EndWrite \/ RenameCopy \/ RenameDump \/ TruncateDeltas \/ EndDeltas \/ BeginDeltas
  BY <1>6, <1>13 DEF WriteObject, WriteDelta, EndWrite, RenameCopy, RenameDump, TruncateDeltas,
     EndDeltas, BeginDeltas, memory, flags
<1>14. CASE RunScript \/ UsePanic \/ Archive \/ MoveOut \/ CheckIn \/ AppendDeltas
  BY <1>6, <1>14 DEF RunScript, UsePanic, Archive, MoveOut, CheckIn, AppendDeltas, memory, flags
<1> QED BY <1>4, <1>5, <1>7, <1>8, <1>9, <1>10, <1>11, <1>12, <1>13, <1>14
     DEF Next, Dump, Restart

\* dump_flag is cleared by a dump that has saved what was there when the signal
\* came, although the signal may come in the middle of a dump. (AskedIsSaved)
THEOREM AskedDumpSaved == Spec => AskedIsSaved
<1>1. Init => Asked BY DEF Init, Asked
<1>2. Spec => []Asked
  <2>1. Kinds /\ Settled /\ Asked /\ [Next]_vars => Asked' BY NextAsked
  <2> QED BY <1>1, <2>1, ListsAlways, PTL DEF Spec
<1> DEFINE Cleared == dump_flag /\ ~dump_flag' /\ pc' = "loop" /\ fulls = 0
           Answer == Cleared => \A o \in Obj : saved'[o] >= asked[o]
<1>3. ASSUME Kinds, Settled, Lists, Asked, [Next]_vars PROVE Answer
  <2> SUFFICES ASSUME Cleared PROVE \A o \in Obj : saved'[o] >= asked[o]
    OBVIOUS
  <2>1. dump_flag /\ ~dump_flag' /\ pc' = "loop" /\ fulls = 0 OBVIOUS
  <2> HIDE DEF Cleared
  <2>2. EndDump
    <3>1. CASE \/ UNCHANGED <<dump_flag>>
               \/ SigDump
      BY <2>1, <3>1 DEF SigDump
    <3>2. ~Panic /\ ~Killed /\ ~Exit BY <2>1 DEF Panic, Killed, Exit
    <3>3. CASE UNCHANGED vars BY <3>1, <3>3 DEF vars, flags
    <3>4. CASE \/ \E o \in Obj : SetProperty(o) \/ Fetch(o)
               \/ CheckCleanTime \/ \E restart \in BOOLEAN : SigShutdown(restart)
      BY <3>1, <3>4 DEF SetProperty, Fetch, CheckCleanTime, SigShutdown, memory, flags
    <3>5. CASE DumpDue \/ DumpAsked \/ LeaveLoop
      BY <3>1, <3>5 DEF DumpDue, DumpAsked, LeaveLoop, flags
    <3>6. CASE \/ \E o \in Obj : WriteObject(o) \/ WriteDelta(o)
               \/ EndWrite \/ RenameCopy \/ RenameDump \/ TruncateDeltas \/ EndDeltas \/ BeginDeltas
      BY <3>1, <3>6 DEF WriteObject, WriteDelta, EndWrite, RenameCopy, RenameDump,
         TruncateDeltas, EndDeltas, BeginDeltas, flags
    <3>7. CASE RunScript \/ UsePanic \/ Archive \/ MoveOut \/ CheckIn \/ AppendDeltas \/ Start
      BY <3>1, <3>7 DEF RunScript, UsePanic, Archive, MoveOut, CheckIn, AppendDeltas, Start, flags
    <3> QED BY <1>3, <3>1, <3>2, <3>3, <3>4, <3>5, <3>6, <3>7 DEF Next, Dump, Restart
  <2>3. pc = "done" /\ saved' = IF files["out"].whole THEN [o \in Obj |-> files["out"].objs[o]] ELSE saved
    BY <2>2 DEF EndDump
  <2>4. files["out"].whole /\ \A o \in Obj : files["out"].objs[o] = truth[o]
    BY <1>3, <2>1, <2>3 DEF Lists, NewDump, Running
  <2>5. \A o \in Obj : truth[o] >= asked[o] BY <1>3, <2>1 DEF Asked
  <2> QED BY <2>3, <2>4, <2>5
<1>4. Spec => [][Answer]_vars
  BY <1>2, <1>3, ListsAlways, PTL DEF Spec
<1> QED BY <1>4 DEF AskedIsSaved

=============================================================================
