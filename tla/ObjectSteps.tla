---------------------------- MODULE ObjectSteps -----------------------------
(***************************************************************************)
(* Every operation of Objects keeps the array of objects and the           *)
(* operations that wait in order, as long as no program has meddled: the   *)
(* invariant (IInv), and one lemma for each command, primitive and part of *)
(* an operation that goes on after the programs it has run. Those that     *)
(* wait rely on what they name (FrameOk); a step must spare that (Spared), *)
(* and what is put on top of others must take nothing away that they name  *)
(* (Over). The same lemmas say that a step closes no loop of parents.      *)
(***************************************************************************)
EXTENDS Objects, ObjectLists

-----------------------------------------------------------------------------
(* What holds as long as no program has meddled.                           *)

Frames == [op : Ops, obj : Ref, to : Ref \union {HOME},
           cur : Ref \union {MaxTop}, n : 0 .. MaxTop]

\* The objects that are being emptied, which are on no list, and those whose
\* things are being purged.
Objs(st, op) == {st[i].obj : i \in {j \in 1 .. Len(st) : st[j].op = op}}
Off(st)      == Objs(st, "emptying")
Purged(st)   == Objs(st, "purge")

\* What is in x, or was when send_contents took it out.
Inside(d, D, so, x) ==
  {y \in Live(d) \ (D \union {Root}) : d.typ[y] # "exit" /\ At(d, so, y) = x}
NoExits(d, x) == \A y \in Of(d, "exit") : d.loc[y] # x

Goers(d)       == Of(d, "player") \union Of(d, "thing")
Targets(d, D)  == (PlacesOf(d) \ D) \union {HOME}
Recyclables(d) == {x \in Obj \ {Root} : d.typ[x] \in {"room", "thing", "program"}}

\* What an operation that waits relies on: what it names is there, is of its
\* type, and is not being recycled. What is emptied is named by nothing, and
\* the objects in it are fewer than the turns that its loop has left.
FrameOk(d, D, so, f) ==
  /\ f.op \in {"put", "drop"} =>
       /\ f.obj \in (Of(d, "thing") \union Of(d, "program")) \ D
       /\ f.to \in Targets(d, D)
  /\ f.op = "enter" => f.obj \in Goers(d) \ D /\ f.to \in Targets(d, D)
  /\ f.op = "send" => /\ f.obj \in PlacesOf(d) /\ f.to \in Targets(d, D)
                      /\ f.n \in {0, 1}
  /\ f.op \in {"prog", "left", "exits", "emptying", "purge"} => f.to = NOTHING
  /\ f.op = "prog" => f.obj = NOTHING
  /\ f.op = "left" => f.obj \in PlacesOf(d)
  /\ f.op = "exits" => f.obj \in Recyclables(d) \ D /\ f.cur = d.exits[f.obj]
  /\ f.op = "emptying" =>
       /\ f.obj \in Recyclables(d)
       /\ f.cur \in Of(d, "player") \union {NOTHING}
       /\ d.loc[f.obj] \in PlacesOf(d)
       /\ NoExits(d, f.obj) /\ Unnamed(d, f.obj)
       /\ Cardinality(Inside(d, D, so, f.obj) \ {f.cur}) < f.n
  /\ f.op = "frob" => /\ f.obj \in Of(d, "player") \ {Man}
                      /\ f.to \in Of(d, "player") \ {f.obj}
  /\ f.op = "purge" => f.obj \in Of(d, "player") \ {Man} /\ f.cur \in 2 .. d.top

\* What an operation names.
Names(d, f) ==
  {f.obj, f.to} \union (IF f.op = "emptying" THEN {f.cur, d.loc[f.obj]} ELSE {})

\* An operation f takes nothing away that g, which waits for it, names: not its
\* object, nor what a player owns or is given whose things are purged (P).
Over(d, P, f, g) ==
  /\ f.op \in {"exits", "emptying", "frob"} => f.obj \notin Names(d, g)
  /\ f.op = "purge" => \A x \in Names(d, g) \intersect Live(d) :
       d.owner[x] = f.obj => d.typ[x] = "player"
  /\ f.op = "frob" /\ f.to \in P =>
       \A x \in Names(d, g) \intersect Live(d) : d.owner[x] # f.obj

FramesOk(d, D, so, st) ==
  /\ \A i \in 1 .. Len(st) : FrameOk(d, D, so, st[i])
  /\ \A i, j \in 1 .. Len(st) : i < j => Over(d, Purged(st), st[i], st[j])

\* Only the operation on top takes a list apart or recycles exits, and a @frob
\* waits for no program.
Still(f) == f.op \notin {"exits", "frob"} /\ (f.op = "send" => f.n = 1)
Quiet(st) == \A i \in 1 .. Len(st) : Still(st[i])
Under(f, st) == \A i \in 1 .. Len(st) :
  Still(st[i]) \/ (i = 1 /\ f.op = "send" /\ st[i].op = "frob")

\* What send_contents has taken out of Origin and not put back starts at First.
Sending(st) == st # <<>> /\ st[1].op = "send" /\ st[1].n = 0
First(st)   == IF Sending(st) THEN st[1].cur ELSE NOTHING
Origin(st)  == IF Sending(st) THEN st[1].obj ELSE NOTHING

Inv(d, st) ==
  /\ st \in Seq(Frames)
  /\ World(d, Off(st), First(st), Origin(st))
  /\ FramesOk(d, Off(st), Origin(st), st)
  /\ st # <<>> => Under(st[1], Tail(st))
  /\ Sending(st) => Clear(d, Origin(st))

IInv == Inv(db, stack) /\ given \in 0 .. MaxCommands

-----------------------------------------------------------------------------
(* Sequences of operations.                                                *)

\* An operation on top of others.
LEMMA Cons ==
  ASSUME NEW T, NEW f \in T, NEW st \in Seq(T)
  PROVE  /\ <<f>> \o st \in Seq(T) /\ <<f>> \o st # <<>>
         /\ Len(<<f>> \o st) = Len(st) + 1 /\ Len(st) \in Nat
         /\ (<<f>> \o st)[1] = f
         /\ \A i \in 1 .. Len(st) : (<<f>> \o st)[i + 1] = st[i]
         /\ Tail(<<f>> \o st) = st
<1> DEFINE s == <<f>> \o st
<1>1. s \in Seq(T) /\ Len(s) = Len(st) + 1 /\ Len(st) \in Nat OBVIOUS
<1>2. s[1] = f OBVIOUS
<1>3. \A i \in 1 .. Len(st) : s[i + 1] = st[i] OBVIOUS
<1>4. Tail(s) = st
  <2>1. Tail(s) \in Seq(T) /\ Len(Tail(s)) = Len(st) BY <1>1
  <2>2. \A i \in 1 .. Len(st) : Tail(s)[i] = st[i] BY <1>1, <1>3
  <2> QED BY <2>1, <2>2
<1>5. s # <<>> BY <1>1
<1> QED BY <1>1, <1>2, <1>3, <1>4, <1>5

\* A sequence that is not empty is its first element and the others.
LEMMA Uncons ==
  ASSUME NEW T, NEW s \in Seq(T), s # <<>>
  PROVE  /\ s[1] \in T /\ Tail(s) \in Seq(T) /\ s = <<s[1]>> \o Tail(s)
<1>1. Len(s) \in Nat /\ Len(s) > 0 OBVIOUS
<1>2. s[1] \in T /\ Tail(s) \in Seq(T) /\ Len(Tail(s)) = Len(s) - 1 BY <1>1
<1>3. Len(<<s[1]>> \o Tail(s)) = Len(s) BY <1>1, <1>2
<1>4. \A i \in 1 .. Len(s) : (<<s[1]>> \o Tail(s))[i] = s[i] BY <1>1, <1>2
<1> QED BY <1>1, <1>2, <1>3, <1>4

\* Two sequences with the same members are the same.
LEMMA SameSeq ==
  ASSUME NEW T, NEW s \in Seq(T), NEW t \in Seq(T), NEW n \in Nat, Len(s) = n, Len(t) = n,
         \A i \in 1 .. n : s[i] = t[i]
  PROVE  s = t
OBVIOUS

\* Two operations on top of others, and one between two others.
LEMMA Two ==
  ASSUME NEW T, NEW f \in T, NEW g \in T, NEW st \in Seq(T)
  PROVE  <<f, g>> \o st = <<f>> \o (<<g>> \o st)
<1> DEFINE a == <<f, g>> \o st
           b == <<f>> \o (<<g>> \o st)
           n == Len(st) + 2
<1>1. a \in Seq(T) /\ b \in Seq(T) /\ n \in Nat /\ Len(a) = n /\ Len(b) = n
  OBVIOUS
<1>2. \A i \in 1 .. n : a[i] = b[i] OBVIOUS
<1> HIDE DEF a, b, n
<1>3. a = b BY <1>1, <1>2, SameSeq
<1> QED BY <1>3 DEF a, b

\* Programs before and after an operation.
LEMMA Middle ==
  ASSUME NEW T, NEW p \in T, NEW f \in T, NEW st \in Seq(T)
  PROVE  <<p, f, p>> \o st = <<p>> \o (<<f>> \o (<<p>> \o st))
<1> DEFINE a == <<p, f, p>> \o st
           b == <<p>> \o (<<f>> \o (<<p>> \o st))
           n == Len(st) + 3
<1>1. a \in Seq(T) /\ b \in Seq(T) /\ n \in Nat /\ Len(a) = n /\ Len(b) = n
  OBVIOUS
<1>2. \A i \in 1 .. n : a[i] = b[i] OBVIOUS
<1> HIDE DEF a, b, n
<1>3. a = b BY <1>1, <1>2, SameSeq
<1> QED BY <1>3 DEF a, b

\* What is being emptied and purged below f, and by f.
Own(f) == IF f.op = "emptying" THEN {f.obj} ELSE {}
Takes(f) == IF f.op = "purge" THEN {f.obj} ELSE {}

\* The objects of the operations of a kind, with one more on top.
LEMMA ObjsCons ==
  ASSUME NEW f \in Frames, NEW st \in Seq(Frames), NEW op
  PROVE  Objs(<<f>> \o st, op) = Objs(st, op) \union (IF f.op = op THEN {f.obj} ELSE {})
<1> DEFINE s == <<f>> \o st
<1>1. /\ Len(s) = Len(st) + 1 /\ Len(st) \in Nat /\ s[1] = f
      /\ \A i \in 1 .. Len(st) : s[i + 1] = st[i]
  BY Cons
<1> HIDE DEF s
<1>2. ASSUME NEW j \in 1 .. Len(s) PROVE j = 1 \/ (j - 1 \in 1 .. Len(st) /\ s[j] = st[j - 1])
  <2>1. j = 1 \/ j - 1 \in 1 .. Len(st) BY <1>1
  <2>2. j - 1 \in 1 .. Len(st) => s[(j - 1) + 1] = st[j - 1] BY <1>1
  <2>3. (j - 1) + 1 = j OBVIOUS
  <2> QED BY <2>1, <2>2, <2>3
<1>3. ASSUME NEW x
      PROVE  x \in Objs(s, op) <=> x \in Objs(st, op) \union (IF f.op = op THEN {f.obj} ELSE {})
  <2>1. ASSUME NEW j \in 1 .. Len(s), s[j].op = op, x = s[j].obj
        PROVE  \/ f.op = op /\ x = f.obj
               \/ \E i \in 1 .. Len(st) : st[i].op = op /\ x = st[i].obj
    BY <1>1, <1>2, <2>1
  <2>2. f.op = op /\ x = f.obj => \E j \in 1 .. Len(s) : s[j].op = op /\ x = s[j].obj
    <3>1. 1 \in 1 .. Len(s) BY <1>1
    <3> QED BY <1>1, <3>1
  <2>3. ASSUME NEW i \in 1 .. Len(st), st[i].op = op, x = st[i].obj
        PROVE  \E j \in 1 .. Len(s) : s[j].op = op /\ x = s[j].obj
    <3>1. i + 1 \in 1 .. Len(s) BY <1>1
    <3>2. s[i + 1] = st[i] BY <1>1
    <3> QED BY <2>3, <3>1, <3>2
  <2>4. x \in Objs(s, op) <=> \E j \in 1 .. Len(s) : s[j].op = op /\ x = s[j].obj
    BY DEF Objs
  <2>5. x \in Objs(st, op) <=> \E j \in 1 .. Len(st) : st[j].op = op /\ x = st[j].obj
    BY DEF Objs
  <2>6. CASE f.op = op BY <2>1, <2>2, <2>3, <2>4, <2>5, <2>6
  <2>7. CASE f.op # op BY <2>1, <2>2, <2>3, <2>4, <2>5, <2>7
  <2> QED BY <2>6, <2>7
<1> QED BY <1>3 DEF s

\* What is being emptied and what is being purged, with one more on top.
LEMMA OffCons ==
  ASSUME NEW f \in Frames, NEW st \in Seq(Frames)
  PROVE  /\ Off(<<f>> \o st) = Off(st) \union Own(f)
         /\ Purged(<<f>> \o st) = Purged(st) \union Takes(f)
BY ObjsCons DEF Off, Purged, Own, Takes

\* Of what is below f: f takes nothing from it, and it stays in order.
Spares(d, P, f, st) == \A i \in 1 .. Len(st) : Over(d, P, f, st[i])

\* An operation that is in order and takes nothing away that the others name
\* may go on top.
LEMMA FramesCons ==
  ASSUME NEW f \in Frames, NEW st \in Seq(Frames), NEW d, NEW D, NEW so,
         FrameOk(d, D, so, f), Spares(d, Purged(<<f>> \o st), f, st),
         FramesOk(d, D, so, st), f.op = "purge" => Quiet(st)
  PROVE  FramesOk(d, D, so, <<f>> \o st)
<1> DEFINE s == <<f>> \o st
           P == Purged(s)
<1>1. /\ Len(s) = Len(st) + 1 /\ Len(st) \in Nat /\ s[1] = f
      /\ \A i \in 1 .. Len(st) : s[i + 1] = st[i]
  BY Cons
<1>2. P = Purged(st) \union Takes(f) BY OffCons
<1>3. Spares(d, P, f, st) OBVIOUS
<1> HIDE DEF s, P
<1>4. ASSUME NEW j \in 1 .. Len(s) PROVE j = 1 \/ (j - 1 \in 1 .. Len(st) /\ s[j] = st[j - 1])
  <2>1. j = 1 \/ j - 1 \in 1 .. Len(st) BY <1>1
  <2>2. j - 1 \in 1 .. Len(st) => s[(j - 1) + 1] = st[j - 1] BY <1>1
  <2>3. (j - 1) + 1 = j OBVIOUS
  <2> QED BY <2>1, <2>2, <2>3
<1>5. \A i \in 1 .. Len(s) : FrameOk(d, D, so, s[i])
  BY <1>1, <1>4 DEF FramesOk
<1>6. ASSUME NEW i \in 1 .. Len(s), NEW j \in 1 .. Len(s), i < j
      PROVE  Over(d, P, s[i], s[j])
  <2>1. j # 1 /\ j - 1 \in 1 .. Len(st) /\ s[j] = st[j - 1] BY <1>1, <1>4, <1>6
  <2>2. CASE i = 1
    BY <1>1, <1>3, <2>1, <2>2 DEF Spares
  <2>3. CASE i # 1
    <3>1. i - 1 \in 1 .. Len(st) /\ s[i] = st[i - 1] BY <1>4, <2>3
    <3>2. i - 1 < j - 1 BY <1>6
    <3>3. Over(d, Purged(st), st[i - 1], st[j - 1]) BY <2>1, <3>1, <3>2 DEF FramesOk
    <3>4. CASE f.op = "purge"
      <4>1. s[i].op # "frob" BY <3>1, <3>4 DEF Quiet, Still
      <4> QED BY <2>1, <3>1, <3>3, <4>1 DEF Over
    <3>5. CASE f.op # "purge"
      <4>1. P = Purged(st) BY <1>2, <3>5 DEF Takes
      <4> QED BY <2>1, <3>1, <3>3, <4>1
    <3> QED BY <3>4, <3>5
  <2> QED BY <2>2, <2>3
<1> QED BY <1>5, <1>6 DEF FramesOk, P, s

\* What an operation on top and those under it rely on.
LEMMA FramesUncons ==
  ASSUME NEW f \in Frames, NEW st \in Seq(Frames), NEW d, NEW D, NEW so,
         FramesOk(d, D, so, <<f>> \o st)
  PROVE  /\ FrameOk(d, D, so, f) /\ Spares(d, Purged(<<f>> \o st), f, st)
         /\ FramesOk(d, D, so, st)
<1> DEFINE s == <<f>> \o st
           P == Purged(s)
<1>1. /\ Len(s) = Len(st) + 1 /\ Len(st) \in Nat /\ s[1] = f
      /\ \A i \in 1 .. Len(st) : s[i + 1] = st[i]
  BY Cons
<1>2. Purged(st) \subseteq P BY OffCons
<1>3. FramesOk(d, D, so, s) OBVIOUS
<1> HIDE DEF s
<1>4. /\ \A i \in 1 .. Len(s) : FrameOk(d, D, so, s[i])
      /\ \A i, j \in 1 .. Len(s) : i < j => Over(d, P, s[i], s[j])
  BY <1>3 DEF FramesOk
<1> HIDE DEF P
<1>5. FrameOk(d, D, so, f)
  <2>1. 1 \in 1 .. Len(s) BY <1>1
  <2> QED BY <1>1, <1>4, <2>1
<1>6. ASSUME NEW i \in 1 .. Len(st)
      PROVE  /\ FrameOk(d, D, so, st[i]) /\ Over(d, P, f, st[i])
             /\ \A j \in 1 .. Len(st) : i < j => Over(d, P, st[i], st[j])
  <2>1. 1 \in 1 .. Len(s) /\ i + 1 \in 1 .. Len(s) /\ 1 < i + 1 BY <1>1
  <2>2. s[i + 1] = st[i] /\ s[1] = f BY <1>1
  <2>3. FrameOk(d, D, so, st[i]) BY <1>4, <2>1, <2>2
  <2>4. Over(d, P, f, st[i]) BY <1>4, <2>1, <2>2
  <2>5. ASSUME NEW j \in 1 .. Len(st), i < j PROVE Over(d, P, st[i], st[j])
    <3>1. j + 1 \in 1 .. Len(s) /\ i + 1 < j + 1 BY <1>1, <2>5
    <3>2. s[j + 1] = st[j] BY <1>1
    <3> QED BY <1>4, <2>1, <2>2, <3>1, <3>2
  <2> QED BY <2>3, <2>4, <2>5
<1>7. \A x, y : Over(d, P, x, y) => Over(d, Purged(st), x, y) BY <1>2 DEF Over
<1>8. FramesOk(d, D, so, st) BY <1>6, <1>7 DEF FramesOk
<1>9. Spares(d, P, f, st) BY <1>6 DEF Spares
<1> QED BY <1>5, <1>8, <1>9 DEF P, s

-----------------------------------------------------------------------------
(* What waits is not touched by a step that spares it.                     *)

\* What an operation names is there and is no exit.
LEMMA NamesAre ==
  ASSUME NEW d, NEW D, NEW so, NEW f \in Frames, FrameOk(d, D, so, f), NEW x \in Names(d, f)
  PROVE  \/ x \in {NOTHING, HOME}
         \/ x \in Live(d) /\ d.typ[x] # "exit"
<1>1. f.op \in Ops BY DEF Frames
<1>2. f.op \in {"prog", "put", "drop", "enter", "left", "send", "exits", "emptying",
                "frob", "purge"}
  BY <1>1 DEF Ops
<1>3. /\ \A y \in PlacesOf(d) : y \in Live(d) /\ d.typ[y] # "exit"
      /\ \A y \in Of(d, "player") \union Of(d, "thing") \union Of(d, "program") :
           y \in Live(d) /\ d.typ[y] # "exit"
      /\ \A y \in Recyclables(d) : y \in Live(d) /\ d.typ[y] # "exit"
  BY DEF PlacesOf, Live, Of, Recyclables
<1>4. f.op # "emptying" => x = f.obj \/ x = f.to BY DEF Names
<1>5. CASE f.op \in {"put", "drop"}
  BY <1>3, <1>4, <1>5 DEF FrameOk, Targets
<1>6. CASE f.op = "enter" BY <1>3, <1>4, <1>6 DEF FrameOk, Targets, Goers
<1>7. CASE f.op = "send" BY <1>3, <1>4, <1>7 DEF FrameOk, Targets
<1>8. CASE f.op \in {"prog", "left", "exits", "purge"}
  BY <1>3, <1>4, <1>8 DEF FrameOk
<1>9. CASE f.op = "frob" BY <1>3, <1>4, <1>9 DEF FrameOk
<1>10. CASE f.op = "emptying"
  <2>1. x \in {f.obj, f.to, f.cur, d.loc[f.obj]} BY <1>10 DEF Names
  <2> QED BY <1>3, <1>10, <2>1 DEF FrameOk
<1> QED BY <1>2, <1>5, <1>6, <1>7, <1>8, <1>9, <1>10

\* What f names is of its type and not recycled, and what it empties gets no
\* new contents and no new name.
FrameSpared(d, D, so, r, E, so2, f) ==
  /\ \A x \in Names(d, f) \intersect Live(d) : r.typ[x] = d.typ[x] /\ (x \in E => x \in D)
  /\ f.op = "emptying" =>
       /\ r.loc[f.obj] = d.loc[f.obj]
       /\ NoExits(r, f.obj) /\ Unnamed(r, f.obj)
       /\ Inside(r, E, so2, f.obj) \subseteq Inside(d, D, so, f.obj)

\* Nothing that f names becomes the property of a player who is purged.
OwnersSpared(d, r, st, f) ==
  \A x \in Names(d, f) \intersect Live(d) :
    r.owner[x] = d.owner[x] \/ (r.owner[x] \notin Purged(st) /\ Quiet(st))

Spared(d, D, so, r, E, so2, st) ==
  /\ 2 .. d.top \subseteq 2 .. r.top
  /\ \A i \in 1 .. Len(st) :
       FrameSpared(d, D, so, r, E, so2, st[i]) /\ OwnersSpared(d, r, st, st[i])

\* What is in an object can be counted.
LEMMA InsideFinite ==
  ASSUME NEW d, NEW D, NEW so, NEW x
  PROVE  /\ IsFiniteSet(Inside(d, D, so, x))
         /\ \A S : S \subseteq Inside(d, D, so, x) =>
              IsFiniteSet(S) /\ Cardinality(S) \in Nat
<1>1. 0 \in Int /\ MaxTop - 1 \in Int BY MaxTopAssumption
<1>2. IsFiniteSet(Obj) BY <1>1, FS_Interval DEF Obj
<1>3. Inside(d, D, so, x) \subseteq Obj BY TypesAre DEF Inside
<1> QED BY <1>2, <1>3, FS_Subset, FS_CardinalityType

\* An operation that a change spares is still in order.
LEMMA FrameStays ==
  ASSUME NEW d, NEW D, NEW so, NEW f \in Frames, FrameOk(d, D, so, f), f.op # "exits",
         NEW r, NEW E, NEW so2, FrameSpared(d, D, so, r, E, so2, f),
         2 .. d.top \subseteq 2 .. r.top
  PROVE  FrameOk(r, E, so2, f) /\ Names(r, f) = Names(d, f)
<1>1. \A x \in Names(d, f) : x \in {NOTHING, HOME} \/ x \in Live(d)
  BY NamesAre
<1>2. \A x \in Names(d, f) \intersect Live(d) :
        r.typ[x] = d.typ[x] /\ (x \in E => x \in D)
  BY DEF FrameSpared
<1>3. \A x \in Names(d, f) :
        /\ x \in PlacesOf(d) => x \in PlacesOf(r)
        /\ \A t : t \notin {"none", "garbage"} => (x \in Of(d, t) => x \in Of(r, t))
        /\ x \in Goers(d) => x \in Goers(r)
        /\ x \in Recyclables(d) => x \in Recyclables(r)
  BY <1>2 DEF PlacesOf, Of, Goers, Recyclables, Live
<1>4. \A x \in Names(d, f) : x \in Targets(d, D) => x \in Targets(r, E)
  BY <1>2, <1>3, TypesAre DEF Targets
<1>5. \A x \in Names(d, f) \intersect Live(d) : x \notin D => x \notin E
  BY <1>2
<1>6. f.obj \in Names(d, f) /\ f.to \in Names(d, f) BY DEF Names
<1>7. f.op = "emptying" =>
        /\ f.cur \in Names(d, f) /\ d.loc[f.obj] \in Names(d, f)
        /\ r.loc[f.obj] = d.loc[f.obj]
        /\ NoExits(r, f.obj) /\ Unnamed(r, f.obj)
        /\ Inside(r, E, so2, f.obj) \subseteq Inside(d, D, so, f.obj)
  BY DEF Names, FrameSpared
<1>8. Names(r, f) = Names(d, f) BY <1>7 DEF Names
<1>9. f.obj \in Goers(d) \union Of(d, "program") => f.obj \in Live(d)
  BY DEF Goers, Of, Live
<1>10. f.op \in {"put", "drop"} =>
         /\ f.obj \in (Of(r, "thing") \union Of(r, "program")) \ E
         /\ f.to \in Targets(r, E)
  BY <1>3, <1>4, <1>5, <1>6, <1>9 DEF FrameOk, Goers
<1>11. f.op = "enter" => f.obj \in Goers(r) \ E /\ f.to \in Targets(r, E)
  BY <1>3, <1>4, <1>5, <1>6, <1>9 DEF FrameOk
<1>12. f.op = "send" => /\ f.obj \in PlacesOf(r) /\ f.to \in Targets(r, E)
                        /\ f.n \in {0, 1}
  BY <1>3, <1>4, <1>6 DEF FrameOk
<1>13. /\ f.op \in {"prog", "left", "exits", "emptying", "purge"} => f.to = NOTHING
       /\ f.op = "prog" => f.obj = NOTHING
       /\ f.op = "left" => f.obj \in PlacesOf(r)
  BY <1>3, <1>6 DEF FrameOk
<1>14. f.op = "emptying" =>
         /\ f.obj \in Recyclables(r)
         /\ f.cur \in Of(r, "player") \union {NOTHING}
         /\ r.loc[f.obj] \in PlacesOf(r)
         /\ NoExits(r, f.obj) /\ Unnamed(r, f.obj)
         /\ Cardinality(Inside(r, E, so2, f.obj) \ {f.cur}) < f.n
  <2> SUFFICES ASSUME f.op = "emptying"
               PROVE  /\ f.obj \in Recyclables(r)
                      /\ f.cur \in Of(r, "player") \union {NOTHING}
                      /\ r.loc[f.obj] \in PlacesOf(r)
                      /\ NoExits(r, f.obj) /\ Unnamed(r, f.obj)
                      /\ Cardinality(Inside(r, E, so2, f.obj) \ {f.cur}) < f.n
    OBVIOUS
  <2> DEFINE S == Inside(r, E, so2, f.obj) \ {f.cur}
             T == Inside(d, D, so, f.obj) \ {f.cur}
  <2>1. S \subseteq T /\ T \subseteq Inside(d, D, so, f.obj) BY <1>7
  <2>2. IsFiniteSet(T) /\ Cardinality(T) \in Nat BY <2>1, InsideFinite
  <2>3. Cardinality(T) < f.n /\ f.n \in Nat
    BY MaxTopAssumption DEF FrameOk, Frames
  <2> HIDE DEF S, T
  <2>4. Cardinality(S) <= Cardinality(T) /\ IsFiniteSet(S) BY <2>1, <2>2, FS_Subset
  <2>5. Cardinality(S) \in Nat BY <2>4, FS_CardinalityType
  <2>6. Cardinality(S) < f.n BY <2>2, <2>3, <2>4, <2>5
  <2>7. /\ f.obj \in Recyclables(r)
        /\ f.cur \in Of(r, "player") \union {NOTHING}
        /\ r.loc[f.obj] \in PlacesOf(r)
    BY <1>3, <1>6, <1>7 DEF FrameOk
  <2> QED BY <1>7, <2>6, <2>7 DEF S
<1>15. f.op = "frob" => /\ f.obj \in Of(r, "player") \ {Man}
                        /\ f.to \in Of(r, "player") \ {f.obj}
  BY <1>3, <1>6 DEF FrameOk
<1>16. f.op = "purge" => f.obj \in Of(r, "player") \ {Man} /\ f.cur \in 2 .. r.top
  BY <1>3, <1>6 DEF FrameOk
<1>17. FrameOk(r, E, so2, f)
  BY <1>10, <1>11, <1>12, <1>13, <1>14, <1>15, <1>16 DEF FrameOk
<1> QED BY <1>8, <1>17

\* So are all that wait.
LEMMA FramesStay ==
  ASSUME NEW d, NEW D, NEW so, NEW st \in Seq(Frames), FramesOk(d, D, so, st),
         \A i \in 1 .. Len(st) : st[i].op # "exits",
         NEW r, NEW E, NEW so2, Spared(d, D, so, r, E, so2, st)
  PROVE  FramesOk(r, E, so2, st)
<1>1. \A i \in 1 .. Len(st) : st[i] \in Frames OBVIOUS
<1>2. ASSUME NEW i \in 1 .. Len(st)
      PROVE  FrameOk(r, E, so2, st[i]) /\ Names(r, st[i]) = Names(d, st[i])
  BY <1>1, FrameStays DEF FramesOk, Spared
<1>3. ASSUME NEW i \in 1 .. Len(st), NEW j \in 1 .. Len(st), i < j
      PROVE  Over(r, Purged(st), st[i], st[j])
  <2> DEFINE f == st[i]
             g == st[j]
  <2>1. Over(d, Purged(st), f, g) BY <1>3 DEF FramesOk
  <2>2. Names(r, f) = Names(d, f) /\ Names(r, g) = Names(d, g) BY <1>2
  <2>3. /\ FrameSpared(d, D, so, r, E, so2, g) /\ OwnersSpared(d, r, st, g)
        /\ FrameOk(d, D, so, g) /\ g \in Frames
    BY <1>1 DEF Spared, FramesOk
  <2>4. f.op = "purge" => f.obj \in Purged(st) BY DEF Purged, Objs
  <2>5. f.op = "frob" => ~Quiet(st) BY DEF Quiet, Still
  <2> HIDE DEF f, g
  <2>6. ASSUME NEW x \in Names(d, g) \intersect Live(r)
        PROVE  x \in Names(d, g) \intersect Live(d) /\ r.typ[x] = d.typ[x]
    <3>1. x \in Obj BY <2>6, TypesAre
    <3>2. x \in Live(d) BY <2>3, <2>6, <3>1, NamesAre, Numbers
    <3> QED BY <2>3, <2>6, <3>2 DEF FrameSpared
  <2>7. \A x \in Names(d, g) \intersect Live(d) :
          r.owner[x] = d.owner[x] \/ (r.owner[x] \notin Purged(st) /\ Quiet(st))
    BY <2>3 DEF OwnersSpared
  <2>8. f.op \in {"exits", "emptying", "frob"} => f.obj \notin Names(r, g)
    BY <2>1, <2>2 DEF Over
  <2>9. f.op = "purge" => \A x \in Names(r, g) \intersect Live(r) :
          r.owner[x] = f.obj => r.typ[x] = "player"
    BY <2>1, <2>2, <2>4, <2>6, <2>7 DEF Over
  <2>10. f.op = "frob" /\ f.to \in Purged(st) =>
           \A x \in Names(r, g) \intersect Live(r) : r.owner[x] # f.obj
    BY <2>1, <2>2, <2>5, <2>6, <2>7 DEF Over
  <2>11. Over(r, Purged(st), f, g) BY <2>8, <2>9, <2>10 DEF Over
  <2> QED BY <2>11 DEF f, g
<1> QED BY <1>2, <1>3 DEF FramesOk

-----------------------------------------------------------------------------
(* The invariant, by what is on top.                                       *)

\* No list is being taken apart.
Rests(d, D, st) == st \in Seq(Frames) /\ FramesOk(d, D, NOTHING, st) /\ Quiet(st)
Calm(d, st)     == World(d, Off(st), NOTHING, NOTHING) /\ Rests(d, Off(st), st)

\* What may wait under an operation, with one more on top.
LEMMA QuietCons ==
  ASSUME NEW f \in Frames, NEW st \in Seq(Frames)
  PROVE  /\ Quiet(st) => Under(f, st)
         /\ Quiet(<<f>> \o st) <=> Still(f) /\ Quiet(st)
         /\ Under(f, st) /\ f.op # "send" => Quiet(st)
         /\ Under(f, st) => \A i \in 1 .. Len(st) : st[i].op # "exits"
<1> DEFINE s == <<f>> \o st
<1>1. /\ Len(s) = Len(st) + 1 /\ Len(st) \in Nat /\ s[1] = f
      /\ \A i \in 1 .. Len(st) : s[i + 1] = st[i]
  BY Cons
<1> HIDE DEF s
<1>2. ASSUME NEW j \in 1 .. Len(s) PROVE j = 1 \/ (j - 1 \in 1 .. Len(st) /\ s[j] = st[j - 1])
  <2>1. j = 1 \/ j - 1 \in 1 .. Len(st) BY <1>1
  <2>2. j - 1 \in 1 .. Len(st) => s[(j - 1) + 1] = st[j - 1] BY <1>1
  <2>3. (j - 1) + 1 = j OBVIOUS
  <2> QED BY <2>1, <2>2, <2>3
<1>3. Still(f) /\ Quiet(st) => Quiet(s) BY <1>1, <1>2 DEF Quiet
<1>4. ASSUME Quiet(s) PROVE Still(f) /\ Quiet(st)
  <2>1. 1 \in 1 .. Len(s) /\ \A i \in 1 .. Len(st) : i + 1 \in 1 .. Len(s) BY <1>1
  <2>2. Still(f) BY <1>1, <1>4, <2>1 DEF Quiet
  <2>3. \A i \in 1 .. Len(st) : Still(st[i]) BY <1>1, <1>4, <2>1 DEF Quiet
  <2> QED BY <2>2, <2>3 DEF Quiet
<1>5. Quiet(st) => Under(f, st) BY DEF Quiet, Under
<1>6. Under(f, st) /\ f.op # "send" => Quiet(st) BY DEF Quiet, Under
<1>7. Under(f, st) => \A i \in 1 .. Len(st) : st[i].op # "exits" BY DEF Under, Still
<1> QED BY <1>3, <1>4, <1>5, <1>6, <1>7 DEF s

\* f on top of st.
LEMMA Closed ==
  ASSUME NEW d, NEW f \in Frames, NEW st \in Seq(Frames), NEW D, D = Off(st) \union Own(f),
         NEW c, NEW so, World(d, D, c, so), FrameOk(d, D, so, f),
         Spares(d, Purged(st) \union Takes(f), f, st), FramesOk(d, D, so, st),
         Under(f, st), f.op = "purge" => Quiet(st),
         IF f.op = "send" /\ f.n = 0 THEN c = f.cur /\ so = f.obj /\ Clear(d, so)
         ELSE c = NOTHING /\ so = NOTHING
  PROVE  Inv(d, <<f>> \o st)
<1> DEFINE s == <<f>> \o st
<1>1. s \in Seq(Frames) /\ s # <<>> /\ s[1] = f /\ Tail(s) = st BY Cons
<1>2. Off(s) = D /\ Purged(s) = Purged(st) \union Takes(f) BY OffCons
<1>3. FramesOk(d, D, so, s) BY <1>2, FramesCons
<1> HIDE DEF s
<1>4. Sending(s) <=> f.op = "send" /\ f.n = 0 BY <1>1 DEF Sending
<1>5. First(s) = c /\ Origin(s) = so BY <1>1, <1>4 DEF First, Origin
<1>6. Sending(s) => Clear(d, Origin(s)) BY <1>4, <1>5
<1>7. Inv(d, s) BY <1>1, <1>2, <1>3, <1>5, <1>6 DEF Inv
<1> QED BY <1>7 DEF s

\* f on top of st, when everything is in order.
Layered(d, D, c, so, f, st) ==
  /\ f \in Frames /\ st \in Seq(Frames)
  /\ World(d, D, c, so) /\ FrameOk(d, D, so, f)
  /\ Spares(d, Purged(st) \union Takes(f), f, st)
  /\ FramesOk(d, D, so, st) /\ Under(f, st)

\* Looking below what is on top.
LEMMA Opened ==
  ASSUME NEW d, NEW s, Inv(d, s), s # <<>>, NEW f, f = s[1], NEW st, st = Tail(s),
         NEW D, D = Off(st) \union Own(f)
  PROVE  Layered(d, D, First(s), Origin(s), f, st) /\ s = <<f>> \o st
<1>1. s \in Seq(Frames) /\ World(d, Off(s), First(s), Origin(s))
      /\ FramesOk(d, Off(s), Origin(s), s) /\ Under(f, st)
  BY DEF Inv
<1>2. f \in Frames /\ st \in Seq(Frames) /\ s = <<f>> \o st BY <1>1, Uncons
<1>3. Off(s) = D /\ Purged(s) = Purged(st) \union Takes(f) BY <1>2, OffCons
<1>4. FramesOk(d, D, Origin(s), <<f>> \o st) BY <1>1, <1>2, <1>3
<1>5. /\ FrameOk(d, D, Origin(s), f) /\ Spares(d, Purged(<<f>> \o st), f, st)
      /\ FramesOk(d, D, Origin(s), st)
  BY <1>2, <1>4, FramesUncons
<1> QED BY <1>1, <1>2, <1>3, <1>5 DEF Layered

\* f is on top, and takes no list apart.
OnTop(d, f, st) ==
  LET D == Off(st) \union Own(f) IN
  /\ f \in Frames
  /\ World(d, D, NOTHING, NOTHING) /\ FrameOk(d, D, NOTHING, f)
  /\ Spares(d, Purged(st) \union Takes(f), f, st)
  /\ Rests(d, D, st)

\* The same, when what is on top is not send_contents.
LEMMA OpenedTop ==
  ASSUME NEW d, NEW s, Inv(d, s), s # <<>>, NEW f, f = s[1], f.op # "send",
         NEW st, st = Tail(s)
  PROVE  OnTop(d, f, st)
<1> DEFINE D == Off(st) \union Own(f)
<1>1. Layered(d, D, First(s), Origin(s), f, st) BY Opened
<1>2. First(s) = NOTHING /\ Origin(s) = NOTHING BY DEF First, Origin, Sending
<1> HIDE DEF D
<1>3. Quiet(st) BY <1>1, QuietCons DEF Layered
<1> QED BY <1>1, <1>2, <1>3 DEF Layered, OnTop, Rests, D

\* The operation on top has ended, or is a program.
LEMMA TopGone ==
  ASSUME NEW d, NEW f, NEW st, OnTop(d, f, st), f.op # "emptying"
  PROVE  Calm(d, st)
<1>1. Off(st) \union Own(f) = Off(st) BY DEF Own
<1> QED BY <1>1 DEF OnTop, Calm

\* Only a @frob that waits for its send_contents is not still.
Ready(st) == \A i \in 1 .. Len(st) : Still(st[i]) \/ (i = 1 /\ st[i].op = "frob")

\* The invariant, when no list is taken apart.
LEMMA ReadyInv ==
  ASSUME NEW d, NEW st \in Seq(Frames), World(d, Off(st), NOTHING, NOTHING),
         FramesOk(d, Off(st), NOTHING, st), Ready(st)
  PROVE  Inv(d, st)
<1>1. ~Sending(st)
  <2>1. st # <<>> => 1 \in 1 .. Len(st) OBVIOUS
  <2> QED BY <2>1 DEF Sending, Ready, Still
<1>2. First(st) = NOTHING /\ Origin(st) = NOTHING BY <1>1 DEF First, Origin
<1>3. st # <<>> => Under(st[1], Tail(st))
  <2> SUFFICES ASSUME st # <<>> PROVE Under(st[1], Tail(st)) OBVIOUS
  <2>1. /\ st[1] \in Frames /\ Tail(st) \in Seq(Frames) /\ Len(st) \in Nat
        /\ Len(Tail(st)) = Len(st) - 1
    OBVIOUS
  <2>2. ASSUME NEW i \in 1 .. Len(Tail(st)) PROVE Still(Tail(st)[i])
    <3>1. i + 1 \in 1 .. Len(st) /\ i + 1 # 1 BY <2>1
    <3>2. Tail(st)[i] = st[i + 1] BY <2>1
    <3> QED BY <3>1, <3>2 DEF Ready
  <2> QED BY <2>2 DEF Under
<1> QED BY <1>1, <1>2, <1>3 DEF Inv

\* The invariant, when every operation only waits.
LEMMA CalmInv ==
  ASSUME NEW d, NEW st, Calm(d, st)
  PROVE  Inv(d, st)
BY ReadyInv DEF Calm, Rests, Quiet, Ready

\* When a program is on top, or nothing, every operation only waits.
LEMMA InvCalm ==
  ASSUME NEW d, NEW st, Inv(d, st), st # <<>> => st[1].op = "prog"
  PROVE  Calm(d, st)
<1>1. CASE st = <<>>
  <2>1. First(st) = NOTHING /\ Origin(st) = NOTHING BY <1>1 DEF First, Origin, Sending
  <2>2. Quiet(st) BY <1>1 DEF Quiet
  <2> QED BY <2>1, <2>2 DEF Inv, Calm, Rests
<1>2. CASE st # <<>>
  <2> DEFINE f == st[1]
             u == Tail(st)
  <2>1. f.op = "prog" BY <1>2
  <2>2. OnTop(d, f, u) BY <1>2, <2>1, OpenedTop
  <2>3. st \in Seq(Frames) /\ World(d, Off(st), First(st), Origin(st))
        /\ FramesOk(d, Off(st), Origin(st), st)
    BY DEF Inv
  <2>4. f \in Frames /\ u \in Seq(Frames) /\ st = <<f>> \o u BY <1>2, <2>3, Uncons
  <2>5. First(st) = NOTHING /\ Origin(st) = NOTHING BY <2>1 DEF First, Origin, Sending
  <2>6. Quiet(u) BY <2>2 DEF OnTop, Rests
  <2>7. Still(f) BY <2>1 DEF Still
  <2> HIDE DEF f, u
  <2>8. Quiet(st) BY <2>4, <2>6, <2>7, QuietCons
  <2> QED BY <2>3, <2>5, <2>8 DEF Calm, Rests
<1> QED BY <1>1, <1>2

\* One more operation, which empties nothing yet.
LEMMA PushCalm ==
  ASSUME NEW d, NEW st, Calm(d, st), NEW f \in Frames, f.op # "emptying",
         FrameOk(d, Off(st), NOTHING, f), Spares(d, Purged(st) \union Takes(f), f, st),
         f.op = "send" => f.n = 1
  PROVE  /\ Inv(d, <<f>> \o st)
         /\ Still(f) => Calm(d, <<f>> \o st)
<1> DEFINE D == Off(st)
           s == <<f>> \o st
<1>1. st \in Seq(Frames) /\ FramesOk(d, D, NOTHING, st) /\ Quiet(st)
      /\ World(d, D, NOTHING, NOTHING)
  BY DEF Calm, Rests
<1>2. D = Off(st) \union Own(f) BY DEF Own
<1>3. Under(f, st) BY <1>1, QuietCons
<1>4. s \in Seq(Frames) BY <1>1, Cons
<1>5. Off(s) = D /\ Purged(s) = Purged(st) \union Takes(f) BY <1>1, <1>2, OffCons
<1>6. Inv(d, s) BY <1>1, <1>2, <1>3, Closed
<1>7. FramesOk(d, D, NOTHING, s) BY <1>1, <1>5, FramesCons
<1>8. Still(f) => Quiet(s) BY <1>1, QuietCons
<1> HIDE DEF s
<1>9. Still(f) => Calm(d, s) BY <1>1, <1>4, <1>5, <1>7, <1>8 DEF Calm, Rests
<1> QED BY <1>6, <1>9 DEF s

\* The same below, after a step that spares it.
LEMMA RestsStay ==
  ASSUME NEW d, NEW D, NEW st, Rests(d, D, st),
         NEW r, NEW E, Spared(d, D, NOTHING, r, E, NOTHING, st)
  PROVE  Rests(r, E, st)
<1>1. \A i \in 1 .. Len(st) : st[i].op # "exits" BY DEF Rests, Quiet, Still
<1> QED BY <1>1, FramesStay DEF Rests

-----------------------------------------------------------------------------
(* Which changes of the array spare what waits.                            *)

\* What is being emptied is named by nothing and has no exits.
Emptied(d, z) ==
  /\ z \in Recyclables(d) /\ d.loc[z] \in PlacesOf(d)
  /\ NoExits(d, z) /\ Unnamed(d, z)
AllEmptied(d, D) == \A z \in D : Emptied(d, z)

\* Those of D are when the operations that wait say so.
LEMMA OffEmptied ==
  ASSUME NEW d, NEW D, NEW so, NEW st \in Seq(Frames), FramesOk(d, D, so, st)
  PROVE  /\ AllEmptied(d, Off(st))
         /\ \A z \in Off(st) : \E i \in 1 .. Len(st) :
              st[i] \in Frames /\ st[i].op = "emptying" /\ z = st[i].obj
<1>1. ASSUME NEW z \in Off(st)
      PROVE  /\ Emptied(d, z)
             /\ \E i \in 1 .. Len(st) :
                  st[i] \in Frames /\ st[i].op = "emptying" /\ z = st[i].obj
  <2>1. PICK i \in 1 .. Len(st) : st[i].op = "emptying" /\ z = st[i].obj
    BY DEF Off, Objs
  <2>2. st[i] \in Frames /\ FrameOk(d, D, so, st[i]) BY DEF FramesOk
  <2>3. Emptied(d, z) BY <2>1, <2>2 DEF FrameOk, Emptied
  <2> QED BY <2>1, <2>2, <2>3
<1> QED BY <1>1 DEF AllEmptied

\* What a step may do to an object z that is being emptied.
EmptyKept(d, D, so, r, E, so2, z) ==
  /\ r.loc[z] = d.loc[z]
  /\ NoExits(r, z) /\ Unnamed(r, z)
  /\ Inside(r, E, so2, z) \subseteq Inside(d, D, so, z)

\* ... and to an object x that one of st names.
NameKept(d, D, r, E, st, x) ==
  /\ r.typ[x] = d.typ[x] /\ (x \in E => x \in D)
  /\ r.owner[x] = d.owner[x] \/ (r.owner[x] \notin Purged(st) /\ Quiet(st))

\* What the operations of st name and is there.
Named(d, st) == {x \in Live(d) : \E i \in 1 .. Len(st) : x \in Names(d, st[i])}

\* What a change must leave alone to spare the operations that wait.
LEMMA SparedIf ==
  ASSUME NEW d, NEW D, NEW so, NEW r, NEW E, NEW so2, NEW st \in Seq(Frames),
         2 .. d.top \subseteq 2 .. r.top,
         \A x \in Named(d, st) : NameKept(d, D, r, E, st, x),
         \A z \in Off(st) : EmptyKept(d, D, so, r, E, so2, z)
  PROVE  Spared(d, D, so, r, E, so2, st)
<1>1. ASSUME NEW i \in 1 .. Len(st)
      PROVE  FrameSpared(d, D, so, r, E, so2, st[i]) /\ OwnersSpared(d, r, st, st[i])
  <2>1. \A x \in Names(d, st[i]) \intersect Live(d) : x \in Named(d, st) BY DEF Named
  <2>2. st[i].op = "emptying" => st[i].obj \in Off(st) BY DEF Off, Objs
  <2>3. st[i].op = "emptying" => EmptyKept(d, D, so, r, E, so2, st[i].obj) BY <2>2
  <2>4. \A x \in Names(d, st[i]) \intersect Live(d) : NameKept(d, D, r, E, st, x) BY <2>1
  <2>5. FrameSpared(d, D, so, r, E, so2, st[i])
    BY <2>3, <2>4 DEF FrameSpared, EmptyKept, NameKept
  <2>6. OwnersSpared(d, r, st, st[i]) BY <2>4 DEF OwnersSpared, NameKept
  <2> QED BY <2>5, <2>6
<1> QED BY <1>1 DEF Spared

\* Homes are not being recycled.
LEMMA HomesOut ==
  ASSUME NEW d, NEW D, NEW c, NEW so, World(d, D, c, so), AllEmptied(d, D),
         NEW x \in Live(d), d.typ[x] # "exit"
  PROVE  Homes(d, x) \intersect D = {}
<1>1. Base(d) /\ Refs(d, so) /\ D \subseteq Live(d) \ {Root} BY WorldIs
<1>2. RefOk(d, so, x) BY <1>1 DEF Refs
<1>3. d.owner[x] \in Of(d, "player") /\ d.owner[x] \in Live(d) BY <1>2, TypesAre DEF RefOk
<1>4. \A z \in D : z # d.owner[x] BY <1>3, TypesAre DEF AllEmptied, Emptied, Recyclables
<1>5. \A z \in D : z # Root BY <1>1
<1>6. \A z \in D : d.link[d.owner[x]] # z
  BY <1>3, TypesAre DEF AllEmptied, Emptied, Unnamed
<1>7. \A z \in D : d.typ[x] \in {"player", "thing"} => d.link[x] # z
  BY <1>2, TypesAre DEF AllEmptied, Emptied, Unnamed, RefOk
<1>8. d.typ[x] \in {"room", "player", "thing", "program"}
  <2>1. d \in DB /\ x \in Obj /\ d.typ[x] \notin {"none", "garbage"} BY <1>1, TypesAre DEF Base
  <2>2. d.typ[x] \in Types BY <2>1, DBFields
  <2> QED BY <2>1, <2>2 DEF Types
<1> QED BY <1>4, <1>5, <1>6, <1>7, <1>8 DEF Homes

\* A new object, in a place that is not being recycled.
LEMMA AddedSpares ==
  ASSUME NEW d, NEW D, NEW st, World(d, D, NOTHING, NOTHING), Rests(d, D, st), Off(st) \subseteq D,
         NEW x, NEW t, NEW at \in Obj, at \notin D, NEW l, l \notin D, NEW r,
         World(r, D, NOTHING, NOTHING), Added(d, x, t, at, l, r)
  PROVE  Spared(d, D, NOTHING, r, D, NOTHING, st)
<1>1. st \in Seq(Frames) /\ AllEmptied(d, Off(st)) BY OffEmptied DEF Rests
<1>2. d.top \in Int /\ r.top \in Int /\ r.top >= d.top
  BY WorldIs DEF DB, Added
<1>3. \A y \in Live(d) : /\ r.typ[y] = d.typ[y] /\ r.loc[y] = d.loc[y]
                         /\ r.owner[y] = d.owner[y] /\ r.link[y] = d.link[y]
                         /\ r.dests[y] = d.dests[y]
  BY DEF Added
<1>4. /\ x \in Obj /\ x \notin Live(d) /\ Live(r) = Live(d) \union {x}
      /\ r.typ[x] = t /\ r.loc[x] = at /\ r.link[x] = l /\ r.dests[x] = {}
  BY DEF Added
<1>5. \A y \in Named(d, st) : NameKept(d, D, r, D, st, y) BY <1>3 DEF Named, NameKept
<1>6. ASSUME NEW z \in Off(st) PROVE EmptyKept(d, D, NOTHING, r, D, NOTHING, z)
  <2>1. Emptied(d, z) /\ z # at /\ z # l BY <1>1, <1>6 DEF AllEmptied
  <2>2. z \in Live(d) BY <2>1, TypesAre DEF Emptied, Recyclables
  <2>3. r.loc[z] = d.loc[z] BY <1>3, <2>2
  <2>4. NoExits(r, z)
    <3> SUFFICES ASSUME NEW y \in Of(r, "exit") PROVE r.loc[y] # z BY DEF NoExits
    <3>1. y \in Live(r) BY TypesAre
    <3>2. CASE y = x BY <1>4, <2>1, <3>2
    <3>3. CASE y \in Live(d)
      <4>1. y \in Of(d, "exit") BY <1>3, <3>3, TypesAre
      <4> QED BY <1>3, <2>1, <3>3, <4>1 DEF Emptied, NoExits
    <3> QED BY <1>4, <3>1, <3>2, <3>3
  <2>5. Unnamed(r, z) BY <1>3, <1>4, <2>1 DEF Emptied, Unnamed
  <2>6. Inside(r, D, NOTHING, z) \subseteq Inside(d, D, NOTHING, z)
    BY <1>3, <1>4, <2>1 DEF Inside, At
  <2> QED BY <2>3, <2>4, <2>5, <2>6 DEF EmptyKept
<1> QED BY <1>1, <1>2, <1>5, <1>6, SparedIf

\* Another home, dropto, destination or owner.
LEMMA EditedSpares ==
  ASSUME NEW d, NEW D, NEW so, NEW st \in Seq(Frames), FramesOk(d, D, so, st),
         NEW x \in Live(d), NEW r, Edited(d, x, r), d.top \in Int,
         d.typ[x] \in {"room", "thing", "player"} => r.link[x] \notin Off(st),
         r.dests[x] \intersect Off(st) = {},
         \/ r.owner[x] = d.owner[x]
         \/ x \notin Named(d, st)
         \/ r.owner[x] \notin Purged(st) /\ Quiet(st)
  PROVE  Spared(d, D, so, r, D, so, st)
<1>1. AllEmptied(d, Off(st)) BY OffEmptied
<1>2. r.top = d.top /\ r.typ = d.typ /\ r.loc = d.loc BY DEF Edited
<1>3. Live(r) = Live(d) /\ Of(r, "exit") = Of(d, "exit") BY <1>2 DEF Live, Of
<1>4. \A y \in Obj \ {x} :
        r.owner[y] = d.owner[y] /\ r.link[y] = d.link[y] /\ r.dests[y] = d.dests[y]
  BY DEF Edited
<1>5. \A y \in Named(d, st) : NameKept(d, D, r, D, st, y)
  BY <1>2, <1>4, TypesAre DEF Named, NameKept
<1>6. ASSUME NEW z \in Off(st) PROVE EmptyKept(d, D, so, r, D, so, z)
  <2>1. Emptied(d, z) BY <1>1, <1>6 DEF AllEmptied
  <2>2. NoExits(r, z) BY <1>2, <1>3, <2>1 DEF NoExits, Emptied
  <2>3. Unnamed(r, z) BY <1>2, <1>3, <1>4, <1>6, <2>1, TypesAre DEF Unnamed, Emptied
  <2>4. Inside(r, D, so, z) = Inside(d, D, so, z) BY <1>2, <1>3 DEF Inside, At
  <2> QED BY <1>2, <2>2, <2>3, <2>4 DEF EmptyKept
<1> QED BY <1>1, <1>2, <1>5, <1>6, SparedIf

\* A move to a place that is not being recycled, or back.
LEMMA MovedSpares ==
  ASSUME NEW d, NEW D, NEW so, NEW st \in Seq(Frames), FramesOk(d, D, so, st), Off(st) \subseteq D,
         d.top \in Int, NEW x \in Live(d) \ (D \union {Root}), NEW to \in Obj,
         to \notin D \/ (d.typ[x] # "exit" /\ to = At(d, so, x)),
         NEW r, Moved(d, x, to, r)
  PROVE  Spared(d, D, so, r, D, so, st)
<1>1. AllEmptied(d, Off(st)) BY OffEmptied
<1>2. /\ r.top = d.top /\ r.typ = d.typ /\ r.owner = d.owner /\ r.link = d.link
      /\ r.dests = d.dests
      /\ \A y \in Obj : r.loc[y] = IF y = x THEN to ELSE d.loc[y]
  BY DEF Moved
<1>3. Live(r) = Live(d) /\ Of(r, "exit") = Of(d, "exit") BY <1>2 DEF Live, Of
<1>4. \A y \in Named(d, st) : NameKept(d, D, r, D, st, y) BY <1>2 DEF Named, NameKept
<1>5. ASSUME NEW z \in Off(st) PROVE EmptyKept(d, D, so, r, D, so, z)
  <2>1. Emptied(d, z) /\ z \in D /\ z \in Obj BY <1>1, <1>5, TypesAre DEF AllEmptied, Emptied, Recyclables
  <2>2. r.loc[z] = d.loc[z] BY <1>2, <2>1
  <2>3. NoExits(r, z)
    BY <1>2, <1>3, <2>1, TypesAre DEF NoExits, Emptied
  <2>4. Unnamed(r, z) BY <1>2, <1>3, <2>1 DEF Unnamed, Emptied
  <2>5. Inside(r, D, so, z) \subseteq Inside(d, D, so, z)
    <3>0. NOTHING \notin Obj BY Numbers
    <3>1. \A y \in Obj \ {x} : At(r, so, y) = At(d, so, y) BY <1>2 DEF At
    <3>2. At(r, so, x) = to BY <1>2, <3>0, TypesAre DEF At
    <3>3. At(r, so, x) = z => At(d, so, x) = z BY <2>1, <3>2
    <3> QED BY <1>2, <1>3, <3>1, <3>3, TypesAre DEF Inside
  <2> QED BY <2>2, <2>3, <2>4, <2>5 DEF EmptyKept
<1> QED BY <1>2, <1>4, <1>5, SparedIf

\* Something that no operation names goes.
LEMMA WithoutSpares ==
  ASSUME NEW d, NEW D, NEW so, NEW st \in Seq(Frames), FramesOk(d, D, so, st), Off(st) \subseteq D,
         d.top \in Int, NEW x, x \notin Named(d, st), NEW r, Without(d, x, r),
         NEW E, E \subseteq D, D \ {x} \subseteq E
  PROVE  Spared(d, D, so, r, E, so, st)
<1>1. AllEmptied(d, Off(st)) BY OffEmptied
<1>2. /\ r.top = d.top /\ Live(r) = Live(d) \ {x}
      /\ \A y \in Live(d) \ {x} :
           r.typ[y] = d.typ[y] /\ r.loc[y] = d.loc[y] /\ r.owner[y] = d.owner[y]
      /\ \A z \in Obj \ {Root} : Unnamed(d, z) => Unnamed(r, z)
  BY DEF Without
<1>3. \A y \in Named(d, st) : NameKept(d, D, r, E, st, y) BY <1>2 DEF Named, NameKept
<1>4. ASSUME NEW z \in Off(st) PROVE EmptyKept(d, D, so, r, E, so, z)
  <2>1. Emptied(d, z) /\ z \in Live(d) /\ z \in Obj \ {Root}
    BY <1>1, <1>4, TypesAre DEF AllEmptied, Emptied, Recyclables
  <2>2. z \in Named(d, st)
    <3>1. PICK i \in 1 .. Len(st) : st[i].op = "emptying" /\ z = st[i].obj
      BY OffEmptied
    <3>2. z \in Names(d, st[i]) BY <3>1 DEF Names
    <3> QED BY <2>1, <3>2 DEF Named
  <2>3. r.loc[z] = d.loc[z] BY <1>2, <2>1, <2>2
  <2>4. NoExits(r, z)
    <3> SUFFICES ASSUME NEW y \in Of(r, "exit") PROVE r.loc[y] # z BY DEF NoExits
    <3>1. y \in Live(r) BY TypesAre
    <3>2. y \in Of(d, "exit") /\ r.loc[y] = d.loc[y] BY <1>2, <3>1, TypesAre
    <3> QED BY <2>1, <3>2 DEF Emptied, NoExits
  <2>5. Unnamed(r, z) BY <1>2, <2>1 DEF Emptied
  <2>6. Inside(r, E, so, z) \subseteq Inside(d, D, so, z) BY <1>2 DEF Inside, At
  <2> QED BY <2>3, <2>4, <2>5, <2>6 DEF EmptyKept
<1> QED BY <1>2, <1>3, <1>4, SparedIf

\* The pass of recycle, over something that no operation names.
LEMMA PassedSpares ==
  ASSUME NEW d, NEW D, NEW so, NEW st \in Seq(Frames), FramesOk(d, D, so, st), Off(st) \subseteq D,
         d.top \in Int, NEW x, x \notin Named(d, st), NEW r, Passed(d, x, r)
  PROVE  Spared(d, D, so, r, D \union {x}, so, st)
<1>1. AllEmptied(d, Off(st)) BY OffEmptied
<1>2. /\ r.top = d.top /\ r.typ = d.typ /\ r.loc = d.loc
      /\ \A y \in Live(d) : r.owner[y] = d.owner[y]
      /\ \A z \in Obj \ {Root} : Unnamed(d, z) => Unnamed(r, z)
  BY DEF Passed
<1>3. Live(r) = Live(d) /\ Of(r, "exit") = Of(d, "exit") BY <1>2 DEF Live, Of
<1>4. \A y \in Named(d, st) : NameKept(d, D, r, D \union {x}, st, y)
  BY <1>2 DEF Named, NameKept
<1>5. ASSUME NEW z \in Off(st) PROVE EmptyKept(d, D, so, r, D \union {x}, so, z)
  <2>1. Emptied(d, z) /\ z \in Obj \ {Root}
    BY <1>1, <1>5, TypesAre DEF AllEmptied, Emptied, Recyclables
  <2>2. NoExits(r, z) /\ Unnamed(r, z) BY <1>2, <1>3, <2>1 DEF Emptied, NoExits
  <2>3. Inside(r, D \union {x}, so, z) \subseteq Inside(d, D, so, z)
    BY <1>2, <1>3 DEF Inside, At
  <2> QED BY <1>2, <2>2, <2>3 DEF EmptyKept
<1> QED BY <1>2, <1>4, <1>5, SparedIf

\* send_contents takes everything out, ...
LEMMA OutSpares ==
  ASSUME NEW d, NEW D, World(d, D, NOTHING, NOTHING), NEW st \in Seq(Frames),
         FramesOk(d, D, NOTHING, st), Off(st) \subseteq D,
         NEW at \in Obj, NEW r, TakenOut(d, D, at, r)
  PROVE  Spared(d, D, NOTHING, r, D, at, st)
<1>1. AllEmptied(d, Off(st)) BY OffEmptied
<1>2. d.top \in Int /\ \A y \in Live(d) \ {Root} : d.loc[y] # NOTHING
  BY WorldIs, AllBack DEF DB
<1>3. /\ r.top = d.top /\ r.typ = d.typ /\ r.owner = d.owner /\ r.link = d.link
      /\ r.dests = d.dests
      /\ \A y \in Live(d) : y # Root => At(r, at, y) = d.loc[y]
      /\ \A y \in D : r.loc[y] = d.loc[y]
  BY DEF TakenOut
<1>4. Live(r) = Live(d) /\ Of(r, "exit") = Of(d, "exit") BY <1>3 DEF Live, Of
<1>5. \A y \in Named(d, st) : NameKept(d, D, r, D, st, y) BY <1>3 DEF Named, NameKept
<1>6. ASSUME NEW z \in Off(st) PROVE EmptyKept(d, D, NOTHING, r, D, at, z)
  <2>1. Emptied(d, z) /\ z \in Obj
    BY <1>1, <1>6, TypesAre DEF AllEmptied, Emptied, Recyclables
  <2>2. NoExits(r, z)
    <3> SUFFICES ASSUME NEW y \in Of(d, "exit") PROVE r.loc[y] # z BY <1>4 DEF NoExits
    <3>1. y \in Live(d) /\ y # Root
      <4>1. d.typ[Root] = "room" BY WorldIs DEF Base
      <4> QED BY <4>1, TypesAre
    <3>2. d.loc[y] # z /\ At(r, at, y) = d.loc[y] BY <1>3, <2>1, <3>1 DEF Emptied, NoExits
    <3>3. r.loc[y] = NOTHING \/ r.loc[y] = d.loc[y] BY <3>2 DEF At
    <3>4. z # NOTHING BY <2>1, Numbers
    <3> QED BY <3>2, <3>3, <3>4
  <2>3. Unnamed(r, z) BY <1>3, <1>4, <2>1 DEF Emptied, Unnamed
  <2>4. Inside(r, D, at, z) \subseteq Inside(d, D, NOTHING, z)
    <3>1. \A y \in Live(d) \ {Root} : At(r, at, y) = At(d, NOTHING, y)
      BY <1>2, <1>3 DEF At
    <3> QED BY <1>3, <1>4, <3>1 DEF Inside
  <2> QED BY <1>3, <1>6, <2>2, <2>3, <2>4 DEF EmptyKept
<1> QED BY <1>2, <1>3, <1>5, <1>6, SparedIf

\* ... and is done when all is put back, in any order.
LEMMA BackSpares ==
  ASSUME NEW d, NEW D, NEW so, World(d, D, NOTHING, so), NEW st \in Seq(Frames),
         FramesOk(d, D, so, st), Off(st) \subseteq D, NEW at \in Obj, NEW r, Turned(d, at, r)
  PROVE  Spared(d, D, so, r, D, NOTHING, st)
<1>1. AllEmptied(d, Off(st)) BY OffEmptied
<1>2. d.top \in Int /\ \A y \in Live(d) \ {Root} : d.loc[y] # NOTHING
  BY WorldIs, AllBack DEF DB
<1>3. /\ r.top = d.top /\ r.typ = d.typ /\ r.owner = d.owner /\ r.link = d.link
      /\ r.dests = d.dests /\ r.loc = d.loc
  BY DEF Turned
<1>4. Live(r) = Live(d) /\ Of(r, "exit") = Of(d, "exit") BY <1>3 DEF Live, Of
<1>5. \A y \in Named(d, st) : NameKept(d, D, r, D, st, y) BY <1>3 DEF Named, NameKept
<1>6. ASSUME NEW z \in Off(st) PROVE EmptyKept(d, D, so, r, D, NOTHING, z)
  <2>1. Emptied(d, z) BY <1>1, <1>6 DEF AllEmptied
  <2>2. NoExits(r, z) /\ Unnamed(r, z) BY <1>3, <1>4, <2>1 DEF Emptied, NoExits, Unnamed
  <2>3. Inside(r, D, NOTHING, z) \subseteq Inside(d, D, so, z)
    BY <1>2, <1>3, <1>4 DEF Inside, At
  <2> QED BY <1>3, <2>2, <2>3 DEF EmptyKept
<1> QED BY <1>2, <1>3, <1>5, <1>6, SparedIf

\* A @frob: the victim, whom no operation names, becomes a thing.
LEMMA ToadedSpares ==
  ASSUME NEW d, NEW D, NEW st \in Seq(Frames), FramesOk(d, D, NOTHING, st), Off(st) \subseteq D,
         Quiet(st), d.top \in Int, NEW v \in Of(d, "player") \ {Man}, v \notin Named(d, st), NEW p,
         p \in Purged(st) => \A x \in Named(d, st) : d.owner[x] # v,
         d.link[v] \notin D,
         NEW r, Toaded(d, v, p, r)
  PROVE  Spared(d, D, NOTHING, r, D, NOTHING, st)
<1>1. AllEmptied(d, Off(st)) BY OffEmptied
<1>2. /\ r.top = d.top /\ r.loc = d.loc /\ r.dests = d.dests
      /\ \A y \in Obj :
           /\ r.typ[y] = IF y = v THEN "thing" ELSE d.typ[y]
           /\ r.owner[y] = IF y = v THEN Man ELSE IF d.owner[y] = v THEN p ELSE d.owner[y]
           /\ r.link[y] = IF d.typ[y] = "thing" /\ d.link[y] = v THEN Root ELSE d.link[y]
  BY DEF Toaded
<1>3. Live(r) = Live(d) /\ Of(r, "exit") = Of(d, "exit") BY <1>2 DEF Live, Of
<1>4. \A y \in Named(d, st) : NameKept(d, D, r, D, st, y)
  BY <1>2, TypesAre DEF Named, NameKept
<1>5. ASSUME NEW z \in Off(st) PROVE EmptyKept(d, D, NOTHING, r, D, NOTHING, z)
  <2>1. Emptied(d, z) /\ z # Root BY <1>1, <1>5 DEF AllEmptied, Emptied, Recyclables
  <2>2. NoExits(r, z) BY <1>2, <1>3, <2>1 DEF NoExits, Emptied
  <2>3. Unnamed(r, z)
    <3>1. v \in Obj /\ d.typ[v] = "player" /\ v \in Live(d) BY TypesAre
    <3>2. ASSUME NEW y \in Live(d)
          PROVE  /\ r.typ[y] \in {"room", "thing", "player"} => r.link[y] # z
                 /\ z \notin r.dests[y]
      <4>1. y \in Obj BY TypesAre
      <4>2. r.typ[y] \in {"room", "thing", "player"} =>
              d.typ[y] \in {"room", "thing", "player"}
        BY <1>2, <3>1, <4>1
      <4>3. r.link[y] = Root \/ r.link[y] = d.link[y] BY <1>2, <4>1
      <4> QED BY <1>2, <2>1, <4>2, <4>3 DEF Emptied, Unnamed
    <3> QED BY <1>3, <3>2 DEF Unnamed
  <2>4. Inside(r, D, NOTHING, z) \subseteq Inside(d, D, NOTHING, z)
    BY <1>2, <1>3, TypesAre DEF Inside, At
  <2> QED BY <1>2, <2>2, <2>3, <2>4 DEF EmptyKept
<1> QED BY <1>2, <1>4, <1>5, SparedIf

-----------------------------------------------------------------------------
(* Commands that change the array at once.                                 *)

\* When nothing is taken out, whatever is there names what it may.
RefNow(d, x) ==
  /\ d.owner[x] \in Of(d, "player")
  /\ x # Root => d.loc[x] \in PlacesOf(d)
  /\ d.typ[x] = "room" =>
       d.link[x] \in {NOTHING, HOME} \union Of(d, "room") \union Of(d, "thing")
  /\ d.typ[x] = "thing" => d.link[x] \in PlacesOf(d)
  /\ d.typ[x] = "player" => d.link[x] \in Of(d, "room")
  /\ d.dests[x] \subseteq Live(d) \union {HOME}

\* What objects name, when nothing is taken out.
LEMMA RefsNow ==
  ASSUME NEW d, NEW D, World(d, D, NOTHING, NOTHING)
  PROVE  \A x \in Live(d) : RefNow(d, x)
<1>1. Refs(d, NOTHING) /\ \A y \in Live(d) \ {Root} : d.loc[y] # NOTHING
  BY WorldIs, AllBack
<1> QED BY <1>1 DEF Refs, RefOk, RefNow, At

\* The parts of a state in which every operation only waits.
LEMMA CalmIs ==
  ASSUME NEW d, NEW st, Calm(d, st)
  PROVE  /\ World(d, Off(st), NOTHING, NOTHING) /\ Rests(d, Off(st), st)
         /\ st \in Seq(Frames) /\ FramesOk(d, Off(st), NOTHING, st) /\ Quiet(st)
         /\ AllEmptied(d, Off(st)) /\ d \in DB /\ d.top \in Int
<1>1. /\ World(d, Off(st), NOTHING, NOTHING) /\ Rests(d, Off(st), st)
      /\ st \in Seq(Frames) /\ FramesOk(d, Off(st), NOTHING, st) /\ Quiet(st)
  BY DEF Calm, Rests
<1>2. AllEmptied(d, Off(st)) BY <1>1, OffEmptied
<1>3. d \in DB BY <1>1, WorldIs
<1> QED BY <1>1, <1>2, <1>3 DEF DB

\* A change that spares what waits.
LEMMA CalmStays ==
  ASSUME NEW d, NEW st, Calm(d, st), NEW r, World(r, Off(st), NOTHING, NOTHING),
         Spared(d, Off(st), NOTHING, r, Off(st), NOTHING, st)
  PROVE  Calm(r, st)
BY RestsStay DEF Calm

\* What changes nothing closes no loop.
LEMMA SameAcyclic ==
  ASSUME NEW d PROVE StaysAcyclic(d, d)
BY DEF StaysAcyclic

\* Neither does what goes home, except a player.
LEMMA HomeAcyclic ==
  ASSUME NEW d, NEW D, World(d, D, NOTHING, NOTHING), NEW x \in Live(d) \ (D \union {Root}),
         d.typ[x] \notin {"exit", "player"}, NEW p \in PlacesOf(d),
         p \in Homes(d, x) \union {HOME}, p # HOME, NEW r, Moved(d, x, p, r)
  PROVE  StaysAcyclic(d, r)
<1>1. x \in Live(d) \ {Root} /\ p \in Homes(d, x) OBVIOUS
<1> DEFINE w == HOME
<1>2. p = w \/ (w = HOME /\ p \in Homes(d, x)) BY <1>1
<1>3. p = w => ~ParentLoop(d, x, w) OBVIOUS
<1> HIDE DEF w
<1> QED BY <1>1, <1>2, <1>3, MovedAcyclic

\* A new object disturbs nothing that waits.
LEMMA AddStep ==
  ASSUME NEW d, NEW st, Calm(d, st), HasRoom(d), NEW t, NEW at, NEW o \in OrNone, NEW l,
         MayMake(d, t, at, o, l), at \notin Off(st), l \notin Off(st),
         NEW list, list = IF t = "exit" THEN "exits" ELSE "contents",
         NEW r, r = PushOn(NewObject(d, t, at, o, l), list, at, NewRef(d))
  PROVE  Inv(r, st) /\ StaysAcyclic(d, r)
<1> SUFFICES ASSUME NEW x, x = NewRef(d), NEW D, D = Off(st)
             PROVE  Inv(r, st) /\ StaysAcyclic(d, r)
  OBVIOUS
<1>1. World(d, D, NOTHING, NOTHING) /\ Rests(d, D, st) BY CalmIs
<1>2. World(r, D, NOTHING, NOTHING) /\ Added(d, x, t, at, l, r) BY <1>1, AddWorld
<1>3. at \in Obj BY TypesAre DEF MayMake
<1>4. Spared(d, D, NOTHING, r, D, NOTHING, st) BY <1>1, <1>2, <1>3, AddedSpares
<1>5. Inv(r, st) BY <1>2, <1>4, CalmStays, CalmInv
<1>6. at \in PlacesOf(d) /\ (t = "thing" => l \in PlacesOf(d)) BY DEF MayMake
<1>7. StaysAcyclic(d, r) BY <1>1, <1>2, <1>6, NewAcyclic
<1> QED BY <1>5, <1>7

\* Neither does a new home, dropto, destination or owner that names nothing
\* that is being emptied and gives nothing away that is waited for.
LEMMA EditStep ==
  ASSUME NEW d, NEW st, Calm(d, st), NEW x \in Live(d), NEW r, Edited(d, x, r),
         RefOk(r, NOTHING, x),
         d.typ[x] \in {"room", "thing", "player"} => r.link[x] \notin Off(st),
         r.dests[x] \intersect Off(st) = {},
         \/ r.owner[x] = d.owner[x]
         \/ x \notin Named(d, st)
         \/ r.owner[x] \notin Purged(st)
  PROVE  Inv(r, st)
<1> DEFINE D == Off(st)
<1>1. /\ World(d, D, NOTHING, NOTHING) /\ st \in Seq(Frames) /\ FramesOk(d, D, NOTHING, st)
      /\ Quiet(st) /\ d.top \in Int
  BY CalmIs
<1>2. World(r, D, NOTHING, NOTHING) BY <1>1, EditWorld
<1>3. Spared(d, D, NOTHING, r, D, NOTHING, st) BY <1>1, EditedSpares
<1> QED BY <1>2, <1>3, CalmStays, CalmInv

\* moveto of something that is somewhere, to a place that is not being recycled.
LEMMA MoveStep ==
  ASSUME NEW d, NEW st, Calm(d, st), NEW x \in Live(d) \ (Off(st) \union {Root}),
         d.typ[x] # "exit", NEW to \in Targets(d, Off(st)),
         d.typ[x] = "player" => to # HOME
  PROVE  /\ Calm(Moveto(d, x, to), st) /\ Moveto(d, x, to).typ = d.typ
         /\ StaysAcyclic(d, Moveto(d, x, to))
<1> SUFFICES ASSUME NEW r, r = Moveto(d, x, to), NEW D, D = Off(st)
             PROVE  Calm(r, st) /\ r.typ = d.typ /\ StaysAcyclic(d, r)
  OBVIOUS
<1>1. /\ World(d, D, NOTHING, NOTHING) /\ st \in Seq(Frames) /\ FramesOk(d, D, NOTHING, st)
      /\ AllEmptied(d, D) /\ d.top \in Int
  BY CalmIs
<1>2. d.loc[x] # NOTHING BY <1>1, AllBack
<1>3. to \in PlacesOf(d) \union {HOME} BY DEF Targets
<1>4. /\ World(r, D, NOTHING, NOTHING)
      /\ \/ r = d
         \/ \E p \in PlacesOf(d) : /\ p = to \/ (to = HOME /\ p \in Homes(d, x))
                                   /\ Moved(d, x, p, r)
  BY <1>1, <1>2, <1>3, MoveWorld
<1>5. CASE r = d BY <1>5 DEF StaysAcyclic
<1>6. ASSUME NEW p \in PlacesOf(d), p = to \/ (to = HOME /\ p \in Homes(d, x)),
             Moved(d, x, p, r), r # d
      PROVE  Calm(r, st) /\ r.typ = d.typ /\ StaysAcyclic(d, r)
  <2>1. p \notin D
    <3>1. Homes(d, x) \intersect D = {} BY <1>1, HomesOut
    <3>2. HOME \notin PlacesOf(d) BY TypesAre, Numbers
    <3> QED BY <1>6, <3>1, <3>2 DEF Targets
  <2>2. p \in Obj BY TypesAre
  <2>3. Off(st) \subseteq D OBVIOUS
  <2>4. Spared(d, D, NOTHING, r, D, NOTHING, st) BY <1>1, <1>6, <2>1, <2>2, <2>3, MovedSpares
  <2>5. r.typ = d.typ BY <1>6 DEF Moved
  <2>6. ~ParentLoop(d, x, to) BY <1>6 DEF Moveto
  <2>7. StaysAcyclic(d, r) BY <1>1, <1>4, <1>6, <2>6, MovedAcyclic
  <2> QED BY <1>4, <2>4, <2>5, <2>7, CalmStays
<1> QED BY <1>4, <1>5, <1>6

\* What a command starts from.
LEMMA CommandCalm ==
  ASSUME Inv(db, stack), stack # <<>> => Top.op = "prog"
  PROVE  Calm(db, stack) /\ Dying = Off(stack)
<1>1. Calm(db, stack) BY InvCalm DEF Top
<1>2. Dying = Off(stack) BY DEF Dying, Off, Objs
<1> QED BY <1>1, <1>2

\* The names that Objects gives to objects by their types.
LEMMA ActorsAre ==
  /\ Actors = Goers(db) /\ Places = PlacesOf(db) /\ Players = Of(db, "player")
  /\ Things = Of(db, "thing")
BY DEF Actors, Goers, Places, PlacesOf, Players, Things, Of

\* What is around a place are places.
LEMMA OutwardsAre ==
  ASSUME NEW D, World(db, D, NOTHING, NOTHING), NEW x \in PlacesOf(db)
  PROVE  Outwards(x) \subseteq PlacesOf(db)
<1> DEFINE S == PlacesOf(db)
<1>1. S \in SUBSET Obj BY TypesAre
<1>2. ASSUME NEW z \in S PROVE db.loc[z] \in S \union {NOTHING}
  <2>1. z \in Live(db) BY TypesAre
  <2>2. RefNow(db, z) BY <2>1, RefsNow
  <2>3. db.loc[Root] = NOTHING BY WorldIs DEF Base
  <2> QED BY <2>2, <2>3 DEF RefNow
<1>3. db.loc[x] \in S \union {NOTHING} BY <1>2
<1> HIDE DEF S
<1>4. ASSUME NEW y \in Outwards(x) PROVE y \in S BY <1>1, <1>2, <1>3 DEF Outwards
<1> QED BY <1>4 DEF S

\* The commands and primitives that make an object.
LEMMA CreateStep ==
  ASSUME ~meddled', Calm(db, stack), Dying = Off(stack),
         \/ CreateThing \/ PrimNewObject \/ CreateProgram \/ CreateRoom
         \/ OpenExit \/ NewAction \/ CreatePlayer
  PROVE  Inv(db', stack') /\ StaysAcyclic(db, db')
<1> DEFINE D == Off(stack)
<1>1. World(db, D, NOTHING, NOTHING) /\ db \in DB BY CalmIs
<1>2. \A x \in Live(db) : RefNow(db, x) BY <1>1, RefsNow
<1>3. \A x : NotDying(x) => x \notin D BY DEF NotDying
<1>4. /\ D \subseteq Live(db) \ {Root} /\ db.typ[Root] = "room"
  BY <1>1, WorldIs DEF Base
<1>5. /\ Root \in Of(db, "room") /\ 0 \in OrNone \union {HOME} /\ NOTHING \in OrNone
      /\ NOTHING \notin D /\ 0 = Root /\ Of(db, "player") \subseteq OrNone
      /\ PlacesOf(db) \subseteq OrNone /\ NOTHING \notin PlacesOf(db)
  BY <1>4, TypesAre, Numbers DEF Root, OrNone
<1>6. \A a \in Actors :
        /\ a \in Live(db) /\ a \in PlacesOf(db) /\ a # Root /\ db.typ[a] # "room"
        /\ db.owner[a] \in Of(db, "player") /\ db.loc[a] \in PlacesOf(db)
        /\ db.link[a] \in PlacesOf(db)
  <2> SUFFICES ASSUME NEW a \in Actors
               PROVE  /\ a \in Live(db) /\ a \in PlacesOf(db) /\ a # Root
                      /\ db.typ[a] # "room"
                      /\ db.owner[a] \in Of(db, "player") /\ db.loc[a] \in PlacesOf(db)
                      /\ db.link[a] \in PlacesOf(db)
    OBVIOUS
  <2>1. a \in Live(db) /\ a \in PlacesOf(db) /\ db.typ[a] \in {"player", "thing"}
    BY ActorsAre, TypesAre DEF Goers
  <2>2. a # Root BY <1>4, <2>1
  <2> QED BY <1>2, <2>1, <2>2, TypesAre DEF RefNow
<1>7. ASSUME NEW t, NEW at, NEW o, NEW l, MayMake(db, t, at, o, l), HasRoom(db),
             o \in OrNone, at \notin D, l \notin D,
             db' = Add(t, IF t = "exit" THEN "exits" ELSE "contents", at, o, l),
             stack' = stack
      PROVE  Inv(db', stack') /\ StaysAcyclic(db, db')
  BY <1>7, AddStep DEF Add
<1> HIDE DEF D
<1>8. CASE CreateThing
  <2>1. PICK a \in Actors : \E h \in {db.loc[a], a} \ {NOTHING} :
          /\ HasRoom(db) /\ NotDying(a) /\ NotDying(h)
          /\ db' = Add("thing", "contents", a, db.owner[a], h)
          /\ stack' = stack
    BY <1>8 DEF CreateThing, Minds
  <2>2. PICK h \in {db.loc[a], a} \ {NOTHING} :
          /\ HasRoom(db) /\ NotDying(a) /\ NotDying(h)
          /\ db' = Add("thing", "contents", a, db.owner[a], h)
          /\ stack' = stack
    BY <2>1
  <2>3. MayMake(db, "thing", a, db.owner[a], h) BY <1>5, <1>6 DEF MayMake
  <2>4. db.owner[a] \in OrNone BY <1>5, <1>6
  <2> QED BY <1>3, <1>7, <2>2, <2>3, <2>4
<1>9. CASE PrimNewObject
  <2>1. PICK a \in Actors, at \in Of(db, "room") \union Players :
          \E h \in {db.loc[a], db.link[a]} \ {NOTHING} :
            /\ HasRoom(db) /\ NotDying(at) /\ NotDying(h)
            /\ db' = Add("thing", "contents", at, db.owner[a], h)
            /\ stack' = stack
    BY <1>9 DEF PrimNewObject, Minds
  <2>2. PICK h \in {db.loc[a], db.link[a]} \ {NOTHING} :
          /\ HasRoom(db) /\ NotDying(at) /\ NotDying(h)
          /\ db' = Add("thing", "contents", at, db.owner[a], h)
          /\ stack' = stack
    BY <2>1
  <2>3. at \in PlacesOf(db) BY ActorsAre, TypesAre
  <2>4. MayMake(db, "thing", at, db.owner[a], h) BY <1>5, <1>6, <2>3 DEF MayMake
  <2>5. db.owner[a] \in OrNone BY <1>5, <1>6
  <2> QED BY <1>3, <1>7, <2>2, <2>4, <2>5
<1>10. CASE CreateProgram
  <2>1. PICK a \in Actors :
          /\ HasRoom(db) /\ NotDying(a)
          /\ db' = Add("program", "contents", a, db.owner[a], 0)
          /\ stack' = stack
    BY <1>10 DEF CreateProgram, Minds
  <2>2. MayMake(db, "program", a, db.owner[a], 0) BY <1>5, <1>6 DEF MayMake
  <2>3. 0 \notin D BY <1>4, <1>5
  <2>4. db.owner[a] \in OrNone BY <1>5, <1>6
  <2> QED BY <1>3, <1>7, <2>1, <2>2, <2>3, <2>4
<1>11. CASE CreateRoom
  <2>1. PICK a \in Actors :
          \E at \in Of(db, "room") \union Things \union Outwards(db.loc[a]) \union {Root} :
            /\ HasRoom(db) /\ NotDying(at)
            /\ db' = Add("room", "contents", at, db.owner[a], NOTHING)
            /\ stack' = stack
    BY <1>11 DEF CreateRoom, Minds
  <2>2. PICK at \in Of(db, "room") \union Things \union Outwards(db.loc[a]) \union {Root} :
          /\ HasRoom(db) /\ NotDying(at)
          /\ db' = Add("room", "contents", at, db.owner[a], NOTHING)
          /\ stack' = stack
    BY <2>1
  <2>3. at \in PlacesOf(db)
    <3>1. Outwards(db.loc[a]) \subseteq PlacesOf(db) BY <1>1, <1>6, OutwardsAre
    <3> QED BY <1>5, <2>2, <3>1, ActorsAre, TypesAre
  <2>4. MayMake(db, "room", at, db.owner[a], NOTHING)
    BY <1>5, <1>6, <2>3 DEF MayMake
  <2>5. db.owner[a] \in OrNone BY <1>5, <1>6
  <2> QED BY <1>3, <1>5, <1>7, <2>2, <2>4, <2>5
<1>12. CASE OpenExit
  <2>1. PICK a \in Actors :
          /\ HasRoom(db) /\ NotDying(db.loc[a])
          /\ db' = Add("exit", "exits", db.loc[a], db.owner[a], 0)
          /\ stack' = stack
    BY <1>12 DEF OpenExit, Minds
  <2>2. MayMake(db, "exit", db.loc[a], db.owner[a], 0) BY <1>5, <1>6 DEF MayMake
  <2>3. 0 \notin D BY <1>4, <1>5
  <2>4. db.owner[a] \in OrNone BY <1>5, <1>6
  <2> QED BY <1>3, <1>7, <2>1, <2>2, <2>3, <2>4
<1>13. CASE NewAction
  <2>1. PICK a \in Actors, source \in Places :
          /\ HasRoom(db) /\ NotDying(source)
          /\ db' = Add("exit", "exits", source, db.owner[a], 0)
          /\ stack' = stack
    BY <1>13 DEF NewAction, Minds
  <2>2. MayMake(db, "exit", source, db.owner[a], 0) BY <1>5, <1>6, ActorsAre DEF MayMake
  <2>3. 0 \notin D BY <1>4, <1>5
  <2>4. db.owner[a] \in OrNone BY <1>5, <1>6
  <2> QED BY <1>3, <1>7, <2>1, <2>2, <2>3, <2>4
<1>14. CASE CreatePlayer
  <2>1. /\ HasRoom(db)
        /\ db' = Add("player", "contents", Root, NOTHING, Root)
        /\ stack' = stack
    BY <1>14 DEF CreatePlayer, Add
  <2>2. MayMake(db, "player", Root, NOTHING, Root)
    BY <1>5, TypesAre, Numbers DEF MayMake
  <2>3. Root \notin D BY <1>4
  <2> QED BY <1>5, <1>7, <2>1, <2>2, <2>3
<1> QED BY <1>8, <1>9, <1>10, <1>11, <1>12, <1>13, <1>14

\* A copy of a thing.
LEMMA CopyStep ==
  ASSUME ~meddled', Calm(db, stack), Dying = Off(stack), CopyThing
  PROVE  Inv(db', stack') /\ StaysAcyclic(db, db')
<1> DEFINE D == Off(stack)
<1>1. World(db, D, NOTHING, NOTHING) /\ Rests(db, D, stack) BY CalmIs
<1>2. PICK t \in Things, a \in Actors :
        /\ HasRoom(db) /\ NotDying(a) /\ NotDying(db.link[t])
        /\ db' = Moveto(NewObject(db, "thing", NOTHING, db.owner[t], db.link[t]),
                        NewRef(db), a)
        /\ stack' = stack
  BY DEF CopyThing, Minds
<1> HIDE DEF D
<1>3. t \in Live(db) /\ db.typ[t] = "thing" BY ActorsAre, TypesAre
<1>4. RefNow(db, t) BY <1>1, <1>3, RefsNow
<1>5. db.owner[t] \in Of(db, "player") /\ db.link[t] \in PlacesOf(db)
  BY <1>3, <1>4 DEF RefNow
<1>6. a \in PlacesOf(db) /\ a \in Obj BY ActorsAre, TypesAre DEF Goers
<1>7. a \notin D /\ db.link[t] \notin D BY <1>2 DEF NotDying, D
<1> SUFFICES ASSUME NEW r, r = db' PROVE Inv(r, stack) /\ StaysAcyclic(db, r) BY <1>2
<1>8. World(r, D, NOTHING, NOTHING) /\ Added(db, NewRef(db), "thing", a, db.link[t], r)
  BY <1>1, <1>2, <1>5, <1>6, CopyWorld
<1>9. Spared(db, D, NOTHING, r, D, NOTHING, stack)
  BY <1>1, <1>6, <1>7, <1>8, AddedSpares DEF D
<1>10. Inv(r, stack) BY <1>8, <1>9, CalmStays, CalmInv DEF D
<1>11. StaysAcyclic(db, r) BY <1>1, <1>5, <1>6, <1>8, NewAcyclic
<1> QED BY <1>10, <1>11

-----------------------------------------------------------------------------
(* Links and owners.                                                       *)

\* r is d, but x has home l, destinations ds and owner o.
Says(d, x, l, ds, o, r) ==
  Edited(d, x, r) /\ r.link[x] = l /\ r.dests[x] = ds /\ r.owner[x] = o

\* A home or dropto is set.
LEMMA LinkFields ==
  ASSUME NEW d \in DB, NEW x \in Obj, NEW l \in OrNone \union {HOME}
  PROVE  Says(d, x, l, d.dests[x], d.owner[x], [d EXCEPT !.link = [@ EXCEPT ![x] = l]])
BY DEF DB, Edited, Says

\* Destinations are set.
LEMMA DestsFields ==
  ASSUME NEW d \in DB, NEW x \in Obj, NEW ds \in SUBSET (Obj \union {HOME})
  PROVE  Says(d, x, d.link[x], ds, d.owner[x], [d EXCEPT !.dests = [@ EXCEPT ![x] = ds]])
BY DEF DB, Edited, Says

\* An owner is set.
LEMMA OwnerFields ==
  ASSUME NEW d \in DB, NEW x \in Obj, NEW o \in OrNone
  PROVE  Says(d, x, d.link[x], d.dests[x], o, [d EXCEPT !.owner = [@ EXCEPT ![x] = o]])
BY DEF DB, Edited, Says

\* Destinations and an owner are set.
LEMMA OpenedFields ==
  ASSUME NEW d \in DB, NEW x \in Obj, NEW ds \in SUBSET (Obj \union {HOME}), NEW o \in OrNone
  PROVE  Says(d, x, d.link[x], ds, o, [d EXCEPT !.dests = [@ EXCEPT ![x] = ds],
                                                !.owner = [@ EXCEPT ![x] = o]])
BY DEF DB, Edited, Says

\* x says something else, that it may say.
LEMMA SayStep ==
  ASSUME NEW d, NEW st, Calm(d, st), NEW x \in Live(d), NEW r,
         NEW l, NEW ds, NEW o, Says(d, x, l, ds, o, r),
         l = d.link[x] \/
           (/\ l \notin Off(st)
            /\ d.typ[x] = "room" =>
                 l \in {NOTHING, HOME} \union Of(d, "room") \union Of(d, "thing")
            /\ d.typ[x] = "thing" => l \in PlacesOf(d)
            /\ d.typ[x] = "player" => l \in Of(d, "room")),
         ds = d.dests[x] \/
           (/\ ds \subseteq Live(d) \union {HOME} /\ ds \intersect Off(st) = {}
            /\ d.typ[x] = "exit"),
         o = d.owner[x] \/
           (/\ o \in Of(d, "player")
            /\ x \notin Named(d, st) \/ o \notin Purged(st)),
         d.typ[x] \in {"exit", "program"} => l = d.link[x]
  PROVE  Inv(r, st)
<1> DEFINE D == Off(st)
<1>1. World(d, D, NOTHING, NOTHING) /\ AllEmptied(d, D) BY CalmIs
<1>2. RefOk(d, NOTHING, x) /\ RefNow(d, x) BY <1>1, WorldIs, RefsNow DEF Refs
<1>0. Edited(d, x, r) /\ r.link[x] = l /\ r.dests[x] = ds /\ r.owner[x] = o BY DEF Says
<1>3. r.typ = d.typ /\ r.loc = d.loc BY <1>0 DEF Edited
<1>4. /\ Live(r) = Live(d) /\ PlacesOf(r) = PlacesOf(d)
      /\ \A t : Of(r, t) = Of(d, t)
  BY <1>3 DEF Live, PlacesOf, Of
<1>5. At(r, NOTHING, x) = At(d, NOTHING, x) BY <1>3 DEF At
<1>6. RefOk(r, NOTHING, x) BY <1>0, <1>2, <1>3, <1>4, <1>5 DEF RefOk
<1>7. ds \intersect D = {} BY <1>1 DEF AllEmptied, Emptied, Unnamed
<1>8. d.typ[x] \in {"room", "thing", "player"} => d.link[x] \notin D
  BY <1>1 DEF AllEmptied, Emptied, Unnamed
<1> QED BY <1>0, <1>6, <1>7, <1>8, EditStep

\* No operation names an exit.
LEMMA ExitsUnnamed ==
  ASSUME NEW d, NEW D, NEW so, NEW st \in Seq(Frames), FramesOk(d, D, so, st)
  PROVE  \A e \in Of(d, "exit") : e \notin Named(d, st)
<1> SUFFICES ASSUME NEW e \in Named(d, st) PROVE d.typ[e] # "exit" BY TypesAre
<1>1. PICK i \in 1 .. Len(st) : e \in Names(d, st[i]) BY DEF Named
<1>2. e \in Live(d) /\ st[i] \in Frames /\ FrameOk(d, D, so, st[i]) BY DEF Named, FramesOk
<1> QED BY <1>1, <1>2, NamesAre, TypesAre, Numbers

\* What a program leaves alone is named by nothing that waits.
LEMMA LeftAlone ==
  ASSUME Dying = Off(stack), NEW x, LeavesAlone(x)
  PROVE  /\ \A i \in 1 .. Len(stack) : x \notin Names(db, stack[i])
         /\ x \notin Named(db, stack)
<1>1. ASSUME NEW i \in 1 .. Len(stack) PROVE x \notin Names(db, stack[i])
  <2>1. x \notin {stack[i].obj, stack[i].to, stack[i].cur} BY DEF LeavesAlone
  <2>2. stack[i].op = "emptying" => stack[i].obj \in Off(stack) BY DEF Off, Objs
  <2>3. stack[i].op = "emptying" => x # db.loc[stack[i].obj]
    BY <2>2 DEF LeavesAlone
  <2> QED BY <2>1, <2>3 DEF Names
<1> QED BY <1>1 DEF Named

\* The commands that link, and those that change an owner.
LEMMA LinkStep ==
  ASSUME ~meddled', Calm(db, stack), Dying = Off(stack),
         \/ LinkExit \/ LinkHome \/ LinkDropto \/ UnlinkThing \/ Chown
  PROVE  Inv(db', stack')
<1> DEFINE D == Off(stack)
<1>1. World(db, D, NOTHING, NOTHING) /\ db \in DB /\ stack \in Seq(Frames)
      /\ FramesOk(db, D, NOTHING, stack) /\ AllEmptied(db, D)
  BY CalmIs
<1>2. \A x \in Live(db) : RefNow(db, x) BY <1>1, RefsNow
<1>3. \A x : NotDying(x) => x \notin D BY DEF NotDying
<1>4. HOME \notin D BY <1>1, WorldIs, TypesAre, Numbers
<1>5. PlacesOf(db) \subseteq OrNone /\ Of(db, "player") \subseteq OrNone
      /\ Of(db, "player") \subseteq PlacesOf(db)
  BY TypesAre, Numbers DEF OrNone
<1> HIDE DEF D
<1>6. CASE LinkExit
  <2>1. PICK e \in Of(db, "exit"), a \in Actors, ds \in SUBSET (Live(db) \union {HOME}) :
          /\ \A c \in ds \ {HOME} : NotDying(c)
          /\ db' = [db EXCEPT !.dests = [@ EXCEPT ![e] = ds],
                              !.owner = [@ EXCEPT ![e] = db.owner[a]]]
          /\ stack' = stack
    BY <1>6 DEF LinkExit, Minds
  <2>2. e \in Live(db) /\ db.typ[e] = "exit" /\ e \in Obj BY TypesAre
  <2>3. a \in Live(db) BY ActorsAre, TypesAre DEF Goers
  <2>4. db.owner[a] \in Of(db, "player") BY <1>2, <2>3 DEF RefNow
  <2>5. ds \in SUBSET (Obj \union {HOME}) BY TypesAre
  <2>6. Says(db, e, db.link[e], ds, db.owner[a], db')
    BY <1>1, <1>5, <2>1, <2>2, <2>4, <2>5, OpenedFields, Numbers
  <2>7. ds \intersect D = {} BY <1>3, <1>4, <2>1
  <2>8. e \notin Named(db, stack) BY <1>1, ExitsUnnamed
  <2>9. Inv(db', stack)
    BY <2>2, <2>4, <2>6, <2>7, <2>8, SayStep DEF D
  <2> QED BY <2>1, <2>9
<1>7. CASE LinkHome
  <2>1. PICK x \in Actors, dest \in Places :
          /\ db.typ[x] = "player" => db.typ[dest] = "room"
          /\ NotDying(dest)
          /\ db' = [db EXCEPT !.link = [@ EXCEPT ![x] = dest]]
          /\ stack' = stack
    BY <1>7 DEF LinkHome, Minds
  <2>2. /\ x \in Live(db) /\ x \in Obj /\ db.typ[x] \in {"player", "thing"}
        /\ dest \in PlacesOf(db) /\ dest \in Obj
    BY ActorsAre, TypesAre DEF Goers
  <2>3. Says(db, x, dest, db.dests[x], db.owner[x], db')
    BY <1>1, <1>5, <2>1, <2>2, LinkFields, Numbers
  <2>4. dest \notin D BY <1>3, <2>1
  <2>5. db.typ[x] = "player" => dest \in Of(db, "room") BY <2>1, <2>2, TypesAre
  <2>6. Inv(db', stack) BY <2>2, <2>3, <2>4, <2>5, SayStep DEF D
  <2> QED BY <2>1, <2>6
<1>8. CASE LinkDropto
  <2>1. PICK x \in Of(db, "room"), dest \in Of(db, "room") \union Things \union {HOME} :
          /\ NotDying(dest)
          /\ db' = [db EXCEPT !.link = [@ EXCEPT ![x] = dest]]
          /\ stack' = stack
    BY <1>8 DEF LinkDropto, Minds
  <2>2. /\ x \in Live(db) /\ x \in Obj /\ db.typ[x] = "room"
        /\ dest \in {NOTHING, HOME} \union Of(db, "room") \union Of(db, "thing")
        /\ dest \in OrNone \union {HOME}
    BY ActorsAre, TypesAre DEF OrNone
  <2>3. Says(db, x, dest, db.dests[x], db.owner[x], db')
    BY <1>1, <2>1, <2>2, LinkFields, Numbers
  <2>4. dest \notin D BY <1>3, <2>1
  <2>5. Inv(db', stack) BY <2>2, <2>3, <2>4, SayStep DEF D
  <2> QED BY <2>1, <2>5
<1>9. CASE UnlinkThing
  <2>1. PICK x \in Things :
          /\ db' = [db EXCEPT !.link = [@ EXCEPT ![x] = db.owner[x]]]
          /\ stack' = stack
    BY <1>9 DEF UnlinkThing
  <2>2. x \in Live(db) /\ x \in Obj /\ db.typ[x] = "thing" BY ActorsAre, TypesAre
  <2>3. db.owner[x] \in Of(db, "player") BY <1>2, <2>2 DEF RefNow
  <2>4. Says(db, x, db.owner[x], db.dests[x], db.owner[x], db')
    BY <1>1, <1>5, <2>1, <2>2, <2>3, LinkFields, Numbers
  <2>5. db.owner[x] \notin D
    BY <1>1, <2>3, TypesAre DEF AllEmptied, Emptied, Recyclables
  <2>6. db.owner[x] \in PlacesOf(db) BY <1>5, <2>3
  <2>7. Inv(db', stack) BY <2>2, <2>4, <2>5, <2>6, SayStep DEF D
  <2> QED BY <2>1, <2>7
<1>10. CASE Chown
  <2>1. PICK x \in Live(db) \ Players, p \in Players :
          /\ MayGive(x, p)
          /\ db' = [db EXCEPT !.owner = [@ EXCEPT ![x] = p]]
          /\ stack' = stack
    BY <1>10 DEF Chown, Minds
  <2>2. x \in Obj /\ p \in Of(db, "player") BY ActorsAre, TypesAre
  <2>3. Says(db, x, db.link[x], db.dests[x], p, db')
    BY <1>1, <1>5, <2>1, <2>2, OwnerFields, Numbers
  <2>4. x \notin Named(db, stack) \/ p \notin Purged(stack)
    <3> SUFFICES ASSUME p \in Purged(stack) PROVE x \notin Named(db, stack) OBVIOUS
    <3>1. \E i \in 1 .. Len(stack) : stack[i].op = "purge" /\ stack[i].obj = p
      BY DEF Purged, Objs
    <3> QED BY <2>1, <3>1, LeftAlone DEF MayGive
  <2>5. Inv(db', stack) BY <2>2, <2>3, <2>4, SayStep DEF D
  <2> QED BY <2>1, <2>5
<1> QED BY <1>6, <1>7, <1>8, <1>9, <1>10

\* The commands that unlink, and prim_setlink.
LEMMA UnlinkStep ==
  ASSUME ~meddled', Calm(db, stack), Dying = Off(stack), Unlink \/ PrimSetLink
  PROVE  Inv(db', stack')
<1> DEFINE D == Off(stack)
<1>1. World(db, D, NOTHING, NOTHING) /\ db \in DB BY CalmIs
<1>2. \A x : NotDying(x) => x \notin D BY DEF NotDying
<1>3. /\ HOME \notin D /\ NOTHING \notin D /\ Root \notin D /\ Root \in Of(db, "room")
      /\ Live(db) \subseteq Obj /\ NOTHING \in OrNone
      /\ Of(db, "room") \subseteq PlacesOf(db) /\ Of(db, "player") \subseteq PlacesOf(db)
      /\ PlacesOf(db) \subseteq OrNone
  BY <1>1, WorldIs, TypesAre, Numbers DEF Base, OrNone
<1> HIDE DEF D
\* an exit
<1>4. ASSUME NEW x \in Live(db), db.typ[x] = "exit",
             NEW ds \in SUBSET (Live(db) \union {HOME}), ds \intersect D = {},
             db' = [db EXCEPT !.dests = [@ EXCEPT ![x] = ds]], stack' = stack
      PROVE  Inv(db', stack')
  <2>1. x \in Obj /\ ds \in SUBSET (Obj \union {HOME}) BY <1>3
  <2>2. Says(db, x, db.link[x], ds, db.owner[x], db')
    BY <1>1, <1>3, <1>4, <2>1, DestsFields
  <2> QED BY <1>4, <2>2, SayStep DEF D
\* what has a home or a dropto
<1>5. ASSUME NEW x \in Live(db), db.typ[x] \in {"room", "player", "thing"},
             NEW l \in {NOTHING} \union PlacesOf(db), l \notin D,
             db.typ[x] = "room" => l \in {NOTHING} \union Of(db, "room"),
             db.typ[x] = "player" => l \in Of(db, "room"),
             db.typ[x] = "thing" => l \in PlacesOf(db),
             db' = [db EXCEPT !.link = [@ EXCEPT ![x] = l]], stack' = stack
      PROVE  Inv(db', stack')
  <2>1. x \in Obj /\ l \in OrNone BY <1>3
  <2>2. Says(db, x, l, db.dests[x], db.owner[x], db')
    BY <1>1, <1>3, <1>5, <2>1, LinkFields
  <2> QED BY <1>5, <2>2, SayStep DEF D
<1>6. CASE Unlink
  <2>1. PICK x \in Live(db) :
        \/ db.typ[x] = "exit" /\ db' = [db EXCEPT !.dests = [@ EXCEPT ![x] = {}]]
        \/ db.typ[x] = "room" /\ db' = [db EXCEPT !.link = [@ EXCEPT ![x] = NOTHING]]
        \/ db.typ[x] = "player" /\ db' = [db EXCEPT !.link = [@ EXCEPT ![x] = Root]]
    BY <1>6 DEF Unlink
  <2>2. stack' = stack BY <1>6 DEF Unlink
  <2>3. CASE db.typ[x] = "exit"
    <3>1. db' = [db EXCEPT !.dests = [@ EXCEPT ![x] = {}]] BY <2>1, <2>3
    <3> QED BY <1>4, <2>2, <2>3, <3>1
  <2>4. CASE db.typ[x] = "room"
    <3>1. db' = [db EXCEPT !.link = [@ EXCEPT ![x] = NOTHING]] BY <2>1, <2>4
    <3> QED BY <1>3, <1>5, <2>2, <2>4, <3>1
  <2>5. CASE db.typ[x] = "player"
    <3>1. db' = [db EXCEPT !.link = [@ EXCEPT ![x] = Root]] BY <2>1, <2>5
    <3> QED BY <1>3, <1>5, <2>2, <2>5, <3>1
  <2> QED BY <2>1, <2>3, <2>4, <2>5
<1>7. CASE PrimSetLink
  <2>1. PICK x \in Live(db) \ Of(db, "program"), dest \in Live(db) \union {NOTHING} :
        /\ dest # NOTHING => NotDying(dest)
        /\ \/ /\ db.typ[x] = "exit" /\ dest = NOTHING
              /\ db' = [db EXCEPT !.dests = [@ EXCEPT ![x] = {}]]
           \/ /\ db.typ[x] = "exit" /\ dest # NOTHING /\ db.dests[x] = {} /\ ~MetaLoop(db, x, dest)
              /\ db' = [db EXCEPT !.dests = [@ EXCEPT ![x] = {dest}]]
           \/ /\ db.typ[x] = "room" /\ dest \in Of(db, "room") \union {NOTHING}
              /\ db' = [db EXCEPT !.link = [@ EXCEPT ![x] = dest]]
           \/ /\ db.typ[x] = "player" /\ dest \in Of(db, "room")
              /\ db' = [db EXCEPT !.link = [@ EXCEPT ![x] = dest]]
           \/ /\ db.typ[x] = "thing" /\ dest \in Of(db, "room") \union Players
              /\ ~ParentLoop(db, x, dest)
              /\ db' = [db EXCEPT !.link = [@ EXCEPT ![x] = dest]]
        /\ stack' = stack
    BY <1>7 DEF PrimSetLink, Minds
  <2>2. dest \notin D BY <1>2, <1>3, <2>1
  <2>3. \/ /\ db.typ[x] = "exit" /\ dest = NOTHING
           /\ db' = [db EXCEPT !.dests = [@ EXCEPT ![x] = {}]]
        \/ /\ db.typ[x] = "exit" /\ dest \in Live(db)
           /\ db' = [db EXCEPT !.dests = [@ EXCEPT ![x] = {dest}]]
        \/ /\ db.typ[x] \in {"room", "player", "thing"}
           /\ dest \in {NOTHING} \union PlacesOf(db)
           /\ db.typ[x] = "room" => dest \in {NOTHING} \union Of(db, "room")
           /\ db.typ[x] = "player" => dest \in Of(db, "room")
           /\ db.typ[x] = "thing" => dest \in PlacesOf(db)
           /\ db' = [db EXCEPT !.link = [@ EXCEPT ![x] = dest]]
    BY <1>3, <2>1, ActorsAre
  <2>4. CASE db.typ[x] = "exit" /\ db' = [db EXCEPT !.dests = [@ EXCEPT ![x] = {}]]
    <3> DEFINE ds == {}
    <3>1. ds \in SUBSET (Live(db) \union {HOME}) /\ ds \intersect D = {} OBVIOUS
    <3>2. db' = [db EXCEPT !.dests = [@ EXCEPT ![x] = ds]] BY <2>4
    <3>3. x \in Live(db) /\ db.typ[x] = "exit" /\ stack' = stack BY <2>1, <2>4
    <3> HIDE DEF ds
    <3> QED BY <1>4, <3>1, <3>2, <3>3
  <2>5. CASE db.typ[x] = "exit" /\ dest \in Live(db)
             /\ db' = [db EXCEPT !.dests = [@ EXCEPT ![x] = {dest}]]
    <3> DEFINE ds == {dest}
    <3>1. ds \in SUBSET (Live(db) \union {HOME}) /\ ds \intersect D = {} BY <2>2, <2>5
    <3>2. db' = [db EXCEPT !.dests = [@ EXCEPT ![x] = ds]] BY <2>5
    <3>3. x \in Live(db) /\ db.typ[x] = "exit" /\ stack' = stack BY <2>1, <2>5
    <3> HIDE DEF ds
    <3> QED BY <1>4, <3>1, <3>2, <3>3
  <2>6. CASE /\ db.typ[x] \in {"room", "player", "thing"}
             /\ dest \in {NOTHING} \union PlacesOf(db)
             /\ db.typ[x] = "room" => dest \in {NOTHING} \union Of(db, "room")
             /\ db.typ[x] = "player" => dest \in Of(db, "room")
             /\ db.typ[x] = "thing" => dest \in PlacesOf(db)
             /\ db' = [db EXCEPT !.link = [@ EXCEPT ![x] = dest]]
    BY <1>5, <2>1, <2>2, <2>6
  <2> QED BY <2>3, <2>4, <2>5, <2>6
<1> QED BY <1>6, <1>7

\* A home, dropto, destination or owner closes no loop, but for what @unlink of
\* a thing may do: it makes the thing's owner its home without asking.
LEMMA LinkAcyclic ==
  ASSUME ~meddled', Calm(db, stack),
         LinkExit \/ LinkHome \/ LinkDropto \/ Chown \/ Unlink \/ PrimSetLink
  PROVE  StaysAcyclic(db, db')
<1>1. db \in DB BY CalmIs
<1>2. \A x \in Live(db) : RefNow(db, x)
  <2>1. World(db, Off(stack), NOTHING, NOTHING) BY CalmIs
  <2> QED BY <2>1, RefsNow
<1>3. /\ PlacesOf(db) \subseteq OrNone /\ Of(db, "player") \subseteq OrNone
      /\ Live(db) \subseteq Obj /\ NOTHING \in OrNone
  BY TypesAre DEF OrNone
\* destinations and owners
<1>4. ASSUME NEW x \in Obj, NEW ds \in SUBSET (Obj \union {HOME}), NEW o \in OrNone,
             \/ db' = [db EXCEPT !.dests = [@ EXCEPT ![x] = ds]]
             \/ db' = [db EXCEPT !.owner = [@ EXCEPT ![x] = o]]
             \/ db' = [db EXCEPT !.dests = [@ EXCEPT ![x] = ds],
                                 !.owner = [@ EXCEPT ![x] = o]]
      PROVE  StaysAcyclic(db, db')
  <2> SUFFICES ASSUME NEW r, r = db' PROVE StaysAcyclic(db, r) OBVIOUS
  <2>1. \/ Says(db, x, db.link[x], ds, db.owner[x], r)
        \/ Says(db, x, db.link[x], db.dests[x], o, r)
        \/ Says(db, x, db.link[x], ds, o, r)
    <3>1. db' = [db EXCEPT !.dests = [@ EXCEPT ![x] = ds]] =>
          Says(db, x, db.link[x], ds, db.owner[x], r)
      BY <1>1, DestsFields
    <3>2. db' = [db EXCEPT !.owner = [@ EXCEPT ![x] = o]] =>
          Says(db, x, db.link[x], db.dests[x], o, r)
      BY <1>1, OwnerFields
    <3>3. ASSUME db' = [db EXCEPT !.dests = [@ EXCEPT ![x] = ds],
                                  !.owner = [@ EXCEPT ![x] = o]]
          PROVE  Says(db, x, db.link[x], ds, o, r)
      <4>1. Says(db, x, db.link[x], ds, o, [db EXCEPT !.dests = [@ EXCEPT ![x] = ds],
                                                      !.owner = [@ EXCEPT ![x] = o]])
        BY <1>1, OpenedFields
      <4> QED BY <3>3, <4>1
    <3> QED BY <1>4, <3>1, <3>2, <3>3
  <2>2. Edited(db, x, r) /\ r.link[x] = db.link[x] BY <2>1 DEF Says
  <2> QED BY <2>2, EditedAcyclic
\* homes and droptos
<1>5. ASSUME NEW x \in Obj, NEW l \in OrNone \union {HOME},
             db.typ[x] # "thing" \/ ~ParentLoop(db, x, l),
             db' = [db EXCEPT !.link = [@ EXCEPT ![x] = l]]
      PROVE  StaysAcyclic(db, db')
  <2>1. Edited(db, x, db') /\ db'.link[x] = l BY <1>1, <1>5, LinkFields DEF Says
  <2> QED BY <1>5, <2>1, EditedAcyclic
<1>6. CASE LinkExit
  <2>1. PICK e \in Of(db, "exit"), a \in Actors, ds \in SUBSET (Live(db) \union {HOME}) :
          db' = [db EXCEPT !.dests = [@ EXCEPT ![e] = ds],
                           !.owner = [@ EXCEPT ![e] = db.owner[a]]]
    BY <1>6 DEF LinkExit, Minds
  <2>2. e \in Obj /\ ds \in SUBSET (Obj \union {HOME}) BY <1>3, TypesAre
  <2>3. db.owner[a] \in OrNone
    <3>1. a \in Live(db) BY ActorsAre, TypesAre DEF Goers
    <3> QED BY <1>2, <1>3, <3>1 DEF RefNow
  <2> QED BY <1>4, <2>1, <2>2, <2>3
<1>7. CASE LinkHome
  <2>1. PICK x \in Actors, dest \in Places :
          /\ db.typ[x] = "thing" => ~ParentLoop(db, x, dest)
          /\ db' = [db EXCEPT !.link = [@ EXCEPT ![x] = dest]]
    BY <1>7 DEF LinkHome, Minds
  <2>2. x \in Obj /\ dest \in OrNone BY <1>3, ActorsAre, TypesAre DEF Goers
  <2> QED BY <1>5, <2>1, <2>2
<1>8. CASE LinkDropto
  <2>1. PICK x \in Of(db, "room"), dest \in Of(db, "room") \union Things \union {HOME} :
          db' = [db EXCEPT !.link = [@ EXCEPT ![x] = dest]]
    BY <1>8 DEF LinkDropto, Minds
  <2>2. x \in Obj /\ dest \in OrNone \union {HOME} /\ db.typ[x] = "room"
    BY ActorsAre, TypesAre DEF OrNone
  <2> QED BY <1>5, <2>1, <2>2
<1>9. CASE Chown
  <2>1. PICK x \in Live(db) \ Players, p \in Players :
          db' = [db EXCEPT !.owner = [@ EXCEPT ![x] = p]]
    BY <1>9 DEF Chown, Minds
  <2>2. x \in Obj /\ p \in OrNone BY <1>3, ActorsAre
  <2>3. {} \in SUBSET (Obj \union {HOME}) OBVIOUS
  <2> QED BY <1>4, <2>1, <2>2, <2>3
<1>10. CASE Unlink \/ PrimSetLink
  <2>1. PICK x \in Live(db) :
          \/ \E ds \in SUBSET (Live(db) \union {HOME}) :
               db' = [db EXCEPT !.dests = [@ EXCEPT ![x] = ds]]
          \/ \E l \in OrNone \union {HOME} :
               /\ db.typ[x] # "thing" \/ ~ParentLoop(db, x, l)
               /\ db' = [db EXCEPT !.link = [@ EXCEPT ![x] = l]]
    <3>1. CASE Unlink
      <4>1. Root \in OrNone /\ {} \in SUBSET (Live(db) \union {HOME})
        BY Numbers DEF OrNone
      <4> QED BY <1>3, <3>1, <4>1 DEF Unlink
    <3>2. CASE PrimSetLink
      <4>1. PICK x \in Live(db) \ Of(db, "program"), dest \in Live(db) \union {NOTHING} :
              \/ db' = [db EXCEPT !.dests = [@ EXCEPT ![x] = {}]]
              \/ /\ dest # NOTHING /\ db' = [db EXCEPT !.dests = [@ EXCEPT ![x] = {dest}]]
              \/ /\ db.typ[x] # "thing" \/ ~ParentLoop(db, x, dest)
                 /\ db' = [db EXCEPT !.link = [@ EXCEPT ![x] = dest]]
        BY <3>2 DEF PrimSetLink, Minds
      <4>2. /\ {} \in SUBSET (Live(db) \union {HOME}) /\ dest \in OrNone
            /\ dest # NOTHING => {dest} \in SUBSET (Live(db) \union {HOME})
        BY <1>3 DEF OrNone
      <4> QED BY <4>1, <4>2
    <3> QED BY <1>10, <3>1, <3>2
  <2>2. x \in Obj /\ SUBSET (Live(db) \union {HOME}) \subseteq SUBSET (Obj \union {HOME})
    BY <1>3
  <2>3. CASE \E ds \in SUBSET (Live(db) \union {HOME}) :
               db' = [db EXCEPT !.dests = [@ EXCEPT ![x] = ds]]
    BY <1>3, <1>4, <2>2, <2>3
  <2>4. CASE \E l \in OrNone \union {HOME} :
               /\ db.typ[x] # "thing" \/ ~ParentLoop(db, x, l)
               /\ db' = [db EXCEPT !.link = [@ EXCEPT ![x] = l]]
    BY <1>5, <2>2, <2>4
  <2> QED BY <2>1, <2>3, <2>4
<1> QED BY <1>6, <1>7, <1>8, <1>9, <1>10

-----------------------------------------------------------------------------
(* Commands that wait for programs.                                        *)

\* A frame is one, and shows its fields.
LEMMA FrameIs ==
  ASSUME NEW op \in Ops, NEW obj \in Ref, NEW to \in Ref \union {HOME},
         NEW cur \in Ref \union {MaxTop}, NEW n \in 0 .. MaxTop,
         NEW f, f = Frame(op, obj, to, cur, n)
  PROVE  /\ f \in Frames /\ f.op = op /\ f.obj = obj /\ f.to = to
         /\ f.cur = cur /\ f.n = n
BY DEF Frame, Frames

\* What is in the frame of an operation.
LEMMA PlainFrame ==
  ASSUME NEW op \in Ops, NEW obj \in Ref, NEW to \in Ref \union {HOME}, NEW n \in {0, 1},
         NEW f, f = Frame(op, obj, to, NOTHING, n)
  PROVE  f \in Frames /\ f.op = op /\ f.obj = obj /\ f.to = to /\ f.n = n
<1>1. NOTHING \in Ref \union {MaxTop} /\ n \in 0 .. MaxTop BY MaxTopAssumption DEF Ref
<1> QED BY <1>1, FrameIs

\* An operation that takes nothing away.
LEMMA EasyPush ==
  ASSUME NEW d, NEW st, Calm(d, st), NEW f \in Frames,
         f.op \in {"prog", "put", "drop", "enter", "left", "send"},
         FrameOk(d, Off(st), NOTHING, f), f.op = "send" => f.n = 1
  PROVE  Calm(d, <<f>> \o st)
<1>1. Spares(d, Purged(st) \union Takes(f), f, st) BY DEF Spares, Over
<1>2. Still(f) /\ f.op # "emptying" BY DEF Still
<1> QED BY <1>1, <1>2, PushCalm

\* A program may run on top of what waits.
LEMMA ProgPush ==
  ASSUME NEW d, NEW st, Calm(d, st)
  PROVE  Calm(d, <<Prog>> \o st) /\ Prog \in Frames
<1>1. "prog" \in Ops /\ NOTHING \in Ref /\ 0 \in {0, 1} BY DEF Ops, Ref
<1>2. Prog \in Frames /\ Prog.op = "prog" /\ Prog.obj = NOTHING /\ Prog.to = NOTHING
  BY <1>1, PlainFrame DEF Prog
<1> HIDE DEF Prog
<1>3. FrameOk(d, Off(st), NOTHING, Prog) BY <1>2 DEF FrameOk
<1> QED BY <1>2, <1>3, EasyPush

\* x is going to be put down, or to enter, at to.
LEMMA GoingPush ==
  ASSUME NEW d, NEW st, Calm(d, st), NEW op \in {"put", "drop", "enter"}, NEW x,
         op = "enter" => x \in Goers(d) \ Off(st),
         op # "enter" => x \in (Of(d, "thing") \union Of(d, "program")) \ Off(st),
         NEW to \in Targets(d, Off(st)),
         NEW f, f = Frame(op, x, to, NOTHING, 0)
  PROVE  Calm(d, <<f>> \o st) /\ f \in Frames
<1>1. x \in Ref /\ to \in Ref \union {HOME} /\ op \in Ops /\ 0 \in {0, 1}
  BY TypesAre DEF Goers, Targets, Ref, Ops
<1>2. f \in Frames /\ f.op = op /\ f.obj = x /\ f.to = to BY <1>1, PlainFrame
<1>3. FrameOk(d, Off(st), NOTHING, f) BY <1>2 DEF FrameOk
<1> QED BY <1>2, <1>3, EasyPush

\* What comes after what.
LEMMA AfterIs ==
  ASSUME NEW T, NEW p \in T, NEW f \in T, NEW st \in Seq(T)
  PROVE  /\ <<>> \o <<f>> \o st = <<f>> \o st
         /\ <<p>> \o <<f>> \o st = <<p>> \o (<<f>> \o st)
<1>1. <<>> \o <<f>> = <<f>> OBVIOUS
<1> DEFINE a == <<p>> \o <<f>> \o st
           b == <<p>> \o (<<f>> \o st)
           n == Len(st) + 2
<1>2. /\ a \in Seq(T) /\ b \in Seq(T) /\ n \in Nat /\ Len(a) = n /\ Len(b) = n
      /\ \A i \in 1 .. n : a[i] = b[i]
  <2>1. /\ <<p>> \o <<f>> \in Seq(T) /\ Len(<<p>> \o <<f>>) = 2
        /\ (<<p>> \o <<f>>)[1] = p /\ (<<p>> \o <<f>>)[2] = f
    OBVIOUS
  <2>2. /\ <<f>> \o st \in Seq(T) /\ Len(<<f>> \o st) = Len(st) + 1 /\ Len(st) \in Nat
        /\ (<<f>> \o st)[1] = f
        /\ \A i \in 1 .. Len(st) : (<<f>> \o st)[i + 1] = st[i]
    BY Cons
  <2>3. a \in Seq(T) /\ b \in Seq(T) /\ n \in Nat /\ Len(a) = n /\ Len(b) = n
    BY <2>1, <2>2
  <2>4. ASSUME NEW i \in 1 .. n PROVE a[i] = b[i]
    <3>1. a[i] = IF i <= 2 THEN (<<p>> \o <<f>>)[i] ELSE st[i - 2] BY <2>1, <2>2
    <3>2. b[i] = IF i = 1 THEN p ELSE (<<f>> \o st)[i - 1]
      <4>1. i = 1 => b[i] = p BY <2>2
      <4>2. i # 1 => i - 1 \in 1 .. Len(<<f>> \o st) /\ (i - 1) + 1 = i BY <2>2
      <4>3. \A j \in 1 .. Len(<<f>> \o st) : b[j + 1] = (<<f>> \o st)[j] BY <2>2, Cons
      <4> HIDE DEF b
      <4> QED BY <4>1, <4>2, <4>3
    <3> QED BY <2>1, <2>2, <3>1, <3>2
  <2> QED BY <2>3, <2>4
<1> HIDE DEF a, b, n
<1>3. a = b BY <1>2, SameSeq
<1> QED BY <1>1, <1>3 DEF a, b

\* The commands that move leave an operation that is in order.
LEMMA GoingStep ==
  ASSUME ~meddled', Calm(db, stack), Dying = Off(stack),
         NEW op \in {"put", "drop", "enter"}, NEW x,
         op = "enter" => x \in Goers(db),
         op # "enter" => x \in Of(db, "thing") \union Of(db, "program"),
         NEW to \in PlacesOf(db) \union {HOME},
         NEW after \in {<<>>, <<Prog>>}, Going(op, x, to, after)
  PROVE  Inv(db', stack') /\ StaysAcyclic(db, db')
<1> DEFINE f == Frame(op, x, to, NOTHING, 0)
<1>1. /\ NotDying(to) /\ NotDying(x)
      /\ stack' = after \o <<f>> \o stack /\ db' = db
  BY DEF Going, Minds
<1>2. x \notin Off(stack) /\ to \notin Off(stack) BY <1>1 DEF NotDying
<1>3. to \in Targets(db, Off(stack)) BY <1>2 DEF Targets
<1>4. Calm(db, <<f>> \o stack) /\ f \in Frames BY <1>2, <1>3, GoingPush
<1>5. stack \in Seq(Frames) BY CalmIs
<1>6. Calm(db, <<Prog>> \o (<<f>> \o stack)) /\ Prog \in Frames BY <1>4, ProgPush
<1> HIDE DEF f
<1>7. CASE after = <<>>
  <2>1. stack' = <<f>> \o stack BY <1>1, <1>4, <1>5, <1>6, <1>7, AfterIs
  <2> QED BY <1>1, <1>4, <2>1, CalmInv, SameAcyclic
<1>8. CASE after = <<Prog>>
  <2>1. stack' = <<Prog>> \o (<<f>> \o stack) BY <1>1, <1>4, <1>5, <1>6, <1>8, AfterIs
  <2> QED BY <1>1, <1>6, <2>1, CalmInv, SameAcyclic
<1> QED BY <1>7, <1>8

\* A room goes to its parent.
LEMMA RoomStep ==
  ASSUME ~meddled', Calm(db, stack), Dying = Off(stack),
         NEW r \in Of(db, "room") \ {Root}, NEW parent \in Of(db, "room"),
         NotDying(parent), NotDying(r), db' = Moveto(db, r, parent), stack' = stack
  PROVE  Inv(db', stack') /\ StaysAcyclic(db, db')
<1>1. r \notin Off(stack) /\ parent \notin Off(stack) BY DEF NotDying
<1>2. r \in Live(db) \ (Off(stack) \union {Root}) /\ db.typ[r] = "room" BY <1>1, TypesAre
<1>3. parent \in Targets(db, Off(stack)) /\ db.typ[parent] = "room"
  BY <1>1, TypesAre DEF Targets
<1>4. Calm(Moveto(db, r, parent), stack) /\ StaysAcyclic(db, Moveto(db, r, parent))
  BY <1>2, <1>3, MoveStep
<1> QED BY <1>4, CalmInv

\* Every command and primitive that moves something.
LEMMA GoStep ==
  ASSUME ~meddled', Calm(db, stack), Dying = Off(stack),
         Get \/ Drop \/ Teleport \/ PrimMoveto \/ Trigger \/ Leave
  PROVE  Inv(db', stack') /\ StaysAcyclic(db, db')
<1>1. World(db, Off(stack), NOTHING, NOTHING) BY CalmIs
<1>2. \A x \in Live(db) : RefNow(db, x) BY <1>1, RefsNow
<1>3. /\ Carried = Of(db, "thing") \union Of(db, "program")
      /\ Actors = Goers(db) /\ Places = PlacesOf(db) /\ Players \subseteq Goers(db)
      /\ Goers(db) \subseteq PlacesOf(db) /\ PlacesOf(db) \subseteq Live(db)
  BY ActorsAre, TypesAre DEF Carried, Goers
<1>4. \A a \in Goers(db) : a # Root /\ db.loc[a] \in PlacesOf(db)
  <2>1. db.typ[Root] = "room" BY <1>1, WorldIs DEF Base
  <2> QED BY <1>2, <1>3, <2>1, TypesAre DEF RefNow, Goers
<1>5. CASE Get
  <2>1. PICK x \in Carried, a \in Actors : Going("put", x, a, <<Prog>>) BY <1>5 DEF Get
  <2> QED BY <1>3, <2>1, GoingStep
<1>6. CASE Drop
  <2>1. PICK x \in Carried, to \in Places : Going("drop", x, to, <<>>) BY <1>6 DEF Drop
  <2> QED BY <1>3, <2>1, GoingStep
<1>7. CASE Teleport
  <2>1. CASE \E x \in Carried, to \in Places : Going("drop", x, to, <<>>)
    <3>1. PICK x \in Carried, to \in Places : Going("drop", x, to, <<>>)
      BY <2>1
    <3> QED BY <1>3, <3>1, GoingStep
  <2>2. CASE \E x \in Players, to \in Places : Going("enter", x, to, <<>>)
    <3>1. PICK x \in Players, to \in Places : Going("enter", x, to, <<>>)
      BY <2>2
    <3> QED BY <1>3, <3>1, GoingStep
  <2>3. CASE \E r \in Of(db, "room") \ {Root}, parent \in Of(db, "room") :
               /\ ~ParentLoop(db, r, parent) /\ Minds(NotDying(parent) /\ NotDying(r))
               /\ db' = Moveto(db, r, parent)
               /\ UNCHANGED stack
    <3>1. PICK r \in Of(db, "room") \ {Root}, parent \in Of(db, "room") :
            /\ NotDying(parent) /\ NotDying(r)
            /\ db' = Moveto(db, r, parent)
            /\ stack' = stack
      BY <2>3 DEF Minds
    <3> QED BY <3>1, RoomStep
  <2> QED BY <1>7, <2>1, <2>2, <2>3 DEF Teleport
<1>8. CASE PrimMoveto
  <2>1. CASE \E x \in Carried, to \in Places \union {HOME} : Going("put", x, to, <<>>)
    <3>1. PICK x \in Carried, to \in Places \union {HOME} : Going("put", x, to, <<>>)
      BY <2>1
    <3> QED BY <1>3, <3>1, GoingStep
  <2>2. CASE \E x \in Actors, to \in Places \union {HOME} : Going("enter", x, to, <<>>)
    <3>1. PICK x \in Actors, to \in Places \union {HOME} : Going("enter", x, to, <<>>)
      BY <2>2
    <3> QED BY <1>3, <3>1, GoingStep
  <2>3. CASE \E r \in Of(db, "room") \ {Root}, parent \in Of(db, "room") :
               /\ ~ParentLoop(db, r, parent) /\ Minds(NotDying(parent) /\ NotDying(r))
               /\ db' = Moveto(db, r, parent)
               /\ UNCHANGED stack
    <3>1. PICK r \in Of(db, "room") \ {Root}, parent \in Of(db, "room") :
            /\ NotDying(parent) /\ NotDying(r)
            /\ db' = Moveto(db, r, parent)
            /\ stack' = stack
      BY <2>3 DEF Minds
    <3> QED BY <3>1, RoomStep
  <2> QED BY <1>8, <2>1, <2>2, <2>3 DEF PrimMoveto
<1>9. CASE Trigger
  <2>1. PICK e \in Of(db, "exit"), a \in Actors : \E dd \in db.dests[e] :
        LET dest == IF dd = HOME THEN db.link[a] ELSE dd
            on   == db.loc[e]
        IN  \/ /\ db.typ[dest] = "room" \/ (db.typ[dest] = "thing" /\ dest = on)
               /\ Going("enter", a, dest, <<Prog>>)
            \/ /\ db.typ[dest] = "player" /\ db.loc[dest] # NOTHING
               /\ ~ParentLoop(db, a, dest)
               /\ Going("enter", a, db.loc[dest], <<Prog>>)
            \/ /\ db.typ[dest] = "thing" /\ on # NOTHING
               /\ Going("put", dest, IF db.typ[on] = "thing" THEN db.loc[on] ELSE on, <<>>)
    BY <1>9 DEF Trigger
  <2>2. PICK dest, on :
        /\ \E dd \in db.dests[e] : dest = IF dd = HOME THEN db.link[a] ELSE dd
        /\ on = db.loc[e]
        /\ \/ /\ db.typ[dest] = "room" \/ (db.typ[dest] = "thing" /\ dest = on)
              /\ Going("enter", a, dest, <<Prog>>)
           \/ /\ db.typ[dest] = "player" /\ db.loc[dest] # NOTHING
              /\ ~ParentLoop(db, a, dest)
              /\ Going("enter", a, db.loc[dest], <<Prog>>)
           \/ /\ db.typ[dest] = "thing" /\ on # NOTHING
              /\ Going("put", dest, IF db.typ[on] = "thing" THEN db.loc[on] ELSE on, <<>>)
    BY <2>1
  <2>3. a \in Live(db) /\ a \in Goers(db) /\ db.typ[a] \in {"player", "thing"}
    BY <1>3, TypesAre DEF Goers
  <2>4. db.link[a] \in PlacesOf(db) BY <1>2, <2>3, TypesAre DEF RefNow
  <2>5. e \in Live(db) /\ e # Root
    <3>1. db.typ[Root] = "room" BY <1>1, WorldIs DEF Base
    <3> QED BY <3>1, TypesAre
  <2>6. db.dests[e] \subseteq Live(db) \union {HOME} /\ on \in PlacesOf(db)
    BY <1>2, <2>2, <2>5 DEF RefNow
  <2>7. dest \in Live(db) /\ dest \in Obj BY <2>2, <2>4, <2>6, TypesAre
  <2>8. db.typ[on] = "thing" => db.loc[on] \in PlacesOf(db)
    BY <1>4, <2>6, TypesAre DEF Goers
  <2>9. CASE (db.typ[dest] = "room" \/ (db.typ[dest] = "thing" /\ dest = on))
             /\ Going("enter", a, dest, <<Prog>>)
    <3>1. dest \in PlacesOf(db) BY <2>7, <2>9, TypesAre
    <3> QED BY <2>3, <2>9, <3>1, GoingStep
  <2>10. CASE db.typ[dest] = "player" /\ Going("enter", a, db.loc[dest], <<Prog>>)
    <3>1. db.loc[dest] \in PlacesOf(db) BY <1>4, <2>7, <2>10, TypesAre DEF Goers
    <3> QED BY <2>3, <2>10, <3>1, GoingStep
  <2>11. CASE db.typ[dest] = "thing" /\ on # NOTHING
              /\ Going("put", dest, IF db.typ[on] = "thing" THEN db.loc[on] ELSE on, <<>>)
    <3>1. dest \in Of(db, "thing") BY <2>7, <2>11, TypesAre
    <3>2. (IF db.typ[on] = "thing" THEN db.loc[on] ELSE on) \in PlacesOf(db)
      BY <2>6, <2>8
    <3> QED BY <2>11, <3>1, <3>2, GoingStep
  <2> QED BY <2>2, <2>9, <2>10, <2>11
<1>10. CASE Leave
  <2>1. PICK a \in Actors : /\ db.loc[db.loc[a]] \in Of(db, "room") \union Things
                            /\ Going("enter", a, db.loc[db.loc[a]], <<>>)
    BY <1>10 DEF Leave
  <2>2. db.loc[db.loc[a]] \in PlacesOf(db) BY <2>1, ActorsAre, TypesAre
  <2> QED BY <1>3, <2>1, <2>2, GoingStep
<1> QED BY <1>5, <1>6, <1>7, <1>8, <1>9, <1>10

\* An exit gets another source.
LEMMA AttachStep ==
  ASSUME ~meddled', Calm(db, stack), Dying = Off(stack), Attach
  PROVE  Inv(db', stack') /\ StaysAcyclic(db, db')
<1> DEFINE D == Off(stack)
<1>1. /\ World(db, D, NOTHING, NOTHING) /\ stack \in Seq(Frames) /\ FramesOk(db, D, NOTHING, stack)
      /\ AllEmptied(db, D) /\ db.top \in Int
  BY CalmIs
<1>2. PICK e \in Of(db, "exit"), source \in Places :
        /\ NotDying(source)
        /\ db' = PushOn([RemoveFrom(db, "exits", db.loc[e], e)
                            EXCEPT !.loc = [@ EXCEPT ![e] = source]],
                        "exits", source, e)
        /\ stack' = stack
  BY DEF Attach, Minds
<1>3. source \in PlacesOf(db) /\ source \in Obj /\ source \notin D
  BY <1>2, ActorsAre, TypesAre DEF NotDying
<1>4. e \in Live(db) /\ e \notin D /\ e # Root
  <2>1. db.typ[e] = "exit" /\ e \in Live(db) BY TypesAre
  <2>2. db.typ[Root] = "room" BY <1>1, WorldIs DEF Base
  <2> QED BY <1>1, <2>1, <2>2 DEF AllEmptied, Emptied, Recyclables
<1> HIDE DEF D
<1> SUFFICES ASSUME NEW r, r = db' PROVE Inv(r, stack) /\ StaysAcyclic(db, r) BY <1>2
<1>5. World(r, D, NOTHING, NOTHING) /\ Moved(db, e, source, r)
  BY <1>1, <1>2, <1>3, <1>4, AttachWorld
<1>6. Off(stack) \subseteq D BY DEF D
<1>7. Spared(db, D, NOTHING, r, D, NOTHING, stack)
  BY <1>1, <1>3, <1>4, <1>5, <1>6, MovedSpares
<1>8. Inv(r, stack) BY <1>5, <1>7, CalmStays, CalmInv DEF D
<1>9. StaysAcyclic(db, r) BY <1>1, <1>3, <1>5, AttachAcyclic
<1> QED BY <1>8, <1>9

\* The first frame of recycle, over something that no operation names.
LEMMA RecyclePush ==
  ASSUME NEW d, NEW st, Calm(d, st), NEW x \in Recyclables(d), x \notin Off(st),
         \A i \in 1 .. Len(st) : x \notin Names(d, st[i]),
         NEW f, f = Frame("exits", x, NOTHING, d.exits[x], 0)
  PROVE  Inv(d, <<f>> \o st)
<1>1. d \in DB BY CalmIs
<1>2. x \in Ref /\ NOTHING \in Ref \union {HOME} /\ "exits" \in Ops /\ 0 \in 0 .. MaxTop
      /\ d.exits[x] \in Ref \union {MaxTop}
  BY <1>1, TypesAre, MaxTopAssumption DEF Recyclables, Ref, Ops, DB, OrNone
<1>3. f \in Frames /\ f.op = "exits" /\ f.obj = x /\ f.to = NOTHING /\ f.cur = d.exits[x]
  BY <1>2 DEF Frame, Frames
<1>4. FrameOk(d, Off(st), NOTHING, f) BY <1>3 DEF FrameOk
<1>5. Spares(d, Purged(st) \union Takes(f), f, st) BY <1>3 DEF Spares, Over
<1> QED BY <1>3, <1>4, <1>5, PushCalm

\* What no operation names.
LEMMA NamedIs ==
  ASSUME NEW d, NEW st, NEW x
  PROVE  (\A i \in 1 .. Len(st) : x \notin Names(d, st[i])) => x \notin Named(d, st)
BY DEF Named

\* @recycle and prim_recycle begin with what nothing waits for.
LEMMA RecycleStep ==
  ASSUME ~meddled', Calm(db, stack), Dying = Off(stack), Recycle \/ PrimRecycle
  PROVE  Inv(db', stack') /\ StaysAcyclic(db, db')
<1> DEFINE D == Off(stack)
<1>1. /\ World(db, D, NOTHING, NOTHING) /\ stack \in Seq(Frames) /\ FramesOk(db, D, NOTHING, stack)
      /\ AllEmptied(db, D) /\ db.top \in Int
  BY CalmIs
<1>2. PICK x \in Live(db) \ (Players \union {Root}) : LeavesAlone(x) /\ RecycleOf(x)
  BY DEF Recycle, PrimRecycle, Minds
<1>3. /\ \A i \in 1 .. Len(stack) : x \notin Names(db, stack[i])
      /\ x \notin Named(db, stack)
  BY <1>2, LeftAlone
<1>4. CASE db.typ[x] = "exit"
  <2>1. db' = RecycleExit(RemoveFrom(db, "exits", db.loc[x], x), x) /\ stack' = stack
    BY <1>2, <1>4 DEF RecycleOf
  <2>2. x \in Of(db, "exit") BY <1>4, TypesAre
  <2>3. x \notin D BY <1>1, <1>4 DEF AllEmptied, Emptied, Recyclables
  <2>4. D \subseteq D /\ D \ {x} \subseteq D /\ Off(stack) \subseteq D OBVIOUS
  <2> HIDE DEF D
  <2> SUFFICES ASSUME NEW r, r = db' PROVE Inv(r, stack) /\ StaysAcyclic(db, r) BY <2>1
  <2>5. World(r, D, NOTHING, NOTHING) /\ Without(db, x, r)
    BY <1>1, <2>1, <2>2, <2>3, TakenExitWorld
  <2>6. Spared(db, D, NOTHING, r, D, NOTHING, stack)
    BY <1>1, <1>3, <2>4, <2>5, WithoutSpares
  <2>7. Inv(r, stack) BY <2>5, <2>6, CalmStays, CalmInv DEF D
  <2>8. StaysAcyclic(db, r) BY <1>1, <2>5, WithoutAcyclic
  <2> QED BY <2>7, <2>8
<1>5. CASE db.typ[x] # "exit"
  <2>1. stack' = <<RecycleFrame(x)>> \o stack /\ db' = db
    BY <1>2, <1>5 DEF RecycleOf
  <2>2. x \in Recyclables(db)
    <3>1. x \in Obj \ {Root} /\ db.typ[x] \notin {"none", "garbage", "player", "exit"}
      BY <1>5, ActorsAre, TypesAre
    <3>2. db.typ[x] \in Types BY <1>1, <3>1, WorldIs DEF DB
    <3> QED BY <3>1, <3>2 DEF Types, Recyclables
  <2>3. x \notin D
    <3> SUFFICES ASSUME x \in D PROVE FALSE OBVIOUS
    <3>1. PICK i \in 1 .. Len(stack) : stack[i].op = "emptying" /\ x = stack[i].obj
      BY DEF Off, Objs
    <3> QED BY <1>3, <3>1 DEF Names
  <2> QED BY <1>3, <2>1, <2>2, <2>3, RecyclePush, SameAcyclic DEF RecycleFrame
<1> QED BY <1>4, <1>5

\* send_home
LEMMA SendHomeStep ==
  ASSUME ~meddled', Calm(db, stack), Dying = Off(stack), SendHome
  PROVE  Inv(db', stack')
<1>1. PICK x \in Actors, op \in {"enter", "put"} :
        /\ db.typ[x] = "player" => op = "enter"
        /\ NotDying(x)
        /\ stack' = <<Frame("send", x, HOME, NOTHING, 1),
                      Frame(op, x, HOME, NOTHING, 0)>> \o stack
        /\ db' = db
  BY DEF SendHome, Minds
<1>2. /\ x \in Goers(db) /\ x \in PlacesOf(db) /\ x \notin Off(stack) /\ x \in Ref
      /\ op = "put" => x \in Of(db, "thing")
  BY <1>1, ActorsAre, TypesAre DEF NotDying, Goers, Ref
<1> DEFINE g == Frame(op, x, HOME, NOTHING, 0)
           f == Frame("send", x, HOME, NOTHING, 1)
<1>3. HOME \in Targets(db, Off(stack)) BY DEF Targets
<1>4. Calm(db, <<g>> \o stack) /\ g \in Frames BY <1>2, <1>3, GoingPush
<1>5. f \in Frames /\ f.op = "send" /\ f.obj = x /\ f.to = HOME /\ f.n = 1
  BY <1>2, PlainFrame DEF Ops
<1>6. stack \in Seq(Frames) BY CalmIs
<1>7. stack' = <<f, g>> \o stack BY <1>1
<1> HIDE DEF f, g
<1>8. FrameOk(db, Off(<<g>> \o stack), NOTHING, f)
  BY <1>2, <1>5 DEF FrameOk, Targets
<1>9. Calm(db, <<f>> \o (<<g>> \o stack)) BY <1>4, <1>5, <1>8, EasyPush
<1>10. <<f, g>> \o stack = <<f>> \o (<<g>> \o stack) BY SMTT(30), <1>4, <1>5, <1>6, Two
<1> QED BY <1>1, <1>7, <1>9, <1>10, CalmInv

\* do_frob waits for send_contents.
LEMMA FrobStep ==
  ASSUME ~meddled', Calm(db, stack), Dying = Off(stack), Frob
  PROVE  Inv(db', stack')
<1> DEFINE D == Off(stack)
<1>1. /\ World(db, D, NOTHING, NOTHING) /\ stack \in Seq(Frames) /\ FramesOk(db, D, NOTHING, stack)
      /\ Quiet(stack)
  BY CalmIs
<1>2. PICK victim \in Players \ {Man}, recipient \in Players :
        /\ recipient # victim /\ LeavesAlone(victim)
        /\ \A x \in Live(db) : db.owner[x] = victim => MayGive(x, recipient)
        /\ stack' = <<Frame("send", Man, HOME, NOTHING, 1),
                      Frame("frob", victim, recipient, NOTHING, 0)>> \o stack
        /\ db' = db
  BY DEF Frob, Minds
<1>3. victim \in Ref /\ recipient \in Ref /\ Man \in Ref /\ Man \in PlacesOf(db)
      /\ victim \in Of(db, "player") /\ recipient \in Of(db, "player")
  <2>1. db.typ[Man] = "player" BY <1>1, WorldIs DEF Base
  <2> QED BY <2>1, ActorsAre, TypesAre, Numbers DEF Ref
<1> DEFINE g == Frame("frob", victim, recipient, NOTHING, 0)
           f == Frame("send", Man, HOME, NOTHING, 1)
<1>4. g \in Frames /\ g.op = "frob" /\ g.obj = victim /\ g.to = recipient
  BY <1>3, PlainFrame DEF Ops
<1>5. f \in Frames /\ f.op = "send" /\ f.obj = Man /\ f.to = HOME /\ f.n = 1
  BY <1>3, PlainFrame DEF Ops
<1>6. stack' = <<f, g>> \o stack BY <1>2
<1> HIDE DEF f, g
<1>7. FrameOk(db, D, NOTHING, g) BY <1>2, <1>3, <1>4 DEF FrameOk
<1>8. ASSUME NEW i \in 1 .. Len(stack)
      PROVE  Over(db, Purged(stack), g, stack[i])
  <2>1. victim \notin Names(db, stack[i]) BY <1>2, LeftAlone
  <2>2. ASSUME recipient \in Purged(stack), NEW x \in Names(db, stack[i]) \intersect Live(db)
        PROVE  db.owner[x] # victim
    <3> SUFFICES ASSUME db.owner[x] = victim PROVE FALSE OBVIOUS
    <3>1. \E j \in 1 .. Len(stack) : stack[j].op = "purge" /\ stack[j].obj = recipient
      BY <2>2 DEF Purged, Objs
    <3>2. LeavesAlone(x) BY <1>2, <3>1 DEF MayGive
    <3> QED BY <3>2, LeftAlone
  <2> QED BY <1>4, <2>1, <2>2 DEF Over
<1>9. Purged(<<g>> \o stack) = Purged(stack) /\ Off(<<g>> \o stack) = D
  BY <1>1, <1>4, OffCons DEF Takes, Own
<1>10. Spares(db, Purged(<<g>> \o stack), g, stack) BY <1>8, <1>9 DEF Spares
<1>11. FramesOk(db, D, NOTHING, <<g>> \o stack) BY <1>1, <1>4, <1>7, <1>10, FramesCons
<1> DEFINE s == <<g>> \o stack
<1>12. /\ Len(s) = Len(stack) + 1 /\ Len(stack) \in Nat /\ s[1] = g /\ s \in Seq(Frames)
       /\ \A i \in 1 .. Len(stack) : s[i + 1] = stack[i]
  BY <1>1, <1>4, Cons
<1> HIDE DEF s
<1>13. Under(f, s)
  <2>1. ASSUME NEW j \in 1 .. Len(s) PROVE Still(s[j]) \/ (j = 1 /\ s[j].op = "frob")
    <3>1. j # 1 => j - 1 \in 1 .. Len(stack) /\ (j - 1) + 1 = j BY <1>12
    <3>2. j # 1 => s[j] = stack[j - 1] BY <1>12, <3>1
    <3> QED BY <1>1, <1>4, <1>12, <3>1, <3>2 DEF Quiet
  <2> QED BY <1>5, <2>1 DEF Under
<1>14. FrameOk(db, D, NOTHING, f) BY <1>3, <1>5 DEF FrameOk, Targets
<1>15. Spares(db, Purged(s) \union Takes(f), f, s) BY <1>5 DEF Spares, Over
<1>16. D = Off(s) \union Own(f) BY <1>5, <1>9 DEF Own, s
<1>17. FramesOk(db, D, NOTHING, s) BY <1>11 DEF s
<1> HIDE DEF D
<1>18. Inv(db, <<f>> \o s)
  BY <1>1, <1>5, <1>12, <1>13, <1>14, <1>15, <1>16, <1>17, Closed
<1>19. <<f, g>> \o stack = <<f>> \o (<<g>> \o stack) BY SMTT(30), <1>1, <1>4, <1>5, Two
<1> QED BY <1>2, <1>6, <1>18, <1>19 DEF s

\* do_purge
LEMMA PurgeStep ==
  ASSUME ~meddled', Calm(db, stack), Dying = Off(stack), Purge
  PROVE  Inv(db', stack')
<1> DEFINE D == Off(stack)
<1>1. /\ World(db, D, NOTHING, NOTHING) /\ stack \in Seq(Frames) /\ db \in DB
  BY CalmIs
<1>2. PICK victim \in Players \ {Man} :
        /\ \A x \in Live(db) \ Players : db.owner[x] = victim => LeavesAlone(x)
        /\ stack' = <<Frame("purge", victim, NOTHING, 2, 0)>> \o stack
        /\ db' = db
  BY DEF Purge, Minds
<1> DEFINE f == Frame("purge", victim, NOTHING, 2, 0)
<1>3. /\ victim \in Of(db, "player") \ {Man} /\ victim \in Ref
      /\ 2 \in Ref \union {MaxTop} /\ NOTHING \in Ref \union {HOME} /\ 0 \in 0 .. MaxTop
      /\ 2 \in 2 .. db.top
  BY <1>1, <1>2, ActorsAre, TypesAre, MaxTopAssumption DEF Ref, Obj, DB
<1>4. /\ f \in Frames /\ f.op = "purge" /\ f.obj = victim /\ f.to = NOTHING
      /\ f.cur = 2
  <2>1. "purge" \in Ops BY DEF Ops
  <2> QED BY <1>3, <2>1, FrameIs
<1> HIDE DEF f
<1>5. FrameOk(db, D, NOTHING, f) BY <1>3, <1>4 DEF FrameOk
<1>6. ASSUME NEW i \in 1 .. Len(stack), NEW P
      PROVE  Over(db, P, f, stack[i])
  <2>1. ASSUME NEW x \in Names(db, stack[i]) \intersect Live(db), db.owner[x] = victim
        PROVE  db.typ[x] = "player"
    <3> SUFFICES ASSUME db.typ[x] # "player" PROVE FALSE OBVIOUS
    <3>1. x \in Live(db) \ Players BY ActorsAre, TypesAre
    <3>2. LeavesAlone(x) BY <1>2, <2>1, <3>1
    <3> QED BY <3>2, LeftAlone
  <2> QED BY <1>4, <2>1 DEF Over
<1>7. Spares(db, Purged(stack) \union Takes(f), f, stack) BY <1>6 DEF Spares
<1>8. Inv(db, <<f>> \o stack) BY <1>4, <1>5, <1>7, PushCalm
<1> QED BY <1>2, <1>8 DEF f

-----------------------------------------------------------------------------
(* Operations that go on.                                                  *)

\* The operation that goes on, and those under it.
LEMMA HandlerTop ==
  ASSUME Inv(db, stack), NEW op, op # "send", Handle(op)
  PROVE  OnTop(db, Top, Rest) /\ Top.op = op
<1>1. stack # <<>> /\ Top.op = op BY DEF Handle
<1> QED BY <1>1, OpenedTop DEF Top, Rest

\* The parts of that.
LEMMA OnTopIs ==
  ASSUME NEW d, NEW f, NEW st, OnTop(d, f, st), NEW D, D = Off(st) \union Own(f)
  PROVE  /\ f \in Frames /\ st \in Seq(Frames)
         /\ World(d, D, NOTHING, NOTHING) /\ FrameOk(d, D, NOTHING, f)
         /\ Spares(d, Purged(st) \union Takes(f), f, st)
         /\ Rests(d, D, st) /\ FramesOk(d, D, NOTHING, st) /\ Quiet(st)
         /\ d \in DB /\ d.top \in Int /\ AllEmptied(d, Off(st)) /\ Off(st) \subseteq D
         /\ f.op # "emptying" => D = Off(st)
<1>1. /\ f \in Frames /\ World(d, D, NOTHING, NOTHING) /\ FrameOk(d, D, NOTHING, f)
      /\ Spares(d, Purged(st) \union Takes(f), f, st)
      /\ Rests(d, D, st)
  BY DEF OnTop
<1>2. st \in Seq(Frames) /\ FramesOk(d, D, NOTHING, st) /\ Quiet(st) BY <1>1 DEF Rests
<1>3. d \in DB BY <1>1, WorldIs
<1>4. AllEmptied(d, Off(st)) BY <1>2, OffEmptied
<1> QED BY <1>1, <1>2, <1>3, <1>4 DEF DB, Own

\* An operation on top that is not send_contents at work.
LEMMA TopInv ==
  ASSUME NEW d, NEW f, NEW st, OnTop(d, f, st), f.op = "send" => f.n = 1
  PROVE  Inv(d, <<f>> \o st) /\ (Still(f) => Calm(d, <<f>> \o st))
<1> DEFINE D == Off(st) \union Own(f)
           s == <<f>> \o st
<1>1. /\ f \in Frames /\ st \in Seq(Frames)
      /\ World(d, D, NOTHING, NOTHING) /\ FrameOk(d, D, NOTHING, f)
      /\ Spares(d, Purged(st) \union Takes(f), f, st)
      /\ FramesOk(d, D, NOTHING, st) /\ Quiet(st)
  BY OnTopIs
<1>2. Under(f, st) BY <1>1, QuietCons
<1>3. D = Off(st) \union Own(f) OBVIOUS
<1>4. Off(s) = D /\ Purged(s) = Purged(st) \union Takes(f) /\ s \in Seq(Frames)
  BY <1>1, OffCons, Cons
<1> HIDE DEF D
<1>5. Inv(d, s) BY <1>1, <1>2, <1>3, Closed
<1>6. FramesOk(d, D, NOTHING, s) BY <1>1, <1>4, FramesCons
<1>7. Still(f) => Quiet(s) BY <1>1, QuietCons
<1> HIDE DEF s
<1>8. Still(f) => Calm(d, s) BY <1>1, <1>4, <1>6, <1>7 DEF Calm, Rests
<1> QED BY <1>5, <1>8 DEF s

\* The move itself.
LEMMA PutDownStep ==
  ASSUME Inv(db, stack), PutDown
  PROVE  Inv(db', stack') /\ StaysAcyclic(db, db')
<1> DEFINE f == Top
           st == Rest
           D == Off(st)
<1>1. OnTop(db, f, st) /\ f.op \in {"put", "drop"}
  BY HandlerTop DEF PutDown
<1>2. PICK to \in {f.to} \union
            (IF f.op = "drop" /\ f.to # HOME /\ db.typ[f.to] = "room" /\ db.link[f.to] # NOTHING
             THEN {db.link[f.to]} ELSE {}) : db' = Moveto(db, f.obj, to)
  BY DEF PutDown
<1>3. stack' = st BY DEF PutDown
<1>4. Calm(db, st) BY <1>1, TopGone
<1> HIDE DEF f, st
<1>5. /\ World(db, D, NOTHING, NOTHING) /\ FrameOk(db, D, NOTHING, f) /\ AllEmptied(db, D)
  BY <1>1, OnTopIs
<1>6. /\ f.obj \in (Of(db, "thing") \union Of(db, "program")) \ D
      /\ f.to \in Targets(db, D)
  BY <1>1, <1>5 DEF FrameOk
<1>7. to \in Targets(db, D)
  <2> SUFFICES ASSUME f.to # HOME, db.typ[f.to] = "room", db.link[f.to] # NOTHING
               PROVE  db.link[f.to] \in Targets(db, D)
    BY <1>2, <1>6
  <2>1. f.to \in Live(db) BY <1>6, TypesAre DEF Targets
  <2>2. RefNow(db, f.to) BY <1>5, <2>1, RefsNow
  <2>3. db.link[f.to] \in PlacesOf(db) \union {HOME} BY <2>2, TypesAre DEF RefNow
  <2>4. db.link[f.to] \notin D BY <1>5, <2>1 DEF AllEmptied, Emptied, Unnamed
  <2> QED BY <2>3, <2>4 DEF Targets
<1>8. db.typ[Root] = "room" BY <1>5, WorldIs DEF Base
<1>9. f.obj \in Live(db) \ (D \union {Root}) /\ db.typ[f.obj] \in {"thing", "program"}
  BY <1>6, <1>8, TypesAre
<1>10. Calm(db', st) /\ StaysAcyclic(db, db') BY <1>2, <1>4, <1>7, <1>9, MoveStep
<1> QED BY <1>3, <1>10, CalmInv

\* What is left of enter_room when x has come out of old.
LEMMA LeftPush ==
  ASSUME NEW d, NEW st, Calm(d, st), NEW old \in PlacesOf(d),
         NEW f, f = Frame("left", old, NOTHING, NOTHING, 0)
  PROVE  Inv(d, <<Prog, f, Prog>> \o st)
<1>1. old \in Ref /\ NOTHING \in Ref \union {HOME} /\ "left" \in Ops /\ 0 \in {0, 1}
  BY TypesAre DEF Ref, Ops
<1>2. f \in Frames /\ f.op = "left" /\ f.obj = old /\ f.to = NOTHING BY <1>1, PlainFrame
<1>3. Calm(d, <<Prog>> \o st) /\ Prog \in Frames BY ProgPush
<1>4. FrameOk(d, Off(<<Prog>> \o st), NOTHING, f) BY <1>2 DEF FrameOk
<1>5. Calm(d, <<f>> \o (<<Prog>> \o st)) BY <1>2, <1>3, <1>4, EasyPush
<1>6. Calm(d, <<Prog>> \o (<<f>> \o (<<Prog>> \o st))) BY <1>5, ProgPush
<1>7. st \in Seq(Frames) BY CalmIs
<1>8. <<Prog, f, Prog>> \o st = <<Prog>> \o (<<f>> \o (<<Prog>> \o st))
  BY <1>2, <1>3, <1>7, Middle
<1> QED BY <1>6, <1>8, CalmInv

\* enter_room, as far as its first program.
LEMMA EnterRoomStep ==
  ASSUME Inv(db, stack), EnterRoom
  PROVE  Inv(db', stack') /\ StaysAcyclic(db, db')
<1> DEFINE f == Top
           st == Rest
           D == Off(st)
           x == f.obj
           loc == IF f.to = HOME THEN db.link[x] ELSE f.to
           old == db.loc[x]
<1>1. OnTop(db, f, st) /\ f.op = "enter" BY HandlerTop DEF EnterRoom
<1>2. Calm(db, st) BY <1>1, TopGone
<1>3. \/ /\ db' = Moveto(db, x, loc)
         /\ stack' = <<Prog, Frame("left", old, NOTHING, NOTHING, 0), Prog>> \o st
      \/ /\ stack' = <<Prog>> \o st
         /\ db' = db
  BY DEF EnterRoom, Goto
<1> HIDE DEF f, st
<1>4. World(db, D, NOTHING, NOTHING) /\ FrameOk(db, D, NOTHING, f) /\ AllEmptied(db, D)
  BY <1>1, OnTopIs
<1>5. x \in Goers(db) \ D /\ f.to \in Targets(db, D) BY <1>1, <1>4 DEF FrameOk
<1>6. db.typ[Root] = "room" BY <1>4, WorldIs DEF Base
<1>7. x \in Live(db) \ (D \union {Root}) /\ db.typ[x] \in {"thing", "player"}
  BY <1>5, <1>6, TypesAre DEF Goers
<1>8. RefNow(db, x) BY <1>4, <1>7, RefsNow
<1>9. loc \in Targets(db, D)
  <2>1. db.link[x] \in PlacesOf(db) BY <1>7, <1>8, TypesAre DEF RefNow
  <2>2. db.link[x] \notin D BY <1>4, <1>7 DEF AllEmptied, Emptied, Unnamed
  <2> QED BY <1>5, <2>1, <2>2 DEF Targets
<1>10. loc # HOME
  <2>1. db.link[x] \in PlacesOf(db) BY <1>7, <1>8, TypesAre DEF RefNow
  <2> QED BY <2>1, TypesAre, Numbers
<1>11. old \in PlacesOf(db) BY <1>7, <1>8 DEF RefNow
<1> HIDE DEF loc, old, x
<1>12. /\ Calm(Moveto(db, x, loc), st) /\ Moveto(db, x, loc).typ = db.typ
       /\ StaysAcyclic(db, Moveto(db, x, loc))
  BY <1>2, <1>7, <1>9, <1>10, MoveStep
<1>13. CASE /\ db' = Moveto(db, x, loc)
            /\ stack' = <<Prog, Frame("left", old, NOTHING, NOTHING, 0), Prog>> \o st
  <2>1. old \in PlacesOf(db') BY <1>11, <1>12, <1>13 DEF PlacesOf
  <2> QED BY <1>12, <1>13, <2>1, LeftPush
<1>14. CASE stack' = <<Prog>> \o st /\ db' = db
  BY <1>2, <1>14, ProgPush, CalmInv, SameAcyclic
<1> QED BY <1>3, <1>13, <1>14

\* maybe_dropto
LEMMA MaybeDroptoStep ==
  ASSUME Inv(db, stack), MaybeDropto
  PROVE  Inv(db', stack')
<1> DEFINE f == Top
           st == Rest
           D == Off(st)
           old == f.obj
           g == Frame("send", old, db.link[old], NOTHING, 1)
<1>1. OnTop(db, f, st) /\ f.op = "left" BY HandlerTop DEF MaybeDropto
<1>2. Calm(db, st) BY <1>1, TopGone
<1>3. /\ db' = db
      /\ \/ /\ db.typ[old] = "room" /\ db.link[old] # NOTHING
            /\ stack' = <<g>> \o st
         \/ stack' = st
  BY DEF MaybeDropto, Goto
<1> HIDE DEF f, st
<1>4. World(db, D, NOTHING, NOTHING) /\ FrameOk(db, D, NOTHING, f) /\ AllEmptied(db, D)
  BY <1>1, OnTopIs
<1>5. old \in PlacesOf(db) BY <1>1, <1>4 DEF FrameOk
<1>6. CASE stack' = st BY <1>2, <1>3, <1>6, CalmInv
<1>7. CASE db.typ[old] = "room" /\ db.link[old] # NOTHING /\ stack' = <<g>> \o st
  <2>1. old \in Live(db) /\ old \in Ref BY <1>5, TypesAre DEF Ref
  <2>2. RefNow(db, old) BY <1>4, <2>1, RefsNow
  <2>3. db.link[old] \in PlacesOf(db) \union {HOME} BY <1>7, <2>2, TypesAre DEF RefNow
  <2>4. db.link[old] \notin D BY <1>4, <1>7, <2>1 DEF AllEmptied, Emptied, Unnamed
  <2>5. db.link[old] \in Targets(db, D) /\ db.link[old] \in Ref \union {HOME}
    BY <2>3, <2>4, TypesAre DEF Targets, Ref
  <2>6. "send" \in Ops /\ 1 \in {0, 1} BY DEF Ops
  <2>7. g \in Frames /\ g.op = "send" /\ g.obj = old /\ g.to = db.link[old] /\ g.n = 1
    BY <2>1, <2>5, <2>6, PlainFrame
  <2> HIDE DEF g
  <2>8. FrameOk(db, D, NOTHING, g) BY <1>5, <2>5, <2>7 DEF FrameOk
  <2>9. Calm(db, <<g>> \o st) BY <1>2, <2>7, <2>8, EasyPush
  <2> QED BY <1>3, <1>7, <2>9, CalmInv
<1> QED BY <1>3, <1>6, <1>7

\* A program ends.
LEMMA ProgramEndsStep ==
  ASSUME Inv(db, stack), ProgramEnds
  PROVE  Inv(db', stack')
<1>1. OnTop(db, Top, Rest) /\ Top.op = "prog" BY HandlerTop DEF ProgramEnds
<1>2. Calm(db, Rest) BY <1>1, TopGone
<1> QED BY <1>2, CalmInv DEF ProgramEnds

\* @purge has come to the last object.
LEMMA PurgeEndsStep ==
  ASSUME Inv(db, stack), PurgeEnds
  PROVE  Inv(db', stack')
<1>1. OnTop(db, Top, Rest) /\ Top.op = "purge" BY HandlerTop DEF PurgeEnds
<1>2. Calm(db, Rest) BY <1>1, TopGone
<1> QED BY <1>2, CalmInv DEF PurgeEnds

-----------------------------------------------------------------------------
(* send_contents                                                           *)

\* What was taken out of so is not above so.
LEMMA ClearNo ==
  ASSUME NEW d, NEW so, Clear(d, so), NEW x \in Live(d) \ {Root}, d.loc[x] = NOTHING
  PROVE  ~ParentLoop(d, x, so)
<1>1. PICK U \in SUBSET (Obj \ {Root}) :
        /\ so \in U \union {Root}
        /\ \A y \in U : Ups(d, y) \subseteq U \union {Root, NOTHING, HOME}
        /\ x \notin U
  BY DEF Clear
<1> QED BY <1>1 DEF ParentLoop

\* It stays so when one of them is put somewhere.
LEMMA ClearStays ==
  ASSUME NEW d, NEW so, Clear(d, so), NEW x \in Live(d) \ {Root}, d.loc[x] = NOTHING,
         NEW to, to # NOTHING, NEW r, Moved(d, x, to, r)
  PROVE  Clear(r, so)
<1>1. PICK U \in SUBSET (Obj \ {Root}) :
        /\ so \in U \union {Root}
        /\ \A y \in U : Ups(d, y) \subseteq U \union {Root, NOTHING, HOME}
        /\ \A y \in Live(d) \ {Root} : d.loc[y] = NOTHING => y \notin U
  BY DEF Clear
<1>2. /\ r.typ = d.typ /\ r.link = d.link
      /\ \A y \in Obj : r.loc[y] = IF y = x THEN to ELSE d.loc[y]
  BY DEF Moved
<1>3. x \notin U /\ Live(r) = Live(d) /\ x \in Obj BY <1>1, <1>2, TypesAre DEF Live
<1>4. \A y \in U : Ups(r, y) = Ups(d, y) BY <1>2, <1>3 DEF Ups
<1>5. \A y \in Live(r) \ {Root} : r.loc[y] = NOTHING => d.loc[y] = NOTHING
  BY <1>2, <1>3, TypesAre
<1> QED BY <1>1, <1>3, <1>4, <1>5 DEF Clear

\* send_contents on top, and what it sends.
LEMMA SendTop ==
  ASSUME Inv(db, stack), Handle("send"), NEW D, D = Off(Rest)
  PROVE  /\ Layered(db, D, First(stack), Origin(stack), Top, Rest)
         /\ Top.op = "send" /\ Own(Top) = {} /\ Takes(Top) = {}
         /\ Top.n = 1 => First(stack) = NOTHING /\ Origin(stack) = NOTHING
         /\ Top.n = 0 => /\ First(stack) = Top.cur /\ Origin(stack) = Top.obj
                         /\ Clear(db, Top.obj)
<1>1. stack # <<>> /\ Top.op = "send" BY DEF Handle
<1>2. Own(Top) = {} /\ Takes(Top) = {} BY <1>1 DEF Own, Takes
<1>3. D = Off(Rest) \union Own(Top) BY <1>2
<1>4. Layered(db, D, First(stack), Origin(stack), Top, Rest)
  BY <1>1, <1>3, Opened DEF Top, Rest
<1>5. Sending(stack) <=> Top.n = 0 BY <1>1 DEF Sending, Top
<1>6. Top.n = 1 => First(stack) = NOTHING /\ Origin(stack) = NOTHING
  BY <1>5 DEF First, Origin
<1>7. Top.n = 0 => First(stack) = Top.cur /\ Origin(stack) = Top.obj
  BY <1>5 DEF First, Origin, Top
<1>8. Top.n = 0 => Clear(db, Top.obj) BY <1>5, <1>7 DEF Inv
<1> QED BY <1>1, <1>2, <1>4, <1>6, <1>7, <1>8

\* The parts of an operation on top of others.
LEMMA LayeredIs ==
  ASSUME NEW d, NEW D, NEW c, NEW so, NEW f, NEW st, Layered(d, D, c, so, f, st)
  PROVE  /\ f \in Frames /\ st \in Seq(Frames) /\ World(d, D, c, so)
         /\ FrameOk(d, D, so, f) /\ FramesOk(d, D, so, st) /\ Under(f, st)
         /\ d \in DB /\ d.top \in Int /\ AllEmptied(d, Off(st))
         /\ \A i \in 1 .. Len(st) : st[i].op # "exits"
<1>1. /\ f \in Frames /\ st \in Seq(Frames) /\ World(d, D, c, so)
      /\ FrameOk(d, D, so, f) /\ FramesOk(d, D, so, st) /\ Under(f, st)
  BY DEF Layered
<1>2. d \in DB /\ AllEmptied(d, Off(st)) BY <1>1, WorldIs, OffEmptied
<1>3. d.top \in Int BY <1>2 DEF DB
<1>4. \A i \in 1 .. Len(st) : st[i].op # "exits" BY <1>1, QuietCons
<1> QED BY <1>1, <1>2, <1>3, <1>4

\* send_contents goes on, with the rest of what it has taken out.
LEMMA SendOn ==
  ASSUME NEW d, NEW st \in Seq(Frames), NEW f \in Frames, f.op = "send", f.n = 0,
         NEW D, D = Off(st), World(d, D, f.cur, f.obj), FramesOk(d, D, f.obj, st),
         f.obj \in PlacesOf(d), f.to \in Targets(d, D), Under(f, st), Clear(d, f.obj)
  PROVE  Inv(d, <<f>> \o st)
<1>1. FrameOk(d, D, f.obj, f) BY DEF FrameOk
<1>2. Spares(d, Purged(st) \union Takes(f), f, st) BY DEF Spares, Over
<1>3. D = Off(st) \union Own(f) BY DEF Own
<1> QED BY <1>1, <1>2, <1>3, Closed

\* send_contents takes everything out, ...
LEMMA SendContentsStep ==
  ASSUME Inv(db, stack), Acyclic(db), SendContents
  PROVE  Inv(db', stack') /\ StaysAcyclic(db, db')
<1> DEFINE st == Rest
           at == Top.obj
           g == [Top EXCEPT !.cur = db.contents[at], !.n = 0]
<1> SUFFICES ASSUME NEW f, f = Top, NEW D, D = Off(st)
             PROVE  Inv(db', stack') /\ StaysAcyclic(db, db')
  OBVIOUS
<1>1. Handle("send") /\ f.n = 1 BY DEF SendContents
<1>2. /\ Layered(db, D, NOTHING, NOTHING, f, st) /\ f.op = "send"
  BY <1>1, SendTop
<1>3. /\ db' = [db EXCEPT !.contents = [@ EXCEPT ![at] = NOTHING],
                          !.loc = [x \in Obj |-> IF x \in Chain(db, db.contents[at])
                                                 THEN NOTHING ELSE db.loc[x]]]
      /\ stack' = <<g>> \o st
  BY DEF SendContents, Goto
<1>4. /\ f \in Frames /\ st \in Seq(Frames) /\ World(db, D, NOTHING, NOTHING)
      /\ FrameOk(db, D, NOTHING, f) /\ FramesOk(db, D, NOTHING, st) /\ Under(f, st)
      /\ db \in DB /\ \A i \in 1 .. Len(st) : st[i].op # "exits"
  BY <1>2, LayeredIs
<1>5. at \in PlacesOf(db) /\ f.to \in Targets(db, D) BY <1>2, <1>4 DEF FrameOk
<1>6. /\ g \in Frames /\ g.op = "send" /\ g.obj = at /\ g.to = f.to
      /\ g.cur = db.contents[at] /\ g.n = 0
  <2>1. db.contents[at] \in Ref /\ 0 \in 0 .. MaxTop
    BY <1>4, <1>5, TypesAre, MaxTopAssumption DEF DB, OrNone, Ref
  <2> QED BY <1>2, <1>4, <2>1 DEF Frames
<1>7. at \in Obj BY <1>5, TypesAre
<1> HIDE DEF g, at, st
<1> SUFFICES ASSUME NEW r, r = db' PROVE Inv(r, stack') /\ StaysAcyclic(db, r)
  OBVIOUS
<1>8. AllOut(db, at, r) BY <1>3, <1>4, <1>7, OutFields
<1>9. World(r, D, db.contents[at], at) /\ TakenOut(db, D, at, r) BY <1>4, <1>5, <1>8, OutWorld
<1>10. Clear(r, at) BY <1>4, <1>7, <1>9, OutClear
<1>11. Off(st) \subseteq D OBVIOUS
<1>12. Spared(db, D, NOTHING, r, D, at, st) BY <1>4, <1>7, <1>9, <1>11, OutSpares
<1>13. FramesOk(r, D, at, st) BY <1>4, <1>12, FramesStay
<1>14. r.typ = db.typ BY <1>9 DEF TakenOut
<1>15. at \in PlacesOf(r) /\ f.to \in Targets(r, D) BY <1>5, <1>14 DEF PlacesOf, Targets
<1>16. Under(g, st) BY <1>2, <1>4, <1>6 DEF Under
<1>17. Inv(r, <<g>> \o st)
  BY <1>4, <1>6, <1>9, <1>10, <1>13, <1>15, <1>16, SendOn
<1>18. StaysAcyclic(db, r) BY <1>8, OutAcyclic
<1> QED BY <1>3, <1>17, <1>18

\* ... sends one object on, ...
LEMMA SendNextStep ==
  ASSUME Inv(db, stack), SendNext
  PROVE  Inv(db', stack') /\ StaysAcyclic(db, db')
<1> DEFINE st == Rest
           x == Top.cur
           so == Top.obj
           g == [Top EXCEPT !.cur = db.next[x]]
<1> SUFFICES ASSUME NEW f, f = Top, NEW D, D = Off(st)
             PROVE  Inv(db', stack') /\ StaysAcyclic(db, db')
  OBVIOUS
<1>1. Handle("send") /\ f.n = 0 /\ x # NOTHING BY DEF SendNext
<1>2. Layered(db, D, x, so, f, st) /\ f.op = "send" /\ Clear(db, so) BY <1>1, SendTop
<1>3. PICK to \in {so, f.to, HOME} :
        /\ db.typ[x] \notin {"thing", "program"} => to = so
        /\ to = f.to /\ to # HOME => ~ParentLoop(db, x, to)
        /\ db' = Moveto(db, x, to)
  BY DEF SendNext
<1>4. stack' = <<g>> \o st BY DEF SendNext, Goto
<1>5. /\ f \in Frames /\ st \in Seq(Frames) /\ World(db, D, x, so)
      /\ FrameOk(db, D, so, f) /\ FramesOk(db, D, so, st) /\ Under(f, st)
      /\ db \in DB /\ db.top \in Int /\ AllEmptied(db, D)
      /\ \A i \in 1 .. Len(st) : st[i].op # "exits"
  BY <1>2, LayeredIs
<1>6. so \in PlacesOf(db) /\ f.to \in Targets(db, D) /\ f.obj = so /\ f.cur = x
  BY <1>2, <1>5 DEF FrameOk
<1>7. x \in Obj /\ x \in Live(db) \ {Root} /\ db.loc[x] = NOTHING
  <2>1. /\ x \in On(db, D) /\ db.loc[x] = NOTHING
        /\ db.typ[x] \notin {"garbage", "exit"}
    BY <1>1, <1>5, WorldIs, LinkedHeads
  <2> QED BY <2>1, TypesAre DEF On
<1>8. /\ g \in Frames /\ g.op = "send" /\ g.obj = so /\ g.to = f.to
      /\ g.cur = db.next[x] /\ g.n = 0
  <2>1. db.next[x] \in Ref BY <1>5, <1>7 DEF DB, OrNone, Ref
  <2> QED BY <1>1, <1>2, <1>5, <2>1 DEF Frames
<1>9. so \in Obj /\ so # NOTHING BY <1>6, TypesAre, Numbers
<1> HIDE DEF g, so, st, x
<1>10. ~ParentLoop(db, x, to)
  <2>1. ~ParentLoop(db, x, so) BY <1>2, <1>7, ClearNo
  <2>2. ~ParentLoop(db, x, HOME) BY <1>7, NotInHome
  <2> QED BY <1>3, <2>1, <2>2
<1>11. to \in PlacesOf(db) \union {HOME} BY <1>3, <1>6 DEF Targets
<1>12. db.typ[x] = "player" => to # HOME
  <2>1. so # HOME BY <1>9, Numbers
  <2> QED BY <1>3, <2>1
<1> SUFFICES ASSUME NEW r, r = db' PROVE Inv(r, stack') /\ StaysAcyclic(db, r)
  OBVIOUS
<1>13. /\ World(r, D, db.next[x], so)
       /\ x \in Live(db) \ (D \union {Root}) /\ db.typ[x] # "exit"
       /\ \E p \in PlacesOf(db) : /\ p = to \/ (to = HOME /\ p \in Homes(db, x))
                                  /\ Moved(db, x, p, r)
  BY <1>1, <1>3, <1>5, <1>10, <1>11, SendWorld
<1>14. PICK p \in PlacesOf(db) : /\ p = to \/ (to = HOME /\ p \in Homes(db, x))
                                 /\ Moved(db, x, p, r)
  BY <1>13
<1>15. p \in Obj /\ p # NOTHING BY TypesAre, Numbers
<1>16. p \notin D \/ (db.typ[x] # "exit" /\ p = At(db, so, x))
  <2>1. Homes(db, x) \intersect D = {} BY <1>5, <1>13, HomesOut
  <2>2. At(db, so, x) = so BY <1>7 DEF At
  <2>3. f.to \notin D \/ f.to = HOME BY <1>6 DEF Targets
  <2>4. p # HOME BY <1>15, Numbers
  <2> QED BY <1>3, <1>13, <1>14, <2>1, <2>2, <2>3, <2>4
<1>17. Off(st) \subseteq D OBVIOUS
<1>18. Spared(db, D, so, r, D, so, st)
  BY <1>5, <1>13, <1>14, <1>15, <1>16, <1>17, MovedSpares
<1>19. FramesOk(r, D, so, st) BY <1>5, <1>18, FramesStay
<1>20. Clear(r, so) BY <1>2, <1>7, <1>14, <1>15, ClearStays
<1>21. so \in PlacesOf(r) /\ f.to \in Targets(r, D)
  <2>1. r.typ = db.typ BY <1>14 DEF Moved
  <2> QED BY <1>6, <2>1 DEF PlacesOf, Targets
<1>22. Under(g, st) BY <1>2, <1>5, <1>8 DEF Under
<1>23. Inv(r, <<g>> \o st)
  BY <1>5, <1>8, <1>13, <1>19, <1>20, <1>21, <1>22, SendOn
<1>24. StaysAcyclic(db, r)
  <2>1. x \in Live(db) \ {Root} BY <1>13
  <2> QED BY <1>5, <1>10, <1>12, <1>13, <1>14, <2>1, MovedAcyclic
<1> QED BY <1>4, <1>23, <1>24

\* ... and turns the list round.
LEMMA SendEndsStep ==
  ASSUME Inv(db, stack), SendEnds
  PROVE  Inv(db', stack') /\ StaysAcyclic(db, db')
<1> DEFINE st == Rest
           so == Top.obj
<1> SUFFICES ASSUME NEW f, f = Top, NEW D, D = Off(st)
             PROVE  Inv(db', stack') /\ StaysAcyclic(db, db')
  OBVIOUS
<1>1. Handle("send") /\ f.n = 0 /\ f.cur = NOTHING BY DEF SendEnds
<1>2. Layered(db, D, NOTHING, so, f, st) /\ f.op = "send" BY <1>1, SendTop
<1>3. db' = Reversed(db, so) /\ stack' = st BY DEF SendEnds
<1>4. /\ f \in Frames /\ st \in Seq(Frames) /\ World(db, D, NOTHING, so)
      /\ FrameOk(db, D, so, f) /\ FramesOk(db, D, so, st) /\ Under(f, st)
      /\ db \in DB /\ \A i \in 1 .. Len(st) : st[i].op # "exits"
  BY <1>2, LayeredIs
<1>5. so \in Obj BY <1>2, <1>4, TypesAre DEF FrameOk
<1> HIDE DEF st, so
<1> SUFFICES ASSUME NEW r, r = db' PROVE Inv(r, stack') /\ StaysAcyclic(db, r)
  OBVIOUS
<1>6. Turned(db, so, r) BY <1>3, <1>4, <1>5, ReverseFields
<1>7. World(r, D, NOTHING, so) BY <1>4, <1>5, <1>6, TurnWorld
<1>8. World(r, D, NOTHING, NOTHING) BY <1>7, AllBack
<1>9. Off(st) \subseteq D OBVIOUS
<1>10. Spared(db, D, so, r, D, NOTHING, st) BY <1>4, <1>5, <1>6, <1>9, BackSpares
<1>11. FramesOk(r, D, NOTHING, st) BY <1>4, <1>10, FramesStay
<1>12. Ready(st) BY <1>4 DEF Under, Ready
<1>13. Inv(r, st) BY <1>4, <1>8, <1>11, <1>12, ReadyInv
<1>14. StaysAcyclic(db, r) BY <1>6, OutAcyclic
<1> QED BY <1>3, <1>13, <1>14

-----------------------------------------------------------------------------
(* recycle                                                                 *)

\* What waits names the same after a change that spares it.
LEMMA NamesStay ==
  ASSUME NEW d, NEW D, NEW so, NEW st \in Seq(Frames), FramesOk(d, D, so, st),
         \A i \in 1 .. Len(st) : st[i].op # "exits",
         NEW r, NEW E, NEW so2, Spared(d, D, so, r, E, so2, st)
  PROVE  \A i \in 1 .. Len(st) : Names(r, st[i]) = Names(d, st[i])
<1> SUFFICES ASSUME NEW i \in 1 .. Len(st) PROVE Names(r, st[i]) = Names(d, st[i]) OBVIOUS
<1>1. st[i] \in Frames /\ FrameOk(d, D, so, st[i]) BY DEF FramesOk
<1>2. FrameSpared(d, D, so, r, E, so2, st[i]) /\ 2 .. d.top \subseteq 2 .. r.top BY DEF Spared
<1> QED BY <1>1, <1>2, FrameStays

\* The operation on top goes on as g; what is below is spared.
LEMMA GoOn ==
  ASSUME NEW d, NEW f, NEW st, OnTop(d, f, st), NEW D, D = Off(st) \union Own(f),
         NEW g \in Frames, NEW E, E = Off(st) \union Own(g),
         NEW r, World(r, E, NOTHING, NOTHING), Spared(d, D, NOTHING, r, E, NOTHING, st),
         FrameOk(r, E, NOTHING, g), f.op \in {"exits", "emptying"},
         g.op \in {"exits", "emptying"}, g.obj = f.obj
  PROVE  OnTop(r, g, st)
<1>1. /\ st \in Seq(Frames) /\ Rests(d, D, st) /\ FramesOk(d, D, NOTHING, st) /\ Quiet(st)
      /\ Spares(d, Purged(st) \union Takes(f), f, st)
  BY OnTopIs
<1>2. Rests(r, E, st) BY <1>1, RestsStay
<1>3. \A i \in 1 .. Len(st) : st[i].op # "exits" BY <1>1 DEF Quiet, Still
<1>4. \A i \in 1 .. Len(st) : Names(r, st[i]) = Names(d, st[i]) BY <1>1, <1>3, NamesStay
<1>5. \A i \in 1 .. Len(st) : f.obj \notin Names(d, st[i]) BY <1>1 DEF Spares, Over
<1>6. Spares(r, Purged(st) \union Takes(g), g, st) BY <1>4, <1>5 DEF Spares, Over
<1> QED BY <1>2, <1>6 DEF OnTop

\* The operation on top goes on about the same object.
LEMMA GoOnInv ==
  ASSUME NEW d, NEW f, NEW st, OnTop(d, f, st), NEW D, D = Off(st) \union Own(f),
         NEW g \in Frames, NEW E, E = Off(st) \union Own(g),
         NEW r, World(r, E, NOTHING, NOTHING), Spared(d, D, NOTHING, r, E, NOTHING, st),
         FrameOk(r, E, NOTHING, g), f.op \in {"exits", "emptying"},
         g.op \in {"exits", "emptying"}, g.obj = f.obj
  PROVE  Inv(r, <<g>> \o st)
<1>1. OnTop(r, g, st) BY GoOn
<1> QED BY <1>1, TopInv

\* What is emptied or loses its exits is named by nothing below.
LEMMA TopUnnamed ==
  ASSUME NEW d, NEW f, NEW st, OnTop(d, f, st), f.op \in {"exits", "emptying", "frob"}
  PROVE  /\ \A i \in 1 .. Len(st) : f.obj \notin Names(d, st[i])
         /\ f.obj \notin Named(d, st) /\ f.obj \notin Off(st)
<1>1. Spares(d, Purged(st) \union Takes(f), f, st) BY OnTopIs
<1>2. \A i \in 1 .. Len(st) : f.obj \notin Names(d, st[i]) BY <1>1 DEF Spares, Over
<1>3. f.obj \notin Off(st) BY <1>2 DEF Off, Objs, Names
<1> QED BY <1>2, <1>3, NamedIs

\* An exit is recycled: it is gone, and the list it was on goes on behind it.
ExitGone(d, D, e, r) ==
  /\ World(r, D \ {e}, NOTHING, NOTHING) /\ Without(d, e, r)
  /\ \A p \in PlacesOf(d) : r.exits[p] = IF d.exits[p] = e THEN d.next[e] ELSE d.exits[p]

\* What the recycling of an exit leaves.
LEMMA GoneWorld ==
  ASSUME NEW d, NEW D, World(d, D, NOTHING, NOTHING), NEW e \in Of(d, "exit"),
         NEW r, r = RecycleExit(d, e)
  PROVE  ExitGone(d, D, e, r)
BY ExitWorld DEF ExitGone

\* recycle() goes through the exits, ...
LEMMA NextExitStep ==
  ASSUME Inv(db, stack), RecycleNextExit
  PROVE  Inv(db', stack') /\ StaysAcyclic(db, db')
<1> DEFINE st == Rest
           e == Top.cur
           x == Top.obj
           g == [Top EXCEPT !.cur = db.next[e]]
<1> SUFFICES ASSUME NEW f, f = Top, NEW D, D = Off(st)
             PROVE  Inv(db', stack') /\ StaysAcyclic(db, db')
  OBVIOUS
<1>1. OnTop(db, f, st) /\ f.op = "exits" BY HandlerTop DEF RecycleNextExit
<1>2. /\ e # NOTHING
      /\ db' = IF db.loc[e] \in {NOTHING, x} THEN RecycleExit(db, e) ELSE db
      /\ stack' = <<g>> \o st
  BY DEF RecycleNextExit, Goto
<1>3. D = Off(st) \union Own(f) BY <1>1 DEF Own
<1>4. /\ f \in Frames /\ st \in Seq(Frames) /\ World(db, D, NOTHING, NOTHING)
      /\ FrameOk(db, D, NOTHING, f) /\ Rests(db, D, st) /\ FramesOk(db, D, NOTHING, st)
      /\ db \in DB /\ db.top \in Int /\ AllEmptied(db, Off(st))
  BY <1>1, <1>3, OnTopIs
<1>5. x \in Recyclables(db) \ D /\ e = db.exits[x] /\ x \in Obj /\ x \in Live(db)
      /\ f.to = NOTHING /\ f.obj = x /\ f.cur = e
  BY <1>1, <1>4, TypesAre DEF FrameOk, Recyclables
<1>6. e \in Of(db, "exit") /\ db.loc[e] = x /\ e \in Obj /\ e \in Live(db) /\ e # x /\ e # Root
  <2>1. Linked(db, D, NOTHING) /\ db.typ[Root] = "room" BY <1>4, WorldIs DEF Base
  <2>2. db.exits[x] \in On(db, D) /\ db.loc[db.exits[x]] = x /\ db.typ[db.exits[x]] = "exit"
    BY <1>2, <1>4, <1>5, <2>1, LinkedHeads
  <2> QED BY <1>5, <2>1, <2>2, TypesAre DEF On, Recyclables
<1>7. x \in PlacesOf(db)
  <2>1. RefNow(db, e) BY <1>4, <1>6, RefsNow
  <2> QED BY <1>6, <2>1 DEF RefNow
<1>8. e \notin D /\ e \notin Named(db, st)
  BY <1>4, <1>6, TypesAre, ExitsUnnamed DEF AllEmptied, Emptied, Recyclables
<1>9. g \in Frames /\ g.op = "exits" /\ g.obj = x /\ g.to = NOTHING /\ g.cur = db.next[e]
  <2>1. db.next[e] \in Ref BY <1>4, <1>6 DEF DB, OrNone, Ref
  <2> QED BY <1>1, <1>4, <1>5, <2>1 DEF Frames
<1> HIDE DEF g, e, x, st
<1> SUFFICES ASSUME NEW r, r = db' PROVE Inv(r, stack') /\ StaysAcyclic(db, r)
  OBVIOUS
<1>10. r = RecycleExit(db, e) BY <1>2, <1>6
<1>11. /\ World(r, D \ {e}, NOTHING, NOTHING) /\ Without(db, e, r)
       /\ \A p \in PlacesOf(db) : r.exits[p] = IF db.exits[p] = e THEN db.next[e] ELSE db.exits[p]
  <2>1. ExitGone(db, D, e, r) BY <1>4, <1>6, <1>10, GoneWorld
  <2> QED BY <2>1 DEF ExitGone
<1>12. D \ {e} = D BY <1>8
<1>13. World(r, D, NOTHING, NOTHING) BY <1>11, <1>12
<1>14. D \subseteq D /\ D \ {e} \subseteq D /\ Off(st) \subseteq D OBVIOUS
<1>15. Spared(db, D, NOTHING, r, D, NOTHING, st)
  BY <1>4, <1>8, <1>11, <1>14, WithoutSpares
<1>16. x \in Recyclables(r) \ D
  <2>1. r.typ[x] = db.typ[x] BY <1>5, <1>6, <1>11 DEF Without
  <2> QED BY <1>5, <2>1 DEF Recyclables
<1>17. g.cur = r.exits[x] BY <1>5, <1>7, <1>9, <1>11
<1>18. FrameOk(r, D, NOTHING, g) BY <1>9, <1>16, <1>17 DEF FrameOk
<1>19. D = Off(st) \union Own(g) BY <1>9 DEF Own
<1>20. Inv(r, <<g>> \o st)
  BY <1>1, <1>3, <1>5, <1>9, <1>13, <1>15, <1>18, <1>19, GoOnInv
<1>21. StaysAcyclic(db, r) BY <1>4, <1>11, <1>13, WithoutAcyclic
<1> QED BY <1>2, <1>20, <1>21

\* Everything is below the top, so a room has fewer contents than that.
LEMMA InsideFew ==
  ASSUME NEW d, NEW D, NEW c, NEW so, World(d, D, c, so), NEW E, NEW b, NEW x
  PROVE  Cardinality(Inside(d, E, b, x) \ {NOTHING}) < d.top
<1> DEFINE S == Inside(d, E, b, x) \ {NOTHING}
           T == 1 .. d.top - 1
<1>1. d.top \in 2 .. MaxTop /\ \A y \in Obj : d.typ[y] = "none" <=> y >= d.top
  BY WorldIs DEF DB, Base
<1>2. d.top \in Int /\ d.top >= 2 BY <1>1
<1>3. S \subseteq T
  <2> SUFFICES ASSUME NEW y \in S PROVE y \in T OBVIOUS
  <2>1. y \in Obj /\ d.typ[y] # "none" /\ y # Root BY TypesAre DEF Inside
  <2>2. ~(y >= d.top) BY <1>1, <2>1
  <2> QED BY <1>2, <2>1, <2>2, MaxTopAssumption DEF Obj, Root
<1>4. IsFiniteSet(T) /\ Cardinality(T) = d.top - 1
  BY SMTT(30), <1>2, FS_Interval
<1> HIDE DEF S, T
<1>5. IsFiniteSet(S) /\ Cardinality(S) <= Cardinality(T) BY <1>3, <1>4, FS_Subset
<1>6. Cardinality(S) \in Nat BY <1>5, FS_CardinalityType
<1> QED BY <1>2, <1>4, <1>5, <1>6 DEF S

\* ... then over the whole database, ...
LEMMA ScanStep ==
  ASSUME Inv(db, stack), RecycleScan
  PROVE  Inv(db', stack')
<1> DEFINE st == Rest
           x == Top.obj
           g == Frame("emptying", x, NOTHING, NOTHING, db.top)
<1> SUFFICES ASSUME NEW f, f = Top, NEW D, D = Off(st)
             PROVE  Inv(db', stack')
  OBVIOUS
<1>1. OnTop(db, f, st) /\ f.op = "exits" BY HandlerTop DEF RecycleScan
<1>2. f.cur = NOTHING /\ db' = Scan(db, x) /\ stack' = <<g>> \o st
  BY DEF RecycleScan, Goto
<1>3. D = Off(st) \union Own(f) BY <1>1 DEF Own
<1>4. /\ f \in Frames /\ st \in Seq(Frames) /\ World(db, D, NOTHING, NOTHING)
      /\ FrameOk(db, D, NOTHING, f) /\ FramesOk(db, D, NOTHING, st)
      /\ db \in DB /\ db.top \in Int /\ AllEmptied(db, Off(st))
  BY <1>1, <1>3, OnTopIs
<1>5. /\ x \in Recyclables(db) \ D /\ db.exits[x] = NOTHING /\ x \in Obj \ {Root}
      /\ x \in Live(db) \ {Root} /\ db.typ[x] # "player" /\ f.obj = x
  BY <1>1, <1>2, <1>4, TypesAre DEF FrameOk, Recyclables
<1>6. x \notin Named(db, st) BY <1>1, <1>5, TopUnnamed
<1>7. /\ g \in Frames /\ g.op = "emptying" /\ g.obj = x /\ g.to = NOTHING
      /\ g.cur = NOTHING /\ g.n = db.top
  <2>1. /\ x \in Ref /\ NOTHING \in Ref \union {HOME} /\ NOTHING \in Ref \union {MaxTop}
        /\ db.top \in 0 .. MaxTop
    BY <1>4, <1>5 DEF Ref, DB
  <2>2. "emptying" \in Ops BY DEF Ops
  <2> QED BY <2>1, <2>2, FrameIs
<1>8. NoExits(db, x)
  <2> SUFFICES ASSUME NEW y \in Of(db, "exit") PROVE db.loc[y] # x BY DEF NoExits
  <2>1. db.typ[Root] = "room" /\ Linked(db, D, NOTHING) BY <1>4, WorldIs DEF Base
  <2>2. y \in On(db, D)
    BY <1>4, <2>1, TypesAre DEF On, AllEmptied, Emptied, Recyclables
  <2> QED BY <1>4, <1>5, <2>1, <2>2, NoMembers, TypesAre
<1>9. db.loc[x] \in PlacesOf(db)
  <2>1. RefNow(db, x) BY <1>4, <1>5, RefsNow
  <2> QED BY <1>5, <2>1 DEF RefNow
<1> HIDE DEF g, x, st
<1> SUFFICES ASSUME NEW r, r = db', NEW E, E = D \union {x}
             PROVE  Inv(r, stack')
  OBVIOUS
<1>10. World(r, E, NOTHING, NOTHING) /\ Passed(db, x, r) BY <1>2, <1>4, <1>5, ScanWorld
<1>11. /\ r.top = db.top /\ r.typ = db.typ /\ r.loc = db.loc /\ Unnamed(r, x)
  BY <1>10 DEF Passed
<1>12. Off(st) \subseteq D OBVIOUS
<1>13. Spared(db, D, NOTHING, r, E, NOTHING, st)
  BY <1>4, <1>6, <1>10, <1>12, PassedSpares
<1>14. Cardinality(Inside(r, E, NOTHING, x) \ {NOTHING}) < db.top
  BY <1>10, <1>11, InsideFew
<1>15. x \in Recyclables(r) /\ r.loc[x] \in PlacesOf(r) /\ NoExits(r, x)
  BY <1>5, <1>8, <1>9, <1>11 DEF Recyclables, PlacesOf, NoExits, Of
<1>16. FrameOk(r, E, NOTHING, g) BY <1>7, <1>11, <1>14, <1>15 DEF FrameOk
<1>17. E = Off(st) \union Own(g) BY <1>7 DEF Own
<1>18. Inv(r, <<g>> \o st)
  BY <1>1, <1>3, <1>5, <1>7, <1>10, <1>13, <1>16, <1>17, GoOnInv
<1> QED BY <1>2, <1>18

\* One thing less in a room that is emptied.
LEMMA OneLess ==
  ASSUME NEW S, IsFiniteSet(S), NEW x \in S, NOTHING \notin S, NEW n \in Nat,
         Cardinality(S \ {NOTHING}) < n, NEW T, T \subseteq S \ {x}
  PROVE  /\ Cardinality(T \ {NOTHING}) < n - 1 /\ Cardinality(T) < n - 1
         /\ n - 1 \in Nat
<1>1. S \ {NOTHING} = S /\ T \ {NOTHING} = T OBVIOUS
<1>2. IsFiniteSet(S \ {x}) /\ Cardinality(S \ {x}) = Cardinality(S) - 1
  BY FS_RemoveElement
<1>3. IsFiniteSet(T) /\ Cardinality(T) <= Cardinality(S \ {x}) BY <1>2, FS_Subset
<1>4. Cardinality(S) \in Nat /\ Cardinality(T) \in Nat BY <1>3, FS_CardinalityType
<1>5. Cardinality(S) < n BY <1>1, Zenon
<1>6. Cardinality(T) < n - 1 /\ n - 1 \in Nat BY <1>2, <1>3, <1>4, <1>5
<1>7. Cardinality(T \ {NOTHING}) < n - 1 BY <1>1, <1>6, Zenon
<1> QED BY <1>6, <1>7

\* An object that is being emptied, on top.
EmptyingTop(f, st, D) ==
  /\ OnTop(db, f, st) /\ f.op = "emptying"
  /\ f \in Frames /\ st \in Seq(Frames) /\ D = Off(st) \union Own(f) /\ Off(st) \subseteq D
  /\ World(db, D, NOTHING, NOTHING) /\ FramesOk(db, D, NOTHING, st) /\ Rests(db, D, st)
  /\ FrameOk(db, D, NOTHING, f)
  /\ db \in DB /\ db.top \in Int /\ AllEmptied(db, D)
  /\ f.obj \in Recyclables(db) /\ f.obj \in D /\ f.obj \in Obj \ {Root} /\ f.obj \in Live(db)
  /\ f.to = NOTHING /\ f.cur \in Of(db, "player") \union {NOTHING}
  /\ f.n \in Nat /\ f.n <= MaxTop
  /\ Emptied(db, f.obj)
  /\ Cardinality(Inside(db, D, NOTHING, f.obj) \ {f.cur}) < f.n
  /\ f.obj \notin Off(st) /\ f.obj \notin Named(db, st)

\* What is known while recycle() empties an object.
LEMMA EmptyingIs ==
  ASSUME Inv(db, stack), Handle("emptying"), NEW f, f = Top, NEW st, st = Rest,
         NEW D, D = Off(st) \union {f.obj}
  PROVE  EmptyingTop(f, st, D)
<1>1. OnTop(db, f, st) /\ f.op = "emptying" BY HandlerTop
<1>2. Own(f) = {f.obj} BY <1>1 DEF Own
<1>3. D = Off(st) \union Own(f) BY <1>2
<1>4. /\ f \in Frames /\ st \in Seq(Frames) /\ World(db, D, NOTHING, NOTHING)
      /\ FrameOk(db, D, NOTHING, f) /\ Rests(db, D, st) /\ FramesOk(db, D, NOTHING, st)
      /\ db \in DB /\ db.top \in Int /\ AllEmptied(db, Off(st)) /\ Off(st) \subseteq D
  BY <1>1, <1>3, OnTopIs
<1>5. /\ f.obj \in Recyclables(db) /\ f.to = NOTHING
      /\ f.cur \in Of(db, "player") \union {NOTHING}
      /\ Emptied(db, f.obj)
      /\ Cardinality(Inside(db, D, NOTHING, f.obj) \ {f.cur}) < f.n
  BY <1>1, <1>4 DEF FrameOk, Emptied
<1>6. AllEmptied(db, D) BY <1>4, <1>5 DEF AllEmptied
<1>7. f.obj \in Obj \ {Root} /\ f.obj \in Live(db) BY <1>5, TypesAre DEF Recyclables
<1>8. f.n \in Nat /\ f.n <= MaxTop BY <1>4, MaxTopAssumption DEF Frames
<1>9. f.obj \notin Off(st) /\ f.obj \notin Named(db, st) BY <1>1, TopUnnamed
<1> QED BY <1>1, <1>3, <1>4, <1>5, <1>6, <1>7, <1>8, <1>9 DEF EmptyingTop

\* The first thing in it, when there is one.
LEMMA FirstIs ==
  ASSUME NEW f, NEW st, NEW D, EmptyingTop(f, st, D), NEW y, y = db.contents[f.obj],
         y # NOTHING
  PROVE  /\ y \in Inside(db, D, NOTHING, f.obj) /\ y \in Live(db) \ (D \union {Root})
         /\ y \in Obj /\ db.typ[y] \notin {"garbage", "exit"} /\ db.loc[y] = f.obj
         /\ y # NOTHING
<1>1. Linked(db, D, NOTHING) /\ db \in DB /\ f.obj \in Obj BY WorldIs DEF EmptyingTop
<1>2. y \in On(db, D) /\ db.loc[y] = f.obj /\ db.typ[y] \notin {"garbage", "exit"}
  BY <1>1, LinkedHeads
<1>3. y \in Live(db) \ (D \union {Root}) /\ y \in Obj BY <1>2, TypesAre DEF On
<1>4. At(db, NOTHING, y) = f.obj BY <1>2 DEF At
<1> QED BY <1>2, <1>3, <1>4 DEF Inside

\* What else the operation needs stays when something is moved out of it.
LEMMA MovedKept ==
  ASSUME NEW d, NEW D, World(d, D, NOTHING, NOTHING), NEW z \in D, Emptied(d, z),
         NEW x \in Live(d) \ (D \union {Root}), d.typ[x] # "exit",
         NEW to \in PlacesOf(d), to \notin D, NEW r, Moved(d, x, to, r)
  PROVE  /\ Emptied(r, z)
         /\ Inside(r, D, NOTHING, z) \subseteq Inside(d, D, NOTHING, z) \ {x}
         /\ Of(r, "player") = Of(d, "player")
<1>1. /\ r.top = d.top /\ r.typ = d.typ /\ r.owner = d.owner /\ r.link = d.link
      /\ r.dests = d.dests
      /\ \A y \in Obj : r.loc[y] = IF y = x THEN to ELSE d.loc[y]
  BY DEF Moved
<1>2. Live(r) = Live(d) /\ \A t : Of(r, t) = Of(d, t) BY <1>1 DEF Live, Of
<1>3. z \in Obj \ {Root} /\ z # x /\ z # to BY TypesAre DEF Emptied, Recyclables
<1>4. NoExits(r, z) BY <1>1, <1>2, <1>3, TypesAre DEF NoExits, Emptied
<1>5. Unnamed(r, z) BY <1>1, <1>2 DEF Emptied, Unnamed
<1>6. r.loc[z] \in PlacesOf(r) BY <1>1, <1>3 DEF Emptied, PlacesOf
<1>7. z \in Recyclables(r) BY <1>1 DEF Emptied, Recyclables
<1>8. to # NOTHING /\ x \in Obj BY TypesAre, Numbers
<1>9. Inside(r, D, NOTHING, z) \subseteq Inside(d, D, NOTHING, z) \ {x}
  <2>1. \A y \in Obj \ {x} : At(r, NOTHING, y) = At(d, NOTHING, y) BY <1>1 DEF At
  <2>2. At(r, NOTHING, x) # z BY <1>1, <1>3, <1>8 DEF At
  <2> QED BY <1>1, <1>2, <2>1, <2>2, TypesAre DEF Inside
<1> QED BY <1>2, <1>4, <1>5, <1>6, <1>7, <1>9 DEF Emptied

\* ... sends the contents home one by one, ...
LEMMA EmptyNextStep ==
  ASSUME Inv(db, stack), EmptyNext
  PROVE  Inv(db', stack') /\ StaysAcyclic(db, db')
<1> DEFINE st == Rest
           x == Top.obj
           y == db.contents[x]
           e == Frame("enter", y, HOME, NOTHING, 0)
           g == [Top EXCEPT !.cur = y, !.n = @ - 1]
           h == [Top EXCEPT !.n = @ - 1]
<1> SUFFICES ASSUME NEW f, f = Top, NEW D, D = Off(st) \union {f.obj}
             PROVE  Inv(db', stack') /\ StaysAcyclic(db, db')
  OBVIOUS
<1>1. /\ Handle("emptying") /\ f.cur = NOTHING /\ f.n > 0 /\ y # NOTHING
      /\ IF db.typ[y] = "player"
         THEN stack' = <<e, g>> \o st /\ db' = db
         ELSE db' = Moveto(db, y, HOME) /\ stack' = <<h>> \o st
  BY DEF EmptyNext, Goto
<1>2. EmptyingTop(f, st, D) BY <1>1, EmptyingIs
<1>3. /\ OnTop(db, f, st) /\ f.op = "emptying"
      /\ f \in Frames /\ st \in Seq(Frames) /\ D = Off(st) \union Own(f)
      /\ World(db, D, NOTHING, NOTHING) /\ FramesOk(db, D, NOTHING, st) /\ Rests(db, D, st)
      /\ db.top \in Int /\ AllEmptied(db, D) /\ Off(st) \subseteq D
      /\ f.obj \in D /\ f.to = NOTHING
      /\ f.n \in Nat /\ f.n <= MaxTop
      /\ Emptied(db, f.obj)
      /\ Cardinality(Inside(db, D, NOTHING, f.obj) \ {NOTHING}) < f.n
  BY <1>1, <1>2 DEF EmptyingTop
<1>4. /\ y \in Inside(db, D, NOTHING, f.obj) /\ y \in Live(db) \ (D \union {Root})
      /\ y \in Obj /\ db.typ[y] \notin {"garbage", "exit"} /\ db.loc[y] = f.obj
  BY <1>1, <1>2, FirstIs
<1> DEFINE S == Inside(db, D, NOTHING, f.obj)
<1>5. IsFiniteSet(S) /\ NOTHING \notin S
  <2>1. IsFiniteSet(S) BY InsideFinite
  <2>2. S \subseteq Obj BY TypesAre DEF Inside
  <2> QED BY <2>1, <2>2, Numbers
<1>6. ASSUME NEW T, T \subseteq S \ {y}
      PROVE  Cardinality(T \ {NOTHING}) < f.n - 1 /\ Cardinality(T) < f.n - 1
  <2>1. y \in S /\ f.n \in Nat /\ Cardinality(S \ {NOTHING}) < f.n BY <1>3, <1>4
  <2> HIDE DEF S, y
  <2> QED BY <1>5, <1>6, <2>1, OneLess
<1>7. f.n - 1 \in 0 .. MaxTop /\ y \in Ref \union {MaxTop} BY <1>1, <1>3, <1>4, MaxTopAssumption DEF Ref
<1>8. /\ g \in Frames /\ g.op = "emptying" /\ g.obj = f.obj /\ g.to = NOTHING /\ g.cur = y
      /\ g.n = f.n - 1
      /\ h \in Frames /\ h.op = "emptying" /\ h.obj = f.obj /\ h.to = NOTHING
      /\ h.cur = NOTHING /\ h.n = f.n - 1
  BY <1>1, <1>3, <1>7 DEF Frames
<1>9. CASE db.typ[y] = "player"
  <2>1. stack' = <<e, g>> \o st /\ db' = db BY <1>1, <1>9
  <2> HIDE DEF S, g, h, y, x, st
  <2>2. S \ {y} \subseteq S \ {y} OBVIOUS
  <2>3. Cardinality(S \ {y}) < g.n BY <1>6, <1>8, <2>2
  <2>4. y \in Of(db, "player") BY <1>4, <1>9, TypesAre
  <2>5. FrameOk(db, D, NOTHING, g)
    <3>1. Cardinality(Inside(db, D, NOTHING, g.obj) \ {g.cur}) < g.n
      BY <1>8, <2>3 DEF S
    <3> QED BY <1>3, <1>8, <2>4, <3>1 DEF FrameOk, Emptied
  <2>6. D = Off(st) \union Own(g) BY <1>8 DEF Own
  <2>7. Spares(db, Purged(st) \union Takes(g), g, st)
    <3>1. \A i \in 1 .. Len(st) : f.obj \notin Names(db, st[i]) BY <1>3, TopUnnamed
    <3> QED BY <1>8, <3>1 DEF Spares, Over
  <2>8. OnTop(db, g, st) BY <1>3, <1>8, <2>5, <2>6, <2>7 DEF OnTop
  <2>9. Calm(db, <<g>> \o st) BY <1>8, <2>8, TopInv DEF Still
  <2>10. Off(<<g>> \o st) = D BY <1>3, <1>8, <2>6, OffCons
  <2>11. y \in Goers(db) \ D BY <1>4, <2>4 DEF Goers
  <2>12. HOME \in Targets(db, D) BY DEF Targets
  <2>13. Calm(db, <<e>> \o (<<g>> \o st)) /\ e \in Frames
    BY <2>9, <2>10, <2>11, <2>12, GoingPush
  <2> HIDE DEF e
  <2>14. <<e, g>> \o st = <<e>> \o (<<g>> \o st)
    <3>1. e \in Frames /\ g \in Frames /\ st \in Seq(Frames) BY <1>3, <1>8, <2>13
    <3> QED BY <3>1, Two
  <2> QED BY <2>1, <2>13, <2>14, CalmInv, SameAcyclic
<1>10. CASE db.typ[y] # "player"
  <2>1. db' = Moveto(db, y, HOME) /\ stack' = <<h>> \o st BY <1>1, <1>10
  <2> HIDE DEF S, g, h, y, x, st, e
  <2> SUFFICES ASSUME NEW r, r = db' PROVE Inv(r, stack') /\ StaysAcyclic(db, r)
    OBVIOUS
  <2>2. y \in Obj /\ db.loc[y] # NOTHING
    <3>1. f.obj # NOTHING BY <1>2, Numbers DEF EmptyingTop
    <3> QED BY <1>4, <3>1
  <2>3. ~ParentLoop(db, y, HOME) BY <2>2, NotInHome
  <2>4. /\ World(r, D, NOTHING, NOTHING)
        /\ \E p \in PlacesOf(db) : p \in Homes(db, y) \union {HOME} /\ Moved(db, y, p, r)
    BY <1>3, <1>4, <2>1, <2>2, <2>3, MoveWorld
  <2>5. PICK p \in PlacesOf(db) : p \in Homes(db, y) \union {HOME} /\ Moved(db, y, p, r)
    BY <2>4
  <2>6. p \in Obj /\ p # HOME BY TypesAre, Numbers
  <2>7. Homes(db, y) \intersect D = {} BY <1>3, <1>4, HomesOut
  <2>8. p \notin D BY <2>5, <2>6, <2>7
  <2>9. Spared(db, D, NOTHING, r, D, NOTHING, st)
    BY <1>3, <1>4, <2>5, <2>6, <2>8, MovedSpares
  <2>10. /\ Emptied(r, f.obj) /\ Of(r, "player") = Of(db, "player")
         /\ Inside(r, D, NOTHING, f.obj) \subseteq S \ {y}
    BY <1>3, <1>4, <2>5, <2>8, MovedKept DEF S
  <2>11. Cardinality(Inside(r, D, NOTHING, f.obj) \ {NOTHING}) < h.n
    BY <1>6, <1>8, <2>10
  <2>12. FrameOk(r, D, NOTHING, h) BY <1>8, <2>10, <2>11 DEF FrameOk, Emptied
  <2>13. D = Off(st) \union Own(h) BY <1>8 DEF Own
  <2>14. Inv(r, <<h>> \o st)
    BY <1>3, <1>8, <2>4, <2>9, <2>12, <2>13, GoOnInv
  <2>15. db.typ[y] \notin {"exit", "player"} BY <1>4, <1>10
  <2>16. StaysAcyclic(db, r) BY <1>3, <1>4, <2>5, <2>6, <2>15, HomeAcyclic
  <2> QED BY <2>1, <2>14, <2>16
<1> QED BY <1>9, <1>10

\* Dragged out, the player is not in it; or he was not there any more.
LEMMA DragOutStep ==
  ASSUME Inv(db, stack), DragOut
  PROVE  Inv(db', stack')
<1> DEFINE st == Rest
           y == Top.cur
           h == [Top EXCEPT !.cur = NOTHING]
<1> SUFFICES ASSUME NEW f, f = Top, NEW D, D = Off(st) \union {f.obj}
             PROVE  Inv(db', stack')
  OBVIOUS
<1>1. /\ Handle("emptying") /\ y # NOTHING /\ f.cur = y
      /\ db' = IF db.loc[y] = f.obj THEN Moveto(db, y, HOME) ELSE db
      /\ stack' = <<h>> \o st
  BY DEF DragOut, Goto
<1>2. EmptyingTop(f, st, D) BY <1>1, EmptyingIs
<1>3. /\ OnTop(db, f, st) /\ f.op = "emptying"
      /\ f \in Frames /\ st \in Seq(Frames) /\ D = Off(st) \union Own(f)
      /\ World(db, D, NOTHING, NOTHING) /\ FramesOk(db, D, NOTHING, st) /\ Rests(db, D, st)
      /\ db.top \in Int /\ AllEmptied(db, D) /\ Off(st) \subseteq D
      /\ f.obj \in D /\ f.to = NOTHING /\ f.obj # NOTHING
      /\ f.n \in Nat /\ f.n <= MaxTop
      /\ Emptied(db, f.obj) /\ y \in Of(db, "player")
      /\ Cardinality(Inside(db, D, NOTHING, f.obj) \ {y}) < f.n
  BY <1>1, <1>2, Numbers DEF EmptyingTop
<1>4. y \in Live(db) \ (D \union {Root}) /\ y \in Obj /\ db.typ[y] = "player"
  <2>1. db.typ[Root] = "room" BY <1>3, WorldIs DEF Base
  <2> QED BY <1>3, <2>1, TypesAre DEF AllEmptied, Emptied, Recyclables
<1> DEFINE S == Inside(db, D, NOTHING, f.obj)
<1>5. NOTHING \in Ref \union {MaxTop} BY DEF Ref
<1>6. /\ h \in Frames /\ h.op = "emptying" /\ h.obj = f.obj /\ h.to = NOTHING
      /\ h.cur = NOTHING /\ h.n = f.n
  BY <1>1, <1>3, <1>5 DEF Frames
<1>7. ASSUME NEW r, NEW T, T = Inside(r, D, NOTHING, f.obj), T \subseteq S \ {y}
      PROVE  Cardinality(Inside(r, D, NOTHING, h.obj) \ {NOTHING}) < h.n
  <2>1. IsFiniteSet(S \ {y}) /\ Cardinality(S \ {y}) \in Nat BY InsideFinite
  <2>2. T \ {NOTHING} \subseteq S \ {y} BY <1>7
  <2>3. IsFiniteSet(T \ {NOTHING}) /\ Cardinality(T \ {NOTHING}) <= Cardinality(S \ {y})
    BY <2>1, <2>2, FS_Subset
  <2>4. Cardinality(T \ {NOTHING}) \in Nat BY <2>3, FS_CardinalityType
  <2>5. Cardinality(T \ {NOTHING}) < f.n BY <1>3, <2>1, <2>3, <2>4
  <2> QED BY <1>6, <1>7, <2>5
<1>8. D = Off(st) \union Own(h) BY <1>6 DEF Own
<1> HIDE DEF S, h, y, st
<1>9. CASE db.loc[y] # f.obj
  <2>1. db' = db BY <1>1, <1>9
  <2>2. y \notin S
    <3>1. db.loc[y] # NOTHING BY <1>3, <1>4, AllBack
    <3> QED BY <1>9, <3>1 DEF S, Inside, At
  <2>3. Inside(db, D, NOTHING, f.obj) \subseteq S \ {y} BY <2>2 DEF S
  <2>4. Cardinality(Inside(db, D, NOTHING, h.obj) \ {NOTHING}) < h.n BY <1>7, <2>3
  <2>5. FrameOk(db, D, NOTHING, h) BY <1>3, <1>6, <1>2, <2>4 DEF FrameOk, Emptied
  <2>6. Spares(db, Purged(st) \union Takes(h), h, st)
    <3>1. \A i \in 1 .. Len(st) : f.obj \notin Names(db, st[i]) BY <1>3, TopUnnamed
    <3> QED BY <1>6, <3>1 DEF Spares, Over
  <2>7. OnTop(db, h, st) BY <1>3, <1>6, <1>8, <2>5, <2>6 DEF OnTop
  <2>8. Inv(db, <<h>> \o st) BY <1>6, <2>7, TopInv
  <2> QED BY <1>1, <2>1, <2>8
<1>10. CASE db.loc[y] = f.obj
  <2>1. db' = Moveto(db, y, HOME) BY <1>1, <1>10
  <2> SUFFICES ASSUME NEW r, r = db' PROVE Inv(r, stack')
    OBVIOUS
  <2>2. db.loc[y] # NOTHING BY <1>3, <1>10
  <2>3. ~ParentLoop(db, y, HOME) BY <1>4, NotInHome
  <2>4. /\ World(r, D, NOTHING, NOTHING)
        /\ \E p \in PlacesOf(db) : p \in Homes(db, y) \union {HOME} /\ Moved(db, y, p, r)
    BY <1>3, <1>4, <2>1, <2>2, <2>3, MoveWorld
  <2>5. PICK p \in PlacesOf(db) : p \in Homes(db, y) \union {HOME} /\ Moved(db, y, p, r)
    BY <2>4
  <2>6. p \in Obj /\ p # HOME BY TypesAre, Numbers
  <2>7. Homes(db, y) \intersect D = {} BY <1>3, <1>4, HomesOut
  <2>8. p \notin D BY <2>5, <2>6, <2>7
  <2>9. Spared(db, D, NOTHING, r, D, NOTHING, st)
    BY <1>3, <1>4, <2>5, <2>6, <2>8, MovedSpares
  <2>10. /\ Emptied(r, f.obj) /\ Of(r, "player") = Of(db, "player")
         /\ Inside(r, D, NOTHING, f.obj) \subseteq S \ {y}
    BY <1>3, <1>4, <2>5, <2>8, MovedKept DEF S
  <2>11. Cardinality(Inside(r, D, NOTHING, h.obj) \ {NOTHING}) < h.n
    BY <1>7, <2>10
  <2>12. FrameOk(r, D, NOTHING, h) BY <1>6, <2>10, <2>11 DEF FrameOk, Emptied
  <2>14. Inv(r, <<h>> \o st)
    BY <1>3, <1>6, <1>8, <2>4, <2>9, <2>12, GoOnInv
  <2> QED BY <1>1, <2>14
<1> QED BY <1>9, <1>10

\* Nothing is in what has been emptied.
LEMMA EmptyNow ==
  ASSUME NEW f, NEW st, NEW D, EmptyingTop(f, st, D), Acyclic(db), f.cur = NOTHING,
         f.n > 0 => db.contents[f.obj] = NOTHING
  PROVE  NoneIn(db, f.obj)
<1>1. /\ OnTop(db, f, st) /\ f.op = "emptying" /\ st \in Seq(Frames)
      /\ D = Off(st) \union Own(f)
      /\ World(db, D, NOTHING, NOTHING) /\ FramesOk(db, D, NOTHING, st)
      /\ db \in DB /\ f.obj \in Obj \ {Root} /\ f.obj # NOTHING
      /\ f.n \in Nat /\ NoExits(db, f.obj)
      /\ Cardinality(Inside(db, D, NOTHING, f.obj) \ {NOTHING}) < f.n
  BY Numbers DEF EmptyingTop, Emptied
<1>2. db.contents[f.obj] = NOTHING
  <2> DEFINE S == Inside(db, D, NOTHING, f.obj)
             T == S \ {NOTHING}
  <2>1. T \subseteq S OBVIOUS
  <2>2. Cardinality(T) \in Nat BY <2>1, InsideFinite
  <2>3. Cardinality(T) < f.n BY <1>1
  <2> HIDE DEF T
  <2>4. f.n > 0 BY <1>1, <2>2, <2>3
  <2> QED BY <2>4
<1>3. db.loc[f.obj] # f.obj
  <2> DEFINE S == {f.obj}
  <2>1. S \in SUBSET (Obj \ {Root}) /\ S # {} BY <1>1
  <2>2. db.loc[f.obj] = f.obj => \A x \in S : Ups(db, x) \intersect S # {} BY DEF Ups
  <2> HIDE DEF S
  <2> QED BY <2>1, <2>2 DEF Acyclic
<1> SUFFICES ASSUME NEW y \in Live(db) PROVE db.loc[y] # f.obj BY DEF NoneIn
<1>4. /\ db.loc[Root] = NOTHING /\ Linked(db, D, NOTHING) /\ y \in Obj
      /\ db.typ[y] \notin {"none", "garbage"}
  BY <1>1, WorldIs, TypesAre DEF Base
<1>5. CASE y = Root BY <1>1, <1>4, <1>5
<1>6. CASE db.typ[y] = "exit" BY <1>1, <1>6, TypesAre DEF NoExits
<1>7. CASE y \notin D \union {Root} /\ db.typ[y] # "exit"
  <2>1. y \in On(db, D) BY <1>4, <1>7 DEF On
  <2> QED BY <1>1, <1>2, <1>4, <1>7, <2>1, NoMembers
<1>8. CASE y \in Off(st)
  <2>1. PICK i \in 1 .. Len(st) : st[i].op = "emptying" /\ y = st[i].obj
    BY <1>1, <1>8, OffEmptied
  <2>2. f.obj \notin Names(db, st[i]) BY <1>1, TopUnnamed
  <2> QED BY <2>1, <2>2 DEF Names
<1>9. y \in D => y = f.obj \/ y \in Off(st) BY <1>1 DEF Own
<1> QED BY <1>3, <1>5, <1>6, <1>7, <1>8, <1>9

\* ... and frees the object.
LEMMA RecycleEndsStep ==
  ASSUME Inv(db, stack), Acyclic(db), RecycleEnds
  PROVE  Inv(db', stack') /\ StaysAcyclic(db, db')
<1> DEFINE st == Rest
           x == Top.obj
<1> SUFFICES ASSUME NEW f, f = Top, NEW D, D = Off(st) \union {f.obj}
             PROVE  Inv(db', stack') /\ StaysAcyclic(db, db')
  OBVIOUS
<1>1. /\ Handle("emptying") /\ f.cur = NOTHING /\ (f.n > 0 => db.contents[x] = NOTHING)
      /\ db' = Bury(db, x) /\ stack' = st /\ f.obj = x
  BY DEF RecycleEnds
<1>2. EmptyingTop(f, st, D) BY <1>1, EmptyingIs
<1>3. /\ st \in Seq(Frames) /\ Off(st) \subseteq D
      /\ World(db, D, NOTHING, NOTHING) /\ FramesOk(db, D, NOTHING, st) /\ Rests(db, D, st)
      /\ db.top \in Int /\ x \in D /\ x \in Obj
      /\ x \in Recyclables(db) /\ Unnamed(db, x)
      /\ x \notin Off(st) /\ x \notin Named(db, st)
  BY <1>1, <1>2 DEF EmptyingTop, Emptied
<1>4. NoneIn(db, x) BY <1>1, <1>2, EmptyNow
<1>5. db.typ[x] # "player" BY <1>3 DEF Recyclables
<1> HIDE DEF x
<1>6. D \ {x} = Off(st) /\ Off(st) \subseteq D /\ D \ {x} \subseteq Off(st) BY <1>1, <1>3
<1> HIDE DEF st
<1> SUFFICES ASSUME NEW r, r = db', NEW E, E = Off(st)
             PROVE  Inv(r, stack') /\ StaysAcyclic(db, r)
  OBVIOUS
<1>7. World(r, D \ {x}, NOTHING, NOTHING) /\ Buried(db, x, r)
  BY <1>1, <1>3, <1>4, <1>5, BuryWorld
<1>8. World(r, E, NOTHING, NOTHING) BY <1>6, <1>7
<1>9. Without(db, x, r) BY <1>3, <1>7, BuriedWithout
<1>10. Spared(db, D, NOTHING, r, E, NOTHING, st) BY <1>3, <1>6, <1>9, WithoutSpares
<1>11. Rests(r, E, st) BY <1>3, <1>10, RestsStay
<1>12. Calm(r, st) BY <1>8, <1>11 DEF Calm
<1>13. StaysAcyclic(db, r) BY <1>3, <1>8, <1>9, WithoutAcyclic
<1> QED BY <1>1, <1>12, <1>13, CalmInv

-----------------------------------------------------------------------------
(* @frob and @purge.                                                       *)

\* The end of @frob, with or without recycling.
LEMMA FrobbedStep ==
  ASSUME Inv(db, stack), Frobbed
  PROVE  Inv(db', stack')
<1> DEFINE st == Rest
           v == Top.obj
           p == Top.to
           g == Frame("exits", v, NOTHING, db.exits[v], 0)
<1> SUFFICES ASSUME NEW f, f = Top, NEW D, D = Off(st)
             PROVE  Inv(db', stack')
  OBVIOUS
<1>1. /\ Handle("frob") /\ f.obj = v /\ f.to = p
      /\ db' = [db EXCEPT
            !.owner = [x \in Obj |->
                IF x = v THEN Man ELSE IF db.owner[x] = v THEN p ELSE db.owner[x]],
            !.link = [x \in Obj |->
                IF db.typ[x] = "thing" /\ db.link[x] = v THEN Root ELSE db.link[x]],
            !.typ = [@ EXCEPT ![v] = "thing"]]
      /\ stack' = st \/ stack' = <<g>> \o st
  BY DEF Frobbed, Goto
<1>2. OnTop(db, f, st) /\ f.op = "frob" BY <1>1, HandlerTop
<1>3. D = Off(st) \union Own(f) BY <1>2 DEF Own
<1>4. /\ st \in Seq(Frames) /\ World(db, D, NOTHING, NOTHING)
      /\ FrameOk(db, D, NOTHING, f) /\ FramesOk(db, D, NOTHING, st) /\ Quiet(st)
      /\ Spares(db, Purged(st) \union Takes(f), f, st)
      /\ db \in DB /\ db.top \in Int /\ AllEmptied(db, Off(st))
  BY <1>2, <1>3, OnTopIs
<1>5. /\ v \in Of(db, "player") \ {Man} /\ p \in Of(db, "player") \ {v}
      /\ v \in Obj /\ p \in Obj /\ v \in Live(db) /\ db.typ[v] = "player"
  BY <1>1, <1>2, <1>4, TypesAre DEF FrameOk
<1>6. Calm(db, st) BY <1>2, TopGone
<1>7. /\ \A i \in 1 .. Len(st) : v \notin Names(db, st[i])
      /\ v \notin Named(db, st) /\ v \notin Off(st)
  BY <1>1, <1>2, TopUnnamed
<1>8. p \in Purged(st) => \A x \in Named(db, st) : db.owner[x] # v
  BY <1>1, <1>2, <1>4 DEF Spares, Over, Named
<1>9. db.link[v] \notin D BY <1>4, <1>5 DEF AllEmptied, Emptied, Unnamed
<1> HIDE DEF g, v, p, st
<1> SUFFICES ASSUME NEW r, r = db' PROVE Inv(r, stack')
  OBVIOUS
<1>10. Toaded(db, v, p, r)
  <2>1. "thing" \in Types /\ Man \in OrNone /\ Root \in OrNone \union {HOME} /\ p \in OrNone
    BY <1>5, Numbers DEF Types, OrNone
  <2>2. db.typ \in [Obj -> Types] /\ db.owner \in [Obj -> OrNone]
        /\ db.link \in [Obj -> OrNone \union {HOME}]
    BY <1>4 DEF DB
  <2> DEFINE o == [x \in Obj |->
                     IF x = v THEN Man ELSE IF db.owner[x] = v THEN p ELSE db.owner[x]]
             l == [x \in Obj |->
                     IF db.typ[x] = "thing" /\ db.link[x] = v THEN Root ELSE db.link[x]]
             t == [db.typ EXCEPT ![v] = "thing"]
  <2>3. o \in [Obj -> OrNone] /\ l \in [Obj -> OrNone \union {HOME}] /\ t \in [Obj -> Types]
    BY <2>1, <2>2
  <2>4. \A y \in Obj :
          /\ t[y] = IF y = v THEN "thing" ELSE db.typ[y]
          /\ o[y] = IF y = v THEN Man ELSE IF db.owner[y] = v THEN p ELSE db.owner[y]
          /\ l[y] = IF db.typ[y] = "thing" /\ db.link[y] = v THEN Root ELSE db.link[y]
    BY <2>2
  <2>5. r = [db EXCEPT !.owner = o, !.link = l, !.typ = t] BY <1>1
  <2> HIDE DEF o, l, t
  <2>6. r \in DB /\ r.owner = o /\ r.link = l /\ r.typ = t
        /\ r.top = db.top /\ r.recyclable = db.recyclable /\ r.loc = db.loc
        /\ r.contents = db.contents /\ r.exits = db.exits /\ r.next = db.next
        /\ r.dests = db.dests
    BY <1>4, <2>3, <2>5 DEF DB
  <2> QED BY <2>4, <2>6 DEF Toaded
<1>11. World(r, D, NOTHING, NOTHING) BY <1>4, <1>5, <1>10, FrobWorld
<1>12. Off(st) \subseteq D OBVIOUS
<1>13. Spared(db, D, NOTHING, r, D, NOTHING, st)
  BY <1>4, <1>5, <1>7, <1>8, <1>9, <1>10, <1>12, ToadedSpares
<1>14. Calm(r, st) BY <1>6, <1>11, <1>13, CalmStays
<1>15. stack' = st => Inv(r, stack') BY <1>14, CalmInv
<1>16. ASSUME stack' = <<g>> \o st PROVE Inv(r, stack')
  <2>1. \A i \in 1 .. Len(st) : st[i].op # "exits" BY <1>4 DEF Quiet, Still
  <2>2. \A i \in 1 .. Len(st) : Names(r, st[i]) = Names(db, st[i])
    BY <1>4, <1>13, <2>1, NamesStay
  <2>3. \A i \in 1 .. Len(st) : v \notin Names(r, st[i]) BY <1>7, <2>2
  <2>4. r.typ[v] = "thing" /\ r.exits = db.exits BY <1>5, <1>10 DEF Toaded
  <2>5. v \in Recyclables(r)
    <3>1. db.typ[Root] = "room" BY <1>4, WorldIs DEF Base
    <3> QED BY <1>5, <2>4, <3>1 DEF Recyclables
  <2>6. g = Frame("exits", v, NOTHING, r.exits[v], 0) BY <2>4 DEF g
  <2>7. Inv(r, <<g>> \o st) BY <1>7, <1>14, <2>3, <2>5, <2>6, RecyclePush
  <2> QED BY <1>16, <2>7
<1> QED BY <1>1, <1>15, <1>16

\* @purge has come to the next object; what it still has to look at waits.
LEMMA PurgeOn ==
  ASSUME NEW f, NEW st, OnTop(db, f, st), f.op = "purge", f.cur < db.top,
         NEW g, g = [f EXCEPT !.cur = f.cur + 1]
  PROVE  /\ Calm(db, <<g>> \o st) /\ g \in Frames /\ g.op = "purge" /\ g.obj = f.obj
         /\ g.to = NOTHING
         /\ f.cur \in Obj \ {Root} /\ db.typ[f.cur] # "none" /\ f.obj \in Of(db, "player")
<1> DEFINE D == Off(st) \union Own(f)
<1>1. /\ f \in Frames /\ st \in Seq(Frames) /\ World(db, D, NOTHING, NOTHING)
      /\ FrameOk(db, D, NOTHING, f)
      /\ Spares(db, Purged(st) \union Takes(f), f, st)
      /\ Rests(db, D, st) /\ db \in DB
  BY OnTopIs
<1>2. f.obj \in Of(db, "player") \ {Man} /\ f.cur \in 2 .. db.top /\ f.to = NOTHING
  BY <1>1 DEF FrameOk
<1>3. db.top \in 2 .. MaxTop /\ db.top \in Int BY <1>1 DEF DB
<1>4. f.cur \in Int /\ f.cur \in 0 .. MaxTop - 1 /\ f.cur # 0 /\ f.cur + 1 \in 2 .. db.top
      /\ ~(f.cur >= db.top)
  BY <1>2, <1>3, MaxTopAssumption
<1>5. f.cur + 1 \in Ref \union {MaxTop} BY <1>3, <1>4, MaxTopAssumption DEF Ref, Obj
<1>6. /\ g \in Frames /\ g.op = "purge" /\ g.obj = f.obj /\ g.to = NOTHING
      /\ g.cur = f.cur + 1
  BY <1>1, <1>2, <1>5 DEF Frames
<1>7. Own(g) = Own(f) /\ Takes(g) = Takes(f) BY <1>6 DEF Own, Takes
<1>8. FrameOk(db, D, NOTHING, g) BY <1>2, <1>4, <1>6 DEF FrameOk
<1>9. Spares(db, Purged(st) \union Takes(g), g, st)
  BY <1>1, <1>6, <1>7 DEF Spares, Over
<1>10. OnTop(db, g, st) BY <1>1, <1>6, <1>7, <1>8, <1>9 DEF OnTop
<1>11. Calm(db, <<g>> \o st) BY <1>6, <1>10, TopInv DEF Still
<1>12. db.typ[f.cur] # "none" /\ f.cur \in Obj \ {Root}
  BY <1>1, <1>4, WorldIs DEF Base, Obj, Root
<1> QED BY <1>2, <1>6, <1>11, <1>12

\* @purge looks at one object.
LEMMA PurgeNextStep ==
  ASSUME Inv(db, stack), PurgeNext
  PROVE  Inv(db', stack') /\ StaysAcyclic(db, db')
<1> DEFINE st == Rest
           x == Top.cur
           g == [Top EXCEPT !.cur = x + 1]
           s == <<g>> \o st
<1> SUFFICES ASSUME NEW f, f = Top
             PROVE  Inv(db', stack') /\ StaysAcyclic(db, db')
  OBVIOUS
<1>1. /\ Handle("purge") /\ f.cur < db.top /\ f.cur = x
      /\ \/ stack' = s /\ db' = db
         \/ db.typ[x] = "exit" /\ stack' = s /\ db' = RecycleExit(db, x)
         \/ /\ db.owner[x] = f.obj /\ db.typ[x] \notin {"garbage", "player", "exit"}
            /\ stack' = <<RecycleFrame(x)>> \o s /\ db' = db
  BY DEF PurgeNext
<1>2. OnTop(db, f, st) /\ f.op = "purge" BY <1>1, HandlerTop
<1>3. /\ Calm(db, s) /\ g \in Frames /\ g.op = "purge" /\ g.obj = f.obj /\ g.to = NOTHING
      /\ x \in Obj \ {Root} /\ db.typ[x] # "none" /\ f.obj \in Of(db, "player")
  BY <1>1, <1>2, PurgeOn
<1>4. st \in Seq(Frames) /\ Spares(db, Purged(st) \union Takes(f), f, st) /\ db \in DB
  BY <1>2, OnTopIs
<1>5. /\ Len(s) = Len(st) + 1 /\ Len(st) \in Nat /\ s[1] = g
      /\ \A i \in 1 .. Len(st) : s[i + 1] = st[i]
  BY <1>3, <1>4, Cons
<1> HIDE DEF s, g, x, st
<1>6. CASE stack' = s /\ db' = db BY <1>3, <1>6, CalmInv, SameAcyclic
<1>7. CASE db.typ[x] = "exit" /\ stack' = s /\ db' = RecycleExit(db, x)
  <2> SUFFICES ASSUME NEW r, r = db', NEW D, D = Off(s)
               PROVE  Inv(r, s) /\ StaysAcyclic(db, r)
    BY <1>7
  <2>1. /\ World(db, D, NOTHING, NOTHING) /\ s \in Seq(Frames) /\ FramesOk(db, D, NOTHING, s)
        /\ AllEmptied(db, D) /\ db.top \in Int
    BY <1>3, CalmIs
  <2>2. x \in Of(db, "exit") BY <1>3, <1>7, TypesAre
  <2>3. ExitGone(db, D, x, r) BY <1>7, <2>1, <2>2, GoneWorld
  <2>4. x \notin D BY <1>7, <2>1 DEF AllEmptied, Emptied, Recyclables
  <2>5. D \ {x} = D /\ D \subseteq D /\ D \ {x} \subseteq D /\ Off(s) \subseteq D BY <2>4
  <2>6. World(r, D, NOTHING, NOTHING) /\ Without(db, x, r) BY <2>3, <2>5 DEF ExitGone
  <2>7. x \notin Named(db, s) BY <2>1, <2>2, ExitsUnnamed
  <2>8. Spared(db, D, NOTHING, r, D, NOTHING, s) BY <2>1, <2>5, <2>6, <2>7, WithoutSpares
  <2>9. StaysAcyclic(db, r) BY <2>1, <2>6, WithoutAcyclic
  <2> QED BY <1>3, <2>6, <2>8, <2>9, CalmStays, CalmInv
<1>8. CASE /\ db.owner[x] = f.obj /\ db.typ[x] \notin {"garbage", "player", "exit"}
           /\ stack' = <<RecycleFrame(x)>> \o s /\ db' = db
  <2>1. x \in Recyclables(db) /\ x \in Live(db)
    <3>1. db.typ[x] \in Types BY <1>3, <1>4 DEF DB
    <3>2. db.typ[x] \in {"room", "thing", "program"} BY <1>3, <1>8, <3>1 DEF Types
    <3> QED BY <1>3, <3>2, TypesAre DEF Recyclables
  <2>2. ASSUME NEW i \in 1 .. Len(s) PROVE x \notin Names(db, s[i])
    <3>1. CASE i = 1
      <4>1. x # NOTHING BY <1>3, Numbers
      <4>2. db.typ[f.obj] = "player" BY <1>3, TypesAre
      <4>3. Names(db, g) = {f.obj, NOTHING} BY <1>3 DEF Names
      <4> QED BY <1>5, <1>8, <3>1, <4>1, <4>2, <4>3
    <3>2. CASE i # 1
      <4>1. i - 1 \in 1 .. Len(st) /\ (i - 1) + 1 = i BY <1>5, <3>2
      <4>2. s[i] = st[i - 1] BY <1>5, <4>1
      <4>3. Over(db, Purged(st) \union Takes(f), f, st[i - 1]) BY <1>4, <4>1 DEF Spares
      <4>4. x \in Names(db, st[i - 1]) => db.typ[x] = "player"
        BY <1>2, <1>8, <2>1, <4>3 DEF Over
      <4> QED BY <1>8, <4>2, <4>4
    <3> QED BY <3>1, <3>2
  <2>3. x \notin Off(s)
    <3> SUFFICES ASSUME x \in Off(s) PROVE FALSE OBVIOUS
    <3>1. PICK i \in 1 .. Len(s) : s[i].op = "emptying" /\ x = s[i].obj
      BY DEF Off, Objs
    <3> QED BY <2>2, <3>1 DEF Names
  <2>4. Inv(db, <<RecycleFrame(x)>> \o s)
    BY <1>3, <2>1, <2>2, <2>3, RecyclePush DEF RecycleFrame
  <2> QED BY <1>8, <2>4, SameAcyclic
<1> QED BY <1>1, <1>6, <1>7, <1>8
=============================================================================
