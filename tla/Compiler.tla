--------------------------- MODULE Compiler ---------------------------
(***************************************************************************)
(* The MUF compiler of src/compile.c: the words of a program's text, with  *)
(* its directives and macros, are compiled one by one into instructions    *)
(* whose jumps are filled in when the end of the structure is met.         *)
(*                                                                         *)
(* next_word calls itself for the word after BEGIN, THEN, ELSE and ":",    *)
(* and those are finished when that word has been compiled: what is still  *)
(* to be finished is the sequence pending, outermost first.                *)
(*                                                                         *)
(* A behaviour compiles one text after another, all over one of the        *)
(* vocabularies of the constant Vocabularies.                              *)
(***************************************************************************)
EXTENDS Integers, SequencesExt, FiniteSetsExt

CONSTANTS
    Vocabularies,   \* records [words, most]: a set of words and how many a text has
    Substitutions   \* SUBSTITUTIONS: macros expanded in one line

ASSUME SubstitutionsAssumption == Substitutions \in Nat

VARIABLES
    vocabulary,
    text,           \* the words of the program read so far, as they are written
    src,            \* the words given to next_word, in the order they were
    code,           \* first_word: the instructions, as [type, to]
    if_stack, loop_stack,   \* [type, place], the last one first
    pending,        \* [for, at, own]: at is what it fills in, own what it returns
    curr_proc,      \* TRUE within a procedure
    procs,          \* [name, at], the last one first
    currpubs,       \* [name, at]
    def,            \* what the macro m is defined as, or Undefined
    inherited,      \* what it was defined as when the compilation began (history)
    ahead,          \* what is left of the expanded macros of the line
    macrosubs,
    skipping,       \* what the directive being read waits for
    status

vars == <<vocabulary, text, src, code, if_stack, loop_stack, pending, curr_proc, procs, currpubs,
          def, inherited, ahead, macrosubs, skipping, status>>

---------------------------------------------------------------------------
(* Words *)

Undefined == <<"undefined">>
Definitions == {":p", ":q"}
NameOf(w) == IF w = ":q" THEN "q" ELSE "p"

(* The words nothing is emitted for. *)
Silent == {"THEN", "BEGIN", "PUBLIC p", "VAR"}

Ifs == {"IF", "ELSE"}
Ends == {"UNTIL", "REPEAT"}
Exits == {"WHILE", "BREAK"}
Control == Ifs \cup Ends \cup Exits \cup {"THEN", "BEGIN", "CONTINUE"}

(* A definition of m, and whether a directive says so. *)
Bodies == [word \in {"$def m lit", "$def m m m"} |->
              IF word = "$def m lit" THEN <<"lit">> ELSE <<"m", "m">>]
Conditionals == {"$ifdef m", "$ifndef m"}
Directives == DOMAIN Bodies \cup Conditionals
                 \cup {"$define m", "$enddef", "$undef m", "$else", "$endif"}

Openers == {"IF", "BEGIN", "$define m"} \cup Definitions \cup Conditionals
Closers == {"THEN", ";", "$endif", "$enddef"} \cup Ends

(* What a directive reads on to, how deep, and what $define has gathered. *)
Wanted(words) == [until |-> words, depth |-> 0, body |-> <<>>]
Nothing == Wanted({})

---------------------------------------------------------------------------
(* The state of one compilation, as a record the words transform. *)

Compilation ==
    [code |-> code, ifs |-> if_stack, loops |-> loop_stack, pending |-> pending, proc |-> curr_proc,
     procs |-> procs, pubs |-> currpubs, new |-> 0, ok |-> TRUE]

Failed(s) == [s EXCEPT !.ok = FALSE]
Test(condition, s) == IF condition THEN s ELSE Failed(s)

(* new_inst: the next instruction; new is the number of the word returned. *)
Emit(s, type, to) ==
    [s EXCEPT !.code = Append(@, [type |-> type, to |-> to]), !.new = Len(s.code) + 1]

Resolve(s, at, to) == [s EXCEPT !.code[at].to = to]

Link(type, place) == [type |-> type, place |-> place]
Wait(s, for, at, own) == [s EXCEPT !.pending = Append(@, [for |-> for, at |-> at, own |-> own])]

TopIs(stack, types) == stack # <<>> /\ Head(stack).type \in types

(* locate_begin: past the words that leave the loop. *)
Begins(s) == SelectSeq(s.loops, LAMBDA l : l.type = "begin")

(* resolve_loop_addrs: what leaves the loop goes to the instruction after  *)
(* the one about to be emitted.                                            *)
Leaving(s) ==
    {i \in 1..Len(s.loops) : \A j \in 1..i : s.loops[j].type = "while"}

(* Mutant: the words that leave a loop go to its last instruction. *)
AddrsOneEarly(s) ==
    LET places == {s.loops[i].place : i \in Leaving(s)} IN
    [s EXCEPT !.code = [i \in DOMAIN @ |-> IF i \in places
                                          THEN [@[i] EXCEPT !.to = Len(s.code) + 1] ELSE @[i]],
              !.loops = SubSeq(@, Cardinality(Leaving(s)) + 1, Len(@))]

resolve_loop_addrs(s) ==
    LET places == {s.loops[i].place : i \in Leaving(s)} IN
    [s EXCEPT !.code = [i \in DOMAIN @ |-> IF i \in places
                                          THEN [@[i] EXCEPT !.to = Len(s.code) + 2] ELSE @[i]],
              !.loops = SubSeq(@, Cardinality(Leaving(s)) + 1, Len(@))]

(* Mutant: the end of a loop does not look for an open IF. *)
EndLoopUnlooked(s, type) ==
    LET r == resolve_loop_addrs(s) IN
    IF ~TopIs(r.loops, {"begin"}) THEN Failed(r)
    ELSE Emit([r EXCEPT !.loops = Tail(@)], type, Head(r.loops).place)

(* The end of a loop: it needs a BEGIN, and no IF begun after it. *)
EndLoop(s, type) ==
    LET r == resolve_loop_addrs(s) IN
    IF ~TopIs(r.loops, {"begin"}) THEN Failed(r)
    ELSE LET begin == Head(r.loops).place
             open == TopIs(r.ifs, {"if", "else"}) /\ Head(r.ifs).place > begin IN
         Test(~open, Emit([r EXCEPT !.loops = Tail(@)], type, begin))

LeaveLoop(s, type) ==
    IF Begins(s) = <<>> THEN Failed(s)
    ELSE LET e == Emit(s, type, 0) IN [e EXCEPT !.loops = <<Link("while", e.new)>> \o @]

ProcOf(s, name) == SelectSeq(s.procs, LAMBDA p : p.name = name)
(* Mutant: a redefined name means its first definition. *)
ReferFirst(s, type, name) ==
    IF ProcOf(s, name) = <<>> THEN Failed(s) ELSE Emit(s, type, Last(ProcOf(s, name)).at)

Refer(s, type, name) ==
    IF ProcOf(s, name) = <<>> THEN Failed(s) ELSE Emit(s, type, Head(ProcOf(s, name)).at)

(* process_special and the words next_word knows, up to the call of        *)
(* next_word for the word after it.                                        *)
process_special(s, w) ==
    CASE w \in Definitions ->
           LET e == Emit(s, "function", 0) IN
           IF s.proc THEN Failed(s) ELSE Wait(e, w, e.new, e.new)
      [] w = ";" ->
           Test(s.ifs = <<>> /\ s.loops = <<>> /\ s.proc, [Emit(s, "ret", 0) EXCEPT !.proc = FALSE])
      [] w = "IF" ->
           LET e == Emit(s, "if", 0) IN [e EXCEPT !.ifs = <<Link("if", e.new)>> \o @]
      [] w = "ELSE" ->
           IF ~TopIs(s.ifs, {"if"}) THEN Failed(s)
           ELSE LET e == Emit(s, "jmp", 0) IN
                Wait([e EXCEPT !.ifs = <<Link("else", e.new)>> \o Tail(@)],
                     "ELSE", Head(s.ifs).place, e.new)
      [] w = "THEN" ->
           IF ~TopIs(s.ifs, {"if", "else"}) THEN Failed(s)
           ELSE Wait([s EXCEPT !.ifs = Tail(@)], "THEN", Head(s.ifs).place, 0)
      [] w = "BEGIN" -> Wait(s, "BEGIN", 0, 0)
      [] w = "UNTIL" -> EndLoop(s, "if")
      [] w = "REPEAT" -> EndLoop(s, "jmp")
      [] w = "WHILE" -> LeaveLoop(s, "if")
      [] w = "BREAK" -> LeaveLoop(s, "jmp")
      [] w = "CONTINUE" ->
           IF Begins(s) = <<>> THEN Failed(s) ELSE Emit(s, "jmp", Head(Begins(s)).place)
      [] w = "PUBLIC p" ->
           IF s.proc \/ ProcOf(s, "p") = <<>> \/ \E pub \in Range(s.pubs) : pub.name = "p" THEN Failed(s)
           ELSE [s EXCEPT !.pubs = Append(@, Head(ProcOf(s, "p")))]
      [] w = "VAR" -> Test(~s.proc, s)
      [] w = "p" -> Refer(s, "exec", "p")
      [] w = "'p" -> Refer(s, "add", "p")
      [] w = "lit" -> Emit(s, "word", 0)
      [] OTHER -> Failed(s)

(* What a word that waited does with the word after it: for THEN the IF or *)
(* ELSE goes there; for ELSE the IF does, and the jump of the ELSE is what *)
(* it returns; BEGIN makes it the beginning of a loop; ":" is in the       *)
(* procedure only now, and only now known by its name.                     *)
Finish(frame, s) ==
    CASE frame.for = "THEN" -> Resolve(s, frame.at, s.new)
      [] frame.for = "ELSE" -> [Resolve(s, frame.at, s.new) EXCEPT !.new = frame.own]
      [] frame.for = "BEGIN" -> [s EXCEPT !.loops = <<Link("begin", s.new)>> \o @]
      [] OTHER -> [s EXCEPT !.proc = TRUE, !.new = frame.own,
                            !.procs = <<[name |-> NameOf(frame.for), at |-> frame.at]>> \o @]

(* A silent word gives those that wait nothing to go on with. *)
next_word(s, w) ==
    LET r == process_special(s, w)
        waits == Len(r.pending) > Len(s.pending)
        done == [r EXCEPT !.pending = <<>>] IN
    IF ~r.ok \/ waits THEN r
    ELSE IF w \in Silent THEN Test(s.pending = <<>>, r)
    ELSE FoldRight(Finish, r.pending, done)

---------------------------------------------------------------------------
(* What is read. The words of an expanded macro come before the rest of    *)
(* the line. A text is no longer than the vocabulary says: a word that     *)
(* opens something is written only where there is room to close it, and a  *)
(* word of a structure only in a procedure.                                *)

Count(s, words) == Len(SelectSeq(s, LAMBDA w : w \in words))

WordsOf(read) ==
    {w \in vocabulary.words :
        LET t == Append(read, w) IN
        /\ w \in Control => \E d \in DOMAIN read : /\ read[d] \in Definitions
                                            /\ \A i \in d..Len(read) : read[i] # ";"
        /\ Len(t) <= vocabulary.most
        /\ Len(t) + Count(t, Openers) - Count(t, Closers) <= vocabulary.most}

next_token_raw == IF ahead # <<>> THEN {Head(ahead)} ELSE WordsOf(text)

Read(w) ==
    /\ status = "compiling"
    /\ text' = IF ahead = <<>> THEN Append(text, w) ELSE text
    /\ UNCHANGED <<vocabulary, inherited>>

Dropped == IF ahead = <<>> THEN <<>> ELSE Tail(ahead)

Compiled == <<src, code, if_stack, loop_stack, pending, curr_proc, procs, currpubs>>

(* Nothing is left of what was compiled or still to be read. *)
Clean(how) ==
    /\ UNCHANGED vocabulary
    /\ text' = <<>> /\ src' = <<>>
    /\ if_stack' = <<>> /\ loop_stack' = <<>> /\ pending' = <<>>
    /\ curr_proc' = FALSE /\ procs' = <<>> /\ currpubs' = <<>>
    /\ ahead' = <<>> /\ skipping' = Nothing
    /\ status' = how

(* do_abort_compile and cleanup: the definitions go too, but not macrosubs, *)
(* which nothing resets before the end of the next program's first line.    *)
Abort(how) == Clean(how) /\ code' = <<>> /\ def' = Undefined /\ UNCHANGED inherited

do_abort_compile == Abort("failed") /\ UNCHANGED macrosubs

(* do_compile: four variables come before the first word. The definitions   *)
(* of the server are added to what is there; nothing is removed.            *)
do_compile ==
    /\ status \notin {"compiling", "failing"}
    /\ Clean("compiling")
    /\ code' = [i \in 1..4 |-> [type |-> "word", to |-> 0]]
    /\ inherited' = def
    /\ UNCHANGED <<def, macrosubs>>

(* The end of a line. *)
advance_line(w) ==
    /\ Read(w)
    /\ w = "EOL"
    /\ macrosubs' = 0
    /\ UNCHANGED <<Compiled, def, ahead, skipping, status>>

(* A word next_word is given. *)
Compile(w) ==
    /\ Read(w)
    /\ skipping = Nothing
    /\ w \notin Directives \cup {"EOL"}
    /\ ~(w = "m" /\ def # Undefined)
    /\ LET s == next_word(Compilation, w) IN
       /\ s.ok
       /\ src' = Append(src, w)
       /\ code' = s.code
       /\ if_stack' = s.ifs /\ loop_stack' = s.loops /\ pending' = s.pending
       /\ curr_proc' = s.proc /\ procs' = s.procs /\ currpubs' = s.pubs
    /\ ahead' = Dropped
    /\ UNCHANGED <<def, macrosubs, skipping, status>>

(* A word that cannot be where it is. *)
Refuse(w) ==
    /\ status = "compiling"
    /\ skipping = Nothing
    /\ w \notin Directives \cup {"EOL"}
    /\ ~(w = "m" /\ def # Undefined)
    /\ ~next_word(Compilation, w).ok
    /\ do_abort_compile

(* next_token for a word that is defined: its definition is read in its    *)
(* place, as part of the line. macrosubs is not counted past one too many. *)
TooMany(count) == count > Substitutions

Expand(w) ==
    /\ Read(w)
    /\ w = "m"
    /\ skipping = Nothing
    /\ def # Undefined
    /\ ~TooMany(macrosubs + 1)
    /\ macrosubs' = macrosubs + 1
    /\ ahead' = def \o Dropped
    /\ UNCHANGED <<Compiled, def, skipping, status>>

ExpandTooMany(w) ==
    /\ status = "compiling"
    /\ w = "m"
    /\ skipping = Nothing
    /\ def # Undefined
    /\ TooMany(macrosubs + 1)
    /\ Abort("failed")
    /\ macrosubs' = Substitutions + 1

---------------------------------------------------------------------------
(* do_directive. A macro is defined as words only, so a directive is in    *)
(* the text itself.                                                        *)

Directive(w) == Read(w) /\ skipping = Nothing /\ UNCHANGED <<Compiled, ahead, status>>

(* $def takes the rest of the line, and the next line begins. *)
Def(w) ==
    /\ Directive(w)
    /\ w \in DOMAIN Bodies
    /\ def' = Bodies[w]
    /\ macrosubs' = 0
    /\ UNCHANGED skipping

Undef(w) ==
    /\ Directive(w)
    /\ w = "$undef m"
    /\ def' = Undefined
    /\ UNCHANGED <<macrosubs, skipping>>

Holds(w) == (w = "$ifdef m") <=> (def # Undefined)

Conditional(w) ==
    /\ Directive(w)
    /\ w \in Conditionals
    /\ skipping' = IF Holds(w) THEN Nothing ELSE Wanted({"$else", "$endif"})
    /\ UNCHANGED <<def, macrosubs>>

(* $else is met only after what it is the alternative of was compiled;     *)
(* an $endif says nothing by then.                                         *)
Else(w) ==
    /\ Directive(w)
    /\ w = "$else"
    /\ skipping' = Wanted({"$endif"})
    /\ UNCHANGED <<def, macrosubs>>

Endif(w) == Directive(w) /\ w = "$endif" /\ UNCHANGED <<def, macrosubs, skipping>>

Define(w) ==
    /\ Directive(w)
    /\ w = "$define m"
    /\ skipping' = Wanted({"$enddef"})
    /\ UNCHANGED <<def, macrosubs>>

EnddefAlone(w) ==
    /\ status = "compiling"
    /\ w = "$enddef"
    /\ skipping = Nothing
    /\ Abort("failing") /\ UNCHANGED macrosubs

(* An error in a directive leaves only do_directive, and next_token reads   *)
(* on: what is left in the memory of the line, which is freed, and then the *)
(* lines after it, directives and macros included, up to a word. Only then  *)
(* does do_compile look at compile_err. What was defined meanwhile (bound:  *)
(* by a $def) stays for the next program.                                   *)
ReadOn ==
    /\ status = "failing"
    /\ status' = "failed"
    /\ macrosubs' \in 0..(Substitutions + 1)
    /\ def' \in {Undefined} \cup {Bodies[w] : w \in vocabulary.words \cap DOMAIN Bodies}
    /\ UNCHANGED <<vocabulary, text, Compiled, inherited, ahead, skipping>>

(* Mutant: an $ifndef in what is skipped is not counted. *)
NestedIfdefOnly(w) == IF w = "$ifdef m" THEN 1 ELSE IF w = "$endif" THEN -1 ELSE 0

(* A word read while skipping: inside a nested condition only its end       *)
(* counts.                                                                  *)
Nested(w) == IF w \in Conditionals THEN 1 ELSE IF w = "$endif" THEN -1 ELSE 0

Skip(w) ==
    /\ Read(w)
    /\ skipping # Nothing
    /\ w # "EOL"
    /\ IF w \in skipping.until /\ skipping.depth = 0
       THEN /\ skipping' = Nothing
            /\ def' = IF w = "$enddef" THEN skipping.body ELSE def
       ELSE /\ "$enddef" \in skipping.until => w \notin Directives
            /\ skipping' = IF "$enddef" \in skipping.until
                           THEN [skipping EXCEPT !.body = Append(@, w)]
                           ELSE [skipping EXCEPT !.depth = @ + Nested(w)]
            /\ UNCHANGED def
    /\ macrosubs' = IF w \in DOMAIN Bodies THEN 0 ELSE macrosubs
    /\ UNCHANGED <<Compiled, ahead, status>>

---------------------------------------------------------------------------
(* The end of the text: copy_program and set_start. *)

Whole == skipping = Nothing /\ pending = <<>> /\ ~curr_proc /\ procs # <<>>

EndOfText ==
    /\ status = "compiling"
    /\ ahead = <<>>
    /\ Whole
    /\ macrosubs' = 0
    /\ status' = "done"
    /\ def' = Undefined
    /\ UNCHANGED <<vocabulary, text, Compiled, inherited, ahead, skipping>>

EndTooEarly ==
    /\ status = "compiling"
    /\ ahead = <<>>
    /\ ~Whole
    /\ Abort("failed")
    /\ macrosubs' = 0

Init ==
    /\ vocabulary \in Vocabularies
    /\ text = <<>> /\ src = <<>> /\ code = <<>>
    /\ if_stack = <<>> /\ loop_stack = <<>> /\ pending = <<>>
    /\ curr_proc = FALSE /\ procs = <<>> /\ currpubs = <<>>
    /\ def = Undefined /\ inherited = Undefined /\ ahead = <<>> /\ skipping = Nothing
    /\ macrosubs = 0
    /\ status = "idle"

Next ==
    \/ do_compile
    \/ \E w \in next_token_raw :
          \/ Compile(w) \/ Refuse(w) \/ advance_line(w) \/ Expand(w) \/ ExpandTooMany(w)
          \/ Def(w) \/ Undef(w) \/ Conditional(w) \/ Else(w) \/ Endif(w)
          \/ Define(w) \/ EnddefAlone(w) \/ Skip(w)
    \/ ReadOn \/ EndOfText \/ EndTooEarly

Spec == Init /\ [][Next]_vars

---------------------------------------------------------------------------
(* Properties of a program that compiled, in terms of its words src.       *)

Places == DOMAIN src
At(i) == 5 + Cardinality({j \in 1..(i - 1) : src[j] \notin Silent})
Instr(i) == code[At(i)]

Words(ws, i, j) == Cardinality({k \in i..j : src[k] \in ws})

(* k is where what opened at i closes: the first place where as many have  *)
(* closed as have opened since.                                            *)
ClosedAt(open, close, i, k) ==
    /\ src[k] \in close
    /\ Words(open, i, k) = Words(close, i, k)
    /\ \A l \in i..(k - 1) : Words(open, i, l) > Words(close, i, l)

ThenOf(i, k) == i < k /\ ClosedAt({"IF"}, {"THEN"}, i, k)
EndOf(i, k) == i < k /\ ClosedAt({"BEGIN"}, Ends, i, k)

(* The ELSE of the IF at i, before its THEN at k. *)
ElseOf(i, k) ==
    {e \in i..k : src[e] = "ELSE" /\ Words({"IF"}, i, e) = Words({"THEN"}, i, e) + 1}

InLoop(b, x) == b < x /\ Words({"BEGIN"}, b, x) > Words(Ends, b, x)
                      /\ \A l \in b..x : Words({"BEGIN"}, b, l) > Words(Ends, b, l)
Innermost(x) == CHOOSE b \in Places : src[b] = "BEGIN" /\ InLoop(b, x)
                                        /\ \A c \in (b + 1)..x : src[c] = "BEGIN" => ~InLoop(c, x)

(* The word that finishes what the one at i began: the first that does not *)
(* wait for another itself.                                                *)
Waiting == Definitions \cup {"BEGIN", "ELSE", "THEN"}
FirstWord(i) == {j \in Places : /\ j > i /\ src[j] \notin Waiting
                                /\ \A k \in (i + 1)..(j - 1) : src[k] \in Waiting}

(* BEGIN becomes the beginning of a loop only when its first word has been *)
(* compiled: a loop that begins with a word that belongs to a loop, with   *)
(* ELSE or with the end of the procedure is not compiled as it is written. *)
LoopsBeginPlainly ==
    \A i \in Places : src[i] = "BEGIN" =>
        \A j \in FirstWord(i) :
            /\ src[j] \notin Exits \cup Ends \cup {"CONTINUE", ";"}
            /\ \A k \in i..j : src[k] # "ELSE"

(* ":" as the first word of a procedure is taken, which leaves one         *)
(* procedure begun in another.                                             *)
Apart == \A d \in Places : src[d] \in Definitions =>
            \A j \in FirstWord(d), k \in Places : d < k /\ k < j => src[k] \notin Definitions

Plain == LoopsBeginPlainly /\ Apart

(* In a program that compiled every IF, ELSE, WHILE, BREAK, CONTINUE,      *)
(* UNTIL and REPEAT jumps to where the structure of the text, found by     *)
(* counting what opens and closes, says: the instruction after ELSE or     *)
(* THEN, after the end of the innermost loop, or at its beginning          *)
(* (compile.c: process_special, resolve_loop_addrs).                       *)
JumpsRight ==
    status = "done" /\ Plain =>
        /\ \A i \in Places : src[i] = "IF" =>
              \E k \in Places : ThenOf(i, k) /\
                 LET other == ElseOf(i, k) IN
                 /\ other = {} => Instr(i).to = At(k)
                 /\ \A e \in other : Instr(i).to = At(e) + 1 /\ Instr(e).to = At(k)
        /\ \A b \in Places : src[b] = "BEGIN" =>
              \E k \in Places : EndOf(b, k) /\ Instr(k).to = At(b)
        /\ \A x \in Places : src[x] \in Exits =>
              \E k \in Places : EndOf(Innermost(x), k) /\ Instr(x).to = At(k) + 1
        /\ \A x \in Places : src[x] = "CONTINUE" => Instr(x).to = At(Innermost(x))

(* An IF begun in a loop ends in it: no UNTIL or REPEAT closes a loop      *)
(* around an IF still open, unless that IF is the loop's first word        *)
(* (compile.c:1093-1178, locate_if compared with find_begin).              *)
IfsStayIn ==
    status = "done" /\ Plain =>
        \A b \in Places, i \in Places, k \in Places :
            src[b] = "BEGIN" /\ EndOf(b, k) /\ i \in b..k /\ src[i] = "IF" /\ i \notin FirstWord(b) =>
                \E t \in i..k : ThenOf(i, t)

(* The definition a reference at i means: the last one of the name whose   *)
(* first word came before i.                                               *)
Begun(d, i) == \E j \in (d + 1)..(i - 1) : src[j] \notin Waiting
Meant(w, i) == {d \in 1..(i - 1) : src[d] = w /\ Begun(d, i)
                                      /\ \A e \in (d + 1)..(i - 1) : src[e] = w => ~Begun(e, i)}

(* Every call, quoted name and public name goes to the function            *)
(* instruction of the latest definition of the name before it, and the     *)
(* program starts at the last definition (compile.c: call_word,            *)
(* quoted_word, PUBLIC, set_start), whatever was redefined in between.     *)
Entries ==
    status = "done" /\ Apart =>
        /\ \A i \in Places : src[i] \in {"p", "'p"} =>
              \E d \in Meant(":p", i) : Instr(i).to = At(d) /\ Instr(d).type = "function"
        /\ \A i \in Places : src[i] = "PUBLIC p" =>
              \E d \in Meant(":p", i), pub \in Range(currpubs) : pub.name = "p" /\ pub.at = At(d)
        /\ \E d \in Places : /\ src[d] \in Definitions /\ Head(procs).at = At(d)
                             /\ \A e \in Places : e > d => src[e] \notin Definitions

(* What the directives of a text leave of it, read as nested conditions:   *)
(* on is one flag for every $ifdef or $ifndef around the word, the         *)
(* innermost last.                                                         *)
Reading == [on |-> <<>>, def |-> inherited, gather |-> FALSE, body |-> <<>>, out |-> <<>>]
On(r) == \A i \in DOMAIN r.on : r.on[i]

ReadWord(r, w) ==
    CASE r.gather -> IF w = "$enddef" THEN [r EXCEPT !.gather = FALSE, !.def = r.body]
                     ELSE IF w = "EOL" THEN r ELSE [r EXCEPT !.body = Append(@, w)]
      [] w \in Conditionals ->
           [r EXCEPT !.on = Append(@, (w = "$ifdef m") <=> (r.def # Undefined))]
      [] w = "$else" -> [r EXCEPT !.on[Len(r.on)] = ~@]
      [] w = "$endif" -> [r EXCEPT !.on = SubSeq(@, 1, Len(@) - 1)]
      [] ~On(r) \/ w = "EOL" -> r
      [] w = "$define m" -> [r EXCEPT !.gather = TRUE, !.body = <<>>]
      [] w \in DOMAIN Bodies -> [r EXCEPT !.def = Bodies[w]]
      [] w = "$undef m" -> [r EXCEPT !.def = Undefined]
      [] w = "m" /\ r.def # Undefined -> [r EXCEPT !.out = @ \o r.def]
      [] OTHER -> [r EXCEPT !.out = Append(@, w)]

(* Every $endif has its condition, and each condition at most one $else. *)
WellFormed ==
    /\ \A j \in DOMAIN text :
          text[j] \in {"$else", "$endif"} =>
              Cardinality({i \in 1..j : text[i] \in Conditionals}) >=
                  Cardinality({i \in 1..j : text[i] = "$endif"}) + (IF text[j] = "$else" THEN 1 ELSE 0)
    /\ \A i \in DOMAIN text, j \in DOMAIN text : i < j /\ text[i] = "$else" /\ text[j] = "$else" =>
          \E k \in i..j : text[k] \in Conditionals \cup {"$endif"}

(* In a text whose conditions are well formed and which compiled, the      *)
(* compiler was given just the words a reading of the conditions as nested *)
(* blocks leaves, with the macro in its place (compile.c: next_token,      *)
(* do_directive, whose $ifdef and $else skip words they do not read). What *)
(* an error in the text before has left defined counts as defined.         *)
ConditionsRight ==
    status = "done" /\ WellFormed => src = FoldLeft(ReadWord, Reading, text).out
=============================================================================
