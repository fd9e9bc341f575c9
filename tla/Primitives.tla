-------------------------- MODULE Primitives --------------------------
(***************************************************************************)
(* How interp_loop runs one primitive of a MUF program on the operand      *)
(* stack.  The C functions work through globals (oper1..oper4, ref, nargs, *)
(* tmp) that a primitive which runs another program shares with it, take   *)
(* operands off the stack without copying them, and give back the strings, *)
(* locks and code addresses they hold themselves, or leave it to           *)
(* do_abort_interp.  The primitives are the step sequences of the modules  *)
(* PrimsOnStack, PrimsOnText and PrimsOnWorld; here each step is an action.*)
(*                                                                         *)
(* A behaviour takes a frame with any stack, runs one primitive on it and  *)
(* goes back to the beginning: the stack before the next primitive is any  *)
(* stack again, and what the globals still point to is "stale".            *)
(***************************************************************************)
EXTENDS PrimsOnStack, PrimsOnText, PrimsOnWorld, FiniteSetsExt, TLC

CONSTANTS
    StackSize,      \* STACK_SIZE
    MaxCount        \* the largest number the world is counted to in one primitive

ASSUME StackSizeAssumption == StackSize \in Nat /\ StackSize >= 9
ASSUME MaxCountAssumption == MaxCount \in Nat /\ MaxCount < StackSize

VARIABLES
    prim,           \* the primitive running, or the last one: [name, steps]
    pc,             \* its next step
    cell,           \* arg[0..], then temp1..temp3 and one variable of the frame
    top,            \* number of cells on the stack: *top, atop
    oper,           \* the cell oper1..oper4 point to, Stale or Foreign
    ref,            \* whose object ref holds
    locals,         \* how many of the opers the primitive declares for itself
    nargs,
    tmp,            \* tmp, or the result being counted
    held,           \* for each kind of shared value, the links the program holds
    err,
    phase           \* what the interpreter is doing

vars == <<prim, pc, cell, top, oper, ref, locals, nargs, tmp, held, err, phase>>

---------------------------------------------------------------------------
(* The table of primitives, and the cells *)

prim_func ==
    [pop |-> prim_pop, dup |-> prim_dup, at |-> prim_at, bang |-> prim_bang, var |-> prim_var,
     localvar |-> prim_localvar, swap |-> prim_swap, over |-> prim_over, pick |-> prim_pick,
     put |-> prim_put, rot |-> prim_rot, popn |-> prim_popn, sort |-> prim_sort,
     rotate |-> prim_rotate, dbtop |-> prim_dbtop, depth |-> prim_depth, version |-> prim_version,
     glowver |-> prim_glowver, prog |-> prim_prog, trig |-> prim_trig, caller |-> prim_caller,
     intp |-> prim_intp, checkargs |-> prim_checkargs, mode |-> prim_mode,
     setmode |-> prim_setmode, interp |-> prim_interp, add |-> prim_add,
     subtract |-> prim_subtract, multiply |-> prim_multiply, divide |-> prim_divide,
     mod |-> prim_mod, bitor |-> prim_bitor, bitxor |-> prim_bitxor, bitand |-> prim_bitand,
     bitshift |-> prim_bitshift, and |-> prim_and, or |-> prim_or, not |-> prim_not,
     lessthan |-> prim_lessthan, greathan |-> prim_greathan, equal |-> prim_equal,
     lesseq |-> prim_lesseq, greateq |-> prim_greateq, random |-> prim_random, int |-> prim_int,
     float |-> prim_float, numberp |-> prim_numberp, stringcmp |-> prim_stringcmp,
     strcmp |-> prim_strcmp, strncmp |-> prim_strncmp, strcut |-> prim_strcut,
     strlen |-> prim_strlen, strcat |-> prim_strcat, atoi |-> prim_atoi, atof |-> prim_atof,
     notify_descriptor |-> prim_notify_descriptor, notify |-> prim_notify,
     ansi_offset |-> prim_ansi_offset, ansi_strip |-> prim_ansi_strip,
     ansi_notify |-> prim_ansi_notify, ansi_notify_exclude |-> prim_ansi_notify_exclude,
     notify_exclude |-> prim_notify_exclude, intostr |-> prim_intostr, explode |-> prim_explode,
     subst |-> prim_subst, instr |-> prim_instr, rinstr |-> prim_rinstr,
     pronoun_sub |-> prim_pronoun_sub, toupper |-> prim_toupper, tolower |-> prim_tolower,
     unparseobj |-> prim_unparseobj, smatch |-> prim_smatch, striplead |-> prim_striplead,
     striptail |-> prim_striptail, stringpfx |-> prim_stringpfx, strencrypt |-> prim_strencrypt,
     strdecrypt |-> prim_strdecrypt, empty |-> prim_empty, blank |-> prim_blank,
     getpropval |-> prim_getpropval, getprop |-> prim_getprop, getpropstr |-> prim_getpropstr,
     remove_prop |-> prim_remove_prop, envprop |-> prim_envprop, envpropstr |-> prim_envpropstr,
     setprop |-> prim_setprop, addprop |-> prim_addprop, nextprop |-> prim_nextprop,
     propdirp |-> prim_propdirp, parsempi |-> prim_parsempi, parseprop |-> prim_parseprop,
     addpennies |-> prim_addpennies, moveto |-> prim_moveto, pennies |-> prim_pennies,
     dbcomp |-> prim_dbcomp, dbref |-> prim_dbref, contents |-> prim_contents,
     exits |-> prim_exits, next |-> prim_next, truename |-> prim_truename, name |-> prim_name,
     setname |-> prim_setname, match |-> prim_match, rmatch |-> prim_rmatch,
     copyobj |-> prim_copyobj, set |-> prim_set, mlevel |-> prim_mlevel, flagp |-> prim_flagp,
     playerp |-> prim_playerp, thingp |-> prim_thingp, roomp |-> prim_roomp,
     programp |-> prim_programp, exitp |-> prim_exitp, okp |-> prim_okp,
     location |-> prim_location, owner |-> prim_owner, controls |-> prim_controls,
     perms |-> prim_perms, getlink |-> prim_getlink, setlink |-> prim_setlink,
     setown |-> prim_setown, newobject |-> prim_newobject, newroom |-> prim_newroom,
     newexit |-> prim_newexit, lockedp |-> prim_lockedp, flockedp |-> prim_flockedp,
     conlockedp |-> prim_conlockedp, chlockedp |-> prim_chlockedp, recycle |-> prim_recycle,
     setlockstr |-> prim_setlockstr, getlockstr |-> prim_getlockstr,
     part_pmatch |-> prim_part_pmatch, checkpassword |-> prim_checkpassword,
     awakep |-> prim_awakep, ignoringp |-> prim_ignoringp, online |-> prim_online,
     concount |-> prim_concount, condbref |-> prim_condbref, conidle |-> prim_conidle,
     conidler |-> prim_conidler, contime |-> prim_contime, conhost |-> prim_conhost,
     conuser |-> prim_conuser, conipnum |-> prim_conipnum,
     con_listener_port |-> prim_con_listener_port, conport |-> prim_conport,
     conboot |-> prim_conboot, connotify |-> prim_connotify, condescr |-> prim_condescr,
     descrcon |-> prim_descrcon, nextdescr |-> prim_nextdescr, descriptors |-> prim_descriptors,
     descr_setuser |-> prim_descr_setuser, descr_setecho |-> prim_descr_setecho,
     time |-> prim_time, convtime |-> prim_convtime, date |-> prim_date,
     gmtoffset |-> prim_gmtoffset, systime |-> prim_systime, timesplit |-> prim_timesplit,
     timefmt |-> prim_timefmt, queue |-> prim_queue, kill |-> prim_kill, force |-> prim_force,
     timestamps |-> prim_timestamps, fork |-> prim_fork, pid |-> prim_pid,
     proctime |-> prim_proctime, stats |-> prim_stats, abort |-> prim_abort,
     ispidp |-> prim_ispidp, parselock |-> prim_parselock, unparselock |-> prim_unparselock,
     prettylock |-> prim_prettylock, testlock |-> prim_testlock, sysparm |-> prim_sysparm,
     system |-> prim_system, email_password |-> prim_email_password]
Names == DOMAIN prim_func
None == [name |-> "none", steps |-> <<>>]

Temp(t) == StackSize + t - 10           \* T1..T3
Variable == StackSize + 4
Cells == 1..Variable

Stale == 0                              \* left by an earlier primitive, or NULL
Foreign == -1                           \* set by a program run in between
Pointers == Cells \cup {Stale, Foreign}

Live == 1..top \cup {Variable}
LiveOf(kind) == Cardinality({c \in Live : cell[c] = kind})

Pointee(k) == IF k > 10 THEN Temp(k) ELSE oper[k]

Ready == phase = "running" /\ pc <= Len(prim.steps)
This == prim.steps[pc]
At(op) == Ready /\ This.op = op

(* What operand k may be: a stale or foreign pointer leads to anything. *)
May(k, s) == Pointee(k) \in Cells => cell[Pointee(k)] \in s
MayNot(k, s) == Pointee(k) \in Cells => cell[Pointee(k)] \notin s

Links(kind) == [s \in Shared |-> IF s = kind THEN 1 ELSE 0]
Gain(v) == [s \in Shared |-> held[s] + Links(v)[s]]
Lose(v) == [s \in Shared |-> held[s] - Links(v)[s]]

Goto(n) == pc' = n
Step1 == Goto(pc + 1)

---------------------------------------------------------------------------
(* The stacks a primitive may find: the cells it asks for take any value   *)
(* (a choice of them when it asks for three or more, or counts), the ones  *)
(* below are strings; or there is one cell too few.                        *)

Steps(p) == {prim_func[p][i] : i \in 1..Len(prim_func[p])}
Ops(p) == {s.op : s \in Steps(p)}

Asked == [p \in Names |-> Max({0} \cup {s.k : s \in {t \in Steps(p) : t.op = "CHECKOP"}})]
Counting == {p \in Names : Ops(p) \cap {"COUNT", "ABSCOUNT", "FETCH", "STORE"} # {}}
Growing == Counting \cup {p \in Names : Ops(p) \cap {"CHECKOFLOW", "CHECKOFLOWCOUNT"} # {}}

ForCounting == Ints \cup {"string", "lock", "address", "var", "badvar", "float", "player"}
ForMany == {"int", "minus", "float", "string", "null", "lock", "player", "other", "garbage", "nothing"}
Common == Values \ {"badvar", "intmin", "zero", "one", "two"}

Candidates(p) ==
    IF p \in Counting THEN ForCounting
    ELSE IF Asked[p] >= 3 THEN ForMany
    ELSE Common

Depths(p) ==
    LET n == Asked[p] IN
    {0, StackSize - n} \cup IF p \in Growing THEN {1, 2, 3, StackSize - n - 1} ELSE {}

StacksFor(p) ==
    LET Fill(d) == [i \in 1..d |-> "string"]
        n == Asked[p]
        Wanted == [1..n -> Candidates(p)] IN
    {Fill(d) \o args : d \in Depths(p), args \in Wanted}
      \cup (IF n = 0 THEN {} ELSE {Tail(args) : args \in Wanted})

---------------------------------------------------------------------------
(* Running a primitive *)

NoCells == [c \in Cells |-> IF c = Variable THEN "string" ELSE "cleared"]
NoOperands == [k \in 1..4 |-> Stale]

Init ==
    /\ prim = None /\ pc = 0 /\ phase = "idle"
    /\ cell = NoCells /\ top = 0 /\ held = Links("string")
    /\ oper = NoOperands /\ ref = "none" /\ locals = 0
    /\ nargs = 0 /\ tmp = 0 /\ err = 0

(* The default case of interp_loop's switch. *)
CallPrimitive(p) ==
    /\ phase = "idle"
    /\ \E stack \in StacksFor(p) :
          LET full == [c \in Cells |-> IF c <= Len(stack) THEN stack[c] ELSE cell[c]] IN
          /\ cell' = full
          /\ top' = Len(stack)
          /\ held' = [s \in Shared |-> Cardinality({c \in Cells : full[c] = s})]
    /\ prim' = [name |-> p, steps |-> prim_func[p]] /\ Goto(1) /\ phase' = "running"
    /\ nargs' = 0
    /\ UNCHANGED <<oper, ref, locals, tmp, err>>

Stay(fields) == UNCHANGED <<prim, phase>> /\ UNCHANGED fields

(* CHECKOP: the program is stopped, nothing is given back. *)
CheckOp(n) ==
    IF top < n
      THEN /\ err' = err + 1 /\ phase' = "failed"
           /\ UNCHANGED <<prim, pc, cell, top, oper, ref, locals, nargs, tmp, held>>
      ELSE /\ nargs' = n /\ Step1
           /\ Stay(<<cell, top, oper, ref, locals, tmp, held, err>>)

RunCHECKOP == At("CHECKOP") /\ CheckOp(This.k)

RunCHECKOPCOUNT == At("CHECKOPCOUNT") /\ CheckOp(tmp)

ToAbort ==
    /\ phase' = "aborting"
    /\ UNCHANGED <<prim, pc, cell, top, oper, ref, locals, nargs, tmp, held, err>>

OnlyStep == Step1 /\ Stay(<<cell, top, oper, ref, locals, nargs, tmp, held, err>>)

RunCHECKOFLOW ==
    /\ Ready /\ This.op \in {"CHECKOFLOW", "CHECKOFLOWCOUNT"}
    /\ LET wanted == IF This.op = "CHECKOFLOW" THEN This.k ELSE tmp + This.k IN
       IF top + wanted - 1 >= StackSize THEN ToAbort ELSE OnlyStep

(* The arguments of abort_interp: a type or value no step follows up on. *)
RunUNLESS ==
    /\ At("UNLESS")
    /\ \/ May(This.k, This.s) /\ OnlyStep
       \/ MayNot(This.k, This.s) /\ ToAbort

RunUNLESSCOUNT ==
    /\ At("UNLESSCOUNT")
    /\ IF 0 <= tmp /\ tmp < StackSize - This.k THEN OnlyStep ELSE ToAbort

RunMAYABORT == At("MAYABORT") /\ (OnlyStep \/ ToAbort)

RunABORT == At("ABORT") /\ ToAbort

(* do_abort_interp: the operands of CHECKOP are cleared, down from the     *)
(* last; a count over four is not one of the cases.                        *)
AbortInterp ==
    LET doomed == {oper[k] : k \in {i \in 1..4 : nargs <= 4 /\ i <= nargs}} \cap Cells IN
    /\ phase = "aborting"
    /\ cell' = [c \in Cells |-> IF c \in doomed THEN "cleared" ELSE cell[c]]
    /\ held' = [s \in Shared |-> held[s] - Cardinality({c \in doomed : cell[c] = s})]
    /\ err' = err + 1 /\ phase' = "failed"
    /\ UNCHANGED <<prim, pc, top, oper, ref, locals, nargs, tmp>>

RunPOP ==
    /\ At("POP")
    /\ oper' = [oper EXCEPT ![This.k] = top]
    /\ top' = top - 1
    /\ Step1 /\ Stay(<<cell, ref, locals, nargs, tmp, held, err>>)

(* RCLEAR: what is cleared twice is only reported. *)
RunCLEAR ==
    /\ At("CLEAR")
    /\ LET c == Pointee(This.k) IN
       IF c \in Cells
         THEN cell' = [cell EXCEPT ![c] = "cleared"] /\ held' = Lose(cell[c])
         ELSE UNCHANGED <<cell, held>>
    /\ Step1 /\ Stay(<<top, oper, ref, locals, nargs, tmp, err>>)

(* Nothing may be written above the stack: the program would be gone. *)
Crash ==
    /\ phase' = "crashed"
    /\ UNCHANGED <<prim, pc, cell, top, oper, ref, locals, nargs, tmp, held, err>>

PushCell(v, links) ==
    IF top >= StackSize THEN Crash
    ELSE /\ cell' = [cell EXCEPT ![top + 1] = v]
         /\ top' = top + 1 /\ held' = links
         /\ Step1 /\ Stay(<<oper, ref, locals, nargs, tmp, err>>)

RunPUSH == At("PUSH") /\ \E v \in This.s : PushCell(v, Gain(v))

RunPUTBACK ==
    /\ At("PUTBACK")
    /\ LET v == cell[Pointee(This.k)] IN PushCell(v, held)

RunCOPY ==
    /\ Ready /\ This.op \in {"COPY", "COPYCOUNT"}
    /\ LET depth == IF This.op = "COPY" THEN This.k ELSE tmp
           v == cell[top + 1 - depth] IN PushCell(v, Gain(v))

RunFETCH == At("FETCH") /\ PushCell(cell[Variable], Gain(cell[Variable]))

RunSAVE ==
    /\ At("SAVE")
    /\ cell' = [cell EXCEPT ![Temp(10 + This.m)] = cell[oper[This.k]]]
    /\ Step1 /\ Stay(<<top, oper, ref, locals, nargs, tmp, held, err>>)

RunALIAS ==
    /\ At("ALIAS")
    /\ oper' = [oper EXCEPT ![This.k] = Temp(10 + This.m)]
    /\ Step1 /\ Stay(<<cell, top, ref, locals, nargs, tmp, held, err>>)

(* A copy of the operand takes the place of another cell, which is cleared. *)
Overwrite(c) ==
    LET v == cell[oper[This.k]] IN
    /\ cell' = [cell EXCEPT ![c] = v]
    /\ held' = [s \in Shared |-> Lose(cell[c])[s] + Links(v)[s]]
    /\ Step1 /\ Stay(<<top, oper, ref, locals, nargs, tmp, err>>)

RunREPLACE == At("REPLACE") /\ Overwrite(top + 1 - tmp)

RunSTORE == At("STORE") /\ Overwrite(Variable)

(* n > 0: the n-th cell comes up; n < 0: the top cell goes down. *)
Rotated(n) ==
    [c \in Cells |->
        CASE n > 0 /\ c = top                  -> cell[top + 1 - n]
          [] n > 0 /\ c \in top + 1 - n .. top - 1 -> cell[c + 1]
          [] n < 0 /\ c = top + 1 + n          -> cell[top]
          [] n < 0 /\ c \in top + 2 + n .. top -> cell[c - 1]
          [] OTHER                             -> cell[c]]

RunROTATE ==
    /\ At("ROTATE")
    /\ IF tmp < -top THEN Crash
       ELSE cell' = Rotated(tmp) /\ Step1 /\ Stay(<<top, oper, ref, locals, nargs, tmp, held, err>>)

(* The order depends on the data: any of the orders of the cells. *)
RunSORT ==
    /\ At("SORT")
    /\ LET sorted == top + 1 - tmp .. top IN
       \E order \in Permutations(sorted) :
          cell' = [c \in Cells |-> IF c \in sorted THEN cell[order[c]] ELSE cell[c]]
    /\ Step1 /\ Stay(<<top, oper, ref, locals, nargs, tmp, held, err>>)

RunREAD == At("READ") /\ OnlyStep

RunSETREF ==
    /\ At("SETREF") /\ ref' = "own"
    /\ Step1 /\ Stay(<<cell, top, oper, locals, nargs, tmp, held, err>>)

(* Another program has run: the globals are what it left in them. *)
RunNEST ==
    /\ At("NEST")
    /\ oper' = [k \in 1..4 |-> IF k <= locals THEN oper[k] ELSE Foreign]
    /\ ref' = "foreign"
    /\ nargs' \in 0..4
    /\ Step1 /\ Stay(<<cell, top, locals, tmp, held, err>>)

RunLOCAL_OPERS ==
    /\ At("LOCAL_OPERS") /\ locals' = This.k
    /\ Step1 /\ Stay(<<cell, top, oper, ref, nargs, tmp, held, err>>)

RunNARGS ==
    /\ At("NARGS") /\ nargs' = This.k
    /\ Step1 /\ Stay(<<cell, top, oper, ref, locals, tmp, held, err>>)

SetTmp(n) == tmp' = n /\ Step1 /\ Stay(<<cell, top, oper, ref, locals, nargs, held, err>>)

(* The number in an operand; abs of the least integer is that integer. *)
RunCOUNT ==
    /\ Ready /\ This.op \in {"COUNT", "ABSCOUNT"}
    /\ LET v == cell[Pointee(This.k)]
           n == IF v \in Ints THEN AmountOf[v] ELSE 0 IN
       SetTmp(IF This.op = "ABSCOUNT" /\ n < 0 /\ v # "intmin" THEN -n ELSE n)

RunANYCOUNT == At("ANYCOUNT") /\ \E n \in 0..MaxCount : SetTmp(n)

RunAGAIN ==
    /\ At("AGAIN") /\ tmp' = tmp - 1 /\ Goto(pc - This.m)
    /\ Stay(<<cell, top, oper, ref, locals, nargs, held, err>>)

OnlyGoto(n) == Goto(n) /\ Stay(<<cell, top, oper, ref, locals, nargs, tmp, held, err>>)

RunJUMP ==
    \/ At("JUMP") /\ OnlyGoto(pc + This.m)
    \/ At("EITHER") /\ (OnlyGoto(pc + 1) \/ OnlyGoto(pc + This.m))
    \/ At("LOOP") /\ OnlyGoto(IF tmp = 0 THEN pc + This.m ELSE pc + 1)
    \/ At("BRANCH") /\ \/ May(This.k, This.s) /\ OnlyGoto(pc + 1)
                       \/ MayNot(This.k, This.s) /\ OnlyGoto(pc + This.m)

RunALLOC ==
    /\ At("ALLOC") /\ \E v \in This.s : held' = Gain(v)
    /\ Step1 /\ Stay(<<cell, top, oper, ref, locals, nargs, tmp, err>>)

RunSETERR ==
    /\ At("SETERR") /\ err' = err + 1
    /\ Step1 /\ Stay(<<cell, top, oper, ref, locals, nargs, tmp, held>>)

Return ==
    /\ phase = "running" /\ pc > Len(prim.steps)
    /\ phase' = IF err > 0 THEN "failed" ELSE "returned"
    /\ UNCHANGED <<prim, pc, cell, top, oper, ref, locals, nargs, tmp, held, err>>

(* prog_clean: every cell of the stack and every variable. *)
prog_clean ==
    /\ phase = "failed"
    /\ cell' = [c \in Cells |-> IF c \in Live THEN "cleared" ELSE cell[c]]
    /\ held' = [s \in Shared |-> held[s] - LiveOf(s)]
    /\ top' = 0 /\ err' = 0 /\ phase' = "cleaned"
    /\ UNCHANGED <<prim, pc, oper, ref, locals, nargs, tmp>>

(* Another frame, or the same one at its next primitive. *)
Again ==
    /\ phase \in {"returned", "cleaned", "crashed"}
    /\ prim' = None /\ Goto(0) /\ phase' = "idle"
    /\ cell' = NoCells /\ top' = 0 /\ held' = Links("string")
    /\ oper' = NoOperands /\ ref' = "none" /\ locals' = 0
    /\ nargs' = 0 /\ tmp' = 0 /\ err' = 0

Next ==
    \/ \E p \in Names : CallPrimitive(p)
    \/ RunCHECKOP \/ RunCHECKOPCOUNT \/ RunCHECKOFLOW \/ RunUNLESS \/ RunUNLESSCOUNT \/ RunMAYABORT \/ RunABORT
    \/ AbortInterp \/ RunPOP \/ RunCLEAR \/ RunPUSH \/ RunPUTBACK \/ RunCOPY \/ RunFETCH \/ RunSAVE \/ RunALIAS
    \/ RunREPLACE \/ RunSTORE \/ RunROTATE \/ RunSORT \/ RunREAD \/ RunSETREF \/ RunNEST \/ RunLOCAL_OPERS \/ RunNARGS
    \/ RunCOUNT \/ RunANYCOUNT \/ RunAGAIN \/ RunJUMP \/ RunALLOC \/ RunSETERR \/ Return \/ prog_clean \/ Again

Spec == Init /\ [][Next]_vars

---------------------------------------------------------------------------
(* Properties *)

(* The frame is well formed. *)
TypeOK ==
    /\ prim.name \in Names \cup {"none"} /\ pc \in Nat
    /\ cell \in [Cells -> Values \cup {"cleared"}]
    /\ top \in 0..StackSize
    /\ oper \in [1..4 -> Pointers]
    /\ ref \in {"none", "own", "foreign"} /\ locals \in 0..4
    /\ nargs \in Int /\ tmp \in Int /\ err \in 0..2
    /\ held \in [Shared -> Int]
    /\ phase \in {"idle", "running", "aborting", "failed", "returned", "cleaned", "crashed"}

(* An operand is used only as what its type was tested to be.  Five        *)
(* primitives do not: INTERP and INTOSTR take their text or number for     *)
(* granted, STATS looks for #-1 in a cell of any type, and MOVETO, SETLINK *)
(* and PLAYER? with its like look HOME up among the objects.               *)
Untested ==
    CASE prim.name = "interp"            -> At("READ") /\ This.k = 3
      [] prim.name \in {"intostr", "stats"} -> This.k = 1
      [] prim.name = "moveto"            -> May(1, is_home)
      [] prim.name = "setlink"           -> May(2, is_home)
      [] prim.name \in {"playerp", "thingp", "roomp", "programp", "exitp"} -> May(1, is_home)
      [] OTHER                           -> FALSE

OperandsTyped ==
    /\ At("READ") /\ This.k # REF => May(This.k, This.s) \/ Untested
    /\ At("COUNT") \/ At("ABSCOUNT") => May(This.k, Ints)

(* Whatever a primitive reads, gives back or clears, on its way or when it *)
(* aborts, is an operand it has itself taken off the stack, that nothing   *)
(* was pushed over, that no other program has put there and that was not   *)
(* cleared before.  SETOWN goes on with the globals after a lock may have  *)
(* run a program; CONBOOT, STATS and PROCTIME may abort between CHECKOP    *)
(* and POP.                                                                *)
Own(k) ==
    IF k = REF THEN ref = "own"
    ELSE LET c == Pointee(k) IN
         c \in Cells /\ c \notin Live /\ cell[c] # "cleared"

Uses == {"READ", "UNLESS", "CLEAR", "SAVE", "PUTBACK", "REPLACE", "STORE", "COUNT", "ABSCOUNT", "BRANCH"}

OwnOperands ==
    prim.name \notin {"setown", "conboot", "stats", "proctime"} =>
        /\ Ready /\ This.op \in Uses => Own(This.k)
        /\ phase = "aborting" /\ nargs <= 4 => \A k \in 1..nargs : Own(k)

(* No primitive takes from an empty stack, pushes on a full one or reaches *)
(* below the bottom: the tests of CHECKOP and CHECKOFLOW are enough for    *)
(* what follows them.  ROTATE is not stopped by abs(INT_MIN), which is     *)
(* negative.                                                               *)
InBounds ==
    /\ TypeOK
    /\ At("POP") => top > 0
    /\ Ready /\ This.op \in {"PUSH", "PUTBACK", "COPY", "COPYCOUNT", "FETCH"} => top < StackSize
    /\ At("COPY") => This.k \in 1..top
    /\ At("COPYCOUNT") \/ At("REPLACE") => tmp \in 1..top
    /\ At("SORT") => tmp \in 0..top
    /\ At("ROTATE") => tmp \in -top..top \/ May(This.k, {"intmin"})

(* When a primitive is done the program holds just the links of the values *)
(* on its stack and in its variables, and when it was stopped and cleaned  *)
(* it holds none.  PUT forgets the value when the stack is not deep enough,*)
(* PARSELOCK the lock it has pushed a copy of.                             *)
Counted ==
    phase \in {"returned", "cleaned"} /\ prim.name \notin {"put", "parselock"} =>
        \A s \in Shared : held[s] = LiveOf(s)
=============================================================================
