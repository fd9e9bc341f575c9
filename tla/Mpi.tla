------------------------------ MODULE Mpi ------------------------------
(***************************************************************************)
(* The MPI parser of msgparse.c: mesg_parse goes through a text, calls the *)
(* functions it finds in braces, and is called by them again; each level   *)
(* parses the arguments of a function, runs its steps (modules MpiFuns and *)
(* MpiFuns2) and parses its result if the function list says so.           *)
(* do_parse_mesg_2 starts a message: at rest, or from inside a function    *)
(* that runs a program, a lock or a command.                               *)
(*                                                                         *)
(* Everything is kept in globals: the stack of variables, whose entries    *)
(* point into the C frames of the functions that made them, the stack of   *)
(* functions, the levels, match_args and match_cmdname.  An error returns  *)
(* NULL through every level up to do_parse_mesg_2, which sets the globals  *)
(* back.                                                                   *)
(***************************************************************************)
EXTENDS MpiFuns, MpiFuns2, FiniteSets

CONSTANTS
    MaxLevels,      \* MAX_MPI_LEVELS
    MaxVars,        \* MPI_MAX_VARIABLES
    MaxFuncs,       \* MPI_MAX_FUNCTIONS
    MaxCommands,    \* tp_mpi_max_commands
    MaxCalls,       \* the 18 of mfn_muf
    MaxArgs,        \* bound: arguments a function is given
    MaxDenied,      \* bound: calls refused by mfn_muf in the life of a server
    Inner,          \* bound: the functions called inside an argument
    VarNames        \* the names functions give variables

ASSUME MpiAssumption ==
    /\ {MaxLevels, MaxVars, MaxFuncs, MaxCommands, MaxCalls, MaxArgs, MaxDenied} \subseteq Nat
    /\ MaxVars >= 2

VARIABLES
    stack,          \* the C calls: messages, and levels of mesg_parse with their function
    ret,            \* what the innermost call is given: "call", "text" or "null"
    varv,           \* the variables; owner is the call whose buffer it is, 0 once that is gone
    funcc,          \* number of functions defined
    mesg_rec_cnt,
    mesg_instr_cnt,
    match,          \* whose text match_args and match_cmdname hold
    mpi_muf_call_levels,
    denied,         \* how many times mfn_muf refused a call for its level
    force_level

vars == <<stack, ret, varv, funcc, mesg_rec_cnt, mesg_instr_cnt, match,
          mpi_muf_call_levels, denied, force_level>>

tables == <<varv, funcc>>
counters == <<mesg_rec_cnt, mesg_instr_cnt>>
others == <<match, mpi_muf_call_levels, denied, force_level>>

---------------------------------------------------------------------------
(* The function list *)

mfun_list ==
    [abs |-> mfn_abs, add |-> mfn_add, and |-> mfn_and, awake |-> mfn_awake,
     center |-> mfn_center, commas |-> mfn_commas, concat |-> mfn_concat,
     contains |-> mfn_contains, contents |-> mfn_contents, controls |-> mfn_controls,
     convsecs |-> mfn_convsecs, convtime |-> mfn_convtime, count |-> mfn_count,
     created |-> mfn_created, date |-> mfn_date, dbeq |-> mfn_dbeq, debug |-> mfn_debug,
     debugif |-> mfn_debugif, dec |-> mfn_dec, default |-> mfn_default, delay |-> mfn_delay,
     delprop |-> mfn_delprop, dice |-> mfn_dice, dirprops |-> mfn_dirprops, dist |-> mfn_dist,
     div |-> mfn_div, eq |-> mfn_eq, eval |-> mfn_lit, exec |-> mfn_exec,
     execbang |-> mfn_execbang, exits |-> mfn_exits, filter |-> mfn_filter, flags |-> mfn_flags,
     fold |-> mfn_fold, for |-> mfn_for, force |-> mfn_force, foreach |-> mfn_foreach,
     fox |-> mfn_fox, ftime |-> mfn_ftime, fullname |-> mfn_fullname, func |-> mfn_func,
     ge |-> mfn_ge, gt |-> mfn_gt, holds |-> mfn_holds, idle |-> mfn_idle, if |-> mfn_if,
     inc |-> mfn_inc, index |-> mfn_index, indexbang |-> mfn_indexbang, instr |-> mfn_instr,
     isdbref |-> mfn_isdbref, isnum |-> mfn_isnum, istype |-> mfn_istype, kill |-> mfn_kill,
     lastused |-> mfn_lastused, lcommon |-> mfn_lcommon, le |-> mfn_le, left |-> mfn_left,
     lexec |-> mfn_lexec, links |-> mfn_links, list |-> mfn_list, listprops |-> mfn_listprops,
     lit |-> mfn_lit, lmember |-> mfn_lmember, loc |-> mfn_loc, locked |-> mfn_locked,
     lrand |-> mfn_lrand, lremove |-> mfn_lremove, lsort |-> mfn_lsort, lt |-> mfn_lt,
     ltimestr |-> mfn_ltimestr, lunion |-> mfn_lunion, lunique |-> mfn_lunique, max |-> mfn_max,
     midstr |-> mfn_midstr, min |-> mfn_min, mklist |-> mfn_mklist, mod |-> mfn_mod,
     modified |-> mfn_modified, money |-> mfn_money, muckname |-> mfn_muckname, muf |-> mfn_muf,
     mult |-> mfn_mult, name |-> mfn_name, ne |-> mfn_ne, nearby |-> mfn_nearby, nl |-> mfn_nl,
     not |-> mfn_not, null |-> mfn_null, oansi |-> mfn_oansi, online |-> mfn_online,
     ontime |-> mfn_ontime, or |-> mfn_or, otell |-> mfn_otell, owner |-> mfn_owner,
     parse |-> mfn_parse, pronouns |-> mfn_pronouns, prop |-> mfn_prop,
     propbang |-> mfn_propbang, propdir |-> mfn_propdir, rand |-> mfn_rand, rat |-> mfn_rat,
     right |-> mfn_right, ref |-> mfn_ref, secs |-> mfn_secs, select |-> mfn_select,
     set |-> mfn_set, sign |-> mfn_sign, showlist |-> mfn_showlist, smatch |-> mfn_smatch,
     stimestr |-> mfn_stimestr, store |-> mfn_store, strip |-> mfn_strip, strlen |-> mfn_strlen,
     sublist |-> mfn_sublist, subst |-> mfn_subst, subt |-> mfn_subt, testlock |-> mfn_testlock,
     ansi |-> mfn_ansi, tell |-> mfn_tell, time |-> mfn_time, timestr |-> mfn_timestr,
     timesub |-> mfn_timesub, tolower |-> mfn_tolower, toupper |-> mfn_toupper,
     type |-> mfn_type, tzoffset |-> mfn_tzoffset, usecount |-> mfn_usecount, v |-> mfn_v,
     version |-> mfn_version, while |-> mfn_while, with |-> mfn_with, xor |-> mfn_xor]

Names == DOMAIN mfun_list

parsep ==
    Names \ {"and", "commas", "debug", "debugif", "default", "filter", "fold", "for", "foreach",
             "fox", "func", "if", "lit", "lsort", "muckname", "nl", "online", "or", "parse", "rat",
             "secs", "tzoffset", "version", "while", "with"}

postp == {"eval", "index", "indexbang", "rand", "timesub"}

minargs(f) ==
    CASE f \in {"fox", "muckname", "nl", "online", "rat", "secs", "tzoffset", "version", "date",
                "time", "mklist", "null"} -> 0
      [] f \in {"dbeq", "debugif", "default", "delay", "eq", "force", "ge", "gt", "instr", "istype",
                "lcommon", "le", "locked", "lremove", "lt", "lunion", "max", "min", "muf", "ne",
                "set", "smatch", "while", "xor", "if", "lmember", "midstr", "select", "store",
                "testlock", "dist", "add", "and", "div", "func", "mod", "mult", "or", "subt"} -> 2
      [] f \in {"subst", "foreach", "timesub", "filter", "parse", "with"} -> 3
      [] f = "fold" -> 4
      [] f = "for" -> 5
      [] OTHER -> 1

maxargs(f) ==
    CASE f \in {"fox", "muckname", "nl", "online", "rat", "secs", "tzoffset", "version"} -> 0
      [] f \in {"date", "time", "lit", "strip", "abs", "awake", "convsecs", "convtime", "created",
                "debug", "eval", "exits", "flags", "fullname", "idle", "isdbref", "isnum", "kill",
                "lastused", "links", "loc", "ltimestr", "lunique", "modified", "money", "name",
                "not", "ontime", "owner", "ref", "sign", "stimestr", "strlen", "timestr",
                "tolower", "toupper", "type", "usecount", "v"} -> 1
      [] f \in {"center", "dice", "ftime", "left", "listprops", "oansi", "otell", "right", "if",
                "lmember", "midstr", "select", "store", "subst"} -> 3
      [] f \in {"commas", "lsort", "sublist", "testlock", "foreach", "timesub"} -> 4
      [] f \in {"filter", "parse", "fold", "for"} -> 5
      [] f = "dist" -> 6
      [] f \in {"mklist", "null", "add", "and", "div", "func", "mod", "mult", "or", "subt", "with"} -> 9
      [] OTHER -> 2

(* The numbers of arguments at and about both ends of what is allowed; the  *)
(* text of lit and strip (a maximum of -1) is cut into one at most.        *)
Given(f) ==
    {minargs(f) - 1, minargs(f), minargs(f) + 1, maxargs(f) - 1, maxargs(f), maxargs(f) + 1}
      \cap 0..(IF f \in {"lit", "strip"} THEN 1 ELSE MaxArgs)

---------------------------------------------------------------------------
(* The calls *)

Depth == Len(stack)
Top == stack[Depth]
Level(at) == Depth > 0 /\ Top.kind = "parse" /\ Top.at = at

NoObjects == <<"NOTHING", "NOTHING">>
NewLevel ==
    [kind |-> "parse", at |-> "text", fn |-> "none", steps |-> <<>>, argc |-> 0, arg |-> 0,
     pc |-> 0, obj |-> NoObjects, base |-> Len(varv)]

Calling == Level("body") /\ ret = "none" /\ Top.pc <= Len(Top.steps)
This == Top.steps[Top.pc]
At(op) == Calling /\ This.op = op

Messages == {d \in 1..Depth : stack[d].kind = "message"}
Message == CHOOSE d \in Messages : \A e \in Messages : e <= d       \* the innermost
what == stack[Message].what

Put(frame) == stack' = [stack EXCEPT ![Depth] = frame]
Goto(n) == Put([Top EXCEPT !.pc = n])
SetObj(k, o) == Put([Top EXCEPT !.obj[k] = o, !.pc = @ + 1])
Drop == stack' = SubSeq(stack, 1, Depth - 1)

(* The function of the innermost call returns: its buffers are gone. *)
Gone == [i \in DOMAIN varv |-> IF varv[i].owner = Depth THEN [varv[i] EXCEPT !.owner = 0] ELSE varv[i]]

Minimum(a, b) == IF a < b THEN a ELSE b

---------------------------------------------------------------------------
(* Messages *)

(* new_mvar, n times: the index is compared with MPI_MAX_VARIABLES after   *)
(* the last entry of the table, so one more than there is room for passes. *)
Room == MaxVars + 1 - Len(varv)
new_mvar(n) == n <= Room

Entry(name, owner) == [name |-> name, owner |-> owner, by |-> "message"]

(* A message whose three variables do not fit is not parsed; those that    *)
(* did fit stay.                                                           *)
do_parse_mesg_2(garbage) ==
    LET names == <<"how", "cmd", "arg">> IN
    IF new_mvar(3)
      THEN /\ stack' = Append(stack, [kind |-> "message", vars |-> Len(varv), funcs |-> funcc,
                                      rec |-> mesg_rec_cnt, instr |-> mesg_instr_cnt,
                                      match |-> match, what |-> garbage, refused |-> FALSE])
           /\ varv' = varv \o [i \in 1..3 |-> Entry(names[i], Depth + 1)]
           /\ ret' = "call" /\ UNCHANGED <<funcc, counters, others>>
      ELSE /\ varv' = varv \o [i \in 1..Room |-> Entry(names[i], 0)]
           /\ stack' = [stack EXCEPT ![Message].refused = TRUE]
           /\ UNCHANGED <<ret, funcc, counters, others>>

(* At rest: a description, a lock's message, an event of the queue. *)
AtRest ==
    /\ stack = <<>> /\ denied < MaxDenied
    /\ \E w \in {"object", "garbage"} : do_parse_mesg_2(w)

(* The levels refused calls have left are never given back: only a new     *)
(* server begins at nothing again.                                         *)
NewServer ==
    /\ stack = <<>> /\ denied = MaxDenied
    /\ mpi_muf_call_levels' = 0 /\ denied' = 0
    /\ UNCHANGED <<stack, ret, tables, counters, match, force_level>>

\* Mutant of Restore: a message that failed inside another leaves its first variable.
Restore_kept(m) ==
    /\ varv' = SubSeq(Gone, 1, IF ret = "null" /\ m.vars > 0 THEN m.vars + 1 ELSE m.vars)
    /\ funcc' = Minimum(funcc, m.funcs)
    /\ mesg_rec_cnt' = m.rec /\ mesg_instr_cnt' = m.instr
    /\ match' = m.match

(* free_mfuncs(mfunccnt), and what was saved. *)
Restore(m) ==
    /\ varv' = SubSeq(varv, 1, m.vars)
    /\ funcc' = Minimum(funcc, m.funcs)
    /\ mesg_rec_cnt' = m.rec /\ mesg_instr_cnt' = m.instr
    /\ match' = m.match

MessageOver ==
    /\ Depth > 0 /\ Top.kind = "message" /\ ret \in {"text", "null"}
    /\ Restore(Top) /\ Drop /\ ret' = "none"
    /\ UNCHANGED <<mpi_muf_call_levels, denied, force_level>>

---------------------------------------------------------------------------
(* Levels *)

(* Too deep: the text stays as it is.  A trigger that has been recycled is *)
(* an error, and like every error leaves the level counted.                *)
mesg_parse ==
    /\ ret = "call"
    /\ IF mesg_rec_cnt + 1 > MaxLevels
         THEN ret' = "text" /\ UNCHANGED <<stack, mesg_rec_cnt>>
         ELSE /\ mesg_rec_cnt' = mesg_rec_cnt + 1
              /\ IF what = "garbage"
                   THEN ret' = "null" /\ UNCHANGED stack
                   ELSE ret' = "none" /\ stack' = Append(stack, NewLevel)
    /\ UNCHANGED <<tables, mesg_instr_cnt, others>>

(* The end of the text. *)
EndOfText ==
    /\ Level("text") /\ ret = "none"
    /\ ret' = "text" /\ mesg_rec_cnt' = mesg_rec_cnt - 1
    /\ Drop /\ UNCHANGED <<tables, mesg_instr_cnt, others>>

(* An error is reported under the name in the variable how. *)
Error == /\ ret' = "null" /\ Drop
         /\ varv' = Gone /\ UNCHANGED <<funcc, counters, others>>

(* Neither a function nor a macro, no end brace, no such variable. *)
ScanError == Level("text") /\ ret = "none" /\ Error

Offered ==
    {f \in (IF mesg_rec_cnt <= 1 THEN Names ELSE Inner) : f = "muf" => denied < MaxDenied}

Called(f, n, first) ==
    [Top EXCEPT !.fn = f, !.steps = mfun_list[f], !.argc = n, !.arg = first, !.pc = 1, !.obj = NoObjects,
                !.at = IF f \in parsep THEN "args" ELSE "counted"]

(* {name:args}: the arguments are cut out of the text, not yet parsed.     *)
(* {&name:args} is a sublist of the variable.                              *)
CallFunction ==
    /\ Level("text") /\ ret = "none"
    /\ mesg_instr_cnt' = mesg_instr_cnt + 1
    /\ IF mesg_instr_cnt + 1 > MaxCommands
         THEN /\ ret' = "null" /\ Drop
              /\ varv' = Gone /\ UNCHANGED <<funcc, mesg_rec_cnt, others>>
         ELSE /\ \E f \in Offered :
                 \E n \in Given(f), first \in {1} \cup (IF f = "sublist" THEN {2} ELSE {}) :
                    first <= n + 1 /\ Put(Called(f, n, first))
              /\ UNCHANGED <<ret, tables, mesg_rec_cnt, others>>

ParseArgument ==
    /\ Level("args") /\ ret = "none"
    /\ IF Top.arg <= Top.argc
         THEN ret' = "call" /\ Put([Top EXCEPT !.arg = @ + 1])
         ELSE ret' = ret /\ Put([Top EXCEPT !.at = "counted"])
    /\ UNCHANGED <<tables, counters, others>>

(* Too few, or too many, arguments; a maximum of 0 is not tested. *)
CountArguments ==
    /\ Level("counted") /\ ret = "none"
    /\ IF minargs(Top.fn) <= Top.argc /\ maxargs(Top.fn) \in {0} \cup Top.argc..9
         THEN /\ Put([Top EXCEPT !.at = "body"])
              /\ UNCHANGED <<ret, tables, counters, others>>
         ELSE Error

(* What mesg_parse returned to a function or to its caller. *)
Returned ==
    /\ Depth > 0 /\ Top.kind = "parse"
    /\ \/ ret = "null" /\ Error
       \/ /\ ret = "text" /\ ret' = "none"
          /\ Put(CASE Top.at = "args" -> Top
                   [] Top.at = "body" -> [Top EXCEPT !.pc = @ + 1]
                   [] OTHER           -> [NewLevel EXCEPT !.base = Top.base])
          /\ UNCHANGED <<tables, counters, others>>

(* The function has a value: it is copied to the text, or parsed first. *)
Value ==
    /\ varv' = Gone
    /\ IF Top.fn \in postp
         THEN ret' = "call" /\ Put([Top EXCEPT !.at = "post"])
         ELSE ret' = ret /\ Put([NewLevel EXCEPT !.base = Top.base])
    /\ UNCHANGED <<funcc, counters, others>>

EndOfFunction == Level("body") /\ ret = "none" /\ Top.pc > Len(Top.steps) /\ Value

---------------------------------------------------------------------------
(* Steps of functions *)

Step1 == Goto(Top.pc + 1)
OnlyStep == Step1 /\ UNCHANGED <<ret, tables, counters, others>>

RunREAD == Calling /\ This.op \in {"ARGS", "READ", "HOW"} /\ OnlyStep

RunFAIL == Calling /\ This.op \in {"FAIL", "GETVAR"} /\ (OnlyStep \/ Error)

RunABORT == At("ABORT") /\ Error

RunANSWER == At("ANSWER") /\ Value

RunPARSE ==
    /\ Calling /\ This.op \in {"PARSE", "EXEC"}
    /\ ret' = "call" /\ UNCHANGED <<stack, tables, counters, others>>

(* What an object variable is set to: the trigger may be any object. *)
Kinds(s) ==
    IF s # {"what"} THEN s ELSE IF what = "garbage" THEN {"garbage"} ELSE {"room", "thing"}

RunOBJ ==
    /\ Calling /\ This.op \in {"OBJ", "MATCH"}
    /\ \E o \in Kinds(This.s) : SetObj(This.k, o)
    /\ UNCHANGED <<ret, tables, counters, others>>

RunREFUSE == At("REFUSE") /\ IF Top.obj[This.k] \in This.s THEN Error ELSE OnlyStep

RunANSWERIF == At("ANSWERIF") /\ IF Top.obj[This.k] \in This.s THEN Value ELSE OnlyStep

RunREFUSEARGS == At("REFUSEARGS") /\ IF Top.argc \in This.k..This.m THEN Error ELSE OnlyStep

(* A name that is too long, or a full table, is an error. *)
RunNEWVAR ==
    /\ At("NEWVAR")
    /\ \/ Error
       \/ /\ new_mvar(1)
          /\ \E name \in VarNames :
                varv' = Append(varv, [name |-> name, owner |-> Depth, by |-> "function"])
          /\ Step1 /\ UNCHANGED <<ret, funcc, counters, others>>

RunFREEVAR ==
    /\ At("FREEVAR")
    /\ varv' = SubSeq(varv, 1, Len(varv) - 1)
    /\ Step1 /\ UNCHANGED <<ret, funcc, counters, others>>

RunNEWFUNC ==
    /\ At("NEWFUNC")
    /\ \/ Error
       \/ /\ funcc <= MaxFuncs /\ funcc' = funcc + 1
          /\ Step1 /\ UNCHANGED <<ret, varv, counters, others>>

RunSETMATCH ==
    /\ At("SETMATCH") /\ match' = "other"
    /\ Step1 /\ UNCHANGED <<ret, tables, counters, mpi_muf_call_levels, denied, force_level>>

(* The program or command may have other messages parsed, recycle the      *)
(* trigger, run other commands, and come to its end.                       *)
RunCALL ==
    /\ At("CALL")
    /\ \/ do_parse_mesg_2("object")
       \/ /\ stack' = [stack EXCEPT ![Message].what = "garbage"]
          /\ UNCHANGED <<ret, tables, counters, others>>
       \/ /\ Step1 /\ match' \in {match, "other"}
          /\ UNCHANGED <<ret, tables, counters, mpi_muf_call_levels, denied, force_level>>

(* The level is counted before it is compared. *)
RunLEVEL ==
    /\ At("LEVEL")
    /\ mpi_muf_call_levels' = mpi_muf_call_levels + 1
    /\ IF mpi_muf_call_levels + 1 > MaxCalls
         THEN denied' = denied + 1 /\ ret' = "null" /\ Drop /\ varv' = Gone
         ELSE Step1 /\ UNCHANGED <<ret, varv, denied>>
    /\ UNCHANGED <<funcc, counters, match, force_level>>

RunUNLEVEL ==
    /\ At("UNLEVEL") /\ mpi_muf_call_levels' = mpi_muf_call_levels - 1
    /\ Step1 /\ UNCHANGED <<ret, tables, counters, match, denied, force_level>>

RunREFUSEFORCED == At("REFUSEFORCED") /\ IF force_level > 0 THEN Error ELSE OnlyStep

RunFORCE ==
    /\ Calling /\ This.op \in {"FORCEIN", "FORCEOUT"}
    /\ force_level' = force_level + This.m
    /\ Step1 /\ UNCHANGED <<ret, tables, counters, match, mpi_muf_call_levels, denied>>

RunJUMP ==
    /\ \/ At("JUMP") /\ Goto(Top.pc + This.m)
       \/ At("EITHER") /\ (Step1 \/ Goto(Top.pc + This.m))
       \/ At("IFARGS") /\ Goto(Top.pc + IF Top.argc > This.k THEN 1 ELSE This.m)
    /\ UNCHANGED <<ret, tables, counters, others>>

---------------------------------------------------------------------------
Init ==
    /\ stack = <<>> /\ ret = "none"
    /\ varv = <<>> /\ funcc = 0
    /\ mesg_rec_cnt = 0 /\ mesg_instr_cnt = 0
    /\ match = "own"
    /\ mpi_muf_call_levels = 0 /\ denied = 0 /\ force_level = 0

Next ==
    \/ AtRest
    \/ NewServer
    \/ MessageOver
    \/ mesg_parse
    \/ EndOfText
    \/ ScanError
    \/ CallFunction
    \/ ParseArgument
    \/ CountArguments
    \/ Returned
    \/ EndOfFunction
    \/ RunREAD
    \/ RunFAIL
    \/ RunABORT
    \/ RunANSWER
    \/ RunPARSE
    \/ RunOBJ
    \/ RunREFUSE
    \/ RunANSWERIF
    \/ RunREFUSEARGS
    \/ RunNEWVAR
    \/ RunFREEVAR
    \/ RunNEWFUNC
    \/ RunSETMATCH
    \/ RunCALL
    \/ RunLEVEL
    \/ RunUNLEVEL
    \/ RunREFUSEFORCED
    \/ RunFORCE
    \/ RunJUMP

Spec == Init /\ [][Next]_vars

---------------------------------------------------------------------------
(* What must hold *)

Levels == {d \in 1..Depth : stack[d].kind = "parse"}

NoneRefused == \A d \in Messages : ~stack[d].refused

(* A variable points into the buffer of a function or message that is      *)
(* still running, unless an error is on its way up; and a function that    *)
(* has returned a value has given back as many variables as it made,       *)
(* whatever was parsed in between.  A message refused for want of room     *)
(* leaves its first variables behind, and the functions around it then     *)
(* give back those instead of their own.                                   *)
VariablesRight ==
    NoneRefused =>
      /\ ret # "null" => \A i \in DOMAIN varv : varv[i].owner # 0
      /\ Level("text") /\ ret = "none" => Len(varv) = Top.base

(* Every error report reads the variable how: the last one of that name    *)
(* is the buffer of a message still being parsed, also while errors come   *)
(* up through functions whose own variables are gone; unless a function    *)
(* has called its variable how, or a message was refused.                  *)
HowLive ==
    Depth > 0 /\ NoneRefused =>
      LET hows == {i \in DOMAIN varv : varv[i].name = "how"} IN
      \E last \in hows : /\ \A j \in hows : j <= last
                         /\ varv[last].owner # 0 \/ varv[last].by = "function"

(* A function reads the arguments it was given, whose number the function  *)
(* list allows, and an object only after every answer of its lookup that   *)
(* is not an object (UNKNOWN -88, PERMDENIED -89, and NOTHING for a player *)
(* in limbo) has been turned away: db[-88] is never read.                  *)
OperandsExist ==
    Calling =>
      /\ This.op \in {"ARGS", "PARSE", "MATCH"} => This.m <= Top.argc
      /\ This.op = "READ" => Top.obj[This.k] \in This.s

(* The steps of mfn_muf between the counting and the counting down.        *)
InsideCall ==
    LET steps == mfun_list["muf"] IN
    {n \in 1..Len(steps) + 1 : /\ \E p \in 1..n - 1 : steps[p].op = "LEVEL"
                              /\ \A p \in 1..n - 1 : steps[p].op # "UNLEVEL"}

Calls == {d \in Levels : stack[d].fn = "muf" /\ stack[d].at = "body" /\ stack[d].pc \in InsideCall}

(* Unless an error is on its way up, the levels counted are those that are *)
(* running, whatever ended messages or errors there were inside; calls of  *)
(* programs are counted once each, and once for each call refused; and     *)
(* with the last message everything is as it was before the first one.     *)
CountersRight ==
    /\ ret # "null" => mesg_rec_cnt = Cardinality(Levels)
    /\ mpi_muf_call_levels = Cardinality(Calls) + denied
    /\ force_level \in {0, 1}
    /\ stack = <<>> => /\ mesg_rec_cnt = 0 /\ mesg_instr_cnt = 0 /\ match = "own"
                       /\ varv = <<>> /\ funcc = 0 /\ force_level = 0
=========================================================================
