---------------------------- MODULE MpiOps ----------------------------
(***************************************************************************)
(* The vocabulary of the MPI functions of src/mfuns.c and src/mfuns2.c:    *)
(* the objects a function can get hold of, and the steps its C body is     *)
(* made of.  A function is the sequence of its steps in source order; the  *)
(* parser that calls them is in the module Mpi.                            *)
(*                                                                         *)
(* A step is a record: op says which, k is an object variable of the C     *)
(* function (1 is obj, or obj1, 2 is obj2, who or eobj), s a set of        *)
(* objects, m an argument's number (argv[m - 1]), a count, or a distance   *)
(* to jump.                                                                *)
(***************************************************************************)
EXTENDS Integers, Sequences

---------------------------------------------------------------------------
(* Objects *)

Types == {"room", "thing", "player", "program"}    \* an exit is read like a room
Items == Types \cup {"garbage"}         \* OkObj
Special == {"UNKNOWN", "PERMDENIED", "NOTHING"}
Objects == Items \cup Special

(* The results of the lookups: none gives HOME or AMBIGUOUS, which         *)
(* mesg_dbref_raw turns into UNKNOWN.                                      *)
mesg_dbref_raw == Types \cup {"UNKNOWN"}
mesg_dbref == mesg_dbref_raw \cup {"PERMDENIED"}
mesg_dbref_mage == mesg_dbref_raw \cup {"PERMDENIED"}
mesg_dbref_strict == mesg_dbref_raw \cup {"PERMDENIED"}
mesg_dbref_local == mesg_dbref_raw \cup {"PERMDENIED"}

Unmatched == {"UNKNOWN", "NOTHING"}     \* and AMBIGUOUS and HOME
Here == {"room", "thing", "NOTHING"}    \* getloc(player)
Players == {"player", "thing"}          \* who reads a message: a puppet is a thing

---------------------------------------------------------------------------
(* Steps *)

Step(op, k, s, m) == [op |-> op, k |-> k, s |-> s, m |-> m]

ARGS(n) == Step("ARGS", 0, {}, n)               \* argv[n - 1] is read, and those before it
FAIL == Step("FAIL", 0, {}, 0)                  \* an ABORT_MPI on the text of an argument
ABORT == Step("ABORT", 0, {}, 0)
ANSWER == Step("ANSWER", 0, {}, 0)              \* return of a value
PARSE(n) == Step("PARSE", 0, {}, n)             \* MesgParse(argv[n - 1], ...), CHECKRETURN
EXEC == Step("EXEC", 0, {}, 0)                  \* mesg_parse of a property, CHECKRETURN
WHAT(k) == Step("OBJ", k, {"what"}, 0)          \* obj = what
PLAYER(k) == Step("OBJ", k, Players, 0)         \* obj = player
HERE(k) == Step("OBJ", k, Here, 0)              \* obj = getloc(player)
MATCH(k, s, n) == Step("MATCH", k, s, n)        \* obj = a lookup of argv[n - 1], one of s
REFUSE(k, s) == Step("REFUSE", k, s, 0)         \* ABORT_MPI if obj is in s
ANSWERIF(k, s) == Step("ANSWERIF", k, s, 0)     \* return a value if obj is in s
READ(k, s) == Step("READ", k, s, 0)             \* obj read as one of s
NEWVAR == Step("NEWVAR", 0, {}, 0)              \* new_mvar, and its two ABORT_MPI
FREEVAR == Step("FREEVAR", 0, {}, 0)            \* free_top_mvar
NEWFUNC == Step("NEWFUNC", 0, {}, 0)            \* new_mfunc, and its two ABORT_MPI
GETVAR == Step("GETVAR", 0, {}, 0)              \* get_mvar(argv[0]), ABORT_MPI if there is none
HOW == Step("HOW", 0, {}, 0)                    \* get_mvar of how, cmd or arg
SETMATCH == Step("SETMATCH", 0, {}, 0)          \* strcpy to match_args and match_cmdname
CALL == Step("CALL", 0, {}, 0)                  \* something that runs other programs or messages
LEVEL == Step("LEVEL", 0, {}, 0)                \* if (++mpi_muf_call_levels > 18) ABORT_MPI
UNLEVEL == Step("UNLEVEL", 0, {}, 0)            \* mpi_muf_call_levels--
REFUSEFORCED == Step("REFUSEFORCED", 0, {}, 0)  \* if (force_level) ABORT_MPI
FORCEIN == Step("FORCEIN", 0, {}, 1)            \* force_level++
FORCEOUT == Step("FORCEOUT", 0, {}, 0 - 1)      \* force_level--
REFUSEARGS(n, m) == Step("REFUSEARGS", n, {}, m)    \* ABORT_MPI if n <= argc <= m
IFARGS(n, m) == Step("IFARGS", n, {}, m)        \* jump m unless argc > n
EITHER(m) == Step("EITHER", 0, {}, m)           \* jump m or not
JUMP(m) == Step("JUMP", 0, {}, m)

---------------------------------------------------------------------------
(* Idioms of the C bodies *)

WithArgs(n, then) == <<IFARGS(n, Len(then) + 1)>> \o then      \* if (argc > n)
Sometimes(then) == <<EITHER(Len(then) + 1)>> \o then
Either(a, b) == <<EITHER(Len(a) + 2)>> \o a \o <<JUMP(Len(b) + 1)>> \o b
Repeat(body) == <<EITHER(Len(body) + 2)>> \o body \o <<JUMP(0 - Len(body) - 1)>>

Optional(n) == WithArgs(n - 1, <<ARGS(n)>>)     \* an argument read only if it is there

(* obj = what, or the object argument n names if there is one. *)
Trigger(k, lookup, n) == <<WHAT(k)>> \o WithArgs(n - 1, <<MATCH(k, lookup, n)>>)

Checked(k) == <<REFUSE(k, Unmatched), REFUSE(k, {"PERMDENIED"})>>

Named(k, lookup, n) == <<MATCH(k, lookup, n)>> \o Checked(k)

---------------------------------------------------------------------------
(* The helpers of msgparse.c that read and write properties *)

safegetprop_strict(k) == <<READ(k, Items)>>

(* safegetprop and safegetprop_limited go up the environment of obj. *)
safegetprop(k) == <<READ(k, Items)>>

safeputprop(k) == <<READ(k, Items), FAIL>>

get_list_item(k) == safegetprop(k)

(* Each item is looked for under three names. *)
get_list_count(k) == safegetprop(k)

(* NULL when the list is empty. *)
get_concat_list(k) == get_list_count(k) \o get_list_item(k) \o <<FAIL>>

(* Text in, text out. *)
Text(n) == <<ARGS(n)>>
=======================================================================
