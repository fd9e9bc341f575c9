---------------------------- MODULE MufOps ----------------------------
(***************************************************************************)
(* The vocabulary of the MUF primitives of src/p_*.c: the classes of value *)
(* an instruction cell (struct inst) can hold, and the steps the C bodies  *)
(* are made of, named after their macros in interp.h.  A primitive is the  *)
(* sequence of its steps in source order; the machine that runs them is    *)
(* in the module Primitives.                                               *)
(*                                                                         *)
(* A step is a record: op says which, k is an operand (1..4 is oper1..4,   *)
(* T1..T3 are temp1..3) or a count, s a set of value classes, m a distance *)
(* to jump.                                                                *)
(***************************************************************************)
EXTENDS Integers, Sequences

---------------------------------------------------------------------------
(* Values: what the primitives tell apart.  The amounts of integers matter *)
(* only where they count cells; "int" is any integer nobody counts with.   *)

Ints == {"intmin", "minus", "zero", "one", "two", "int"}
AmountOf == [intmin |-> -2147483647 - 1, minus |-> -1, zero |-> 0, one |-> 1, two |-> 2, int |-> 3]
NonNegative == Ints \ {"intmin", "minus"}
Positive == NonNegative \ {"zero"}

Numbers == Ints \cup {"float"}
Texts == {"string", "null"}             \* a null string pointer is the empty string
Locks == {"lock", "truelock"}           \* TRUE_BOOLEXP is not allocated
Variables == {"var", "badvar"}          \* badvar: a number outside 0..MAX_VAR-1
Items == {"player", "other", "garbage"}     \* what OkObj accepts: 0 <= number < db_top
Objects == Items \cup {"home", "nothing", "badobj"}
Numeric == Ints \cup Objects \cup Variables        \* held in the same int of the union
Values == Numeric \cup Texts \cup Locks \cup {"float", "address"}

(* valid_object, valid_player and is_home, as sets of operands. *)
valid_object == {"player", "other"}
valid_player == {"player"}
is_home == {"home"}

(* The values whose data is counted or owned: shared strings and code      *)
(* addresses carry a count of links, a lock is a tree of its own.          *)
Shared == {"string", "lock", "address"}

---------------------------------------------------------------------------
(* Steps *)

Step(op, k, s, m) == [op |-> op, k |-> k, s |-> s, m |-> m]

T1 == 11
T2 == 12
T3 == 13
REF == 5                                \* the global ref, used like an operand

CHECKOP(n) == Step("CHECKOP", n, {}, 0)
CHECKOPCOUNT == Step("CHECKOPCOUNT", 0, {}, 0)     \* CHECKOP(tmp)
CHECKOFLOW(n) == Step("CHECKOFLOW", n, {}, 0)
CHECKOFLOWCOUNT(n) == Step("CHECKOFLOWCOUNT", n, {}, 0)  \* CHECKOFLOW(result + n)
POP(k) == Step("POP", k, {}, 0)                    \* operk = POP()
CLEAR(k) == Step("CLEAR", k, {}, 0)
PUSH(s) == Step("PUSH", 0, s, 0)                   \* PushInt, PushString ...: one of s
UNLESS(k, s) == Step("UNLESS", k, s, 0)            \* abort_interp unless operk is in s
MAYABORT == Step("MAYABORT", 0, {}, 0)             \* an abort_interp on something else
ABORT == Step("ABORT", 0, {}, 0)
READ(k, s) == Step("READ", k, s, 0)                \* operk->data used as one of s
SETREF == Step("SETREF", 0, {}, 0)
NEST == Step("NEST", 0, {}, 0)                     \* a call that may run another program
LOCAL_OPERS(n) == Step("LOCAL_OPERS", n, {}, 0)    \* struct inst *oper1, ... *opern
COUNT(k) == Step("COUNT", k, {}, 0)                \* tmp or result = operk->data.number
ABSCOUNT(k) == Step("ABSCOUNT", k, {}, 0)          \* tmp = abs(...)
ANYCOUNT == Step("ANYCOUNT", 0, {}, 0)             \* result = some count of the world
UNLESSCOUNT(n) == Step("UNLESSCOUNT", n, {}, 0)    \* abort unless 0 <= tmp < STACK_SIZE - n
SAVE(k, t) == Step("SAVE", k, {}, t)               \* tempt = *operk
ALIAS(k, t) == Step("ALIAS", k, {}, t)             \* operk = &tempt
PUTBACK(k) == Step("PUTBACK", k, {}, 0)            \* arg[(*top)++] = *operk
COPY(n) == Step("COPY", n, {}, 0)                  \* copyinst(&arg[*top - n], &arg[*top]); (*top)++
COPYCOUNT == Step("COPYCOUNT", 0, {}, 0)           \* the same with n = tmp
REPLACE(k) == Step("REPLACE", k, {}, 0)            \* arg[*top - tmp] cleared, copy of operk
ROTATE(k) == Step("ROTATE", k, {}, 0)
SORT == Step("SORT", 0, {}, 0)                     \* qsort of the top tmp cells
FETCH == Step("FETCH", 0, {}, 0)                   \* push a copy of the variable
STORE(k) == Step("STORE", k, {}, 0)                \* the variable cleared, copy of operk
ALLOC(v) == Step("ALLOC", 0, {v}, 0)               \* a value made and not pushed
SETERR == Step("SETERR", 0, {}, 0)                 \* err++ without leaving the primitive
NARGS(n) == Step("NARGS", n, {}, 0)
BRANCH(k, s, m) == Step("BRANCH", k, s, m)         \* jump m unless operk is in s
EITHER(m) == Step("EITHER", 0, {}, m)              \* jump m or not
JUMP(m) == Step("JUMP", 0, {}, m)
LOOP(m) == Step("LOOP", 0, {}, m)                  \* jump m when tmp = 0
AGAIN(m) == Step("AGAIN", 0, {}, m)                \* tmp--, jump back m

---------------------------------------------------------------------------
(* Idioms of the C bodies *)

Args(n) == <<CHECKOP(n)>> \o [i \in 1..n |-> POP(i)]
ArgsDown(n) == <<CHECKOP(n)>> \o [i \in 1..n |-> POP(n + 1 - i)]
Clear(n) == [i \in 1..n |-> CLEAR(i)]
Returns(n, s) == Clear(n) \o <<PUSH(s)>>
Pushes(n, s) == [i \in 1..n |-> PUSH(s)]
Room(n, s) == <<CHECKOP(0), CHECKOFLOW(n)>> \o Pushes(n, s)

IfIn(k, s, then, else) ==
    <<BRANCH(k, s, Len(then) + 2)>> \o then \o <<JUMP(Len(else) + 1)>> \o else
When(k, s, then) == <<BRANCH(k, s, Len(then) + 1)>> \o then
Either(a, b) == <<EITHER(Len(a) + 2)>> \o a \o <<JUMP(Len(b) + 1)>> \o b
Sometimes(then) == <<EITHER(Len(then) + 1)>> \o then
Repeat(body) == <<LOOP(Len(body) + 2)>> \o body \o <<AGAIN(Len(body) + 1)>>

Results == {"int"}                      \* PushInt
Dbrefs == {"other", "nothing"}          \* PushObject
=============================================================================
