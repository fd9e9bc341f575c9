------------------------- MODULE PrimsOnStack -------------------------
(***************************************************************************)
(* The primitives of p_stack.c and p_math.c, as sequences of steps.        *)
(***************************************************************************)
EXTENDS MufOps

---------------------------------------------------------------------------
(* p_stack.c *)

prim_pop == Args(1) \o Clear(1)

prim_dup == <<CHECKOP(1), NARGS(0), CHECKOFLOW(1), COPY(1)>>

prim_at == Args(1) \o <<SAVE(1, 1), UNLESS(T1, Variables), UNLESS(T1, {"var"}), FETCH, CLEAR(T1)>>

prim_bang ==
    Args(2) \o <<UNLESS(1, Variables), UNLESS(1, {"var"}), STORE(2)>> \o Clear(2)

prim_var == Args(1) \o <<UNLESS(1, Ints), READ(1, Ints)>> \o Returns(1, Variables)

prim_localvar == Args(1) \o <<UNLESS(1, Ints), READ(1, Ints)>> \o Returns(1, Variables)

prim_swap == Args(2) \o <<SAVE(2, 2), PUTBACK(1), PUTBACK(T2)>>

\* Mutant of prim_over: it asks for the top operand only.
prim_over_one == <<CHECKOFLOW(1), CHECKOP(1), COPY(2)>>

prim_over == <<CHECKOFLOW(1), CHECKOP(2), COPY(2)>>

prim_pick ==
    Args(1) \o <<SAVE(1, 1), UNLESS(T1, Positive), COUNT(T1), CHECKOPCOUNT, COPYCOUNT>>

prim_put ==
    Args(2) \o <<UNLESS(1, Positive), COUNT(1), CHECKOPCOUNT, REPLACE(2)>> \o Clear(2)

prim_rot == Args(3) \o <<SAVE(3, 3), PUTBACK(2), PUTBACK(1), PUTBACK(T3)>>

prim_popn ==
    Args(1) \o <<UNLESS(1, Ints), COUNT(1), UNLESSCOUNT(0), CHECKOPCOUNT>>
            \o Repeat(<<CLEAR(1), POP(1)>>) \o Clear(1)

prim_sort ==
    Args(2) \o <<UNLESS(1, Ints), UNLESS(2, Ints), COUNT(2), UNLESSCOUNT(2), CHECKOPCOUNT,
                 READ(1, Ints), SORT, READ(2, Ints)>>
            \o Clear(2) \o <<CHECKOFLOW(1), PUSH(Results)>>

prim_rotate ==
    Args(1) \o <<UNLESS(1, Ints), ABSCOUNT(1), CHECKOPCOUNT, COUNT(1), ROTATE(1)>> \o Clear(1)

prim_dbtop == Room(1, Dbrefs)

prim_depth == Room(1, Results)

prim_version == Room(1, Texts)

prim_glowver == Room(1, Texts)

prim_prog == Room(1, Dbrefs)

prim_trig == Room(1, Dbrefs)

prim_caller == Room(1, Dbrefs)

(* INT?, FLOAT?, STRING?, DBREF?, ADDRESS? and LOCK? look at the type only. *)
prim_intp == Args(1) \o Returns(1, Results)

(* The scan of the expression looks at cells from the top down, each time  *)
(* after a test for the bottom of the stack, and changes none.             *)
prim_checkargs ==
    Args(1) \o <<UNLESS(1, Texts)>>
            \o IfIn(1, {"null"}, Clear(1), <<READ(1, {"string"}), MAYABORT>> \o Clear(1))

prim_mode == Room(1, Results)

prim_setmode == Args(1) \o <<UNLESS(1, Ints), READ(1, Ints), MAYABORT>> \o Clear(1)

(* The result of the program is a copy the caller takes over; without one  *)
(* a null string is pushed.  The string argument is not tested.            *)
prim_interp ==
    <<LOCAL_OPERS(3)>> \o ArgsDown(3)
      \o <<UNLESS(1, valid_object), MAYABORT, UNLESS(2, valid_object), MAYABORT, MAYABORT,
           MAYABORT, READ(3, Texts), READ(1, Items), READ(2, Items), NEST,
           CLEAR(3), CLEAR(2), CLEAR(1), PUSH(Values)>>

---------------------------------------------------------------------------
(* p_math.c *)

(* arith_type(oper2, oper1): the right operand is a number; the left may   *)
(* also be an object or a variable when the right is an integer.           *)
Arithmetic ==
    <<UNLESS(1, Numbers), UNLESS(2, Numeric \cup {"float"})>>
      \o When(1, {"float"}, <<UNLESS(2, Numbers)>>)
      \o <<READ(1, Numbers), READ(2, Numeric \cup {"float"})>>

(* The result has the type of the left operand, or is a float. *)
LeftType ==
    IfIn(2, Ints, Returns(2, {"int"}),
         IfIn(2, Objects, Returns(2, {"other", "badobj"}),
              IfIn(2, Variables, Returns(2, Variables), Returns(2, {"float"}))))
NumberResult == IfIn(1, {"float"}, Returns(2, {"float"}), LeftType)
NoFloats == <<UNLESS(1, Ints), UNLESS(2, Numeric)>>

prim_add == Args(2) \o Arithmetic \o NumberResult

prim_subtract == Args(2) \o Arithmetic \o NumberResult

prim_multiply == Args(2) \o Arithmetic \o NumberResult

(* A zero divisor aborts or yields a zero, by tp_division_by_zero_error. *)
prim_divide ==
    Args(2) \o Arithmetic \o <<MAYABORT>>
      \o Either(IfIn(2, {"float"}, Returns(2, {"float"}), Returns(2, {"zero"})), NumberResult)

prim_mod == Args(2) \o Arithmetic \o NoFloats \o <<MAYABORT>> \o LeftType

prim_bitor == Args(2) \o Arithmetic \o NoFloats \o LeftType

prim_bitxor == Args(2) \o Arithmetic \o NoFloats \o LeftType

prim_bitand == Args(2) \o Arithmetic \o NoFloats \o LeftType

prim_bitshift == Args(2) \o Arithmetic \o NoFloats \o LeftType

prim_and == Args(2) \o Returns(2, Results)

prim_or == Args(2) \o Returns(2, Results)

prim_not == Args(1) \o Returns(1, Results)

Comparison ==
    Args(2) \o <<UNLESS(1, Numbers), UNLESS(2, Numbers),
                 READ(1, Numbers), READ(2, Numbers)>>
            \o Returns(2, Results)

prim_lessthan == Comparison

prim_greathan == Comparison

prim_equal == Comparison

prim_lesseq == Comparison

prim_greateq == Comparison

prim_random == <<CHECKOFLOW(1), PUSH(Results)>>

prim_int ==
    Args(1) \o <<UNLESS(1, Objects \cup Variables \cup {"float"}),
                 READ(1, Objects \cup Variables \cup {"float"})>>
            \o Returns(1, Results)

prim_float == Args(1) \o <<UNLESS(1, Ints), READ(1, Ints)>> \o Returns(1, {"float"})
=============================================================================
