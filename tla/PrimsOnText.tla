-------------------------- MODULE PrimsOnText --------------------------
(***************************************************************************)
(* The primitives of p_strings.c and p_props.c, as sequences of steps.     *)
(***************************************************************************)
EXTENDS MufOps

NeedsText(k) == <<UNLESS(k, Texts)>>
NeedsString(k) == <<UNLESS(k, Texts), UNLESS(k, {"string"})>>
NeedsObject(k) == <<UNLESS(k, valid_object)>>

---------------------------------------------------------------------------
(* p_strings.c *)

(* Anything is accepted; only a string that is not null is read. *)
ReadIfString == When(1, {"string"}, <<READ(1, {"string"})>>)

prim_numberp == Args(1) \o ReadIfString \o Returns(1, Results)

Compare == NeedsText(1) \o NeedsText(2) \o <<READ(1, Texts), READ(2, Texts)>>

prim_stringcmp == Args(2) \o Compare \o Returns(2, Results)

prim_strcmp == Args(2) \o Compare \o Returns(2, Results)

prim_strncmp ==
    Args(3) \o <<UNLESS(1, Ints)>> \o NeedsText(2) \o NeedsText(3)
            \o <<READ(2, Texts), READ(3, Texts), READ(1, Ints)>> \o Returns(3, Results)

\* Mutant of prim_strcut: the string that was cut is not given back.
prim_strcut_kept ==
    Args(2) \o <<SAVE(1, 1), SAVE(2, 2), UNLESS(T1, Ints), UNLESS(T1, NonNegative)>>
      \o NeedsText(T2) \o <<PUSH(Texts), PUSH(Texts), CLEAR(T1)>>

(* Both parts are pushed over the operands, which were saved before. *)
prim_strcut ==
    Args(2) \o <<SAVE(1, 1), SAVE(2, 2), UNLESS(T1, Ints), UNLESS(T1, NonNegative)>>
      \o NeedsText(T2)
      \o IfIn(T2, {"null"}, Pushes(2, {"null"}), <<READ(T1, Ints), READ(T2, {"string"}), PUSH(Texts), PUSH(Texts)>>)
      \o <<CLEAR(T1), CLEAR(T2)>>

prim_strlen == Args(1) \o NeedsText(1) \o <<READ(1, Texts)>> \o Returns(1, Results)

(* The result shares the string of an operand when the other one is null. *)
prim_strcat ==
    Args(2) \o NeedsText(1) \o NeedsText(2) \o <<READ(1, Texts), READ(2, Texts)>>
      \o IfIn(1, {"null"}, IfIn(2, {"null"}, Returns(2, {"null"}), Returns(2, {"string"})),
                           When(2, {"string"}, <<MAYABORT>>) \o Returns(2, {"string"}))

prim_atoi == Args(1) \o ReadIfString \o Returns(1, Results)

prim_atof == Args(1) \o ReadIfString \o Returns(1, {"float"})

prim_notify_descriptor ==
    Args(2) \o <<MAYABORT>> \o NeedsText(1) \o <<UNLESS(2, Ints), READ(1, Texts), READ(2, Ints), MAYABORT>>
            \o Clear(2)

prim_notify ==
    <<LOCAL_OPERS(2)>> \o Args(2) \o NeedsText(1) \o NeedsObject(2)
      \o <<READ(2, Items), MAYABORT, READ(1, Texts)>> \o Clear(2)

prim_ansi_offset ==
    Args(3) \o <<UNLESS(1, Ints), UNLESS(2, Ints)>> \o NeedsText(3)
            \o <<UNLESS(1, NonNegative), UNLESS(2, NonNegative), READ(3, Texts)>> \o Returns(3, Results)

prim_ansi_strip == Args(1) \o NeedsText(1) \o <<READ(1, Texts)>> \o Returns(1, Texts)

prim_ansi_notify ==
    Args(2) \o NeedsText(1) \o NeedsObject(2) \o <<READ(2, Items), MAYABORT, READ(1, Texts)>> \o Clear(2)

(* roomD excludeDn ... excludeD1 nI messageS: the count and the message    *)
(* are given back before the list is taken off one by one.                 *)
NotifyExclude ==
    <<LOCAL_OPERS(2)>> \o Args(2) \o <<UNLESS(2, Ints)>> \o NeedsText(1)
      \o <<READ(1, Texts), COUNT(2)>> \o Clear(2) \o <<CHECKOP(0), UNLESSCOUNT(0)>>
      \o Repeat(<<CHECKOP(1), POP(1), UNLESS(1, Objects), READ(1, Objects), CLEAR(1)>>)
      \o Args(1) \o NeedsObject(1) \o <<READ(1, Items), MAYABORT, MAYABORT>> \o Clear(1)

prim_ansi_notify_exclude == NotifyExclude

prim_notify_exclude == NotifyExclude

(* Only strings are refused: whatever else is there is printed as a number. *)
prim_intostr == Args(1) \o <<UNLESS(1, Values \ Texts), READ(1, Numeric)>> \o Returns(1, {"string"})

(* The parts are pushed over the operands, which were saved before and are *)
(* what an abort for lack of room clears.                                  *)
prim_explode ==
    Args(2) \o <<SAVE(1, 1), SAVE(2, 2), ALIAS(1, 1), ALIAS(2, 2)>>
      \o NeedsText(T1) \o NeedsText(T2) \o <<UNLESS(T1, {"string"}), READ(T1, {"string"})>>
      \o IfIn(T2, {"null"},
              <<CLEAR(T1), CLEAR(T2), PUSH({"null"}), PUSH(Results)>>,
              <<READ(T2, {"string"}), ANYCOUNT>> \o Repeat(<<CHECKOFLOW(1), PUSH(Texts)>>)
                \o <<CHECKOFLOW(1), PUSH(Texts), CHECKOFLOW(1), CLEAR(T1), CLEAR(T2), PUSH(Results)>>)

prim_subst ==
    Args(3) \o NeedsText(1) \o NeedsText(2) \o NeedsText(3) \o <<UNLESS(1, {"string"})>>
      \o When(3, {"string"}, <<READ(3, {"string"}), READ(1, {"string"}), READ(2, Texts), MAYABORT>>)
      \o Returns(3, Texts)

prim_instr ==
    Args(2) \o NeedsString(1) \o NeedsText(2)
      \o When(2, {"string"}, <<READ(2, {"string"}), READ(1, {"string"})>>) \o Returns(2, Results)

prim_rinstr ==
    Args(2) \o NeedsString(1) \o NeedsText(2)
      \o When(2, {"string"}, <<READ(2, {"string"}), READ(1, {"string"})>>) \o Returns(2, Results)

prim_pronoun_sub ==
    Args(2) \o NeedsObject(2) \o NeedsText(1) \o <<READ(1, Texts), READ(2, Items)>> \o Returns(2, Texts)

prim_toupper == Args(1) \o NeedsText(1) \o <<READ(1, Texts)>> \o Returns(1, Texts)

prim_tolower == Args(1) \o NeedsText(1) \o <<READ(1, Texts)>> \o Returns(1, Texts)

prim_unparseobj == Args(1) \o <<UNLESS(1, Objects), READ(1, Objects)>> \o Returns(1, {"string"})

\* Mutant of prim_smatch: a null string is not refused.
prim_smatch_null ==
    Args(2) \o NeedsText(1) \o NeedsText(2) \o NeedsString(1)
            \o <<READ(1, {"string"}), READ(2, {"string"})>> \o Returns(2, Results)

prim_smatch ==
    Args(2) \o NeedsText(1) \o NeedsText(2) \o NeedsString(1) \o NeedsString(2)
            \o <<READ(1, {"string"}), READ(2, {"string"})>> \o Returns(2, Results)

prim_striplead == Args(1) \o NeedsText(1) \o <<READ(1, Texts)>> \o Returns(1, Texts)

prim_striptail == Args(1) \o NeedsText(1) \o <<READ(1, Texts)>> \o Returns(1, Texts)

prim_stringpfx == Args(2) \o Compare \o Returns(2, Results)

Encryption ==
    ArgsDown(2) \o NeedsText(1) \o NeedsText(2) \o NeedsString(2)
                \o <<READ(1, Texts), READ(2, {"string"})>> \o Returns(2, Texts)

prim_strencrypt == Encryption

prim_strdecrypt == Encryption

prim_empty == Args(1) \o NeedsText(1) \o <<READ(1, Texts)>> \o Returns(1, Results)

prim_blank == Args(1) \o NeedsText(1) \o <<READ(1, Texts)>> \o Returns(1, Results)

---------------------------------------------------------------------------
(* p_props.c *)

(* A property name in operand n of the object in operand d: its syntax and *)
(* the permission to see it.                                               *)
NamesProperty(n, d) == <<READ(d, Items), MAYABORT, READ(n, {"string"}), MAYABORT, MAYABORT>>
PropertyArgs == Args(2) \o NeedsString(1) \o NeedsObject(2) \o NamesProperty(1, 2)

prim_getpropval == PropertyArgs \o Returns(2, Results)

(* A lock is copied for the stack; one not loaded counts as none. *)
PropertyValue == {"string", "null", "lock", "truelock", "other", "nothing", "badobj", "int"}

prim_getprop == PropertyArgs \o Returns(2, PropertyValue)

prim_getpropstr == PropertyArgs \o Returns(2, Texts)

prim_remove_prop == PropertyArgs \o <<MAYABORT>> \o Clear(2)

prim_envprop == PropertyArgs \o Returns(2, Dbrefs) \o <<PUSH(PropertyValue)>>

prim_envpropstr == PropertyArgs \o Returns(2, Dbrefs) \o <<PUSH(Texts)>>

(* The property gets a copy of a lock. *)
prim_setprop ==
    LET Settable == Texts \cup Ints \cup Locks \cup Objects IN
    Args(3) \o <<UNLESS(1, Settable)>> \o NeedsString(2) \o NeedsObject(3) \o <<MAYABORT>>
            \o NamesProperty(2, 3) \o <<READ(1, Settable)>> \o Clear(3)

prim_addprop ==
    Args(4) \o <<UNLESS(1, Ints)>> \o NeedsText(2) \o NeedsString(3) \o NeedsObject(4)
            \o NamesProperty(3, 4) \o <<READ(2, Texts), READ(1, Ints)>> \o Clear(4)

prim_nextprop ==
    ArgsDown(2) \o <<MAYABORT>> \o NeedsText(2) \o <<UNLESS(1, Objects)>> \o NeedsObject(1)
                \o <<READ(1, Items), READ(2, Texts)>> \o Returns(2, Texts)

prim_propdirp ==
    ArgsDown(2) \o <<MAYABORT, UNLESS(1, Objects)>> \o NeedsObject(1) \o NeedsString(2)
                \o <<READ(1, Items), READ(2, {"string"})>> \o Returns(2, Results)

(* The MPI may run programs; the operands are out of their reach. *)
ParseMPI(program) ==
    <<LOCAL_OPERS(4), CHECKOP(4), POP(4), POP(2), POP(1), POP(3), MAYABORT, UNLESS(3, Objects)>>
      \o NeedsObject(3) \o NeedsText(2) \o program
      \o <<UNLESS(4, Ints), UNLESS(4, {"zero", "one", "int"}), READ(3, Items), MAYABORT,
           READ(1, Texts), READ(2, Texts)>>
      \o Either(<<READ(4, Ints), NEST>> \o Returns(4, Texts), Returns(4, {"null"}))

prim_parsempi == ParseMPI(NeedsText(1))

prim_parseprop == ParseMPI(NeedsString(1) \o <<MAYABORT>>)
=============================================================================
