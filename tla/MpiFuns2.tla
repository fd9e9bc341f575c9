---------------------------- MODULE MpiFuns2 ----------------------------
(***************************************************************************)
(* The MPI functions of src/mfuns2.c, as sequences of steps.               *)
(***************************************************************************)
EXTENDS MpiOps

---------------------------------------------------------------------------
(* Objects *)

mfn_owner == Named(1, mesg_dbref_raw, 1) \o <<READ(1, Items)>>

mfn_controls ==
    Named(1, mesg_dbref_raw, 1) \o WithArgs(1, Named(2, mesg_dbref_raw, 2) \o <<READ(2, Items)>>)
      \o <<READ(1, Items)>>

mfn_links == Named(1, mesg_dbref, 1) \o <<READ(1, Items)>>

(* could_doit and eval_boolexp run the programs and messages of a lock. *)
mfn_locked ==
    <<MATCH(2, mesg_dbref_local, 1), MATCH(1, mesg_dbref_local, 2)>> \o Checked(2) \o Checked(1)
      \o <<READ(2, Items), READ(1, Items), CALL>>

mfn_testlock ==
    <<PLAYER(2), MATCH(1, mesg_dbref_local, 1)>> \o WithArgs(2, <<MATCH(2, mesg_dbref_local, 3)>>)
      \o Checked(2) \o Checked(1) \o <<READ(1, Items)>> \o Text(2)
      \o WithArgs(3, Sometimes(<<ARGS(4), ANSWER>>)) \o <<READ(2, Items), CALL>>

mfn_contents == Named(1, mesg_dbref_local, 1) \o Optional(2) \o <<FAIL, READ(1, Items)>>

mfn_exits == Named(1, mesg_dbref, 1) \o <<READ(1, Items)>>

(* A number is taken as it is, any other reference is looked up. *)
mfn_ref == Text(1) \o Sometimes(<<MATCH(1, mesg_dbref_local, 1), REFUSE(1, {"PERMDENIED"})>>)

OfAnObject ==
    <<MATCH(1, mesg_dbref_local, 1), REFUSE(1, {"UNKNOWN"}), REFUSE(1, {"PERMDENIED"}),
      ANSWERIF(1, {"NOTHING"}), READ(1, Items)>>

mfn_name == OfAnObject

mfn_fullname == OfAnObject

mfn_awake ==
    <<MATCH(1, mesg_dbref_local, 1), ANSWERIF(1, {"PERMDENIED"} \cup Unmatched), READ(1, Items)>>

mfn_type ==
    <<MATCH(1, mesg_dbref_local, 1), ANSWERIF(1, Unmatched), REFUSE(1, {"PERMDENIED"}), READ(1, Items)>>

mfn_istype ==
    <<MATCH(1, mesg_dbref_raw, 1), ARGS(2), ANSWERIF(1, Unmatched), REFUSE(1, {"PERMDENIED"}), READ(1, Items)>>

mfn_dirprops == Text(1) \o Trigger(1, mesg_dbref_local, 2) \o Checked(1) \o <<READ(1, Items)>>

mfn_showlist == Text(1) \o Trigger(1, mesg_dbref_mage, 2) \o Checked(1) \o <<FAIL>> \o safegetprop_strict(1)

---------------------------------------------------------------------------
(* Variables *)

mfn_v == Text(1) \o <<GETVAR>>

mfn_set == Text(2) \o <<GETVAR>>

mfn_with ==
    <<PARSE(1), NEWVAR, PARSE(2)>> \o WithArgs(2, <<PARSE(3)>>) \o WithArgs(3, <<PARSE(4)>>)
      \o WithArgs(4, <<PARSE(5)>>) \o <<FREEVAR>>

(* The rest of the list is folded into the first item. *)
mfn_fold ==
    <<PARSE(1), NEWVAR, PARSE(2), NEWVAR>> \o WithArgs(4, <<PARSE(5), FAIL>>)
      \o <<PARSE(3)>> \o Repeat(<<PARSE(4), FAIL>>) \o <<FREEVAR, FREEVAR>>

mfn_for ==
    <<PARSE(1), NEWVAR, PARSE(2), PARSE(3), PARSE(4)>> \o Repeat(<<PARSE(5), FAIL>>) \o <<FREEVAR>>

mfn_foreach ==
    <<PARSE(1), NEWVAR, PARSE(2)>> \o WithArgs(3, <<PARSE(4), FAIL>>)
      \o Repeat(<<PARSE(3), FAIL>>) \o <<FREEVAR>>

mfn_filter ==
    <<PARSE(1), NEWVAR, PARSE(2)>> \o WithArgs(3, <<PARSE(4), FAIL>>) \o WithArgs(4, <<PARSE(5)>>)
      \o Repeat(<<PARSE(3), FAIL>>) \o <<FREEVAR>>

mfn_parse ==
    <<PARSE(1), NEWVAR, PARSE(2)>> \o WithArgs(3, <<PARSE(4), FAIL>>) \o WithArgs(4, <<PARSE(5)>>)
      \o Repeat(<<PARSE(3), FAIL>>) \o <<FREEVAR>>

\* Mutant of mfn_lsort: the second variable is not given back.
mfn_lsort_one ==
    <<REFUSEARGS(2, 3), PARSE(1)>> \o WithArgs(1, <<PARSE(2), NEWVAR, PARSE(3), NEWVAR>>) \o <<FAIL>>
      \o Repeat(WithArgs(1, <<PARSE(4)>>)) \o WithArgs(1, <<FREEVAR>>)

mfn_lsort ==
    <<REFUSEARGS(2, 3), PARSE(1)>> \o WithArgs(1, <<PARSE(2), NEWVAR, PARSE(3), NEWVAR>>) \o <<FAIL>>
      \o Repeat(WithArgs(1, <<PARSE(4)>>)) \o WithArgs(1, <<FREEVAR, FREEVAR>>)

(* An empty list is answered before the variable is made. *)
mfn_commas ==
    <<REFUSEARGS(3, 3), PARSE(1)>> \o Sometimes(<<ANSWER>>) \o WithArgs(1, <<PARSE(2)>>)
      \o WithArgs(2, <<PARSE(3), NEWVAR>>) \o WithArgs(2, <<PARSE(4)>>)
      \o Repeat(WithArgs(2, <<PARSE(4)>>)) \o WithArgs(2, <<FREEVAR>>)

---------------------------------------------------------------------------
(* Lists and text *)

mfn_sublist == Text(1) \o WithArgs(3, <<ARGS(4), FAIL>>) \o Optional(2) \o Optional(3)

mfn_lrand == Optional(2) \o <<FAIL>> \o Text(1)

mfn_count == Optional(2) \o <<FAIL>> \o Text(1)

mfn_lremove == Text(2) \o <<FAIL>>

mfn_lcommon == Text(2) \o <<FAIL>>

mfn_lunion == Text(2) \o <<FAIL>>

mfn_lunique == Text(1) \o <<FAIL>>

mfn_smatch == Text(2)

mfn_strlen == Text(1)

mfn_subst == Text(3)

mfn_midstr == Text(2) \o Optional(3)

mfn_instr == Text(2) \o <<FAIL>>

(* A delimiter that was not given is written in its place. *)
mfn_lmember == Text(2) \o Optional(3) \o <<FAIL>>

mfn_tolower == Text(1)

mfn_toupper == Text(1)

mfn_fox == <<>>

mfn_rat == <<>>

---------------------------------------------------------------------------
(* Parsing with a trace, processes, programs and commands *)

mfn_debugif == <<PARSE(1), PARSE(2)>>

mfn_debug == <<PARSE(1)>>

mfn_delay == Text(2) \o <<FAIL, HOW>>

mfn_kill == Text(1) \o <<FAIL>>

\* Mutant of mfn_muf: the level is not left.
mfn_muf_in ==
    <<MATCH(1, mesg_dbref_raw, 1), REFUSE(1, {"UNKNOWN"}), REFUSE(1, Objects \ {"program"}), FAIL,
      LEVEL, ARGS(2), HOW, SETMATCH, CALL>>

mfn_muf ==
    <<MATCH(1, mesg_dbref_raw, 1), REFUSE(1, {"UNKNOWN"}), REFUSE(1, Objects \ {"program"}), FAIL,
      LEVEL, ARGS(2), HOW, SETMATCH, CALL, UNLEVEL>>

(* The forcing lock may run a program; then one command after the other.   *)
mfn_force ==
    Named(1, mesg_dbref_raw, 1) \o <<REFUSE(1, Objects \ {"thing", "player"}), ARGS(2), FAIL, READ(1, Items)>>
      \o Sometimes(<<CALL>>) \o <<FAIL, REFUSEFORCED>>
      \o Repeat(<<FORCEIN, SETMATCH, CALL, FORCEOUT>>)
========================================================================
