---------------------------- MODULE MpiFuns ----------------------------
(***************************************************************************)
(* The MPI functions of src/mfuns.c, as sequences of steps.                *)
(***************************************************************************)
EXTENDS MpiOps

---------------------------------------------------------------------------
(* Properties and lists *)

(* The last argument is the body: one WITH around it for each variable.    *)
mfn_func == <<PARSE(1)>> \o WithArgs(2, <<PARSE(2)>>) \o WithArgs(3, <<PARSE(3)>>)
              \o WithArgs(4, <<PARSE(4)>>) \o <<ARGS(2), NEWFUNC>>

mfn_muckname == <<>>

mfn_version == <<>>

mfn_prop == Text(1) \o Trigger(1, mesg_dbref, 2) \o Checked(1) \o safegetprop(1) \o <<FAIL>>

mfn_propbang == Text(1) \o Trigger(1, mesg_dbref, 2) \o Checked(1) \o safegetprop_strict(1) \o <<FAIL>>

mfn_store == Text(2) \o Trigger(1, mesg_dbref_strict, 3) \o Checked(1) \o safeputprop(1)

mfn_delprop == Text(1) \o Trigger(1, mesg_dbref_strict, 2) \o Checked(1) \o safeputprop(1)

mfn_exec == Text(1) \o Trigger(1, mesg_dbref, 2) \o Checked(1) \o safegetprop(1) \o <<FAIL, EXEC>>

mfn_execbang ==
    Text(1) \o Trigger(1, mesg_dbref, 2) \o Checked(1) \o safegetprop_strict(1) \o <<FAIL, EXEC>>

mfn_index ==
    Text(1) \o Trigger(1, mesg_dbref, 2) \o Checked(1) \o safegetprop(1) \o <<FAIL>>
      \o Sometimes(<<ANSWER>>) \o safegetprop(1) \o <<FAIL>>

mfn_indexbang ==
    Text(1) \o Trigger(1, mesg_dbref, 2) \o Checked(1) \o safegetprop_strict(1) \o <<FAIL>>
      \o Sometimes(<<ANSWER>>) \o safegetprop_strict(1) \o <<FAIL>>

mfn_propdir == Text(1) \o Trigger(1, mesg_dbref, 2) \o Checked(1) \o <<READ(1, Items)>>

mfn_listprops ==
    Text(1) \o Trigger(1, mesg_dbref, 2) \o Checked(1) \o Optional(3) \o <<READ(1, Items)>>

mfn_concat == Text(1) \o Trigger(1, mesg_dbref, 2) \o Checked(1) \o get_concat_list(1)

(* The item itself, or the nearest one below it, on obj or on a parent:    *)
(* bestobj is NOTHING only when no name was found.                         *)
mfn_select ==
    Text(2) \o Trigger(1, mesg_dbref, 3) \o Checked(1) \o get_list_item(1) \o <<FAIL>>
      \o Sometimes(<<ANSWER>>) \o <<READ(1, Items)>>
      \o Sometimes(safegetprop_strict(1) \o <<FAIL>>)

mfn_list == Text(1) \o Trigger(1, mesg_dbref, 2) \o Checked(1) \o get_concat_list(1)

mfn_lexec == Text(1) \o Trigger(1, mesg_dbref, 2) \o Checked(1) \o get_concat_list(1) \o <<EXEC>>

mfn_rand ==
    Text(1) \o Trigger(1, mesg_dbref, 2) \o Checked(1)
      \o get_list_count(1) \o <<FAIL>> \o get_list_item(1) \o <<FAIL>>

mfn_timesub ==
    Text(3) \o Trigger(1, mesg_dbref, 4) \o Checked(1)
      \o get_list_count(1) \o <<FAIL>> \o get_list_item(1) \o <<FAIL>>

---------------------------------------------------------------------------
(* Text *)

mfn_nl == <<>>

mfn_lit == Text(1)

mfn_strip == Text(1)

mfn_mklist == <<FAIL>>

mfn_left == Text(1) \o Optional(2) \o <<FAIL>> \o Optional(3) \o <<FAIL>>

mfn_right == Text(1) \o Optional(2) \o <<FAIL>> \o Optional(3) \o <<FAIL>>

mfn_center == Text(1) \o Optional(2) \o <<FAIL>> \o Optional(3) \o <<FAIL>>

mfn_null == <<>>

mfn_pronouns ==
    <<PLAYER(1)>> \o WithArgs(1, Named(1, mesg_dbref_local, 2)) \o Text(1) \o <<READ(1, Items)>>

---------------------------------------------------------------------------
(* Connections *)

(* An object that is not a player stands for its owner. *)
mfn_ontime == <<MATCH(1, mesg_dbref_raw, 1), ANSWERIF(1, Unmatched), REFUSE(1, {"PERMDENIED"}), READ(1, Items)>>

mfn_idle == <<MATCH(1, mesg_dbref_raw, 1), REFUSE(1, {"PERMDENIED"}), ANSWERIF(1, Unmatched), READ(1, Items)>>

mfn_online == <<FAIL>>

---------------------------------------------------------------------------
(* Objects and their places *)

(* obj2 is the object looked for, from its place up. *)
mfn_contains ==
    <<MATCH(2, mesg_dbref_raw, 1), PLAYER(1)>> \o WithArgs(1, <<MATCH(1, mesg_dbref_local, 2)>>)
      \o Checked(2) \o Checked(1) \o <<READ(2, Items)>>

\* Mutant of mfn_holds: the first object is not tested.
mfn_holds_untested ==
    <<MATCH(1, mesg_dbref_raw, 1), PLAYER(2)>> \o WithArgs(1, <<MATCH(2, mesg_dbref_local, 2)>>)
      \o Checked(2) \o <<READ(1, Items)>>

mfn_holds ==
    <<MATCH(1, mesg_dbref_raw, 1), PLAYER(2)>> \o WithArgs(1, <<MATCH(2, mesg_dbref_local, 2)>>)
      \o Checked(1) \o Checked(2) \o <<READ(1, Items)>>

mfn_dbeq ==
    <<MATCH(1, mesg_dbref_raw, 1), MATCH(2, mesg_dbref_raw, 2),
      REFUSE(1, {"UNKNOWN", "PERMDENIED"}), REFUSE(2, {"UNKNOWN", "PERMDENIED"})>>

mfn_isdbref == Text(1)

mfn_loc == Named(1, mesg_dbref_local, 1) \o <<READ(1, Items)>>

mfn_nearby ==
    Named(1, mesg_dbref_raw, 1)
      \o <<WHAT(2)>> \o WithArgs(1, Named(2, mesg_dbref_raw, 2))
      \o <<READ(1, Items), READ(2, Items), FAIL>>

mfn_money == Named(1, mesg_dbref, 1) \o <<READ(1, Items)>>

mfn_flags == Named(1, mesg_dbref_local, 1) \o <<READ(1, Items)>>

mfn_created == Named(1, mesg_dbref, 1) \o <<READ(1, Items)>>

mfn_lastused == Named(1, mesg_dbref, 1) \o <<READ(1, Items)>>

mfn_modified == Named(1, mesg_dbref, 1) \o <<READ(1, Items)>>

mfn_usecount == Named(1, mesg_dbref, 1) \o <<READ(1, Items)>>

---------------------------------------------------------------------------
(* Messages to others: a listener may not use them unless it is a room     *)

ToOne == <<PLAYER(1)>> \o WithArgs(1, <<MATCH(1, mesg_dbref_local, 2)>>) \o Checked(1) \o <<FAIL>>

mfn_ansi == ToOne \o Text(1) \o <<READ(1, Items)>>

mfn_tell == ToOne \o Text(1) \o <<READ(1, Items)>>

(* eobj is left out of the contents of obj: it is compared, never read. *)
ToOthers ==
    <<HERE(1), PLAYER(2)>> \o WithArgs(1, <<MATCH(1, mesg_dbref_local, 2)>>) \o Checked(1) \o <<FAIL>>
      \o WithArgs(2, <<MATCH(2, mesg_dbref_raw, 3)>>)

mfn_oansi == ToOthers \o Text(1) \o <<READ(1, Items)>>

mfn_otell == ToOthers \o Text(1) \o <<READ(1, Items)>>

---------------------------------------------------------------------------
(* Comparisons and numbers *)

mfn_ne == Text(2)

mfn_eq == Text(2)

mfn_gt == Text(2)

mfn_lt == Text(2)

mfn_ge == Text(2)

mfn_le == Text(2)

mfn_min == Text(2)

mfn_max == Text(2)

mfn_isnum == Text(1)

mfn_inc == Text(1) \o <<GETVAR>> \o Optional(2)

mfn_dec == Text(1) \o <<GETVAR>> \o Optional(2)

mfn_add == Text(1)

mfn_subt == Text(1)

mfn_mult == Text(1)

mfn_div == Text(1)

mfn_mod == Text(1)

mfn_abs == Text(1)

mfn_sign == Text(1)

(* Two, three, four or six. *)
mfn_dist == Text(2) \o Optional(3) \o Optional(4) \o WithArgs(4, WithArgs(5, <<ARGS(6), ANSWER>>) \o <<ABORT>>)

mfn_dice == Text(1) \o Optional(2) \o Optional(3) \o <<FAIL>>

---------------------------------------------------------------------------
(* Conditions: the arguments are parsed here, one after the other *)

mfn_not == Text(1)

(* The first true argument, or the first false one, decides. *)
UntilDecided ==
    <<PARSE(1)>> \o Sometimes(<<ANSWER>>) \o <<PARSE(2)>> \o Sometimes(<<ANSWER>>)
      \o WithArgs(2, <<PARSE(3)>>) \o WithArgs(3, <<PARSE(4)>>) \o WithArgs(4, <<PARSE(5)>>)

mfn_or == UntilDecided

mfn_xor == Text(2)

mfn_and == UntilDecided

mfn_default == <<PARSE(1)>> \o Sometimes(<<PARSE(2)>>)

mfn_if == <<PARSE(1)>> \o Either(<<PARSE(2)>>, WithArgs(2, <<PARSE(3)>>))

mfn_while == Repeat(<<PARSE(1), PARSE(2), FAIL>>) \o <<PARSE(1)>>

---------------------------------------------------------------------------
(* Times *)

mfn_tzoffset == <<>>

mfn_time == Optional(1)

mfn_date == Optional(1)

mfn_ftime == Text(1) \o Optional(2) \o Optional(3)

mfn_convtime == Text(1) \o <<FAIL>>

mfn_ltimestr == Text(1)

mfn_timestr == Text(1)

mfn_stimestr == Text(1)

mfn_secs == <<>>

mfn_convsecs == Text(1)
========================================================================
