------------------------- MODULE PrimsOnWorld -------------------------
(***************************************************************************)
(* The primitives of p_db.c, p_connects.c and p_misc.c, as sequences of    *)
(* steps: what they do to the operand stack.  What they do to objects,     *)
(* connections and processes is in Objects, Descriptors and Timequeue.     *)
(***************************************************************************)
EXTENDS MufOps

IsText(k) == <<UNLESS(k, Texts)>>
IsString(k) == <<UNLESS(k, Texts), UNLESS(k, {"string"})>>
IsObject(k) == <<UNLESS(k, valid_object)>>
CHECKREMOTE(k) == <<READ(k, Items), MAYABORT>>

---------------------------------------------------------------------------
(* p_db.c *)

prim_addpennies ==
    Args(2) \o <<MAYABORT>> \o IsObject(2) \o <<UNLESS(1, Ints), READ(2, Items), READ(1, Ints), MAYABORT>>
            \o Clear(2)

\* Mutant of prim_moveto: the operands are the global ones.
prim_moveto_global ==
    Args(2) \o IsObject(1) \o IsObject(2) \o <<MAYABORT>> \o Sometimes(<<NEST>>) \o Clear(2)

(* With HOME as the destination the object to move is not tested. *)
prim_moveto ==
    <<LOCAL_OPERS(2)>> \o Args(2) \o <<MAYABORT>>
      \o IfIn(1, is_home, <<>>, IsObject(1) \o IsObject(2))
      \o <<READ(2, Items), READ(1, Items), MAYABORT>>
      \o Sometimes(<<NEST>>) \o Clear(2)

(* One object in, tested and read, one value out. *)
OfObject(s) == Args(1) \o IsObject(1) \o CHECKREMOTE(1) \o Returns(1, s)

prim_pennies == Args(1) \o IsObject(1) \o CHECKREMOTE(1) \o <<MAYABORT>> \o Returns(1, Results)

prim_dbcomp ==
    Args(2) \o <<UNLESS(1, Objects), UNLESS(2, Objects), READ(1, Objects), READ(2, Objects)>>
            \o Returns(2, Results)

prim_dbref == Args(1) \o <<UNLESS(1, Ints), READ(1, Ints)>> \o Returns(1, Objects)

prim_contents == OfObject(Dbrefs)

prim_exits == Args(1) \o IsObject(1) \o CHECKREMOTE(1) \o <<MAYABORT, MAYABORT>> \o Returns(1, Dbrefs)

prim_next == OfObject(Dbrefs)

prim_truename == OfObject(Texts)

prim_name == OfObject(Texts)

prim_setname ==
    Args(2) \o IsObject(2) \o IsText(1) \o <<READ(2, Items), MAYABORT, MAYABORT, READ(1, Texts), MAYABORT>>
            \o Clear(2)

prim_match == Args(1) \o IsString(1) \o <<READ(1, {"string"})>> \o Returns(1, Objects)

prim_rmatch ==
    Args(2) \o IsText(1) \o <<UNLESS(2, Items), MAYABORT>> \o CHECKREMOTE(2)
            \o <<READ(1, Texts), READ(2, Items)>> \o Returns(2, Objects)

prim_copyobj == Args(1) \o IsObject(1) \o CHECKREMOTE(1) \o <<MAYABORT>> \o Returns(1, {"other"})

prim_set ==
    Args(2) \o IsString(1) \o IsObject(2) \o <<MAYABORT>> \o CHECKREMOTE(2)
            \o <<READ(1, {"string"}), MAYABORT, MAYABORT>> \o Clear(2)

prim_mlevel == OfObject(Results)

prim_flagp ==
    Args(2) \o IsString(1) \o IsObject(2) \o CHECKREMOTE(2) \o <<READ(1, {"string"}), MAYABORT>>
            \o Returns(2, Results)

(* PLAYER? and its like: HOME counts as a room.  The operand is an object  *)
(* and holds nothing to give back.                                         *)
TypeTest ==
    Args(1) \o <<UNLESS(1, Objects)>> \o When(1, valid_object \cup is_home, CHECKREMOTE(1)) \o <<PUSH(Results)>>

prim_playerp == TypeTest

prim_thingp == TypeTest

prim_roomp == TypeTest

prim_programp == TypeTest

prim_exitp == TypeTest

prim_okp == Args(1) \o Returns(1, Results)

prim_location == OfObject(Dbrefs)

prim_owner == OfObject({"player"})

prim_controls ==
    Args(2) \o IsObject(1) \o IsObject(2) \o CHECKREMOTE(1) \o <<READ(2, Items)>> \o Returns(1, Results)

prim_perms ==
    Args(2) \o IsObject(1) \o IsObject(2) \o CHECKREMOTE(1) \o <<READ(2, Items)>> \o Returns(1, Results)

prim_getlink == Args(1) \o IsObject(1) \o CHECKREMOTE(1) \o <<MAYABORT>> \o Returns(1, Objects)

prim_setlink ==
    Args(2) \o <<UNLESS(1, Objects), UNLESS(2, Objects), UNLESS(2, valid_object \cup is_home), MAYABORT>>
      \o IfIn(1, {"nothing"}, <<READ(2, Items), MAYABORT>>,
              IsObject(1) \o <<READ(1, Items), READ(2, Items), MAYABORT>>)
      \o Clear(2)

(* test_lock may run a program; the operands and ref are the global ones.  *)
prim_setown ==
    Args(2) \o IsObject(2) \o <<UNLESS(1, valid_player), MAYABORT, READ(2, Items), SETREF, READ(1, Items),
                                MAYABORT, MAYABORT>>
      \o Sometimes(<<NEST, MAYABORT>>)
      \o <<READ(1, Items), MAYABORT, READ(REF, Items), MAYABORT, READ(1, Items)>>

(* NEWOBJECT, NEWROOM, NEWEXIT: a name and a place. *)
CreateObject ==
    Args(2) \o <<MAYABORT, CHECKOFLOW(1)>> \o IsObject(2) \o <<READ(2, Items), MAYABORT>> \o IsText(1)
            \o <<MAYABORT, READ(1, Texts), MAYABORT, READ(2, Items)>> \o Returns(2, {"other"})

prim_newobject == CreateObject

prim_newroom == CreateObject

prim_newexit == CreateObject

(* The lock may run a program, so these keep their operands to themselves. *)
LockTest ==
    <<LOCAL_OPERS(2)>> \o Args(2) \o <<MAYABORT>> \o IsObject(2) \o <<MAYABORT>> \o CHECKREMOTE(2)
      \o IsObject(1) \o CHECKREMOTE(1) \o <<READ(2, Items), READ(1, Items), NEST>> \o Returns(2, Results)

prim_lockedp == LockTest

prim_flockedp == LockTest

prim_conlockedp == LockTest

prim_chlockedp == LockTest

(* recycle may run programs when it sends things home. *)
prim_recycle ==
    Args(1) \o <<UNLESS(1, Objects)>> \o IsObject(1) \o <<READ(1, Items), MAYABORT>> \o Clear(1) \o <<NEST>>

prim_setlockstr ==
    Args(2) \o IsObject(2) \o IsText(1) \o <<READ(2, Items), MAYABORT, READ(1, Texts)>> \o Returns(2, Results)

prim_getlockstr == Args(1) \o IsObject(1) \o CHECKREMOTE(1) \o <<MAYABORT>> \o Returns(1, Texts)

prim_part_pmatch == Args(1) \o IsString(1) \o <<MAYABORT, READ(1, {"string"})>> \o Returns(1, Objects)

prim_checkpassword ==
    ArgsDown(2) \o <<MAYABORT, UNLESS(1, Objects), READ(1, Objects), UNLESS(1, valid_player)>> \o IsText(2)
                \o <<READ(2, Texts)>> \o Returns(2, Results)

---------------------------------------------------------------------------
(* p_connects.c *)

prim_awakep == Args(1) \o IsObject(1) \o <<READ(1, Items), MAYABORT, PUSH(Results)>>

prim_ignoringp ==
    ArgsDown(2) \o IsObject(1) \o IsObject(2)
      \o <<READ(1, Items), MAYABORT, READ(2, Items), PUSH(Results)>>

prim_online ==
    <<CHECKOP(0), MAYABORT, ANYCOUNT, CHECKOFLOWCOUNT(1)>> \o Repeat(<<PUSH({"player"})>>) \o <<PUSH(Results)>>

prim_concount == Room(1, Results)

(* The connection with the number in operand 1. *)
OfConnection(s) ==
    Args(1) \o <<MAYABORT, UNLESS(1, Ints), READ(1, Ints), MAYABORT, CHECKOFLOW(1)>> \o Returns(1, s)

prim_condbref == OfConnection(Dbrefs)

prim_conidle == OfConnection(Results)

prim_conidler == OfConnection(Results)

prim_contime == OfConnection(Results)

prim_conhost == OfConnection(Texts)

prim_conuser == OfConnection(Texts)

prim_conipnum == OfConnection(Texts)

prim_con_listener_port == OfConnection(Results)

prim_conport == OfConnection(Texts)

(* The level is tested between CHECKOP and POP. *)
prim_conboot ==
    <<CHECKOP(1), MAYABORT, POP(1), UNLESS(1, Ints), READ(1, Ints), MAYABORT>> \o Clear(1)

prim_connotify ==
    ArgsDown(2) \o <<MAYABORT, UNLESS(1, Ints)>> \o IsText(2) \o <<READ(1, Ints), MAYABORT, READ(2, Texts)>>
                \o Clear(2)

prim_condescr == Args(1) \o <<MAYABORT, UNLESS(1, Ints), READ(1, Ints), MAYABORT>> \o Returns(1, Results)

prim_descrcon == Args(1) \o <<MAYABORT, UNLESS(1, Ints), READ(1, Ints)>> \o Returns(1, Results)

prim_nextdescr == Args(1) \o <<MAYABORT, UNLESS(1, Ints), READ(1, Ints)>> \o Returns(1, Results)

(* The operand is given back before the first test for room. *)
prim_descriptors ==
    Args(1) \o <<MAYABORT, UNLESS(1, Objects), UNLESS(1, valid_object \cup {"nothing"}), READ(1, Objects),
                 UNLESS(1, valid_player \cup {"nothing"})>>
      \o Clear(1) \o <<CHECKOP(0), ANYCOUNT>> \o Repeat(<<CHECKOFLOW(1), PUSH(Results)>>)
      \o <<CHECKOFLOW(1), PUSH(Results)>>

prim_descr_setuser ==
    ArgsDown(3) \o <<MAYABORT, UNLESS(1, Ints), UNLESS(2, Objects), UNLESS(2, valid_player \cup {"nothing"})>>
      \o IsText(3) \o <<READ(3, Texts), MAYABORT, READ(1, Ints), READ(2, Objects)>> \o Returns(3, Results)

prim_descr_setecho ==
    ArgsDown(2) \o <<MAYABORT, UNLESS(1, Ints), UNLESS(2, Ints), READ(1, Ints), READ(2, Ints)>>
                \o Returns(2, Results)

---------------------------------------------------------------------------
(* p_misc.c *)

prim_time == Room(3, Results)

prim_convtime == Args(1) \o IsString(1) \o <<READ(1, {"string"}), MAYABORT>> \o Returns(1, Results)

prim_date == Room(3, Results)

prim_gmtoffset == Room(1, Results)

prim_systime == Room(1, Results)

prim_timesplit ==
    Args(1) \o <<UNLESS(1, Ints), READ(1, Ints), CHECKOFLOW(8)>> \o Clear(1) \o Pushes(8, Results)

prim_timefmt ==
    ArgsDown(2) \o IsString(1) \o <<UNLESS(2, Ints), UNLESS(2, NonNegative), READ(2, Ints), READ(1, {"string"}),
                                    MAYABORT, CHECKOFLOW(1)>>
                \o Returns(2, Texts)

prim_queue ==
    Args(3) \o <<MAYABORT, UNLESS(3, Ints), UNLESS(2, Objects)>> \o IsObject(2) \o <<READ(2, Items), MAYABORT>>
            \o IsText(1) \o <<READ(3, Ints), READ(1, Texts)>> \o Returns(3, Results)

(* A program that kills itself sets err and still gives a result. *)
prim_kill ==
    Args(1) \o <<UNLESS(1, Ints), READ(1, Ints)>> \o Either(<<SETERR>>, <<MAYABORT>>) \o Returns(1, Results)

prim_force ==
    <<LOCAL_OPERS(2)>> \o Args(2) \o <<MAYABORT>> \o IsText(1) \o <<UNLESS(2, Objects), UNLESS(2, Items), READ(2, Items), MAYABORT>>
      \o IsString(1) \o <<READ(1, {"string"}), MAYABORT, READ(2, Items), NEST>> \o Clear(2)

prim_timestamps ==
    Args(1) \o <<MAYABORT, UNLESS(1, Objects)>> \o IsObject(1) \o CHECKREMOTE(1) \o <<CHECKOFLOW(4)>>
            \o Clear(1) \o Pushes(4, Results)

(* The child's cells are copies of their own; here only the parent's. *)
prim_fork == <<CHECKOP(0), CHECKOFLOW(1), MAYABORT, PUSH(Results)>>

prim_pid == Room(1, Results)

prim_proctime ==
    <<CHECKOP(1), CHECKOFLOW(1), POP(1), UNLESS(1, Ints), READ(1, Ints)>> \o Returns(1, Results)

(* -1 stands for everybody, whatever the type of the cell it is in. *)
prim_stats ==
    <<CHECKOP(1), CHECKOFLOW(7), POP(1), MAYABORT>>
      \o IfIn(1, valid_player, <<>>, <<READ(1, Objects), UNLESS(1, {"nothing", "minus"})>>)
      \o Clear(1) \o Pushes(7, Results)

prim_abort == Args(1) \o IsText(1) \o <<READ(1, Texts), ABORT>>

prim_ispidp == Args(1) \o <<UNLESS(1, Ints), READ(1, Ints)>> \o Returns(1, Results)

(* PushLock pushes a copy of the lock just parsed. *)
prim_parselock ==
    Args(1) \o <<CHECKOFLOW(1)>> \o IsText(1)
      \o IfIn(1, {"string"}, <<READ(1, {"string"})>> \o Either(<<ALLOC("lock")>> \o Returns(1, {"lock"}), Returns(1, {"truelock"})),
              Returns(1, {"truelock"}))

prim_unparselock ==
    Args(1) \o <<UNLESS(1, Locks), READ(1, Locks), CHECKOFLOW(1)>> \o Returns(1, Texts)

prim_prettylock ==
    Args(1) \o <<UNLESS(1, Locks), READ(1, Locks), CHECKOFLOW(1)>> \o Returns(1, Texts)

prim_testlock ==
    <<LOCAL_OPERS(2)>> \o Args(2) \o <<MAYABORT>> \o IsObject(2) \o <<MAYABORT>> \o CHECKREMOTE(2)
      \o <<UNLESS(1, Locks), READ(2, Items), READ(1, Locks), NEST>> \o Returns(2, Results)

prim_sysparm == Args(1) \o IsText(1) \o <<READ(1, Texts), CHECKOFLOW(1)>> \o Returns(1, Texts)

(* INSECURE_SYSTEM_MUF_PRIM is not defined: the last test always aborts. *)
prim_system == Args(1) \o <<MAYABORT>> \o IsString(1) \o <<READ(1, {"string"}), MAYABORT, ABORT>>

prim_email_password ==
    Args(1) \o <<MAYABORT>> \o IsObject(1) \o <<READ(1, Items), MAYABORT>> \o CHECKREMOTE(1) \o Clear(1)
=============================================================================
