------------------------------ MODULE Descriptors ------------------------------
(***************************************************************************)
(* The connections of the server: the descriptor list of interface.c and   *)
(* the three tables kept beside it, the array of connections that have a   *)
(* player (descr_count_table), the array of slots (descr_lookup_table) and *)
(* each player's own array of slots (sp.player.descrs).                    *)
(*                                                                         *)
(* The main loop shovechars() goes round the phases in `phase':            *)
(*   "events"   next_muckevent                                             *)
(*   "commands" process_commands, a loop over the descriptors              *)
(*   "boots"    the loop that closes booted descriptors                    *)
(*   "select"   the accepting of new connections                           *)
(*   "read"     the loop that reads, writes and times out descriptors      *)
(* and each loop holds the descriptor it is `at' and the one it saved as   *)
(* the next, `dnext'.  Commands, events and the announcing of comings and  *)
(* goings all run programs before they return; `stack' is the C stack of   *)
(* such calls, and any program running in the top one may use the          *)
(* primitives and commands that change connections.                        *)
(***************************************************************************)
EXTENDS Naturals, FiniteSets, SequencesExt

CONSTANTS
  Telnet, Web,   \* connections to a game port, to tp_www_port (CT_HTML)
  Players,       \* the player objects
  WwwUser,       \* tp_www_user
  NONE,          \* a NULL descriptor, a player field of NOTHING
  MaxSockets,    \* MAX_SOCKETS
  MaxLogins,     \* tp_max_player_logins, 0 for no limit
  MaxWelcomes,   \* tp_max_site_welcomes, 0 for no limit
  MovedTo,       \* bound: the players DESCR_SETUSER gives connections to
  MaxFrob,       \* bound: connections of a player who is frobbed
  MaxLines,      \* bound: input lines waiting on a connection
  MaxDepth       \* bound: calls on the C stack

Descr == Telnet \cup Web

ASSUME ConstantAssumption ==
  /\ Telnet \cap Web = {} /\ NONE \notin Descr \cup Players
  /\ WwwUser \in Players /\ MovedTo \subseteq Players
  /\ IsFiniteSet(Descr)
  /\ {MaxSockets, MaxLogins, MaxWelcomes, MaxFrob} \subseteq Nat
  /\ {MaxLines, MaxDepth} \subseteq Nat \ {0}

VARIABLES
  list,    \* descriptor_list, newest first
  conn,    \* the descriptors' own fields
  table,   \* descr_count_table, the first current_descr_count entries
  lookup,  \* descr_lookup_table
  descrs,  \* sp.player.descrs: the player's slots
  frobbed, \* players turned into things
  fresh,   \* connections accepted since select returned: not in its sets
  phase, at, dnext,
  quota,   \* connections that may still run a command in this turn
  again,   \* nprocessed of process_commands is not 0
  stack    \* the calls in progress that run programs

tables == <<list, table, lookup, descrs>>
loop == <<phase, at, dnext, quota, again>>
vars == <<list, conn, table, lookup, descrs, frobbed, fresh, loop, stack>>

Phase == {"events", "commands", "boots", "select", "read"}
Slots == 1..MaxSockets

\* booted: 0, 1 close at the next turn, 3 close when the output is written.
\* 2 (QUIT) differs from 1 by the text of the farewell only, and is 1 here.
Closed == [connected |-> FALSE, player |-> NONE, booted |-> 0, lines |-> 0]
Conn == [connected : BOOLEAN, player : Players \cup {NONE},
         booted : {0, 1, 3}, lines : 0..MaxLines]

Call(fn, d, p) == [fn |-> fn, d |-> d, who |-> p]
Calls == [fn : {"event", "command", "idle", "login", "web", "set", "greet",
                "close"},
          d : Descr \cup {NONE}, who : Players \cup {NONE}]
Top == Last(stack)
InLoop == stack = <<>>
Running == stack # <<>>

Init ==
  /\ list = <<>> /\ table = <<>>
  /\ conn = [d \in Descr |-> Closed]
  /\ lookup = [i \in Slots |-> NONE]
  /\ descrs = [p \in Players |-> <<>>]
  /\ frobbed = {} /\ fresh = {}
  /\ phase = "events" /\ at = NONE /\ dnext = NONE
  /\ quota = {} /\ again = FALSE /\ stack = <<>>

-----------------------------------------------------------------------------
(* The list and the tables. *)

Listed == Range(list)
ConnsOf(p) == {d \in Listed : conn[d].connected /\ conn[d].player = p}
Unbooted(p) == {d \in ConnsOf(p) : conn[d].booted = 0}

\* d->next in the list l.
Following(l, d) ==
  IF \E i \in 1..(Len(l) - 1) : l[i] = d
  THEN l[1 + CHOOSE i \in 1..(Len(l) - 1) : l[i] = d]
  ELSE NONE

\* The ways to number a set of positions in increasing order: one.
Increasing(S) ==
  {f \in [1..Cardinality(S) -> S] :
     /\ \A i, j \in 1..Cardinality(S) : i < j => f[i] < f[j]
     /\ \A x \in S : \E i \in 1..Cardinality(S) : f[i] = x}

\* The entries of s that are in S, in their order (SelectSeq, in a form that
\* can be reasoned about).
Selected(s, S) ==
  LET f == CHOOSE f \in Increasing({i \in DOMAIN s : s[i] \in S}) : TRUE
  IN  [k \in DOMAIN f |-> s[f[k]]]

Connected(c) == {d \in Descr : c[d].connected}

\* What update_desc_count_table makes of the fields c.
CountTable(c) == Selected(list, Connected(c))

\* The list l without d: *d->prev = d->next.
Unlinked(l, d) == RemoveAt(l, CHOOSE i \in DOMAIN l : l[i] = d)

\* The index of a descriptor in the lookup table; 0 (for -1) when it has none.
SlotOf(d) ==
  IF \E i \in Slots : lookup[i] = d
  THEN CHOOSE i \in Slots : lookup[i] = d
  ELSE 0

FreeSlots == {i \in Slots : lookup[i] = NONE}

\* remember_player_descr.
Remember(p, d, ds) ==
  IF SlotOf(d) = 0 THEN ds ELSE [ds EXCEPT ![p] = Append(@, SlotOf(d))]

\* Mutant of Forget: the array is freed whatever it holds.
ForgetAll(p, d, ds) ==
  IF p = NONE \/ SlotOf(d) = 0 THEN ds ELSE [ds EXCEPT ![p] = <<>>]

\* forget_player_descr: the last entry is freed without a look at it.  For a
\* player of NOTHING the code writes in front of the object array, which is
\* no state of this model.
Forget(p, d, ds) ==
  IF p = NONE \/ SlotOf(d) = 0
  THEN ds
  ELSE [ds EXCEPT ![p] =
          IF Len(@) > 1 THEN Selected(@, Slots \ {SlotOf(d)}) ELSE <<>>]

\* Mutant of Attach: the table is updated before the field is set.
AttachLate(d, p, c, ds) ==
  /\ conn' = [c EXCEPT ![d].connected = TRUE, ![d].player = p]
  /\ table' = CountTable(c)
  /\ descrs' = Remember(p, d, ds)

\* d becomes a connection of p; c and ds are the fields and arrays before.
Attach(d, p, c, ds) ==
  LET c2 == [c EXCEPT ![d].connected = TRUE, ![d].player = p]
  IN  /\ conn' = c2
      /\ table' = CountTable(c2)
      /\ descrs' = Remember(p, d, ds)

\* d is no player's connection any more.
Detach(d, c) ==
  LET c2 == [c EXCEPT ![d].connected = FALSE, ![d].player = NONE]
  IN  /\ conn' = c2
      /\ table' = CountTable(c2)
      /\ descrs' = Forget(conn[d].player, d, descrs)

\* A call that runs programs is made, or returns.
Push(call) == Len(stack) < MaxDepth /\ stack' = Append(stack, call)
Pop == stack' = Front(stack)

\* A player a call in progress will still use: FROB leaves the player alone
\* meanwhile (bound).
InUse(p) == \E i \in DOMAIN stack : stack[i].who = p

-----------------------------------------------------------------------------
(* The main loop. *)

StartLoop(ph, l) ==
  /\ phase' = ph
  /\ at' = IF l = <<>> THEN NONE ELSE Head(l)
  /\ dnext' = Following(l, at')

\* for (...; d; d = dnext) { dnext = d->next; ... }
NextOne(l) == at' = dnext /\ dnext' = Following(l, dnext)

\* One event of next_muckevent.
Event ==
  /\ InLoop /\ phase = "events"
  /\ Push(Call("event", NONE, NONE))
  /\ UNCHANGED <<tables, conn, frobbed, fresh, loop>>

\* The events are over; process_commands starts.  Which connections have
\* quota left, and no blocked player, is left open.
Commands ==
  /\ InLoop /\ phase = "events"
  /\ quota' \in SUBSET Listed
  /\ again' = FALSE
  /\ StartLoop("commands", list)
  /\ UNCHANGED <<tables, conn, frobbed, fresh, stack>>

\* The line at the head of d's input is done with; `c' are the fields then.
TakesLine(d) ==
  /\ InLoop /\ phase = "commands" /\ at = d
  /\ d \in quota /\ conn[d].lines > 0
  /\ quota' = quota \ {d} /\ again' = TRUE
  /\ UNCHANGED <<list, lookup, frobbed, fresh, phase, at, dnext>>
LineTaken(d) == [conn EXCEPT ![d].lines = @ - 1]

\* QUIT, a login that is refused for good, a web request answered from text,
\* or a line without any effect here: the line changes no more than booted.
PlainLine(d) ==
  /\ TakesLine(d)
  /\ \E b \in {conn[d].booted, 1}
           \cup (IF d \in Web /\ conn[d].booted = 0 THEN {3} ELSE {}) :
       conn' = [LineTaken(d) EXCEPT ![d].booted = b]
  /\ UNCHANGED <<table, descrs, stack>>

\* A line of a connected player: process_command.
PlayerLine(d) ==
  /\ TakesLine(d)
  /\ conn[d].connected
  /\ conn' = LineTaken(d)
  /\ Push(Call("command", d, NONE))
  /\ UNCHANGED <<table, descrs>>

\* check_connect succeeds, up to the call of announce_connect.
Login(d, p) ==
  /\ TakesLine(d)
  /\ d \in Telnet /\ ~conn[d].connected /\ p \notin frobbed
  /\ Attach(d, p, LineTaken(d), descrs)
  /\ Push(Call("login", d, p))

\* httpd_get runs a script: the request is a connection of tp_www_user
\* while it runs.
WebScript(d) ==
  /\ TakesLine(d)
  /\ d \in Web /\ ~conn[d].connected /\ conn[d].booted = 0
  /\ WwwUser \notin frobbed
  /\ Attach(d, WwwUser, LineTaken(d), descrs)
  /\ Push(Call("web", d, WwwUser))

NextCommand ==
  /\ InLoop /\ phase = "commands" /\ at # NONE
  /\ NextOne(list)
  /\ UNCHANGED <<tables, conn, frobbed, fresh, phase, quota, again, stack>>

\* do { ... } while (nprocessed > 0), then the loop over booted descriptors.
CommandsDone ==
  /\ InLoop /\ phase = "commands" /\ at = NONE
  /\ again' = FALSE
  /\ StartLoop(IF again THEN "commands" ELSE "boots", list)
  /\ quota' = IF again THEN quota ELSE {}
  /\ UNCHANGED <<tables, conn, frobbed, fresh, stack>>

\* shutdownsock(d) after announce_disconnect: the tables forget d, the list
\* loses it, the memory is freed.
Freed(d) ==
  /\ list' = Unlinked(list, d)
  /\ lookup' = [i \in Slots |-> IF lookup[i] = d THEN NONE ELSE lookup[i]]
  /\ conn' = [conn EXCEPT ![d] = Closed]
  /\ descrs' = IF conn[d].connected
               THEN Forget(conn[d].player, d, descrs) ELSE descrs
  /\ table' = IF conn[d].connected
              THEN CountTable([conn EXCEPT ![d].connected = FALSE]) ELSE table

\* A booted descriptor is closed; one booted with 3 when its minute is over.
\* The connection of a player is taken from the player first, and the
\* disconnect programs run before the rest of shutdownsock.
Close(d) ==
  /\ InLoop /\ phase = "boots" /\ at = d
  /\ conn[d].booted # 0
  /\ IF conn[d].connected /\ d \in Telnet
     THEN /\ Detach(d, [conn EXCEPT ![d].booted = 0])
          /\ Push(Call("close", d, conn[d].player))
          /\ UNCHANGED <<list, lookup, at, dnext>>
     ELSE /\ Freed(d)
          /\ NextOne(list')
          /\ UNCHANGED stack
  /\ UNCHANGED <<frobbed, fresh, phase, quota, again>>

NextBoot ==
  /\ InLoop /\ phase = "boots" /\ at # NONE /\ conn[at].booted \in {0, 3}
  /\ NextOne(list)
  /\ UNCHANGED <<tables, conn, frobbed, fresh, phase, quota, again, stack>>

Select ==
  /\ InLoop /\ phase = "boots" /\ at = NONE
  /\ phase' = "select"
  /\ UNCHANGED <<tables, conn, frobbed, fresh, at, dnext, quota, again, stack>>

\* initializesock, and boot_welcome_site_idlest for the new one's site.
\* Without a free slot the new descriptor is booted.  The most idle of the
\* others on the welcome screen is any of them, all being of one site.
Accept(d) ==
  /\ InLoop /\ phase = "select" /\ d \notin Listed
  /\ LET full == FreeSlots = {}
         new == [Closed EXCEPT !.booted = IF full THEN 1 ELSE 0]
         others == {e \in Listed : ~conn[e].connected /\ conn[e].booted = 0}
         count == Cardinality(others) + (IF full THEN 0 ELSE 1)
         slot == CHOOSE i \in FreeSlots : \A j \in FreeSlots : i <= j
     IN /\ list' = <<d>> \o list
        /\ lookup' = IF full THEN lookup ELSE [lookup EXCEPT ![slot] = d]
        /\ IF MaxWelcomes > 0 /\ count > 1 /\ count > MaxWelcomes
           THEN \E e \in others :
                  conn' = [conn EXCEPT ![d] = new, ![e].booted = 1]
           ELSE conn' = [conn EXCEPT ![d] = new]
  /\ fresh' = fresh \cup {d}
  /\ UNCHANGED <<table, descrs, frobbed, loop, stack>>

Read ==
  /\ InLoop /\ phase = "select"
  /\ StartLoop("read", list)
  /\ UNCHANGED <<tables, conn, frobbed, fresh, quota, again, stack>>

\* process_input takes a line in.
HearLine(d) ==
  /\ InLoop /\ phase = "read" /\ at = d
  /\ d \notin fresh /\ conn[d].lines < MaxLines
  /\ conn' = [conn EXCEPT ![d].lines = @ + 1]
  /\ UNCHANGED <<tables, frobbed, fresh, loop, stack>>

\* The input is closed, the output fails, the connection has been idle for
\* too long, or all of a web request's answer is written.  Output that fails
\* elsewhere (wall_all, flush_user_output) boots here or as DescrBoot does.
Drop(d) ==
  /\ InLoop /\ phase = "read" /\ at = d
  /\ d \notin fresh
  /\ conn' = [conn EXCEPT ![d].booted = 1]
  /\ UNCHANGED <<tables, frobbed, fresh, loop, stack>>

\* announce_idle and announce_unidle.
Announce(d) ==
  /\ InLoop /\ phase = "read" /\ at = d
  /\ conn[d].connected
  /\ Push(Call("idle", d, NONE))
  /\ UNCHANGED <<tables, conn, frobbed, fresh, loop>>

NextRead ==
  /\ InLoop /\ phase = "read" /\ at # NONE
  /\ NextOne(list)
  /\ UNCHANGED <<tables, conn, frobbed, fresh, phase, quota, again, stack>>

ReadDone ==
  /\ InLoop /\ phase = "read" /\ at = NONE
  /\ phase' = "events" /\ fresh' = {}
  /\ UNCHANGED <<tables, conn, frobbed, at, dnext, quota, again, stack>>

-----------------------------------------------------------------------------
(* What a running program, or the command it carries out, can do. *)

\* Mutant of CountBoot: the commented-out shutdownsock(d) of pboot.
CountBootCloses(i) ==
  /\ Running /\ i \in DOMAIN table
  /\ Freed(table[i])
  /\ UNCHANGED <<frobbed, fresh, loop, stack>>

\* CONBOOT: pboot.
CountBoot(i) ==
  /\ Running /\ i \in DOMAIN table
  /\ conn' = [conn EXCEPT ![table[i]].booted = 1]
  /\ UNCHANGED <<tables, frobbed, fresh, loop, stack>>

\* dboot: any descriptor, by its number or its player.
DescrBoot(d) ==
  /\ Running /\ d \in Listed
  /\ conn' = [conn EXCEPT ![d].booted = 1]
  /\ UNCHANGED <<tables, frobbed, fresh, loop, stack>>

\* dforce: a line for a descriptor without a player.
DescrForce(d) ==
  /\ Running /\ d \in Listed
  /\ ~conn[d].connected /\ conn[d].lines < MaxLines
  /\ conn' = [conn EXCEPT ![d].lines = @ + 1]
  /\ UNCHANGED <<tables, frobbed, fresh, loop, stack>>

\* @boot of a player: boot_off, the last one in the list.
BootOff(p) ==
  /\ Running
  /\ \E i \in DOMAIN list :
       /\ list[i] \in Unbooted(p)
       /\ \A j \in DOMAIN list : j > i => list[j] \notin Unbooted(p)
       /\ conn' = [conn EXCEPT ![list[i]].booted = 1]
  /\ UNCHANGED <<tables, frobbed, fresh, loop, stack>>

\* @boot of oneself: boot_idlest(player, 1) keeps the least idle, any one.
KeepOne(p) ==
  /\ Running /\ Cardinality(Unbooted(p)) > 1
  /\ \E keep \in Unbooted(p) :
       conn' = [d \in Descr |-> IF d \in Unbooted(p) \ {keep}
                                THEN [conn[d] EXCEPT !.booted = 1]
                                ELSE conn[d]]
  /\ UNCHANGED <<tables, frobbed, fresh, loop, stack>>

\* dset_user, up to the programs announce_disconnect runs: DESCR_SETUSER for
\* a descriptor that has a slot, the @connect command for one's own.
SetUser(d, p) ==
  /\ Running /\ d \in Listed /\ conn[d].connected
  /\ SlotOf(d) # 0 \/ (Top.fn = "command" /\ Top.d = d)
  /\ p \notin frobbed
  /\ Detach(d, conn)
  /\ Push(Call("set", d, p))
  /\ UNCHANGED <<list, lookup, frobbed, fresh, loop>>

\* One turn of the loop of boot_player_off, over the memory `cells' the
\* player's array had at first; forget_player_descr moves the entries down in
\* it.  A descriptor it meets twice has no player any more.
BootCell(s, di) ==
  LET d == lookup[s.cells[di]]
      kept == Selected(SubSeq(s.cells, 1, s.n), Slots \ {s.cells[di]})
  IN  IF d = NONE \/ d \in s.cut THEN s
      ELSE [cells |-> kept \o SubSeq(s.cells, Len(kept) + 1, Len(s.cells)),
            n |-> IF s.n > 1 THEN Len(kept) ELSE 0,
            cut |-> s.cut \cup {d}]

\* boot_player_off.
BootCells(p) ==
  LET count == Len(descrs[p])
      after[i \in 0..count] ==
        IF i = 0 THEN [cells |-> descrs[p], n |-> count, cut |-> {}]
        ELSE BootCell(after[i - 1], i)
  IN  after[count]

\* @frob and @toad: boot_player_off, and the player is a thing.
Frob(p) ==
  /\ Running /\ p \notin frobbed /\ ~InUse(p)
  /\ Len(descrs[p]) <= MaxFrob
  /\ LET s == BootCells(p)
         c == [d \in Descr |->
                 IF d \in s.cut
                 THEN [conn[d] EXCEPT !.connected = FALSE, !.player = NONE,
                                      !.booted = IF @ = 0 THEN 1 ELSE @]
                 ELSE conn[d]]
     IN /\ conn' = c
        /\ table' = CountTable(c)
        /\ descrs' = [descrs EXCEPT ![p] = SubSeq(s.cells, 1, s.n)]
  /\ frobbed' = frobbed \cup {p}
  /\ UNCHANGED <<list, lookup, fresh, loop, stack>>

-----------------------------------------------------------------------------
(* The calls return. *)

\* Nothing is left to do in an event, a command, announce_idle, nor in
\* dset_user after announce_connect.
Return ==
  /\ Running /\ Top.fn \in {"event", "command", "idle", "greet"}
  /\ Pop
  /\ UNCHANGED <<tables, conn, frobbed, fresh, loop>>

\* Mutant of Extra: online(player) is compared before the login counts.
ExtraBefore(p) == MaxLogins > 0 /\ Len(descrs[p]) > MaxLogins + 1

\* More connections than tp_max_player_logins.
Extra(p) == MaxLogins > 0 /\ Len(descrs[p]) > MaxLogins

\* check_connect after announce_connect: boot_idlest(player, 0), when the
\* most and the least idle are two.
LoginDone ==
  /\ Running /\ Top.fn = "login"
  /\ IF Extra(Top.who) /\ Cardinality(Unbooted(Top.who)) > 1
     THEN \E d \in Unbooted(Top.who) : conn' = [conn EXCEPT ![d].booted = 1]
     ELSE UNCHANGED conn
  /\ Pop
  /\ UNCHANGED <<tables, frobbed, fresh, loop>>

\* dset_user after announce_disconnect.
SetUserDone ==
  /\ Running /\ Top.fn = "set"
  /\ IF Top.who = NONE
     THEN Pop /\ UNCHANGED <<conn, table, descrs>>
     ELSE /\ Attach(Top.d, Top.who, conn, descrs)
          /\ stack' = Front(stack) \o <<Call("greet", Top.d, Top.who)>>
  /\ UNCHANGED <<list, lookup, frobbed, fresh, loop>>

\* Mutant of Answered: httpd_get does not look at booted.
AnsweredAlways(b) == 3

\* if (!d->booted) d->booted = 3
Answered(b) == IF b = 0 THEN 3 ELSE b

\* httpd_get after the script.
WebDone ==
  /\ Running /\ Top.fn = "web"
  /\ Detach(Top.d, [conn EXCEPT ![Top.d].booted = Answered(@)])
  /\ Pop
  /\ UNCHANGED <<list, lookup, frobbed, fresh, loop>>

\* shutdownsock after announce_disconnect, and the next turn of its loop.
CloseDone ==
  /\ Running /\ Top.fn = "close"
  /\ Freed(Top.d)
  /\ NextOne(list')
  /\ Pop
  /\ UNCHANGED <<frobbed, fresh, phase, quota, again>>

-----------------------------------------------------------------------------
LoopStep ==
  \/ Commands \/ NextCommand \/ CommandsDone
  \/ NextBoot \/ Select \/ Read \/ NextRead \/ ReadDone
  \/ \E d \in Descr : Close(d)
Line(d) == PlainLine(d) \/ PlayerLine(d) \/ WebScript(d)
             \/ \E p \in Players : Login(d, p)
Network(d) == Accept(d) \/ HearLine(d) \/ Drop(d) \/ Announce(d)
Program ==
  \/ \E i \in DOMAIN table : CountBoot(i)
  \/ \E d \in Descr : DescrBoot(d) \/ DescrForce(d)
  \/ \E p \in Players : BootOff(p) \/ KeepOne(p) \/ Frob(p)
  \/ \E d \in Descr, p \in MovedTo \cup {NONE} : SetUser(d, p)
Returns == Return \/ LoginDone \/ SetUserDone \/ WebDone \/ CloseDone

Next ==
  \/ LoopStep \/ Event \/ Program \/ Returns
  \/ \E d \in Descr : Line(d) \/ Network(d)

Spec == Init /\ [][Next]_vars

\* The main loop goes on, and the programs of a call come to an end: an
\* event, a visit of a descriptor and a pass make finitely many calls, and
\* each call returns.
LastReturns == Len(stack) = 1 /\ Returns
Fairness == SF_vars(LoopStep) /\ WF_vars(Returns) /\ SF_vars(LastReturns)
FairSpec == Spec /\ Fairness

-----------------------------------------------------------------------------
(* Properties. *)

\* The variables have their types (the descriptor fields, the tables, the
\* loops' locals).
TypeOK ==
  /\ list \in Seq(Descr) /\ conn \in [Descr -> Conn]
  /\ table \in Seq(Descr)
  /\ lookup \in [Slots -> Descr \cup {NONE}]
  /\ descrs \in [Players -> Seq(Slots)]
  /\ frobbed \subseteq Players /\ fresh \subseteq Descr
  /\ phase \in Phase /\ at \in Descr \cup {NONE} /\ dnext \in Descr \cup {NONE}
  /\ quota \subseteq Descr /\ again \in BOOLEAN
  /\ stack \in Seq(Calls) /\ Len(stack) <= MaxDepth

\* Whatever programs run where, the connection numbers of the MUF primitives
\* count the connections that have a player, in the order of the list
\* (update_desc_count_table is called after every change); and everything else
\* the tables hold is of its type.
CountsMatch == TypeOK /\ table = CountTable(conn)

\* A player's own array holds the slot of each of the player's connections
\* once, and nothing else (a connection beyond MAX_SOCKETS has no slot).
PlayerDescrs ==
  \A p \in Players \ frobbed :
    /\ IsInjective(descrs[p])
    /\ Range(descrs[p]) = {SlotOf(d) : d \in ConnsOf(p)} \ {0}

\* No pointer outlives its descriptor: the lookup table, the loops and the
\* calls on the stack hold descriptors that are in the list, which holds each
\* once, as the table does.
NoDangling ==
  /\ IsInjective(list)
  /\ \A i \in Slots : lookup[i] \in Listed \cup {NONE}
  /\ \A i, j \in Slots : lookup[i] = lookup[j] /\ lookup[i] # NONE => i = j
  /\ {at, dnext} \subseteq Listed \cup {NONE}
  /\ \A i \in DOMAIN stack : stack[i].d \in Listed \cup {NONE}

\* After a login no player has more connections that stay than
\* tp_max_player_logins, if none has been given one by DESCR_SETUSER.
LoginLimit ==
  MaxLogins > 0 =>
    \A p \in Players \ (MovedTo \cup {WwwUser}) :
      Cardinality(Unbooted(p)) <= MaxLogins +
        Cardinality({i \in DOMAIN stack :
                       stack[i].fn = "login" /\ stack[i].who = p})

\* A descriptor booted with 1 is closed, whatever is done to it meanwhile.
BootedCloses ==
  \A d \in Descr : conn[d].booted = 1 ~> d \notin Listed
================================================================================
