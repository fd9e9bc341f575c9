----------------------------- MODULE ProcessLife -----------------------------
(***************************************************************************)
(* What the process table promises of a process, whatever the queue looks  *)
(* like: it is created once, waits, runs and reads input in turns with the *)
(* others, one at a time, and once it has ended or has been killed it is   *)
(* never heard of again.  Timequeue implements this.                       *)
(***************************************************************************)
CONSTANT Pid
VARIABLE state

State == {"unborn", "waiting", "reading", "running", "gone"}

Init == state = [p \in Pid |-> "unborn"]

NoneRuns == \A p \in Pid : state[p] # "running"

\* A process is created waiting or running, or refused.
Spawn(p) ==
  /\ state[p] = "unborn"
  /\ \/ state' = [state EXCEPT ![p] = "waiting"]
     \/ state' = [state EXCEPT ![p] = "gone"]
     \/ NoneRuns /\ state' = [state EXCEPT ![p] = "running"]

\* A process goes on: at its time, or with the line it waited for.
Resume(p) ==
  /\ state[p] \in {"waiting", "reading"} /\ NoneRuns
  /\ state' = [state EXCEPT ![p] = "running"]

\* A queued command becomes a running program, with a number of its own.
Launch(p, q) ==
  /\ state[p] = "waiting" /\ state[q] = "unborn" /\ NoneRuns
  /\ state' = [state EXCEPT ![p] = "gone", ![q] = "running"]

Suspend(p) ==
  /\ state[p] = "running"
  /\ \E s \in {"waiting", "reading", "gone"} : state' = [state EXCEPT ![p] = s]

\* Processes that are not running are killed, some or all.
Kill(K) ==
  /\ \A p \in K : state[p] \in {"waiting", "reading"}
  /\ state' = [p \in Pid |-> IF p \in K THEN "gone" ELSE state[p]]

Next ==
  \/ \E p \in Pid : Spawn(p) \/ Resume(p) \/ Suspend(p)
  \/ \E p, q \in Pid : Launch(p, q)
  \/ \E K \in SUBSET Pid : Kill(K)

Spec == Init /\ [][Next]_state

TypeOK == state \in [Pid -> State]
OneRuns == \A p, q \in Pid : state[p] = "running" /\ state[q] = "running" => p = q

=============================================================================
