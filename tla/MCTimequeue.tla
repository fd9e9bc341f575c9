----------------------------- MODULE MCTimequeue -----------------------------
(* Instances of Timequeue for TLC. *)
EXTENDS Timequeue, TLC

\* One program is as good as another; players differ (some are mages).
SameProgram == Permutations(Programs)

=============================================================================
