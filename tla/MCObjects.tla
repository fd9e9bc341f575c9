----------------------------- MODULE MCObjects -----------------------------
(* Objects for TLC: the bounds are in the configurations. *)
EXTENDS Objects, TLC
==============================================================================
