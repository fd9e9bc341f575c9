------------------------------ MODULE MCSanity ------------------------------
(* Sanity for TLC. *)
EXTENDS Sanity, TLC
==============================================================================
