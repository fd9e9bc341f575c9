---------------------------- MODULE MCDescriptors ----------------------------
(* Descriptors for the model checker. *)
EXTENDS Descriptors, TLC

CONSTANTS t1, t2, t3, h1, p1, w1

\* The connections of one kind are interchangeable.
SameKind == Permutations(Telnet) \cup Permutations(Web)
=============================================================================
