------------------------------- MODULE MCDumps -------------------------------
(* Dumps for TLC: the objects are interchangeable. *)
EXTENDS Dumps, TLC

Symmetry == Permutations(Obj)

OneCrash    == [b \in Builds |-> 1]
TwoInMemory == [b \in Builds |-> IF b = "memory" THEN 2 ELSE 0]
==============================================================================
