----------------------------- MODULE MCMpi -----------------------------
(* Model checking of Mpi. *)
EXTENDS Mpi

=========================================================================
