------------------------- MODULE MCPrimitives -------------------------
(* Model checking of Primitives. *)
EXTENDS Primitives
=============================================================================
