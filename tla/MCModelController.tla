------------------------- MODULE MCModelController -------------------------
(* Model-checking instances of ModelController. *)
EXTENDS ModelController, TLC
=============================================================================
