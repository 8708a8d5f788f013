-------------------------- MODULE MCResetPipeline --------------------------
(* Model-checking instances of ResetPipeline. *)
EXTENDS ResetPipeline, TLC
=============================================================================
