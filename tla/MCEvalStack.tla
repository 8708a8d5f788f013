---------------------------- MODULE MCEvalStack ----------------------------
(* Model-checking instances of EvalStack under its rollout driver. *)
EXTENDS EvalRollout, TLC
=============================================================================
