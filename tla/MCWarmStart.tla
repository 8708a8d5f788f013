---------------------------- MODULE MCWarmStart ----------------------------
(* Model-checking instances of WarmStart. *)
EXTENDS WarmStart, TLC
=============================================================================
