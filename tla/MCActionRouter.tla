--------------------------- MODULE MCActionRouter ---------------------------
(* Model-checking instances of ActionRouter. *)
EXTENDS ActionRouter, TLC

\* The psi loop and the warm start, one thread each.
MCProducers == {<<"psi", 1>>, <<"warmstart", 1>>}
=============================================================================
