----------------------------- MODULE MCSession -----------------------------
(* Model-checking instances of Session : callers as model values. *)
EXTENDS Session, TLC
=============================================================================
