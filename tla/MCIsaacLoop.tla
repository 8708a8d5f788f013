---------------------------- MODULE MCIsaacLoop ----------------------------
(* Model-checking instances of IsaacLoop : two targets, body and one hand. *)
EXTENDS IsaacLoop, TLC

\* The first episode is long enough to leave a reference behind, the second to let go
\* of band and pose ; the third begins.
Ticks == [e \in 0 .. MaxEpisode |-> IF e = 0 THEN 3 ELSE IF e = 1 THEN 5 ELSE 1]
=============================================================================
