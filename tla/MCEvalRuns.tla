----------------------------- MODULE MCEvalRuns -----------------------------
(* Model-checking instances of EvalRuns. *)
EXTENDS EvalRuns, TLC
=============================================================================
