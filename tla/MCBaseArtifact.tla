--------------------------- MODULE MCBaseArtifact ---------------------------
(* Model-checking instances of BaseArtifact. *)
EXTENDS BaseArtifact, TLC
=============================================================================
