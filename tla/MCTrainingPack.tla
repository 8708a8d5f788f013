--------------------------- MODULE MCTrainingPack ---------------------------
(* Model-checking instances of TrainingPack : two collections, of three    *)
(* episodes, two of them of one length and one without a valid anchor.     *)
EXTENDS TrainingPack, TLC

MCSplit == <<<<1, 2>>, <<3>>>>
MCFrames == <<5, 7, 5>>
=============================================================================
