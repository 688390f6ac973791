--------------------------- MODULE MCTrainSession ---------------------------
(* Instances of TrainSession for TLC; the .cfg files give the constants. *)
EXTENDS TrainSession, TLC

Accounts == Permutations(Players)
=============================================================================
