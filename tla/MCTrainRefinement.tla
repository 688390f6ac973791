-------------------------- MODULE MCTrainRefinement --------------------------
(* An instance of TrainRefinement for TLC. *)
EXTENDS TrainRefinement
=============================================================================
