---------------------------- MODULE MCTrainTasks ----------------------------
(* An instance of TrainTasks for TLC: two AI hunters and one person. *)
EXTENDS TrainTasks

TwoBots == <<"b1", "b2">>
OneBot == <<"b1">>
=============================================================================
