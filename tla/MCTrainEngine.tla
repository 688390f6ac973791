---------------------------- MODULE MCTrainEngine ----------------------------
(* TrainEngine and TrainViews for TLC: four rooms and one hunter, a human or *)
(* an AI; one run plays the rules or follows what everybody is told, `part`. *)
(* The admin switches between a readable and an unreadable configuration.    *)
EXTENDS TrainViews

SquareNames == <<"A1", "A2", "B1", "B2">>
SquareDoors == {{"A1", "A2"}, {"A1", "B1"}, {"A2", "B2"}, {"B1", "B2"}}
SquareDevice == [r \in {"A1", "A2", "B1", "B2"} |->
  CASE r = "A1" -> "curtain" [] r = "A2" -> "coffeepot" [] r = "B1" -> "light" [] r = "B2" -> "speaker"]
OneHunter == <<"h1">>

Base ==
  [fugitive_start |-> "auto", hunter_spawn_rooms |-> <<>>, fugitive_speed |-> 1,
   capture_mode |-> "search", contact_sure |-> FALSE, ram_max |-> 2, ram_regen |-> 1,
   trace_passive |-> 10, trace_t1 |-> 20, trace_t2 |-> 30, trace_t3 |-> 40,
   overheat_rounds |-> 1, max_rounds |-> 3, scan_budget |-> 1, scan_trace |-> 0, scan_lag |-> 1,
   signal_mode |-> "banded", signal_bands |-> <<0, 1>>, signature_reveal |-> TRUE,
   ping_enabled |-> TRUE, ping_signature |-> FALSE, doorlock_range |-> 0,
   hide_duration |-> 2, overload_daze_rounds |-> 1, blackout_blocks_scan |-> TRUE,
   cost |-> [k \in Hacks |-> IF k = "ping" THEN 1 ELSE 2],
   trace |-> [k \in Hacks |-> IF k = "hide" THEN 80 ELSE 0]]
Unreadable == [Base EXCEPT !.signal_bands = <<>>, !.max_rounds = 1]
Contact == [Base EXCEPT !.capture_mode = "contact", !.fugitive_speed = 2]
EngineConfigs == {Contact, Unreadable}

VARIABLE part  \* what this behaviour is about

partVars == <<part, viewVars>>

PartInit ==
  /\ part \in {"rules", "views"}
  /\ ViewsInit
  /\ part = "rules" => ~fugitiveAi /\ bots = {}

\* In a game whose messages are followed the fugitive only hides.
PartNext ==
  /\ part' = part
  /\ \/ part = "rules" /\ EngineNext /\ UNCHANGED <<roleVars, reveal, reasons, known, told>>
     \/ part = "views" /\ ViewsNext /\ forder'.hack \in {"none", "hide"}
PartSpec == PartInit /\ [][PartNext]_partVars
=============================================================================
