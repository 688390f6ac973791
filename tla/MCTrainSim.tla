----------------------------- MODULE MCTrainSim -----------------------------
(* An instance of TrainSim for TLC: six rooms, two hunters. *)
EXTENDS TrainSim

GridNames == <<"A1", "A2", "A3", "B1", "B2", "B3">>
GridDoors == {{"A1", "A2"}, {"A2", "A3"}, {"B1", "B2"}, {"B2", "B3"}, {"A1", "B1"}, {"A2", "B2"}, {"A3", "B3"}}
GridDevice == [r \in {"A1", "A2", "A3", "B1", "B2", "B3"} |->
  CASE r \in {"A1", "B3"} -> "curtain" [] r = "A2" -> "coffeepot"
    [] r \in {"A3", "B1"} -> "light" [] r = "B2" -> "speaker"]
TwoHunters == <<"h1", "h2">>

Hunt ==
  [fugitive_start |-> "auto", hunter_spawn_rooms |-> <<>>, fugitive_speed |-> 1,
   capture_mode |-> "search", contact_sure |-> FALSE, ram_max |-> 4, ram_regen |-> 1,
   trace_passive |-> 10, trace_t1 |-> 20, trace_t2 |-> 30, trace_t3 |-> 40,
   overheat_rounds |-> 1, max_rounds |-> 5, scan_budget |-> 1, scan_trace |-> 0, scan_lag |-> 1,
   signal_mode |-> "banded", signal_bands |-> <<0, 1>>, signature_reveal |-> TRUE,
   ping_enabled |-> TRUE, ping_signature |-> FALSE, doorlock_range |-> 0,
   hide_duration |-> 2, overload_daze_rounds |-> 1, blackout_blocks_scan |-> TRUE,
   cost |-> [k \in Hacks |-> IF k = "ping" THEN 1 ELSE 2],
   trace |-> [k \in Hacks |-> 10]]
Slow == [Hunt EXCEPT !.trace_t2 = 60, !.trace_t3 = 90, !.scan_lag = 0, !.scan_trace = 5]
Ambush == [Hunt EXCEPT !.capture_mode = "contact", !.fugitive_speed = 2]
\* Beside the speaker, with a first round that shows no tier.
Quiet == [Hunt EXCEPT !.fugitive_start = "B2", !.hunter_spawn_rooms = <<"A1">>, !.trace_t1 = 25]
SimConfigs == {[c EXCEPT !.fugitive_start = r] : c \in {Hunt, Slow, Ambush}, r \in {"A1", "A2"}} \cup {Quiet}
=============================================================================
