---------------------------- MODULE MCSharedPool ----------------------------
(* Instances of SharedPool for TLC: a small catalog and the stages of data/rooms in small. *)
EXTENDS SharedPool

\* A table costs 2, a cup 1, a wallpaper 1 per column, and junk sells for 1.
MCPrice == [k \in Kinds |-> IF k = "table" THEN 2 ELSE 1]
MCRestsOn == [k \in Kinds |-> IF k \in Small THEN {"table"} ELSE {}]
MCSeeds == <<[room |-> "inn", kind |-> "junk"], [room |-> "inn", kind |-> "table"]>>
MCValue == [l \in Loot |-> 1]

Need(type, of, want) == [type |-> type, of |-> of, want |-> want]

\* The inn is cleaned up, which opens the second floor; that is furnished.
FurnishStages ==
  [r \in Rooms |->
     IF r = "inn"
       THEN <<[need |-> {Need("ruined_zero", {}, 0)}, unlock |-> {"floor_2"}]>>
       ELSE <<[need |-> {Need("ruined_zero", {}, 0), Need("placed", {"table"}, 1)}, unlock |-> {}]>>]

\* The inn is cleaned up, then wants a fish and a full pool; the second floor wants two fish.
FishStages ==
  [r \in Rooms |->
     IF r = "inn"
       THEN <<[need |-> {Need("ruined_zero", {}, 0)}, unlock |-> {}],
              [need |-> {Need("deliver", Loot, 1), Need("pool", {}, 2)}, unlock |-> {"floor_2"}]>>
       ELSE <<[need |-> {Need("deliver", Loot, 2)}, unlock |-> {}]>>]
=============================================================================
