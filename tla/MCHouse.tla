------------------------------ MODULE MCHouse ------------------------------
(* The house beside the pool and the trains: one run watches one part of it, *)
(* `part`, and leaves the others as they start.  A 4 by 4 mine of two floors, *)
(* four wares, two guest units, a dock with two bites, one client of a room. *)
EXTENDS MineFloors, GuestDays, DockFishing, RoomView

VARIABLE part  \* what this behaviour is about

HouseOres == <<"coal", "stone", "stone_wall">>
HouseOreHits == [k \in {"coal", "stone", "stone_wall"} |-> IF k = "stone_wall" THEN 2 ELSE 1]
HouseOreValue == [k \in {"coal", "stone", "stone_wall"} |-> IF k = "coal" THEN 6 ELSE 0]
HouseTiers == <<<<"coal", "stone", "stone_wall">>, <<"stone_wall">>>>
HouseInWall == {"stone_wall"}
MineSpawn == <<0, 1>>
MineExits == {<<0, 2>>}
MineBlocked == {<<2, 2>>}
MineProps == {<<2, 0>>, <<3, 3>>}

\* The layouts of the days: stone in the wall that hides the ladder, and coal;
\* on the last floor the one wall cell is taken by the first draw.
HouseDrawn(f) ==
  {l \in Layouts(f) : l.rocks = {} /\ {<<n.at, n.kind>> : n \in l.nodes} =
     {<<<<1, 0>>, "stone_wall">>} \cup (IF f = 1 THEN {<<<<1, 2>>, "coal">>} ELSE {})}
DrawnOnce == [f \in 1 .. 2 |-> HouseDrawn(f)]
HouseDraws(f) == DrawnOnce[f]

HouseWares == {"bed", "lamp", "table", "junk"}
HousePrice == [w \in HouseWares |-> CASE w = "bed" -> 12 [] w = "lamp" -> 9 [] w = "table" -> 10 [] OTHER -> 6]
HouseSets == [w \in HouseWares |-> CASE w \in {"bed", "table"} -> "oak" [] w = "lamp" -> "tin" [] OTHER -> NoSet]
HouseDogDays == <<3, 5>>
HouseStocked == <<{"bed"}, {"bed", "table"}>>
HouseMovable == <<{"bed", "lamp"}, {"lamp"}>>
DockPct == <<0, 50, 100>>

houseVars == <<part, layout, mineVars, comfortVars, guestVars, fishVars, viewVars>>

HouseInit ==
  /\ part \in {"layout", "mine", "comfort", "guests", "dock", "view"}
  /\ LayoutInit /\ MineInit /\ ComfortInit /\ GuestInit /\ FishInit /\ ViewInit

HouseNext ==
  /\ part' = part
  /\ \/ part = "layout" /\ LayoutNext /\ UNCHANGED <<mineVars, comfortVars, guestVars, fishVars, viewVars>>
     \/ part = "mine" /\ MineNext /\ UNCHANGED <<layout, comfortVars, guestVars, fishVars, viewVars>>
     \/ part = "comfort" /\ ComfortNext /\ UNCHANGED <<layout, mineVars, guestVars, fishVars, viewVars>>
     \/ part = "guests" /\ GuestNext /\ UNCHANGED <<layout, mineVars, comfortVars, fishVars, viewVars>>
     \/ part = "dock" /\ FishNext /\ UNCHANGED <<layout, mineVars, comfortVars, guestVars, viewVars>>
     \/ part = "view" /\ ViewNext /\ UNCHANGED <<layout, mineVars, comfortVars, guestVars, fishVars>>

HouseSpec == HouseInit /\ [][HouseNext]_houseVars /\ (part = "mine" => MineFairness)
=============================================================================
