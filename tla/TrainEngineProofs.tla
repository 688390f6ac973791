------------------------- MODULE TrainEngineProofs -------------------------
(***************************************************************************)
(* Proofs about the chase, for every map, crew and set of configurations   *)
(* that the assumptions admit: about its rules (TrainEngine), about what   *)
(* the hunters' AI concludes from the reports (TrainSim), and about what   *)
(* the role-filtered views tell (TrainViews).                              *)
(* The rules need little: the configuration in force, the hack that waits  *)
(* to be cast, the two meters and the round of the trace.  That a capture  *)
(* is contact rests on what the searches for paths return, which is shown  *)
(* for the recursive functions they are.  The brain needs the map: that    *)
(* Distance is the length of a shortest way, that a walk ends within a     *)
(* step of where it passed last, and that everybody starts in a room.      *)
(***************************************************************************)
EXTENDS TrainViews, TrainSim, Sums, FiniteSetTheorems, TLAPS

-----------------------------------------------------------------------------
(* The map. *)

\* The rooms one door further.
Around(S) == S \cup UNION {Neighbors(q) : q \in S}

LEMMA BallGrows ==
  ASSUME NEW r \in Rooms
  PROVE  /\ Within(r)[0] = {r}
         /\ \A n \in Nat : Within(r)[n] \subseteq Rooms /\ Within(r)[n + 1] = Around(Within(r)[n])
<1> DEFINE Whole(g) == [n \in Nat |-> IF n = 0 THEN {r} ELSE LET S == g[n - 1] IN S \cup UNION {Neighbors(q) : q \in S}]
           ball == CHOOSE g : g = Whole(g)
           G == [S \in SUBSET Rooms |-> Around(S)]
<1>1. Within(r) = ball BY DEF Within
<1>2. G \in [SUBSET Rooms -> SUBSET Rooms]
  <2>1. \A q : Neighbors(q) \subseteq Rooms BY DEF Neighbors
  <2>2. \A S \in SUBSET Rooms : Around(S) \in SUBSET Rooms BY <2>1 DEF Around
  <2> QED BY <2>2
<1>3. {r} \in SUBSET Rooms OBVIOUS
<1> HIDE DEF G
<1>4. PICK f \in [Nat -> SUBSET Rooms] : f[0] = {r} /\ \A n \in Nat : f[n + 1] = G[f[n]] 
  <2> DEFINE T == SUBSET Rooms
  <2>1. G \in [T -> T] /\ {r} \in T BY <1>2, <1>3
  <2> HIDE DEF T
  <2>2. \E f \in [Nat -> T] : f[0] = {r} /\ \A n \in Nat : f[n + 1] = G[f[n]] BY <2>1, Iteration
  <2> QED BY <2>2 DEF T
<1>5. \A n \in Nat : f[n + 1] = Around(f[n]) BY <1>4 DEF G
<1>6. ASSUME NEW n \in Nat PROVE f[n] = IF n = 0 THEN {r} ELSE LET S == f[n - 1] IN S \cup UNION {Neighbors(q) : q \in S}
  <2>1. CASE n = 0 BY <1>4, <2>1
  <2>2. CASE n # 0
    <3>1. n - 1 \in Nat /\ (n - 1) + 1 = n BY <2>2
    <3>2. f[n] = Around(f[n - 1]) BY <1>5, <3>1
    <3> QED BY <2>2, <3>2 DEF Around
  <2> QED BY <2>1, <2>2
<1>7. f = [n \in Nat |-> f[n]] BY <1>4
<1>8. f = Whole(f) BY <1>6, <1>7
<1>9. ball = Whole(ball) BY <1>8
<1> HIDE DEF ball
<1>10. \A n \in Nat : ball[n] = IF n = 0 THEN {r} ELSE LET S == ball[n - 1] IN S \cup UNION {Neighbors(q) : q \in S}
  BY ONLY <1>9
<1>11. ball[0] = {r} BY <1>10
<1>12. ASSUME NEW n \in Nat PROVE ball[n + 1] = Around(ball[n])
  <2>1. n + 1 \in Nat /\ n + 1 # 0 /\ (n + 1) - 1 = n OBVIOUS
  <2>2. ball[n + 1] = LET S == ball[(n + 1) - 1] IN S \cup UNION {Neighbors(q) : q \in S} BY <1>10, <2>1
  <2> QED BY <2>1, <2>2 DEF Around
<1> DEFINE H == {n \in Nat : ball[n] \subseteq Rooms}
<1>13. 0 \in H BY <1>11
<1>14. ASSUME NEW n \in Nat, n \in H PROVE n + 1 \in H
  <2>1. \A q : Neighbors(q) \subseteq Rooms BY DEF Neighbors
  <2> QED BY <1>12, <1>14, <2>1 DEF Around
<1> HIDE DEF H
<1>15. Nat \subseteq H BY <1>13, <1>14, NatInduct
<1> QED BY <1>1, <1>11, <1>12, <1>15 DEF H

LEMMA BallKeeps ==
  ASSUME NEW r \in Rooms, NEW n \in Nat, NEW q \in Within(r)[n]
  PROVE  q \in Rooms /\ q \in Within(r)[n + 1] /\ Neighbors(q) \subseteq Within(r)[n + 1]
<1>1. Within(r)[n] \subseteq Rooms /\ Within(r)[n + 1] = Around(Within(r)[n]) BY BallGrows
<1> QED BY <1>1 DEF Around

LEMMA BallOfOne == ASSUME NEW r \in Rooms PROVE Within(r)[1] = {r} \cup Neighbors(r)
<1>1. Within(r)[0 + 1] = Around(Within(r)[0]) /\ Within(r)[0] = {r} BY BallGrows
<1> QED BY <1>1 DEF Around

\* Who starts one door later needs one door more.
LEMMA BallFromNextDoor ==
  ASSUME NEW r \in Rooms, NEW t \in {r} \cup Neighbors(r), NEW n \in Nat
  PROVE  t \in Rooms /\ Within(t)[n] \subseteq Within(r)[n + 1]
<1>0. t \in Rooms BY DEF Neighbors
<1> DEFINE H == {m \in Nat : Within(t)[m] \subseteq Within(r)[m + 1]}
<1>1. 0 \in H
  <2>1. Within(t)[0] = {t} BY <1>0, BallGrows
  <2>2. t \in Within(r)[1] BY BallOfOne
  <2>3. 0 + 1 = 1 OBVIOUS
  <2> QED BY <2>1, <2>2, <2>3
<1>2. ASSUME NEW m \in Nat, m \in H PROVE m + 1 \in H
  <2>1. Within(t)[m + 1] = Around(Within(t)[m]) /\ Within(r)[(m + 1) + 1] = Around(Within(r)[m + 1])
    BY <1>0, BallGrows
  <2>2. Around(Within(t)[m]) \subseteq Around(Within(r)[m + 1]) BY <1>2 DEF Around
  <2> QED BY <2>1, <2>2
<1> HIDE DEF H
<1>3. Nat \subseteq H BY <1>1, <1>2, NatInduct
<1> QED BY <1>0, <1>3 DEF H

\* The doors lead both ways.
LEMMA BallIsMutual ==
  ASSUME NEW r \in Rooms, NEW n \in Nat, NEW q \in Within(r)[n]
  PROVE  r \in Within(q)[n]
<1> DEFINE H == {m \in Nat : \A t \in Rooms : t \in Within(r)[m] => r \in Within(t)[m]}
<1>1. 0 \in H BY BallGrows
<1>2. ASSUME NEW m \in Nat, m \in H PROVE m + 1 \in H
  <2> SUFFICES ASSUME NEW t \in Rooms, t \in Within(r)[m + 1] PROVE r \in Within(t)[m + 1] OBVIOUS
  <2>1. Within(r)[m + 1] = Around(Within(r)[m]) /\ Within(r)[m] \subseteq Rooms BY BallGrows
  <2>2. PICK s \in Within(r)[m] : t = s \/ t \in Neighbors(s) BY <2>1 DEF Around
  <2>3. s \in Rooms /\ r \in Within(s)[m] BY <1>2, <2>1
  <2>4. s \in {t} \cup Neighbors(t) BY <2>2, <2>3 DEF Neighbors
  <2> QED BY <2>3, <2>4, BallFromNextDoor
<1> HIDE DEF H
<1>3. Nat \subseteq H BY <1>1, <1>2, NatInduct
<1>4. q \in Rooms BY BallGrows
<1> QED BY <1>3, <1>4 DEF H

LEMMA DistanceIsLeast ==
  ASSUME NEW r \in Rooms, NEW q \in Rooms
  PROVE  /\ Distance[r][q] \in 0..Cardinality(Rooms)
         /\ q \in Within(r)[Distance[r][q]]
         /\ \A n \in Nat : q \in Within(r)[n] => Distance[r][q] <= n
<1> DEFINE N == Cardinality(Rooms)
           D == {n \in Nat : q \in Within(r)[n]}
           P(n) == q \in Within(r)[n] /\ \A k \in 0..(n - 1) : q \notin Within(r)[k]
<1>0. N \in Nat BY MapAssumption, FS_CardinalityType
<1>1. Within(r)[N] = Rooms BY MapAssumption DEF ValidMap
<1>2. N \in D BY <1>0, <1>1
<1>3. PICK d \in D : \A n \in D : d <= n BY <1>2, LeastNumber
<1>4. d \in 0..N /\ P(d) BY <1>0, <1>2, <1>3
<1>5. Distance[r][q] = CHOOSE n \in 0..N : P(n) BY DEF Distance
<1> HIDE DEF P
<1>6. Distance[r][q] \in 0..N /\ P(Distance[r][q]) BY <1>4, <1>5
<1> USE DEF P
<1>7. ASSUME NEW n \in Nat, q \in Within(r)[n] PROVE Distance[r][q] <= n
  <2> SUFFICES ASSUME ~(Distance[r][q] <= n) PROVE FALSE OBVIOUS
  <2>1. n \in 0..(Distance[r][q] - 1) BY <1>0, <1>6
  <2> QED BY <1>6, <1>7, <2>1
<1> QED BY <1>6, <1>7

LEMMA DistanceIsMutual == ASSUME NEW r \in Rooms, NEW q \in Rooms PROVE Distance[r][q] = Distance[q][r]
<1>0. Cardinality(Rooms) \in Nat BY MapAssumption, FS_CardinalityType
<1>1. \A s, t \in Rooms : Distance[s][t] \in Nat /\ t \in Within(s)[Distance[s][t]] BY <1>0, DistanceIsLeast
<1>2. \A s, t \in Rooms : Distance[t][s] <= Distance[s][t] BY <1>1, BallIsMutual, DistanceIsLeast
<1> QED BY <1>1, <1>2

\* Within a step, within two.
Near(r) == {r} \cup Neighbors(r)
LEMMA NearIsNear == ASSUME NEW r \in Rooms, NEW q \in Near(r) PROVE q \in Rooms /\ r \in Near(q) /\ Distance[r][q] <= 1
<1>1. q \in Rooms /\ r \in Near(q) BY DEF Near, Neighbors
<1>2. q \in Within(r)[1] BY BallOfOne DEF Near
<1> QED BY <1>1, <1>2, DistanceIsLeast

LEMMA OneDoorAway == ASSUME NEW r \in Rooms, NEW q \in Rooms, Distance[r][q] <= 1 PROVE q \in Near(r)
<1>0. Cardinality(Rooms) \in Nat BY MapAssumption, FS_CardinalityType
<1>1. Distance[r][q] = 0 \/ Distance[r][q] = 1 BY <1>0, DistanceIsLeast
<1>2. q \in Within(r)[Distance[r][q]] BY DistanceIsLeast
<1> QED BY <1>1, <1>2, BallGrows, BallOfOne DEF Near

LEMMA TwoDoorsAway ==
  ASSUME NEW r \in Rooms, NEW t \in Near(r), NEW q \in Near(t)
  PROVE  Distance[r][q] <= 2
<1>1. t \in Rooms /\ q \in Rooms BY NearIsNear
<1>2. t \in Within(r)[1] /\ q \in Within(t)[1] BY <1>1, BallOfOne DEF Near
<1>3. q \in Within(r)[1 + 1] BY <1>2, BallFromNextDoor DEF Near
<1> QED BY <1>1, <1>3, DistanceIsLeast

-----------------------------------------------------------------------------
(* Where they start. *)

LEMMA IndexIsThere ==
  ASSUME NEW r \in Rooms
  PROVE  Index(r) \in Nat /\ RoomNames[Index(r)] = r
<1>1. \E i \in DOMAIN RoomNames : RoomNames[i] = r BY DEF Rooms
<1>2. Index(r) \in DOMAIN RoomNames /\ RoomNames[Index(r)] = r BY <1>1 DEF Index
<1> QED BY <1>2, MapAssumption

LEMMA IndexIsOwn == ASSUME NEW r \in Rooms, NEW q \in Rooms, Index(r) = Index(q) PROVE r = q
BY IndexIsThere

LEMMA RoomsAreThere == Cardinality(Rooms) \in Nat \ {0}
<1>1. Cardinality(Rooms) \in Nat BY MapAssumption, FS_CardinalityType
<1>2. Rooms # {} BY MapAssumption DEF ValidMap
<1> QED BY <1>1, <1>2, MapAssumption, FS_EmptySet

LEMMA EccentricityIsThere == ASSUME NEW r \in Rooms PROVE Eccentricity(r) \in Nat
<1> DEFINE N == Cardinality(Rooms)
           Left == {N - Distance[r][q] : q \in Rooms}
           P(n) == (\E q \in Rooms : Distance[r][q] = n) /\ (\A q \in Rooms : Distance[r][q] <= n)
<1>1. N \in Nat /\ \A q \in Rooms : Distance[r][q] \in 0..N BY RoomsAreThere, DistanceIsLeast
<1>2. Left \in SUBSET Nat /\ Left # {} BY <1>1
<1>3. PICK m \in Left : \A l \in Left : m <= l BY <1>2, LeastNumber
<1>4. PICK q \in Rooms : m = N - Distance[r][q] OBVIOUS
<1>5. P(Distance[r][q])
  <2>1. ASSUME NEW s \in Rooms PROVE Distance[r][s] <= Distance[r][q]
    <3>1. m <= N - Distance[r][s] BY <1>3
    <3>2. Distance[r][s] \in 0..N /\ Distance[r][q] \in 0..N BY <1>1
    <3> QED BY <1>1, <1>4, <3>1, <3>2
  <2> QED BY <2>1
<1>6. Distance[r][q] \in 0..N BY <1>1
<1>7. Eccentricity(r) = CHOOSE n \in 0..N : P(n) BY DEF Eccentricity
<1> HIDE DEF P
<1>8. Eccentricity(r) \in 0..N BY <1>5, <1>6, <1>7
<1> QED BY <1>1, <1>8

LEMMA CentralIsARoom == Central \in Rooms
<1> DEFINE Nearer(r, q) == \/ Eccentricity(r) < Eccentricity(q)
                           \/ Eccentricity(r) = Eccentricity(q) /\ Index(r) < Index(q)
           R == {p \in Rooms \X Rooms : Nearer(p[1], p[2])}
<1>1. \A r \in Rooms : Eccentricity(r) \in Nat /\ Index(r) \in Nat BY EccentricityIsThere, IndexIsThere
<1>2. \A r, q \in Rooms : <<r, q>> \in R <=> Nearer(r, q) OBVIOUS
<1>3. \A r \in Rooms : ~Nearer(r, r) BY <1>1
<1>4. \A r, q \in Rooms : r # q => Nearer(r, q) \/ Nearer(q, r) BY <1>1, IndexIsOwn
<1>5. \A r, q, s \in Rooms : Nearer(r, q) /\ Nearer(q, s) => Nearer(r, s) BY <1>1
<1>6. Orders(R, Rooms)
  <2> HIDE DEF R, Nearer
  <2> QED BY <1>2, <1>3, <1>4, <1>5 DEF Orders
<1>7. Rooms # {} BY MapAssumption DEF ValidMap
<1>8. PICK r \in Rooms : \A q \in Rooms \ {r} : <<r, q>> \in R
  <2> HIDE DEF R
  <2> QED BY <1>6, <1>7, MapAssumption, FirstInARow
<1>9. \A q \in Rooms \ {r} : Nearer(r, q) BY <1>2, <1>8
<1>10. Central = CHOOSE s \in Rooms : \A q \in Rooms \ {s} : Nearer(s, q) BY DEF Central
<1> HIDE DEF Nearer
<1> QED BY <1>9, <1>10

LEMMA SpawnsAreRooms ==
  ASSUME NEW start \in Rooms, NEW i \in DOMAIN Crew
  PROVE  AutoSpawns(start)[i] \in Rooms
<1> DEFINE farther(q, r) == \/ Distance[start][q] > Distance[start][r]
                            \/ Distance[start][q] = Distance[start][r] /\ Index(q) < Index(r)
           R == {p \in Rooms \X Rooms : farther(p[1], p[2])}
           half == Cardinality(Rooms) \div 2
           far == IF Least(Len(Crew), half) < 1 THEN 1 ELSE Least(Len(Crew), half)
           place == (i - 1) % far
<1>0. Cardinality(Rooms) \in Nat \ {0} BY RoomsAreThere
<1>1. \A r \in Rooms : Distance[start][r] \in Nat /\ Index(r) \in Nat BY <1>0, DistanceIsLeast, IndexIsThere
<1>2. \A r, q \in Rooms : <<r, q>> \in R <=> farther(r, q) OBVIOUS
<1>3. \A r \in Rooms : ~farther(r, r) BY <1>1
<1>4. \A r, q \in Rooms : r # q => farther(r, q) \/ farther(q, r) BY <1>1, IndexIsOwn
<1>5. \A r, q, s \in Rooms : farther(r, q) /\ farther(q, s) => farther(r, s) BY <1>1
<1>6. Orders(R, Rooms)
  <2> HIDE DEF R, farther
  <2> QED BY <1>2, <1>3, <1>4, <1>5 DEF Orders
<1>7. far \in Nat \ {0} /\ far <= Cardinality(Rooms)
  <2>1. half \in Int /\ half <= Cardinality(Rooms) BY <1>0
  <2>2. Len(Crew) \in Nat BY CrewAssumption
  <2> HIDE DEF half
  <2> QED BY <1>0, <2>1, <2>2 DEF Least
<1>8. i \in Nat \ {0} BY CrewAssumption
<1>9. place \in Nat /\ place < Cardinality(Rooms)
  <2> HIDE DEF far
  <2>1. place \in 0..(far - 1) BY <1>7, <1>8
  <2> HIDE DEF place
  <2> QED BY <1>0, <1>7, <2>1
<1>10. \A r \in Rooms : {q \in Rooms : farther(q, r)} = Before(r, R, Rooms) BY DEF Before
<1>11. AutoSpawns(start)[i] = CHOOSE r \in Rooms : Cardinality({q \in Rooms : farther(q, r)}) = place
  BY DEF AutoSpawns
<1> HIDE DEF R, place, farther
<1>12. \E r \in Rooms : Cardinality(Before(r, R, Rooms)) = place BY <1>6, <1>9, MapAssumption, PlacesInARow
<1>13. \E r \in Rooms : Cardinality({q \in Rooms : farther(q, r)}) = place BY <1>10, <1>12
<1> QED BY <1>11, <1>13

LEMMA StartsInside == ASSUME EngineInit PROVE room \in Rooms /\ hroom \in [Hunters -> Rooms]
<1>1. room \in Rooms BY CentralIsARoom DEF EngineInit
<1> DEFINE pool == config.hunter_spawn_rooms
           spawns == IF pool = <<>> THEN AutoSpawns(room)
                     ELSE [i \in DOMAIN Crew |-> pool[((i - 1) % Len(pool)) + 1]]
<1>2. ASSUME NEW i \in DOMAIN Crew PROVE spawns[i] \in Rooms
  <2>1. CASE pool = <<>> BY <1>1, <2>1, SpawnsAreRooms
  <2>2. CASE pool # <<>>
    <3>1. pool \in Seq(Rooms) /\ Len(pool) \in Nat \ {0} BY <2>2 DEF EngineInit
    <3>2. i \in Nat \ {0} BY CrewAssumption
    <3> HIDE DEF pool
    <3>3. (i - 1) % Len(pool) \in 0..(Len(pool) - 1) BY <3>1, <3>2
    <3>4. ((i - 1) % Len(pool)) + 1 \in 1..Len(pool) BY <3>1, <3>3
    <3>5. pool[((i - 1) % Len(pool)) + 1] \in Rooms BY <3>1, <3>4
    <3> QED BY <2>2, <3>5
  <2> QED BY <2>1, <2>2
<1>3. hroom = [h \in Hunters |-> spawns[CHOOSE i \in DOMAIN Crew : Crew[i] = h]] BY DEF EngineInit
<1> HIDE DEF spawns
<1>4. \A h \in Hunters : (CHOOSE i \in DOMAIN Crew : Crew[i] = h) \in DOMAIN Crew BY DEF Hunters
<1> QED BY <1>1, <1>2, <1>3, <1>4

Meters ==
  /\ config \in Configs
  /\ DOMAIN forder = {"move", "hack", "target"}
  /\ forder.hack \in Hacks \cup {"none"}
  /\ ram \in Nat
  /\ trace \in Int /\ trace <= 100

-----------------------------------------------------------------------------
(* What a resolution spends and adds. *)

LEMMA CastIsAHack ==
  ASSUME Meters
  PROVE  /\ Cast \in Hacks \cup {"none"}
         /\ Cast # "none" => ram >= config.cost[Cast] /\ tracedAt = 0
BY DEF Meters, Cast, HackAvailable, Hacks

LEMMA LeastProperties ==
  ASSUME NEW a \in Int, NEW b \in Int
  PROVE  /\ Least(a, b) \in Int /\ Least(a, b) <= a /\ Least(a, b) <= b
         /\ Least(a, b) \in {a, b}
BY DEF Least

\* A round never overdraws the deck, and what it regains is at most ram_max.
LEMMA RamOfARound ==
  ASSUME Meters
  PROVE  /\ Least(config.ram_max, RamNow + config.ram_regen) \in Nat
         /\ Cast = "none" => \/ Least(config.ram_max, RamNow + config.ram_regen) >= ram
                             \/ Least(config.ram_max, RamNow + config.ram_regen) = config.ram_max
<1>1. config.ram_max \in Nat /\ config.ram_regen \in Nat
  BY ConfigAssumption DEF Meters
<1>2. RamNow \in Nat /\ (Cast = "none" => RamNow = ram)
  <2>1. CASE Cast = "none" BY <2>1 DEF RamNow, Meters
  <2>2. CASE Cast # "none"
    <3>1. Cast \in Hacks /\ ram >= config.cost[Cast] BY <2>2, CastIsAHack
    <3>2. config.cost[Cast] \in Nat BY <3>1, ConfigAssumption DEF Meters
    <3> QED BY <2>2, <3>1, <3>2 DEF RamNow, Meters
  <2> QED BY <2>1, <2>2
<1> QED BY <1>1, <1>2 DEF Least, Meters

\* The scans of a round are counted in full numbers.
LEMMA ScansAreCounted ==
  ASSUME Meters
  PROVE  Scans \in Nat
<1> DEFINE Asking == {h \in Hunters : OrderOf(h).type = "scan"}
<1>1. config.scan_budget \in Nat BY ConfigAssumption DEF Meters
<1>2. IsFiniteSet(Asking) BY FS_Subset, CrewAssumption
<1>3. Cardinality(Asking) \in Nat BY <1>2, FS_CardinalityType
<1> QED BY <1>1, <1>3 DEF Scans, Least

\* The trace of a round only grows, and stops at 100.
LEMMA TraceOfARound ==
  ASSUME Meters
  PROVE  TraceNow \in Int /\ TraceNow <= 100 /\ TraceNow >= trace
<1> DEFINE left == IF Cast = "none" THEN 0 ELSE config.trace[Cast]
<1> DEFINE scanned == Scans * config.scan_trace
<1>1. left \in Nat
  <2>1. CASE Cast = "none" BY <2>1
  <2>2. CASE Cast # "none" BY <2>2, CastIsAHack, ConfigAssumption DEF Meters
  <2> QED BY <2>1, <2>2
<1>2. config.scan_trace \in Nat /\ config.trace_passive \in Nat BY ConfigAssumption DEF Meters
<1>3. scanned \in Nat BY <1>2, ScansAreCounted
<1>4. TraceNow = Least(100, trace + left + scanned + config.trace_passive) BY DEF TraceNow
<1> HIDE DEF left, scanned
<1> QED BY <1>1, <1>2, <1>3, <1>4 DEF Least, Meters

\* A frozen fugitive does not walk.
LEMMA FrozenStandsStill ==
  ASSUME frozen, NEW plan \in Planned
  PROVE  EndOf(Walked(plan)) = room
<1>1. plan = <<room>> BY DEF Planned
<1> DEFINE open(n) == \A i \in 1..(n - 1) : {plan[i], plan[i + 1]} \notin LocksNow
<1>2. Len(plan) = 1 BY <1>1
<1> DEFINE stop == CHOOSE n \in 1..Len(plan) : open(n) /\ \A k \in (n + 1)..Len(plan) : ~open(k)
<1>3. open(1) /\ \A k \in (1 + 1)..Len(plan) : ~open(k) BY <1>2
<1>4. 1 \in 1..Len(plan) BY <1>2
<1>5. stop \in 1..Len(plan)
  <2> HIDE DEF open
  <2> QED BY <1>3, <1>4
<1>6. stop = 1 BY <1>2, <1>5
<1>7. Walked(plan) = SubSeq(plan, 1, stop) BY Zenon DEF Walked
<1> HIDE DEF stop
<1>8. Walked(plan) = <<room>> BY <1>1, <1>6, <1>7
<1> QED BY <1>8 DEF EndOf

-----------------------------------------------------------------------------
(* The invariant. *)

LEMMA MetersInit == EngineInit => Meters
BY ConfigAssumption DEF EngineInit, Meters, Wait

\* A resolution, whether it reports or raises, keeps the meters.
LEMMA MetersCommit ==
  ASSUME Meters, NEW path, Commit(path),
         forder' = Wait \/ forder' = [forder EXCEPT !.move = MoveNow]
  PROVE  Meters'
<1>1. ram' \in Nat BY RamOfARound DEF Commit
<1>2. trace' \in Int /\ trace' <= 100 BY TraceOfARound DEF Commit
<1>3. config' \in Configs BY DEF Commit, Meters
<1>4. DOMAIN forder' = {"move", "hack", "target"} /\ forder'.hack \in Hacks \cup {"none"}
  <2>1. CASE forder' = Wait BY <2>1 DEF Wait
  <2>2. CASE forder' = [forder EXCEPT !.move = MoveNow] BY <2>2 DEF Meters
  <2> QED BY <2>1, <2>2
<1> QED BY <1>1, <1>2, <1>3, <1>4 DEF Meters

LEMMA MetersStep ==
  ASSUME Meters, [EngineNext]_engineVars
  PROVE  Meters'
<1>1. ASSUME NEW h \in Hunters, NEW type \in OrderTypes, NEW target \in HunterTargets,
             SubmitHunterOrder(h, type, target)
      PROVE  Meters'
  BY <1>1 DEF SubmitHunterOrder, Meters, fugVars
<1>2. ASSUME NEW move \in HunterTargets, NEW hack \in HackTypes \cup {"none"},
             NEW target \in TargetsOf(hack), SubmitFugitiveOrder(move, hack, target)
      PROVE  Meters'
  BY <1>2, BoundAssumption DEF SubmitFugitiveOrder, Meters
<1>3. CASE CastPing
  <2>1. "ping" \in Hacks BY DEF Hacks
  <2>2. config.cost["ping"] \in Nat /\ config.trace["ping"] \in Nat
    BY <2>1, ConfigAssumption DEF Meters
  <2>3. ram >= config.cost["ping"] BY <1>3 DEF CastPing, HackAvailable
  <2> QED BY <1>3, <2>2, <2>3 DEF CastPing, Meters, Least
<1>4. CASE ResolveRound
  <2>1. PICK plan \in Planned, luck \in Draws : \E capture \in Captures(Walked(plan), luck) :
          /\ Commit(Walked(plan))
          /\ forder' = Wait \/ forder' = [forder EXCEPT !.move = MoveNow]
    BY <1>4 DEF ResolveRound
  <2> QED BY <2>1, MetersCommit
<1>5. CASE ResolveRaises
  <2>1. PICK plan \in Planned : Commit(Walked(plan)) BY <1>5 DEF ResolveRaises
  <2>2. forder' = [forder EXCEPT !.move = MoveNow] BY <1>5 DEF ResolveRaises
  <2> QED BY <2>1, <2>2, MetersCommit
<1>6. ASSUME NEW c \in Configs, SetEngineConfig(c) PROVE Meters'
  BY <1>6 DEF SetEngineConfig, Meters, fugVars
<1>7. CASE UNCHANGED engineVars BY <1>7 DEF engineVars, fugVars, Meters
<1> QED BY <1>1, <1>2, <1>3, <1>4, <1>5, <1>6, <1>7 DEF EngineNext

LEMMA MetersAlways == EngineSpec => []Meters
BY MetersInit, MetersStep, PTL DEF EngineSpec

\* The RAM of the fugitive is never overdrawn, whatever is ordered, pinged,
\* resolved twice or repriced in between.
THEOREM RamIsNeverOverdrawn == EngineSpec => []RamNeverOverdrawn
<1>1. Meters => RamNeverOverdrawn BY DEF Meters, RamNeverOverdrawn
<1> QED BY <1>1, MetersAlways, PTL

-----------------------------------------------------------------------------
(* The pursuit. *)

OneWay ==
  /\ trace' >= trace
  /\ tracedAt # 0 => tracedAt' = tracedAt /\ (ram' >= ram \/ ram' = config.ram_max)
  /\ frozen => frozen' /\ room' = room

LEMMA OneWayCommit ==
  ASSUME Meters, NEW plan \in Planned, Commit(Walked(plan))
  PROVE  OneWay
<1>1. trace' >= trace BY TraceOfARound DEF Commit
<1>2. ASSUME tracedAt # 0 PROVE tracedAt' = tracedAt /\ (ram' >= ram \/ ram' = config.ram_max)
  BY <1>2, CastIsAHack, RamOfARound DEF Commit, TracedNow
<1>3. ASSUME frozen PROVE frozen' /\ room' = room
  BY <1>3, FrozenStandsStill DEF Commit, FrozenNow
<1> QED BY <1>1, <1>2, <1>3 DEF OneWay

LEMMA OneWayStep ==
  ASSUME Meters, [EngineNext]_engineVars
  PROVE  OneWay \/ UNCHANGED engineVars
<1>1. ASSUME UNCHANGED <<trace, tracedAt, ram, frozen, room>> PROVE OneWay
  BY <1>1 DEF OneWay, Meters
<1>2. CASE \E h \in Hunters, type \in OrderTypes, target \in HunterTargets :
             SubmitHunterOrder(h, type, target)
  BY <1>1, <1>2 DEF SubmitHunterOrder, fugVars
<1>3. CASE \E move \in HunterTargets, hack \in HackTypes \cup {"none"} :
             \E target \in TargetsOf(hack) : SubmitFugitiveOrder(move, hack, target)
  BY <1>1, <1>3 DEF SubmitFugitiveOrder
<1>4. CASE CastPing
  <2>1. config.trace["ping"] \in Nat BY ConfigAssumption DEF Meters, Hacks
  <2>2. trace' >= trace BY <1>4, <2>1 DEF CastPing, Least, Meters
  <2>3. tracedAt = 0 /\ ~frozen BY <1>4 DEF CastPing, HackAvailable
  <2> QED BY <2>2, <2>3 DEF OneWay
<1>5. CASE ResolveRound
  <2>1. PICK plan \in Planned : Commit(Walked(plan)) BY <1>5 DEF ResolveRound
  <2> QED BY <2>1, OneWayCommit
<1>6. CASE ResolveRaises
  <2>1. PICK plan \in Planned : Commit(Walked(plan)) BY <1>6 DEF ResolveRaises
  <2> QED BY <2>1, OneWayCommit
<1>7. CASE \E c \in Configs : SetEngineConfig(c)
  BY <1>1, <1>7 DEF SetEngineConfig, fugVars
<1> QED BY <1>2, <1>3, <1>4, <1>5, <1>6, <1>7 DEF EngineNext

\* Trace, seal and freeze are one way, across repeated resolutions and changes
\* of the rules.
THEOREM PursuitOneWay == EngineSpec => PursuitIsOneWay
<1>1. Meters /\ [EngineNext]_engineVars
        => [/\ trace' >= trace
            /\ tracedAt # 0 => tracedAt' = tracedAt /\ (ram' >= ram \/ ram' = config.ram_max)
            /\ frozen => frozen' /\ room' = room]_engineVars
  BY OneWayStep DEF OneWay
<1> QED BY <1>1, MetersAlways, PTL DEF EngineSpec, PursuitIsOneWay

-----------------------------------------------------------------------------
(* Nobody slips by. *)

\* When the resolution names nobody, nobody met the fugitive on his way.
LEMMA NoCaptureNoSwap ==
  ASSUME NEW path, NEW luck, NEW capture \in Captures(path, luck), capture[1] = "none"
  PROVE  Catchers("swap", path, luck) = {}
<1> DEFINE by(how) == {<<h, how>> : h \in Catchers(how, path, luck)}
<1>1. \A how : \A c \in by(how) : c[1] \in Hunters
  <2>1. ASSUME NEW how, NEW h \in Catchers(how, path, luck) PROVE <<h, how>>[1] \in Hunters
    BY <2>1 DEF Catchers
  <2> QED BY <2>1
<1>2. capture[1] \notin Hunters BY CrewAssumption
<1>3. {<<h, "swap">> : h \in Catchers("swap", path, luck)} = {}
  BY <1>1, <1>2 DEF Captures
<1> QED BY <1>3

LEMMA ReportedNobodySlips ==
  ASSUME NEW path, NEW luck, Catchers("swap", path, luck) = {}, NEW h \in Hunters
  PROVE  /\ ~(hroom[h] # Goal(h) /\ hroom[h] = EndOf(path) /\ Goal(h) = path[1] /\ Len(path) = 2)
         /\ \A i \in 2..(Len(path) - 1) : path[i] \notin {hroom[h], Goal(h)}
<1>1. /\ ~ \E i \in 1..(Len(path) - 1) :
             Goal(h) # hroom[h] /\ {hroom[h], Goal(h)} = {path[i], path[i + 1]}
      /\ ~ \E i \in 2..(Len(path) - 1) : path[i] \in {hroom[h], Goal(h)}
  BY DEF Catchers
<1>2. ASSUME hroom[h] # Goal(h), hroom[h] = EndOf(path), Goal(h) = path[1], Len(path) = 2
      PROVE  FALSE
  <2>1. {hroom[h], Goal(h)} = {path[1], path[1 + 1]} BY <1>2 DEF EndOf
  <2>2. 1 \in 1..(Len(path) - 1) BY <1>2
  <2> QED BY <1>1, <1>2, <2>1, <2>2
<1> QED BY <1>1, <1>2

LEMMA NobodySlipsStep ==
  ASSUME NobodySlipsBy, [EngineNext]_engineVars
  PROVE  NobodySlipsBy'
<1>1. ASSUME UNCHANGED report PROVE NobodySlipsBy' BY <1>1 DEF NobodySlipsBy, EndOf
<1>2. CASE ResolveRound
  <2>1. PICK plan \in Planned, luck \in Draws :
          \E capture \in Captures(Walked(plan), luck) :
            report' = ReportOf(Walked(plan), capture[1], capture[2])
    BY <1>2 DEF ResolveRound
  <2> DEFINE path == Walked(plan)
  <2>2. PICK capture \in Captures(path, luck) : report' = ReportOf(path, capture[1], capture[2])
    BY <2>1
  <2>3. /\ report'.captor = capture[1] /\ report'.path = path
        /\ \A h \in Hunters : report'.from[h] = hroom[h] /\ report'.to[h] = Goal(h)
    <3> HIDE DEF path
    <3>1. report'.from = hroom /\ report'.to = [h \in Hunters |-> Goal(h)]
          /\ report'.captor = capture[1] /\ report'.path = path
      BY <2>2 DEF ReportOf
    <3> QED BY <3>1
  <2> HIDE DEF path
  <2>4. ASSUME report'.captor = "none", NEW h \in Hunters
        PROVE  /\ ~(/\ report'.from[h] # report'.to[h] /\ report'.from[h] = EndOf(report'.path)
                    /\ report'.to[h] = report'.path[1] /\ Len(report'.path) = 2)
               /\ \A i \in 2..(Len(report'.path) - 1) : report'.path[i] \notin {report'.from[h], report'.to[h]}
    <3>1. Catchers("swap", path, luck) = {} BY <2>2, <2>3, <2>4, NoCaptureNoSwap
    <3>2. /\ ~(hroom[h] # Goal(h) /\ hroom[h] = EndOf(path) /\ Goal(h) = path[1] /\ Len(path) = 2)
          /\ \A i \in 2..(Len(path) - 1) : path[i] \notin {hroom[h], Goal(h)}
      BY <3>1, ReportedNobodySlips
    <3>3. report'.from[h] = hroom[h] /\ report'.to[h] = Goal(h) /\ report'.path = path BY <2>3
    <3> QED BY <3>2, <3>3 DEF EndOf
  <2> QED BY <2>4 DEF NobodySlipsBy, EndOf
<1>3. CASE \E h \in Hunters, type \in OrderTypes, target \in HunterTargets :
             SubmitHunterOrder(h, type, target)
  BY <1>1, <1>3 DEF SubmitHunterOrder
<1>4. CASE \E move \in HunterTargets, hack \in HackTypes \cup {"none"} :
             \E target \in TargetsOf(hack) : SubmitFugitiveOrder(move, hack, target)
  BY <1>1, <1>4 DEF SubmitFugitiveOrder
<1>5. CASE CastPing BY <1>1, <1>5 DEF CastPing
<1>6. CASE ResolveRaises BY <1>1, <1>6 DEF ResolveRaises
<1>7. CASE \E c \in Configs : SetEngineConfig(c) BY <1>1, <1>7 DEF SetEngineConfig
<1>8. CASE UNCHANGED engineVars BY <1>1, <1>8 DEF engineVars
<1> QED BY <1>2, <1>3, <1>4, <1>5, <1>6, <1>7, <1>8 DEF EngineNext

\* While the chase goes on nobody has exchanged rooms with the fugitive, and
\* nobody stood where he passed through, on any map and at any speed.
THEOREM NobodySlips == EngineSpec => []NobodySlipsBy
<1>1. EngineInit => NobodySlipsBy BY DEF EngineInit, NobodySlipsBy, NoReport
<1> QED BY <1>1, NobodySlipsStep, PTL DEF EngineSpec

-----------------------------------------------------------------------------
(* Capture needs contact. *)

\* A way has a first room, and goes through rooms.
Ways(r) == {w \in Seq(Rooms \cup {r}) : w # <<>>}
Arrived(W, q) == {w \in W : w[Len(w)] = q}
Onward(w, q, avoid) == {t \in Neighbors(w[Len(w)]) : t = q \/ t \notin avoid} \ {w[i] : i \in DOMAIN w}
Wider(W, q, avoid) ==
  IF Arrived(W, q) # {} THEN Arrived(W, q) ELSE UNION {{Append(w, t) : t \in Onward(w, q, avoid)} : w \in W}
Searches(f, k, r, q, avoid) == \A n \in 0..k : f[n] = IF n = 0 THEN {<<r>>} ELSE Wider(f[n - 1], q, avoid)

\* The breadth-first search is a function, and all it holds are ways.
LEMMA SearchIsThere ==
  ASSUME NEW r, NEW q, NEW avoid, NEW k \in Nat
  PROVE  \E f : Shortest(r, q, avoid) = Arrived(f[Cardinality(Rooms)], q) /\ Searches(f, k, r, q, avoid)
<1> DEFINE Whole(g) == [n \in Nat |-> IF n = 0 THEN {<<r>>} ELSE Wider(g[n - 1], q, avoid)]
           search == CHOOSE g : g = Whole(g)
           S(f, m) == Searches(f, m, r, q, avoid)
<1>1. Shortest(r, q, avoid) = Arrived(search[Cardinality(Rooms)], q) BY DEF Shortest, Arrived, Wider, Onward
<1>2. \A m \in Nat : \E g : S(g, m)
  <2> DEFINE H == {m \in Nat : \E g : S(g, m)}
  <2>1. 0 \in H
    <3>1. PICK g : g = [n \in 0..0 |-> {<<r>>}] OBVIOUS
    <3>2. S(g, 0) BY <3>1 DEF Searches
    <3> QED BY <3>2
  <2>2. ASSUME NEW m \in Nat, m \in H PROVE m + 1 \in H
    <3>1. PICK g : S(g, m) BY <2>2
    <3>2. PICK h : h = [n \in 0..(m + 1) |-> IF n = m + 1 THEN Wider(g[m], q, avoid) ELSE g[n]] OBVIOUS
    <3>3. \A n \in 0..m : h[n] = g[n] BY <3>2
    <3>4. ASSUME NEW n \in 0..(m + 1) PROVE h[n] = IF n = 0 THEN {<<r>>} ELSE Wider(h[n - 1], q, avoid)
      <4>1. CASE n = m + 1
        <5>1. n # 0 /\ n - 1 = m /\ h[n - 1] = g[m] BY <3>3, <4>1
        <5> QED BY <3>2, <4>1, <5>1
      <4>2. CASE n # m + 1
        <5>1. n \in 0..m /\ (n # 0 => n - 1 \in 0..m) BY <4>2
        <5>2. h[n] = g[n] /\ (n # 0 => h[n - 1] = g[n - 1]) BY <3>3, <5>1
        <5> QED BY <3>1, <5>1, <5>2 DEF Searches
      <4> QED BY <4>1, <4>2
    <3>5. S(h, m + 1) BY <3>4 DEF Searches
    <3> QED BY <3>5
  <2> HIDE DEF H
  <2>3. Nat \subseteq H BY <2>1, <2>2, NatInduct
  <2> QED BY <2>3 DEF H
<1>3. ASSUME NEW g, NEW h, NEW m \in Nat, NEW l \in Nat, S(g, m), S(h, l), NEW n \in Nat, n <= m, n <= l PROVE g[n] = h[n]
  <2> DEFINE H == {i \in Nat : i <= m /\ i <= l => g[i] = h[i]}
  <2>1. 0 \in H
    <3>1. 0 \in 0..m /\ 0 \in 0..l OBVIOUS
    <3> QED BY <1>3, <3>1 DEF Searches
  <2>2. ASSUME NEW i \in Nat, i \in H PROVE i + 1 \in H
    <3> SUFFICES ASSUME i + 1 <= m, i + 1 <= l PROVE g[i + 1] = h[i + 1] OBVIOUS
    <3>1. i + 1 \in 0..m /\ i + 1 \in 0..l /\ i + 1 # 0 /\ (i + 1) - 1 = i /\ i <= m /\ i <= l OBVIOUS
    <3>2. g[i + 1] = Wider(g[i], q, avoid) /\ h[i + 1] = Wider(h[i], q, avoid) BY <1>3, <3>1 DEF Searches
    <3> QED BY <2>2, <3>1, <3>2
  <2> HIDE DEF H
  <2>3. Nat \subseteq H BY <2>1, <2>2, NatInduct
  <2> QED BY <1>3, <2>3 DEF H
<1> HIDE DEF S
<1>4. PICK f : f = [n \in Nat |-> (CHOOSE g : S(g, n))[n]] OBVIOUS
<1>5. ASSUME NEW n \in Nat PROVE f[n] = IF n = 0 THEN {<<r>>} ELSE Wider(f[n - 1], q, avoid)
  <2>1. PICK g : g = CHOOSE h : S(h, n) OBVIOUS
  <2>2. S(g, n) BY <1>2, <2>1
  <2>3. f[n] = g[n] BY <1>4, <2>1
  <2>4. n \in 0..n /\ g[n] = IF n = 0 THEN {<<r>>} ELSE Wider(g[n - 1], q, avoid) BY <2>2 DEF S, Searches
  <2>5. n # 0 => f[n - 1] = g[n - 1]
    <3> SUFFICES ASSUME n # 0 PROVE f[n - 1] = g[n - 1] OBVIOUS
    <3>1. n - 1 \in Nat /\ n - 1 <= n /\ n - 1 <= n - 1 OBVIOUS
    <3>2. PICK h : h = CHOOSE e : S(e, n - 1) OBVIOUS
    <3>3. S(h, n - 1) BY <1>2, <3>1, <3>2
    <3>4. f[n - 1] = h[n - 1] BY <1>4, <3>1, <3>2
    <3>5. g[n - 1] = h[n - 1] BY <1>3, <2>2, <3>1, <3>3
    <3> QED BY <3>4, <3>5
  <2> QED BY <2>3, <2>4, <2>5
<1>6. f = Whole(f) BY <1>4, <1>5
<1>7. search = Whole(search) BY <1>6
<1> HIDE DEF search
<1>8. \A n \in Nat : search[n] = IF n = 0 THEN {<<r>>} ELSE Wider(search[n - 1], q, avoid) BY ONLY <1>7
<1>9. Searches(search, k, r, q, avoid) BY <1>8 DEF Searches
<1> QED BY <1>1, <1>9

LEMMA ShortestAreWays == ASSUME NEW r, NEW q, NEW avoid PROVE Shortest(r, q, avoid) \subseteq Ways(r)
<1>0. Cardinality(Rooms) \in Nat BY MapAssumption, FS_CardinalityType
<1>1. PICK f : Shortest(r, q, avoid) = Arrived(f[Cardinality(Rooms)], q) /\ Searches(f, Cardinality(Rooms), r, q, avoid)
  BY <1>0, SearchIsThere
<1> DEFINE H == {n \in Nat : n <= Cardinality(Rooms) => f[n] \subseteq Ways(r)}
<1>2. 0 \in H
  <2>1. 0 \in 0..Cardinality(Rooms) BY <1>0
  <2>2. f[0] = {<<r>>} BY <1>1, <2>1 DEF Searches
  <2>3. <<r>> \in Ways(r)
    <3>1. r \in Rooms \cup {r} OBVIOUS
    <3> QED BY <3>1 DEF Ways
  <2> QED BY <2>2, <2>3
<1>3. ASSUME NEW n \in Nat, n \in H PROVE n + 1 \in H
  <2> SUFFICES ASSUME n + 1 <= Cardinality(Rooms), NEW w \in f[n + 1] PROVE w \in Ways(r) OBVIOUS
  <2>1. n + 1 \in 0..Cardinality(Rooms) /\ n + 1 # 0 /\ (n + 1) - 1 = n /\ n <= Cardinality(Rooms) BY <1>0
  <2>2. f[n + 1] = Wider(f[n], q, avoid) BY <1>1, <2>1 DEF Searches
  <2>3. f[n] \subseteq Ways(r) BY <1>3, <2>1
  <2>4. CASE w \in f[n] BY <2>3, <2>4
  <2>5. CASE w \notin f[n]
    <3>0. PICK v \in f[n] : \E t \in Onward(v, q, avoid) : w = Append(v, t)
      <4>1. w \in UNION {{Append(v, t) : t \in Onward(v, q, avoid)} : v \in f[n]} BY <2>2, <2>5 DEF Wider, Arrived
      <4> QED BY <4>1
    <3>1. PICK t \in Onward(v, q, avoid) : w = Append(v, t) BY <3>0
    <3>2. v \in Seq(Rooms \cup {r}) BY <2>3 DEF Ways
    <3>3. t \in Rooms \cup {r} BY DEF Onward, Neighbors
    <3>4. w \in Seq(Rooms \cup {r}) /\ Len(w) = Len(v) + 1 /\ Len(v) \in Nat BY <3>1, <3>2, <3>3
    <3>5. w # <<>> BY <3>4
    <3> QED BY <3>4, <3>5 DEF Ways
  <2> QED BY <2>4, <2>5
<1> HIDE DEF H
<1>4. Nat \subseteq H BY <1>2, <1>3, NatInduct
<1> QED BY <1>0, <1>1, <1>4 DEF H, Arrived

\* A walk follows its plan up to the first locked door, which may be the one he stands at.
LEMMA WalkStops ==
  ASSUME NEW plan \in Planned
  PROVE  plan \in Ways(room) /\ \E n \in 1..Len(plan) : Walked(plan) = SubSeq(plan, 1, n) /\ EndOf(Walked(plan)) = plan[n]
<1>1. plan \in Ways(room)
  <2>1. <<room>> \in Ways(room)
    <3>1. room \in Rooms \cup {room} OBVIOUS
    <3> QED BY <3>1 DEF Ways
  <2> QED BY <2>1, ShortestAreWays DEF Planned, ShortestPaths
<1>2. plan \in Seq(Rooms \cup {room}) /\ Len(plan) \in Nat /\ Len(plan) # 0 BY <1>1 DEF Ways
<1> DEFINE open(n) == \A i \in 1..(n - 1) : {plan[i], plan[i + 1]} \notin LocksNow
<1>3. \E n \in 1..Len(plan) : open(n) /\ \A k \in (n + 1)..Len(plan) : ~open(k)
  <2> DEFINE Left == {m \in Nat : m <= Len(plan) - 1 /\ open(Len(plan) - m)}
  <2>1. open(1) OBVIOUS
  <2>2. Len(plan) - 1 \in Left
    <3>1. Len(plan) - 1 \in Nat /\ Len(plan) - (Len(plan) - 1) = 1 BY <1>2
    <3>2. open(Len(plan) - (Len(plan) - 1)) BY <2>1, <3>1
    <3> HIDE DEF open
    <3> QED BY <3>1, <3>2
  <2> HIDE DEF open
  <2>3. PICK m \in Left : \A k \in Left : m <= k BY <2>2, LeastNumber
  <2>4. m \in Nat /\ m <= Len(plan) - 1 /\ open(Len(plan) - m) OBVIOUS
  <2>5. PICK n : n = Len(plan) - m OBVIOUS
  <2>6. n \in 1..Len(plan) /\ open(n) BY <1>2, <2>4, <2>5
  <2>7. ASSUME NEW k \in (n + 1)..Len(plan), open(k) PROVE FALSE
    <3>1. Len(plan) - k \in Nat /\ Len(plan) - k <= Len(plan) - 1 /\ Len(plan) - (Len(plan) - k) = k BY <1>2, <2>6
    <3>2. Len(plan) - k \in Left BY <2>7, <3>1
    <3>3. m <= Len(plan) - k BY <2>3, <3>2
    <3> QED BY <1>2, <2>4, <2>5, <3>3
  <2> QED BY <2>6, <2>7
<1> DEFINE stop == CHOOSE n \in 1..Len(plan) : open(n) /\ \A k \in (n + 1)..Len(plan) : ~open(k)
<1>4. stop \in 1..Len(plan) BY <1>3
<1>5. Walked(plan) = SubSeq(plan, 1, stop) BY DEF Walked
<1> HIDE DEF stop
<1>6. Len(SubSeq(plan, 1, stop)) = stop /\ SubSeq(plan, 1, stop)[stop] = plan[stop] BY <1>2, <1>4
<1> QED BY <1>1, <1>4, <1>5, <1>6 DEF EndOf

\* He walks at least to where he stands.
LEMMA WalkedSomewhere ==
  ASSUME NEW plan \in Planned
  PROVE  Len(Walked(plan)) \in Nat \ {0} /\ DOMAIN Walked(plan) = 1..Len(Walked(plan))
<1>1. plan \in Ways(room) BY WalkStops
<1>2. plan \in Seq(Rooms \cup {room}) /\ Len(plan) \in Nat BY <1>1 DEF Ways
<1>3. PICK n \in 1..Len(plan) : Walked(plan) = SubSeq(plan, 1, n) BY WalkStops
<1>4. Len(SubSeq(plan, 1, n)) = n /\ DOMAIN SubSeq(plan, 1, n) = 1..n BY <1>2, <1>3
<1> QED BY <1>3, <1>4

\* Whoever is named as captor met the fugitive on his way, and one that hides in place only by searching.
LEMMA CapturedInContact ==
  ASSUME NEW path, NEW luck, Len(path) \in Nat \ {0}, DOMAIN path = 1..Len(path),
         NEW capture \in Captures(path, luck), capture[1] # "none"
  PROVE  /\ capture[1] \in Hunters
         /\ \E i \in DOMAIN path : path[i] \in {hroom[capture[1]], Goal(capture[1])}
         /\ IsHidden /\ Len(path) = 1 => capture[2] = "search"
<1>1. PICK h, how : capture = <<h, how>> /\ how \in {"search", "swap", "colocate"} /\ h \in Catchers(how, path, luck)
  <2> DEFINE by(way) == {<<h, way>> : h \in Catchers(way, path, luck)}
  <2>1. capture \in by("search") \cup by("swap") \cup by("colocate") BY DEF Captures
  <2> QED BY <2>1
<1>2. h \in Hunters BY <1>1 DEF Catchers
<1>3. capture[1] = h /\ capture[2] = how BY <1>1
<1>4. Len(path) \in DOMAIN path /\ EndOf(path) = path[Len(path)] BY DEF EndOf
<1>5. CASE how = "search"
  <2>1. hroom[h] = EndOf(path) BY <1>1, <1>5 DEF Catchers
  <2> QED BY <1>2, <1>3, <1>4, <1>5, <2>1
<1>6. CASE how = "swap"
  <2>1. \/ \E i \in 1..(Len(path) - 1) : Goal(h) # hroom[h] /\ {hroom[h], Goal(h)} = {path[i], path[i + 1]}
        \/ \E i \in 2..(Len(path) - 1) : path[i] \in {hroom[h], Goal(h)}
    BY <1>1, <1>6 DEF Catchers
  <2>2. PICK i \in 1..(Len(path) - 1) : path[i] \in {hroom[h], Goal(h)}
    <3>1. CASE \E i \in 1..(Len(path) - 1) : {hroom[h], Goal(h)} = {path[i], path[i + 1]} BY <3>1
    <3>2. CASE \E i \in 2..(Len(path) - 1) : path[i] \in {hroom[h], Goal(h)} BY <3>2
    <3> QED BY <2>1, <3>1, <3>2
  <2>3. i \in DOMAIN path /\ Len(path) # 1 BY <2>2
  <2> QED BY <1>2, <1>3, <2>2, <2>3
<1>7. CASE how = "colocate"
  <2>1. Goal(h) = EndOf(path) /\ ~IsHidden BY <1>1, <1>7 DEF Catchers
  <2> QED BY <1>2, <1>3, <1>4, <2>1
<1> QED BY <1>1, <1>5, <1>6, <1>7

LEMMA ContactStep == ASSUME CaptureIsContact, [EngineNext]_engineVars PROVE CaptureIsContact'
<1>1. ASSUME UNCHANGED <<status, report, hidden, round>> PROVE CaptureIsContact' BY <1>1 DEF CaptureIsContact
<1>2. CASE ResolveRound
  <2>1. PICK plan \in Planned, luck \in Draws :
          \E capture \in Captures(Walked(plan), luck) :
            /\ Commit(Walked(plan)) /\ report' = ReportOf(Walked(plan), capture[1], capture[2])
            /\ IF capture[1] # "none" THEN UNCHANGED round ELSE status' = "ROUND_OPEN"
    BY <1>2 DEF ResolveRound
  <2>2. PICK path : path = Walked(plan) OBVIOUS
  <2>3. PICK capture \in Captures(path, luck) :
          /\ Commit(path) /\ report' = ReportOf(path, capture[1], capture[2])
          /\ IF capture[1] # "none" THEN UNCHANGED round ELSE status' = "ROUND_OPEN"
    BY <2>1, <2>2
  <2>4. Len(path) \in Nat \ {0} /\ DOMAIN path = 1..Len(path) BY <2>2, WalkedSomewhere
  <2> SUFFICES ASSUME status' = "CAPTURED"
               PROVE  /\ \E i \in DOMAIN report'.path :
                           report'.path[i] \in {report'.from[report'.captor], report'.to[report'.captor]}
                      /\ hidden' >= round' /\ Len(report'.path) = 1 => report'.how = "search"
    BY DEF CaptureIsContact
  <2>5. capture[1] # "none" /\ round' = round BY <2>3
  <2>6. PICK h, how : h = capture[1] /\ how = capture[2] OBVIOUS
  <2>7. /\ h \in Hunters /\ (\E i \in DOMAIN path : path[i] \in {hroom[h], Goal(h)})
        /\ IsHidden /\ Len(path) = 1 => how = "search"
    BY <2>4, <2>5, <2>6, CapturedInContact
  <2>8. /\ report'.from = hroom /\ report'.to = [g \in Hunters |-> Goal(g)] /\ report'.path = path
        /\ report'.captor = h /\ report'.how = how
    BY <2>3, <2>6 DEF ReportOf
  <2>9. report'.from[h] = hroom[h] /\ report'.to[h] = Goal(h) BY <2>7, <2>8
  <2>10. hidden' >= round' => IsHidden BY <2>3, <2>5 DEF Commit, IsHidden
  <2> QED BY <2>7, <2>8, <2>9, <2>10
<1>3. CASE \E h \in Hunters, type \in OrderTypes, target \in HunterTargets :
             SubmitHunterOrder(h, type, target)
  BY <1>1, <1>3 DEF SubmitHunterOrder, fugVars
<1>4. CASE \E move \in HunterTargets, hack \in HackTypes \cup {"none"} :
             \E target \in TargetsOf(hack) : SubmitFugitiveOrder(move, hack, target)
  BY <1>1, <1>4 DEF SubmitFugitiveOrder
<1>5. CASE CastPing BY <1>1, <1>5 DEF CastPing
<1>6. CASE ResolveRaises BY <1>6 DEF ResolveRaises, CaptureIsContact
<1>7. CASE \E c \in Configs : SetEngineConfig(c) BY <1>1, <1>7 DEF SetEngineConfig, fugVars
<1>8. CASE UNCHANGED engineVars BY <1>1, <1>8 DEF engineVars, fugVars
<1> QED BY <1>2, <1>3, <1>4, <1>5, <1>6, <1>7, <1>8 DEF EngineNext

\* Nobody is taken without contact: the captor began or ended the round in a room of the fugitive's way, and one who
\* hides where he is can only be found by a search, on any map, under any configuration and with any luck.
THEOREM CapturesNeedContact == EngineSpec => []CaptureIsContact
<1>1. EngineInit => CaptureIsContact BY DEF EngineInit, CaptureIsContact
<1> QED BY <1>1, ContactStep, PTL DEF EngineSpec

-----------------------------------------------------------------------------
(* Where a walk ends. *)

\* A search that has arrived goes no further.
LEMMA OnceArrived ==
  ASSUME NEW f, NEW k \in Nat, NEW r, NEW q, NEW avoid, Searches(f, k, r, q, avoid),
         NEW m \in Nat, m <= k, NEW W, W = Arrived(f[m], q), W # {}
  PROVE  Arrived(f[k], q) = W
<1> DEFINE H == {n \in Nat : m + n <= k => Arrived(f[m + n], q) = W}
<1>1. 0 \in H OBVIOUS
<1>2. ASSUME NEW n \in Nat, n \in H PROVE n + 1 \in H
  <2> SUFFICES ASSUME m + (n + 1) <= k PROVE Arrived(f[m + (n + 1)], q) = W OBVIOUS
  <2>1. m + (n + 1) \in 0..k /\ m + (n + 1) # 0 /\ (m + (n + 1)) - 1 = m + n /\ m + n <= k OBVIOUS
  <2>2. Arrived(f[m + n], q) = W BY <1>2, <2>1
  <2>3. f[m + (n + 1)] = Wider(f[m + n], q, avoid) BY <2>1 DEF Searches
  <2>4. f[m + (n + 1)] = W BY <2>2, <2>3 DEF Wider
  <2> QED BY <2>4 DEF Arrived
<1> HIDE DEF H
<1>3. Nat \subseteq H BY <1>1, <1>2, NatInduct
<1>4. k - m \in H /\ m + (k - m) = k BY <1>3
<1> QED BY <1>4 DEF H

\* To the next room there is one shortest way.
LEMMA NextDoorIsShort ==
  ASSUME NEW r \in Rooms, NEW q \in Near(r), NEW avoid
  PROVE  Shortest(r, q, avoid) = {IF q = r THEN <<r>> ELSE <<r, q>>}
<1> DEFINE N == Cardinality(Rooms)
<1>0. N \in Nat \ {0} BY RoomsAreThere
<1>1. PICK f : Shortest(r, q, avoid) = Arrived(f[N], q) /\ Searches(f, N, r, q, avoid) BY <1>0, SearchIsThere
<1>2. f[0] = {<<r>>}
  <2>1. 0 \in 0..N BY <1>0
  <2> QED BY <1>1, <2>1 DEF Searches
<1>3. CASE q = r
  <2>1. PICK p : p = <<r>> OBVIOUS
  <2>2. p[Len(p)] = q BY <1>3, <2>1
  <2>3. Arrived(f[0], q) = {p} BY <1>2, <2>1, <2>2 DEF Arrived
  <2>4. PICK W : W = {p} OBVIOUS
  <2>5. N \in Nat /\ 0 \in Nat /\ 0 <= N /\ W # {} /\ W = Arrived(f[0], q) BY <1>0, <2>3, <2>4
  <2> HIDE DEF N
  <2>6. Arrived(f[N], q) = W BY <1>1, <2>5, OnceArrived
  <2> QED BY <1>1, <1>3, <2>1, <2>4, <2>6
<1>4. CASE q # r
  <2>0. q \in Neighbors(r) BY <1>4 DEF Near
  <2>1. PICK p : p = <<r, q>> OBVIOUS
  <2>2. p[Len(p)] = q BY <2>1
  <2>3. PICK w : w = <<r>> OBVIOUS
  <2>4. w[Len(w)] = r /\ {w[i] : i \in DOMAIN w} = {r} BY <2>3
  <2>5. f[1] = Wider({w}, q, avoid)
    <3>1. 1 \in 0..N /\ 1 # 0 /\ 1 - 1 = 0 BY <1>0
    <3>2. f[1] = Wider(f[1 - 1], q, avoid) BY <1>1, <3>1 DEF Searches
    <3> QED BY <1>2, <2>3, <3>1, <3>2
  <2>6. Arrived({w}, q) = {} BY <1>4, <2>4 DEF Arrived
  <2>7. f[1] = {Append(w, t) : t \in Onward(w, q, avoid)} BY <2>5, <2>6 DEF Wider
  <2>8. ASSUME NEW t PROVE Append(w, t) = <<r, t>>
    <3>1. w \in Seq({r, t}) BY <2>3
    <3>2. Append(w, t) \in Seq({r, t}) /\ <<r, t>> \in Seq({r, t}) BY <3>1
    <3>3. Len(Append(w, t)) = 2 /\ Append(w, t)[1] = r /\ Append(w, t)[2] = t BY <2>3, <3>1
    <3>4. PICK v : v = Append(w, t) OBVIOUS
    <3>5. v \in Seq({r, t}) /\ Len(v) = 2 /\ v[1] = r /\ v[2] = t BY <3>2, <3>3, <3>4
    <3>6. v = [i \in 1..2 |-> v[i]] BY <3>5
    <3>7. <<r, t>> = [i \in 1..2 |-> <<r, t>>[i]] OBVIOUS
    <3>8. \A i \in 1..2 : v[i] = <<r, t>>[i] BY <3>5
    <3> QED BY <3>4, <3>6, <3>7, <3>8
  <2>9. q \in Onward(w, q, avoid) BY <1>4, <2>0, <2>4 DEF Onward
  <2>10. \A t : <<r, t>>[Len(<<r, t>>)] = t OBVIOUS
  <2>11. Arrived(f[1], q) = {p}
    <3>1. p \in Arrived(f[1], q) BY <2>1, <2>2, <2>7, <2>8, <2>9 DEF Arrived
    <3>2. ASSUME NEW v \in Arrived(f[1], q) PROVE v = p
      <4>1. PICK t \in Onward(w, q, avoid) : v = <<r, t>> BY <2>7, <2>8 DEF Arrived
      <4>2. t = q BY <2>10, <4>1 DEF Arrived
      <4> QED BY <2>1, <4>1, <4>2
    <3> QED BY <3>1, <3>2
  <2>12. PICK W : W = {p} OBVIOUS
  <2>13. N \in Nat /\ 1 \in Nat /\ 1 <= N /\ W # {} /\ W = Arrived(f[1], q) BY <1>0, <2>11, <2>12
  <2> HIDE DEF N
  <2>14. Arrived(f[N], q) = W BY <1>1, <2>13, OnceArrived
  <2> QED BY <1>1, <1>4, <2>1, <2>12, <2>14
<1> QED BY <1>3, <1>4

\* At one door a round he ends next to where he stood, and where he stood when he goes nowhere.
LEMMA ShortWalk ==
  ASSUME room \in Rooms, NEW plan \in Planned,
         forder.move # "none" => forder.move \in Rooms /\ Distance[room][forder.move] <= 1
  PROVE  /\ EndOf(Walked(plan)) \in Near(room)
         /\ MoveNow = "none" => EndOf(Walked(plan)) = room
<1>1. PICK n \in 1..Len(plan) : EndOf(Walked(plan)) = plan[n] BY WalkStops
<1>2. CASE MoveNow = "none" \/ frozen
  <2>1. plan = <<room>> BY <1>2 DEF Planned
  <2>2. n = 1 /\ plan[1] = room BY <2>1
  <2> QED BY <1>1, <2>2 DEF Near
<1>3. CASE ~(MoveNow = "none" \/ frozen)
  <2>1. MoveNow = forder.move BY <1>3 DEF MoveNow
  <2>2. MoveNow \in Near(room) BY <1>3, <2>1, OneDoorAway
  <2>3. PICK p : p = IF MoveNow = room THEN <<room>> ELSE <<room, MoveNow>> OBVIOUS
  <2>4. \A avoid : Shortest(room, MoveNow, avoid) = {p} BY <2>2, <2>3, NextDoorIsShort
  <2>5. plan = p BY <1>3, <2>4 DEF Planned, ShortestPaths
  <2>6. \A i \in 1..Len(p) : p[i] \in {room, MoveNow} BY <2>3
  <2> QED BY <1>1, <1>3, <2>2, <2>5, <2>6 DEF Near
<1> QED BY <1>2, <1>3

LEMMA WalkInside == ASSUME room \in Rooms, NEW plan \in Planned PROVE EndOf(Walked(plan)) \in Rooms
<1>1. PICK n \in 1..Len(plan) : EndOf(Walked(plan)) = plan[n] BY WalkStops
<1>2. plan \in Seq(Rooms \cup {room}) BY WalkStops DEF Ways
<1> QED BY <1>1, <1>2

-----------------------------------------------------------------------------
(* What the brain concludes from a report. *)

LEMMA ReportSays ==
  ASSUME NEW path, NEW how, NEW rep, rep = ReportOf(path, "none", how)
  PROVE  /\ rep.to = [h \in Hunters |-> Goal(h)] /\ rep.tier = Tier /\ rep.signal = Signal(path)
         /\ rep.signature = Signature /\ rep.markers = Markers(path) /\ rep.blackout = BlackoutNow
         /\ rep.seen = Seen(path, "none") /\ rep.empty = SearchedEmpty("none") /\ rep.scan = Scanned(path)
BY DEF ReportOf

LEMMA GrowReaches ==
  ASSUME NEW S, NEW r \in Rooms, r \in S, NEW q \in Near(r), NEW n \in Nat \ {0}
  PROVE  q \in Grow(S, n)
<1>1. q \in Rooms /\ Distance[r][q] <= 1 BY NearIsNear
<1>2. Distance[r][q] \in Nat BY <1>1, RoomsAreThere, DistanceIsLeast
<1>3. Distance[r][q] <= n BY <1>1, <1>2
<1> QED BY <1>1, <1>3 DEF Grow

LEMMA SignatureFits ==
  ASSUME Meters, room \in Rooms, room \in candidates, config.fugitive_speed = 1, NEW last \in Near(room),
         MoveNow = "none" => last = room, NEW rep, rep.signature = Signature
  PROVE  last \in AfterSignature(rep)
<1> DEFINE cast == {r \in candidates : Device[r] = rep.signature}
<1>1. CASE rep.signature \in {"none", "ping"}
  <2>1. last \in Grow(candidates, 1) BY GrowReaches
  <2> QED BY <1>1, <2>1 DEF AfterSignature
<1>2. CASE rep.signature \notin {"none", "ping"}
  <2>1. Cast # "none" /\ rep.signature = HackDevice[Cast] /\ HackDevice[Cast] # "none" BY <1>2 DEF Signature
  <2>2. HackAvailable(Cast) BY <2>1 DEF Cast
  <2>3. Device[room] = rep.signature BY <2>1, <2>2 DEF HackAvailable
  <2>4. room \in cast BY <2>3
  <2>5. last \in Grow(cast, 1) BY <2>4, GrowReaches
  <2>6. CASE rep.signature = "curtain"
    <3>1. Cast = "hide" => last = room BY DEF MoveNow
    <3>2. Cast \in Hacks BY <2>1, CastIsAHack
    <3>3. Cast = "hide" BY <2>1, <2>6, <3>2 DEF Hacks, HackDevice
    <3> QED BY <1>2, <2>4, <2>6, <3>1, <3>3 DEF AfterSignature
  <2>7. CASE rep.signature # "curtain" BY <1>2, <2>5, <2>7 DEF AfterSignature
  <2> QED BY <2>6, <2>7
<1> QED BY <1>1, <1>2

LEMMA SightFits ==
  ASSUME NEW path, EndOf(path) \in Rooms, NEW rep, rep.seen = Seen(path, "none"), NEW S, EndOf(path) \in S
  PROVE  EndOf(path) \in AfterSight(rep, S)
<1>1. rep.seen = {} \/ rep.seen = {EndOf(path)} BY DEF Seen
<1>2. EndOf(path) \in Near(EndOf(path)) BY DEF Near
<1>3. EndOf(path) \in Grow({EndOf(path)}, 1) BY <1>2, GrowReaches
<1> QED BY <1>1, <1>3 DEF AfterSight

LEMMA ScanFits ==
  ASSUME room \in Rooms, room \in candidates, config.fugitive_speed = 1, NEW path, EndOf(path) \in Near(room),
         NEW rep, rep.scan = Scanned(path), NEW S, EndOf(path) \in S
  PROVE  EndOf(path) \in AfterScan(rep, S)
<1> DEFINE cast == {r \in candidates : Device[r] = rep.scan}
<1>1. CASE rep.scan = "none" BY <1>1 DEF AfterScan
<1>2. CASE rep.scan # "none" /\ config.scan_lag >= 1
  <2>1. rep.scan = Device[room] BY <1>2 DEF Scanned
  <2>2. EndOf(path) \in Grow(cast, 1) BY <2>1, GrowReaches
  <2> QED BY <1>2, <2>2 DEF AfterScan
<1>3. CASE rep.scan # "none" /\ ~(config.scan_lag >= 1)
  <2>1. rep.scan = Device[EndOf(path)] BY <1>3 DEF Scanned
  <2> QED BY <1>3, <2>1 DEF AfterScan
<1> QED BY <1>1, <1>2, <1>3

LEMMA SignalFits ==
  ASSUME NEW path, EndOf(path) \in Rooms, \A h \in Hunters : Goal(h) \in Rooms,
         NEW rep, rep.to = [h \in Hunters |-> Goal(h)], rep.signal = Signal(path), NEW S, EndOf(path) \in S
  PROVE  EndOf(path) \in AfterSignal(rep, S)
<1> DEFINE N == Cardinality(Rooms)
           near == CHOOSE n \in 0..N :
             (\E h \in Hunters : Distance[EndOf(path)][rep.to[h]] = n) /\ (\A h \in Hunters : Distance[EndOf(path)][rep.to[h]] >= n)
<1>1. CASE rep.signal \in {"noise", "none"} BY <1>1 DEF AfterSignal
<1>2. CASE rep.signal \notin {"noise", "none"}
  <2>1. rep.signal = SignalBand(Nearest(path)) BY <1>2 DEF Signal
  <2>2. \A h \in Hunters : Distance[EndOf(path)][rep.to[h]] = Distance[Goal(h)][EndOf(path)] BY DistanceIsMutual
  <2>3. near = Nearest(path) BY <2>2 DEF Nearest
  <2>4. SignalBand(near) = rep.signal BY <2>1, <2>3
  <2> QED BY <1>2, <2>4 DEF AfterSignal
<1> QED BY <1>1, <1>2

\* In the first round the trace is what that round left: with a decoy at most what the assumption of the property says.
LEMMA TraceOfTheFirst ==
  ASSUME Meters, trace = 0, Cast = "distract"
  PROVE  TraceNow <= config.trace["distract"] + (config.scan_budget * config.scan_trace + config.trace_passive)
<1>1. config.trace["distract"] \in Nat /\ config.scan_budget \in Nat /\ config.scan_trace \in Nat
      /\ config.trace_passive \in Nat
  BY ConfigAssumption DEF Meters, Hacks
<1>2. Scans \in Nat /\ Scans <= config.scan_budget
  <2>1. IsFiniteSet({h \in Hunters : OrderOf(h).type = "scan"}) BY FS_Subset, CrewAssumption
  <2>2. Cardinality({h \in Hunters : OrderOf(h).type = "scan"}) \in Nat BY <2>1, FS_CardinalityType
  <2> QED BY <1>1, <2>2 DEF Scans, Least
<1>3. Scans * config.scan_trace <= config.scan_budget * config.scan_trace
      /\ Scans * config.scan_trace \in Nat /\ config.scan_budget * config.scan_trace \in Nat
  <2>1. PICK a \in Nat, b \in Nat, c \in Nat : a = Scans /\ b = config.scan_budget /\ c = config.scan_trace
    BY <1>1, <1>2
  <2>2. a <= b => a * c <= b * c /\ a * c \in Nat /\ b * c \in Nat OBVIOUS
  <2> QED BY <1>2, <2>1, <2>2
<1>4. PICK x \in Nat, y \in Nat : x = Scans * config.scan_trace /\ y = config.scan_budget * config.scan_trace BY <1>3
<1>5. TraceNow = Least(100, trace + config.trace["distract"] + x + config.trace_passive) BY <1>4 DEF TraceNow
<1> QED BY <1>1, <1>3, <1>4, <1>5 DEF Least

LEMMA MarkersFit ==
  ASSUME Meters, room \in Rooms, NEW path, EndOf(path) \in Near(room),
         history \in Seq(Rooms), history # <<>>, history[Len(history)] = room,
         Len(history) > 1 => room \in Near(history[Len(history) - 1]),
         Len(history) = 1 => trace = 0, decoys = {}, FirstMarkerIsHis,
         NEW rep, rep.tier = Tier, rep.markers = Markers(path), ~BlackoutNow,
         NEW last \in (IF rep.markers = {} THEN {"none"} ELSE rep.markers), NEW S, EndOf(path) \in S
  PROVE  EndOf(path) \in AfterMarkers(rep, last, S)
<1> DEFINE places == Append(history, EndOf(path))
           at == Len(places) - Lag
           here == EndOf(path)
<1>0. /\ Len(history) \in Nat \ {0} /\ here \in Rooms /\ Len(places) = Len(history) + 1
      /\ places[Len(places)] = here /\ \A i \in 1..Len(history) : places[i] = history[i]
  BY NearIsNear
<1>1. TraceNow \in Int /\ config.trace_t1 \in Int /\ config.trace_t2 \in Int /\ config.trace_t3 \in Int
  BY TraceOfARound, ConfigAssumption DEF Meters
<1>2. Tier \in 0..3 /\ (Tier = 1 => TraceNow >= config.trace_t1) BY <1>1 DEF Tier
<1>3. rep.markers = DecoysNow \cup (IF (Tier > 0 \/ FrozenNow) /\ at >= 1 THEN {places[at]} ELSE {}) BY DEF Markers
<1>4. Lag = IF FrozenNow THEN 0 ELSE 3 - Tier BY DEF Lag
<1>5. here \in Near(here) BY DEF Near
<1> HIDE DEF places, here
<1>6. CASE rep.markers = {} \/ rep.tier = 0 BY <1>6 DEF AfterMarkers, here
<1>7. CASE rep.markers # {} /\ Tier = 3
  <2>1. at = Len(places) BY <1>0, <1>4, <1>7
  <2>2. here \in rep.markers BY <1>0, <1>3, <1>7, <2>1
  <2> QED BY <1>7, <2>2 DEF AfterMarkers, here
<1>8. CASE rep.markers # {} /\ Tier = 2
  <2>1. at = Len(places) \/ at = Len(history) BY <1>0, <1>4, <1>8
  <2>2. places[at] \in rep.markers /\ places[at] \in Rooms /\ here \in Near(places[at])
    BY <1>0, <1>3, <1>5, <1>8, <2>1 DEF here
  <2>3. here \in Grow(rep.markers, 1) BY <2>2, GrowReaches
  <2> QED BY <1>8, <2>3 DEF AfterMarkers, Narrow, here
<1>9. CASE rep.markers # {} /\ Tier = 1
  <2> DEFINE near == Grow(rep.markers \ {last}, 3) \cup Grow({last}, 2)
  <2>1. ASSUME NEW m \in Rooms, m \in rep.markers, Distance[m][here] <= 2 PROVE here \in near
    <3>1. Distance[m][here] \in Nat BY <1>0, RoomsAreThere, DistanceIsLeast
    <3>2. Distance[m][here] <= 3 BY <2>1, <3>1
    <3> QED BY <1>0, <2>1, <3>2 DEF Grow
  <2>2. ASSUME here \in near PROVE here \in AfterMarkers(rep, last, S) BY <1>9, <2>2 DEF AfterMarkers, Narrow, here
  <2>3. CASE FrozenNow
    <3>1. at = Len(places) BY <1>0, <1>4, <2>3
    <3>2. here \in rep.markers BY <1>0, <1>3, <1>9, <3>1
    <3>3. Distance[here][here] <= 2 BY <1>0, <1>5, TwoDoorsAway
    <3> QED BY <1>0, <2>1, <2>2, <3>2, <3>3 DEF here
  <2>4. CASE ~FrozenNow /\ Len(history) > 1
    <3>1. at = Len(history) - 1 /\ at >= 1 /\ at \in 1..Len(history) BY <1>0, <1>4, <1>9, <2>4
    <3>2. places[at] \in rep.markers /\ places[at] = history[at] /\ history[at] \in Rooms BY <1>0, <1>3, <1>9, <3>1
    <3>3. room \in Near(history[at]) BY <2>4, <3>1
    <3>4. Distance[history[at]][here] <= 2 BY <3>2, <3>3, TwoDoorsAway DEF here
    <3> QED BY <2>1, <2>2, <3>2, <3>4 DEF here
  <2>5. CASE ~FrozenNow /\ Len(history) = 1
    <3>1. ~(at >= 1) BY <1>0, <1>4, <1>9, <2>5
    <3>2. DecoysNow # {} BY <1>3, <1>9, <3>1
    <3>3. Cast = "distract" BY <3>2 DEF DecoysNow, CastOf
    <3>4. Device[room] = "speaker"
      <4>1. HackAvailable(Cast) BY <3>3 DEF Cast
      <4> QED BY <3>3, <4>1 DEF HackAvailable, HackDevice
    <3>5. config.trace["distract"] + (config.scan_budget * config.scan_trace + config.trace_passive) < config.trace_t1
      BY <2>5, <3>4 DEF FirstMarkerIsHis
    <3>6. TraceNow <= config.trace["distract"] + (config.scan_budget * config.scan_trace + config.trace_passive)
      BY <2>5, <3>3, TraceOfTheFirst
    <3>7. TraceNow >= config.trace_t1 BY <1>2, <1>9
    <3>8. config.trace["distract"] + (config.scan_budget * config.scan_trace + config.trace_passive) \in Int
      <4>1. config.trace["distract"] \in Nat /\ config.scan_budget \in Nat /\ config.scan_trace \in Nat
            /\ config.trace_passive \in Nat
        BY ConfigAssumption DEF Meters, Hacks
      <4> QED BY <4>1
    <3>9. PICK x \in Int : x = config.trace["distract"] + (config.scan_budget * config.scan_trace + config.trace_passive)
      BY <3>8
    <3>10. x < config.trace_t1 /\ TraceNow <= x BY <3>5, <3>6, <3>9
    <3> QED BY <1>1, <3>7, <3>10
  <2>6. Len(history) > 1 \/ Len(history) = 1
    <3>1. PICK n \in Nat \ {0} : n = Len(history) BY <1>0
    <3> QED BY <3>1
  <2> QED BY <2>3, <2>4, <2>5, <2>6
<1> QED BY <1>2, <1>6, <1>7, <1>8, <1>9

LEMMA RoomsFit ==
  ASSUME config.capture_mode = "search", NEW path, NEW luck, Catchers("search", path, luck) = {},
         NEW rep, rep.empty = SearchedEmpty("none"), NEW S, EndOf(path) \in S
  PROVE  EndOf(path) \in AfterRooms(rep, S)
<1>1. ASSUME EndOf(path) \in rep.empty PROVE FALSE
  <2>1. PICK h \in Hunters : OrderOf(h).type = "search" /\ hroom[h] \notin SteamNow /\ hroom[h] = EndOf(path)
    BY <1>1 DEF SearchedEmpty
  <2>2. h \in Catchers("search", path, luck) BY <2>1 DEF Catchers
  <2> QED BY <2>2
<1> QED BY <1>1 DEF AfterRooms

-----------------------------------------------------------------------------
(* The inductive invariant: everybody is on the map, the history is a walk *)
(* that ends where the fugitive is, and his room is still considered.      *)

GivenOrders ==
  {o \in [type : HunterOrders \cup {"none"}, target : Rooms \cup {"none"}] : o.type = "move" => o.target \in Rooms}

Placed ==
  /\ Meters
  /\ room \in Rooms
  /\ hroom \in [Hunters -> Rooms] /\ horder \in [Hunters -> GivenOrders]
  /\ history \in Seq(Rooms) /\ history # <<>>

Trail ==
  /\ history[Len(history)] = room
  /\ config.fugitive_speed = 1 /\ Len(history) > 1 => room \in Near(history[Len(history) - 1])
  /\ Len(history) = 1 => trace = 0
  /\ decoys = {}
  /\ forder.move # "none" => forder.move \in Rooms /\ Distance[room][forder.move] <= config.fugitive_speed

Sound == WrittenFor /\ FirstMarkerIsHis => room \in candidates

SimInv ==
  /\ Placed
  /\ status \in {"ROUND_OPEN", "CAPTURED"}
  /\ status = "CAPTURED" => phase = "over"
  /\ status # "CAPTURED" => Trail /\ Sound

LEMMA OrdersAreGiven == NoOrder \in GivenOrders /\ Stay \in GivenOrders
BY DEF NoOrder, Stay, GivenOrders, HunterOrders

LEMMA OrderOfIsGiven == ASSUME Placed, NEW h \in Hunters PROVE OrderOf(h) \in GivenOrders
<1>1. horder[h] \in GivenOrders BY DEF Placed
<1> QED BY <1>1, OrdersAreGiven DEF OrderOf

LEMMA GoalsAreRooms == ASSUME Placed, NEW h \in Hunters PROVE Goal(h) \in Rooms
<1>1. OrderOf(h).type = "move" => OrderOf(h).target \in Rooms BY OrderOfIsGiven DEF GivenOrders
<1>2. hroom[h] \in Rooms BY DEF Placed
<1> QED BY <1>1, <1>2 DEF Goal

\* What the brain makes of a report that names nobody still holds the room the fugitive walked to.
LEMMA BrainLearns ==
  ASSUME Placed, Trail, WrittenFor, FirstMarkerIsHis, room \in candidates,
         NEW plan \in Planned, NEW path, path = Walked(plan), NEW luck, Catchers("search", path, luck) = {},
         NEW how, NEW rep, rep = ReportOf(path, "none", how), Observe(rep)
  PROVE  EndOf(path) \in candidates'
<1>1. config.fugitive_speed = 1 /\ config.capture_mode = "search" BY DEF WrittenFor
<1>2. EndOf(path) \in Near(room) /\ (MoveNow = "none" => EndOf(path) = room)
  BY <1>1, ShortWalk DEF Placed, Trail
<1>3. room \in Rooms /\ EndOf(path) \in Rooms BY <1>2, NearIsNear DEF Placed
<1>4. /\ rep.to = [h \in Hunters |-> Goal(h)] /\ rep.tier = Tier /\ rep.signal = Signal(path)
      /\ rep.signature = Signature /\ rep.markers = Markers(path) /\ rep.blackout = BlackoutNow
      /\ rep.seen = Seen(path, "none") /\ rep.empty = SearchedEmpty("none") /\ rep.scan = Scanned(path)
  BY ReportSays
<1>5. CASE rep.blackout
  <2>1. candidates' = Grow(candidates, 1) BY <1>1, <1>5 DEF Observe
  <2>2. EndOf(path) \in Grow(candidates, 1) BY <1>2, <1>3, GrowReaches
  <2> QED BY <2>1, <2>2
<1>6. CASE ~rep.blackout
  <2>1. PICK last \in (IF rep.markers = {} THEN {"none"} ELSE rep.markers) :
          LET heard == AfterSignal(rep, AfterScan(rep, AfterSight(rep, AfterSignature(rep))))
              left == AfterRooms(rep, AfterMarkers(rep, last, heard))
          IN  candidates' = OrAnywhere(left)
    BY <1>6 DEF Observe
  <2> DEFINE S1 == AfterSignature(rep)
             S2 == AfterSight(rep, S1)
             S3 == AfterScan(rep, S2)
             S4 == AfterSignal(rep, S3)
             S5 == AfterMarkers(rep, last, S4)
             S6 == AfterRooms(rep, S5)
  <2>2. candidates' = OrAnywhere(S6) BY <2>1
  <2>3. EndOf(path) \in S1 BY <1>1, <1>2, <1>3, <1>4, SignatureFits DEF Placed
  <2> HIDE DEF S1
  <2>4. EndOf(path) \in S2 BY <1>3, <1>4, <2>3, SightFits
  <2> HIDE DEF S2
  <2>5. EndOf(path) \in S3 BY <1>1, <1>2, <1>3, <1>4, <2>4, ScanFits
  <2> HIDE DEF S3
  <2>6. EndOf(path) \in S4 BY <1>3, <1>4, <2>5, SignalFits, GoalsAreRooms
  <2> HIDE DEF S4
  <2>7. EndOf(path) \in S5
    <3>1. ~BlackoutNow BY <1>4, <1>6
    <3> QED BY <1>1, <1>2, <1>3, <1>4, <2>6, <3>1, MarkersFit DEF Placed, Trail
  <2> HIDE DEF S5
  <2>8. EndOf(path) \in S6 BY <1>1, <1>4, <2>7, RoomsFit
  <2> HIDE DEF S6
  <2> QED BY <2>2, <2>8 DEF OrAnywhere
<1> QED BY <1>5, <1>6

\* When the report names nobody, no search was in the right room.
LEMMA NoCaptureNoFind ==
  ASSUME NEW path, NEW luck, NEW capture \in Captures(path, luck), capture[1] = "none"
  PROVE  Catchers("search", path, luck) = {}
<1> DEFINE by(how) == {<<h, how>> : h \in Catchers(how, path, luck)}
<1>1. \A how : \A c \in by(how) : c[1] \in Hunters
  <2>1. ASSUME NEW how, NEW h \in Catchers(how, path, luck) PROVE <<h, how>>[1] \in Hunters
    BY <2>1 DEF Catchers
  <2> QED BY <2>1
<1>2. capture[1] \notin Hunters BY CrewAssumption
<1>3. {<<h, "search">> : h \in Catchers("search", path, luck)} = {}
  BY <1>1, <1>2 DEF Captures
<1> QED BY <1>3

-----------------------------------------------------------------------------
(* What the crew and the fugitive order. *)

Planning == [given : [Hunters -> GivenOrders], scans : Nat, claimed : SUBSET candidates]

LEMMA GiveIsPlanning ==
  ASSUME NEW plan \in Planning, NEW h \in Hunters, NEW type \in {"search", "scan", "move"},
         NEW target \in Rooms \cup {"none"}, type = "move" => target \in Rooms
  PROVE  Give(plan, h, type, target) \in Planning
<1>1. [type |-> type, target |-> target] \in GivenOrders BY DEF GivenOrders, HunterOrders
<1>2. plan.given \in [Hunters -> GivenOrders] BY DEF Planning
<1>3. PICK o \in GivenOrders : o = [type |-> type, target |-> target] BY <1>1
<1>4. [plan.given EXCEPT ![h] = o] \in [Hunters -> GivenOrders] BY <1>2
<1>5. PICK g \in [Hunters -> GivenOrders] : g = [plan.given EXCEPT ![h] = o] BY <1>4
<1>6. Give(plan, h, type, target) = [plan EXCEPT !.given = g] BY <1>3, <1>5 DEF Give, Planning
<1> QED BY <1>6 DEF Planning

LEMMA AdvancesArePlanning ==
  ASSUME NEW plan \in Planning, NEW h \in Hunters
  PROVE  Advances(plan, h) \subseteq Planning
<1> SUFFICES ASSUME NEW p \in Advances(plan, h) PROVE p \in Planning OBVIOUS
<1> DEFINE claim(goal) == [plan EXCEPT !.claimed = @ \cup {goal}]
<1>1. PICK goal \in candidates :
        p \in (IF goal = hroom[h] THEN {Give(claim(goal), h, "search", "none")}
               ELSE {Give(claim(goal), h, "move", step)
                       : step \in Minimal(Neighbors(hroom[h]), LAMBDA n : Distance[n][goal])})
  BY DEF Advances, Minimal
<1>2. claim(goal) \in Planning BY DEF Planning
<1> HIDE DEF claim
<1>3. CASE p = Give(claim(goal), h, "search", "none") BY <1>2, <1>3, GiveIsPlanning
<1>4. CASE \E step \in Neighbors(hroom[h]) : p = Give(claim(goal), h, "move", step)
  BY <1>2, <1>4, GiveIsPlanning DEF Neighbors
<1> QED BY <1>1, <1>3, <1>4 DEF Minimal

LEMMA ChoicesArePlanning ==
  ASSUME NEW plan \in Planning, NEW h \in Hunters
  PROVE  Choices(plan, h) \subseteq Planning
<1>1. Give(plan, h, "search", "none") \in Planning BY GiveIsPlanning
<1>2. Give([plan EXCEPT !.scans = @ + 1], h, "scan", "none") \in Planning
  <2>1. [plan EXCEPT !.scans = @ + 1] \in Planning BY DEF Planning
  <2> QED BY <2>1, GiveIsPlanning
<1> QED BY <1>1, <1>2, AdvancesArePlanning DEF Choices

LEMMA PlansArePlanning == ASSUME Placed, NEW plan \in Plans PROVE plan.given \in [Hunters -> GivenOrders]
<1> DEFINE N == Len(Crew)
           T == SUBSET Planning
           a == {[given |-> horder, scans |-> 0, claimed |-> {}]}
           G == [x \in (1..N) \X T |-> UNION {Choices(p, Crew[x[1]]) : p \in x[2]}]
           Whole(g) == [i \in 0..Len(Crew) |->
                          IF i = 0 THEN {[given |-> horder, scans |-> 0, claimed |-> {}]}
                          ELSE UNION {Choices(p, Crew[i]) : p \in g[i - 1]}]
           made == CHOOSE g : g = Whole(g)
<1>1. N \in Nat /\ \A i \in 1..N : Crew[i] \in Hunters BY CrewAssumption
<1>2. a \in T BY DEF Planning, Placed
<1>3. G \in [(1..N) \X T -> T]
  <2>1. ASSUME NEW i \in 1..N, NEW S \in T PROVE UNION {Choices(p, Crew[i]) : p \in S} \in T
    BY <1>1, ChoicesArePlanning
  <2> HIDE DEF T
  <2> QED BY <2>1
<1> HIDE DEF T, G
<1>4. PICK f : f \in Runs(N, T, a, G)
  <2> HIDE DEF N, a
  <2>1. Runs(N, T, a, G) # {} BY <1>1, <1>2, <1>3, Recursion
  <2> QED BY <2>1
<1>5. f \in [0..N -> T] /\ f[0] = a /\ \A i \in 1..N : f[i] = G[<<i, f[i - 1]>>] BY <1>4 DEF Runs
<1>6. ASSUME NEW i \in 1..N PROVE f[i] = UNION {Choices(p, Crew[i]) : p \in f[i - 1]}
  <2>1. f[i - 1] \in T BY <1>1, <1>5
  <2>2. G[<<i, f[i - 1]>>] = UNION {Choices(p, Crew[i]) : p \in f[i - 1]} BY <2>1 DEF G
  <2> QED BY <1>5, <2>2
<1>7. f = Whole(f)
  <2>1. \A i \in 0..N : f[i] = IF i = 0 THEN a ELSE UNION {Choices(p, Crew[i]) : p \in f[i - 1]} BY <1>1, <1>5, <1>6
  <2>2. f = [i \in 0..N |-> f[i]] BY <1>5
  <2> QED BY <2>1, <2>2
<1>8. made = Whole(made) BY <1>7
<1>9. Plans = made[N] BY DEF Plans
<1> HIDE DEF made
<1>10. \A i \in 0..N : made[i] = IF i = 0 THEN a ELSE UNION {Choices(p, Crew[i]) : p \in made[i - 1]} BY ONLY <1>8
<1> DEFINE H == {i \in Nat : i <= N => made[i] \subseteq Planning}
<1>11. 0 \in H
  <2>0. 0 \in 0..N BY <1>1
  <2>1. made[0] = a
    <3> HIDE DEF a, N
    <3> QED BY <1>10, <2>0
  <2> QED BY <1>2, <2>1 DEF T
<1>12. ASSUME NEW i \in Nat, i \in H PROVE i + 1 \in H
  <2> SUFFICES ASSUME i + 1 <= N PROVE made[i + 1] \subseteq Planning OBVIOUS
  <2>1. i + 1 \in 0..N /\ i + 1 \in 1..N /\ i + 1 # 0 /\ (i + 1) - 1 = i /\ i <= N BY <1>1
  <2>2. made[i + 1] = UNION {Choices(p, Crew[i + 1]) : p \in made[i]} BY <1>10, <2>1
  <2>3. made[i] \subseteq Planning BY <1>12, <2>1
  <2>4. Crew[i + 1] \in Hunters BY <1>1, <2>1
  <2> QED BY <2>2, <2>3, <2>4, ChoicesArePlanning
<1> HIDE DEF H
<1>13. Nat \subseteq H BY <1>11, <1>12, NatInduct
<1>14. plan \in Planning BY <1>1, <1>9, <1>13 DEF H
<1> QED BY <1>14 DEF Planning

LEMMA HacksAreHacks == ASSUME NEW c \in HackChoices PROVE c[1] \in Hacks \cup {"none"}
<1> DEFINE idle == {<<"none", {}>>}
           hides == /\ Device[room] = "curtain" /\ AdjacentThreat >= 2 /\ Affords("hide")
                    /\ config.capture_mode = "contact"
           bars == AdjacentThreat >= 1 /\ Affords("doorlock")
           Barred == {IF q \in Neighbors(room) THEN <<"doorlock", {q, room}>> ELSE <<"none", {}>> : q \in NearestCrew}
           Decoys == idle \cup {<<"distract", {q}>> : q \in Maximal(Rooms, LAMBDA r : Distance[room][r])}
           Cases == CASE Device[room] = "light" /\ Threat(room) <= 2 /\ Affords("blackout") -> {<<"blackout", {}>>}
                      [] Device[room] = "speaker" /\ Affords("distract") -> Decoys
                      [] Device[room] = "coffeepot" /\ AdjacentThreat >= 1 /\ Affords("overload") -> {<<"overload", {}>>}
                      [] OTHER -> idle
           Fits(S) == \A e \in S : e[1] \in Hacks \cup {"none"}
<1>1. Fits(idle) /\ Fits({<<"hide", {}>>}) /\ Fits({<<"blackout", {}>>}) /\ Fits({<<"overload", {}>>}) BY DEF Hacks
<1>2. Fits(Barred)
  <2>1. ASSUME NEW q PROVE (IF q \in Neighbors(room) THEN <<"doorlock", {q, room}>> ELSE <<"none", {}>>)[1] \in Hacks \cup {"none"}
    BY DEF Hacks
  <2> QED BY <2>1
<1>3. Fits(Decoys)
  <2>1. ASSUME NEW q PROVE <<"distract", {q}>>[1] \in Hacks \cup {"none"} BY DEF Hacks
  <2> QED BY <1>1, <2>1
<1>4. HackChoices = IF style = "stealth" \/ tracedAt # 0 THEN idle
                    ELSE IF hides THEN {<<"hide", {}>>} ELSE IF bars THEN Barred ELSE Cases
  BY DEF HackChoices
<1> HIDE DEF idle, hides, bars, Barred, Decoys
<1>5. Fits(Cases)
  <2>1. CASE Device[room] = "light" BY <1>1, <2>1
  <2>2. CASE Device[room] = "speaker" BY <1>1, <1>3, <2>2
  <2>3. CASE Device[room] = "coffeepot" BY <1>1, <2>3
  <2>4. CASE Device[room] \notin {"light", "speaker", "coffeepot"} BY <1>1, <2>4
  <2> QED BY <2>1, <2>2, <2>3, <2>4
<1> HIDE DEF Cases
<1> QED BY <1>1, <1>2, <1>4, <1>5

-----------------------------------------------------------------------------
(* The steps. *)

LEMMA GoalsHaveHacks == ASSUME NEW goal \in FugitiveGoals PROVE goal[2] \in Hacks \cup {"none"}
<1>1. CASE frozen BY <1>1 DEF FugitiveGoals
<1>2. CASE ~frozen
  <2>1. PICK best \in Refuges, choice \in HackChoices :
          goal = <<IF best = room \/ choice[1] = "hide" THEN "none" ELSE best, choice[1], choice[2]>>
    BY <1>2 DEF FugitiveGoals
  <2>2. goal[2] = choice[1] BY <2>1
  <2> QED BY <2>2, HacksAreHacks
<1> QED BY <1>1, <1>2

LEMMA SimInitIsSound == ASSUME SimInit PROVE SimInv
<1>1. EngineInit BY DEF SimInit
<1>2. Meters BY <1>1, MetersInit
<1>3. room \in Rooms /\ hroom \in [Hunters -> Rooms] BY <1>1, StartsInside
<1>4. horder \in [Hunters -> GivenOrders] BY <1>1, OrdersAreGiven DEF EngineInit
<1>5. history = <<room>> /\ trace = 0 /\ decoys = {} /\ forder = Wait /\ status = "ROUND_OPEN" BY <1>1 DEF EngineInit
<1>6. history \in Seq(Rooms) /\ Len(history) = 1 /\ history[1] = room /\ history # <<>> BY <1>3, <1>5
<1>7. Placed BY <1>2, <1>3, <1>4, <1>6 DEF Placed
<1>8. Trail BY <1>5, <1>6 DEF Trail, Wait
<1>9. room \in candidates BY <1>3 DEF SimInit
<1> QED BY <1>5, <1>7, <1>8, <1>9 DEF SimInv, Sound

LEMMA FugitiveStep == ASSUME SimInv, SimFugitive PROVE SimInv'
<1>1. PICK goal \in FugitiveGoals :
        \/ SubmitFugitiveOrder(goal[1], goal[2], goal[3])
        \/ SubmitFugitiveOrder(goal[1], "none", {})
  BY DEF SimFugitive
<1>2. PICK move, hack, target : hack \in Hacks \cup {"none"} /\ SubmitFugitiveOrder(move, hack, target)
  BY <1>1, GoalsHaveHacks
<1>3. /\ forder' = [move |-> move, hack |-> hack, target |-> target] /\ status = "ROUND_OPEN"
      /\ UNCHANGED <<config, status, hroom, horder, room, ram, trace, decoys, history>>
      /\ move # "none" => move \in Rooms /\ Distance[room][move] <= config.fugitive_speed
  BY <1>2 DEF SubmitFugitiveOrder, crewVars, fieldVars
<1>4. UNCHANGED candidates BY DEF SimFugitive
<1>5. Meters' BY <1>2, <1>3 DEF SimInv, Placed, Meters
<1>6. Placed' BY <1>3, <1>5 DEF SimInv, Placed
<1>7. Trail' BY <1>3 DEF SimInv, Trail
<1>8. Sound' BY <1>3, <1>4 DEF SimInv, Sound, WrittenFor, FirstMarkerIsHis
<1> QED BY <1>3, <1>6, <1>7, <1>8 DEF SimInv

LEMMA HuntersStep == ASSUME SimInv, SimHunters PROVE SimInv'
<1>1. PICK plan \in Plans : horder' = plan.given BY DEF SimHunters
<1>2. horder' \in [Hunters -> GivenOrders] BY <1>1, PlansArePlanning DEF SimInv
<1>3. UNCHANGED <<config, status, hroom, room, ram, trace, forder, decoys, history, candidates>>
  BY DEF SimHunters, fugVars, fieldVars
<1>4. status # "CAPTURED" BY DEF SimInv, SimHunters
<1>5. Meters' BY <1>3 DEF SimInv, Placed, Meters
<1>6. Placed' BY <1>2, <1>3, <1>5 DEF SimInv, Placed
<1>7. Trail' BY <1>3, <1>4 DEF SimInv, Trail
<1>8. Sound' BY <1>3, <1>4 DEF SimInv, Sound, WrittenFor, FirstMarkerIsHis
<1> QED BY <1>3, <1>4, <1>6, <1>7, <1>8 DEF SimInv

LEMMA ResolveStep == ASSUME SimInv, SimResolve PROVE SimInv'
<1>0. status # "CAPTURED" /\ Placed /\ Trail /\ Sound BY DEF SimInv, SimResolve
<1>1. PICK plan \in Planned, luck \in Draws :
        LET path == Walked(plan) IN
        \E capture \in Captures(path, luck) :
          /\ Commit(path)
          /\ report' = ReportOf(path, capture[1], capture[2])
          /\ IF capture[1] # "none"
               THEN /\ status' = "CAPTURED"
                    /\ horder' = [h \in Hunters |-> OrderOf(h)]
                    /\ forder' = [forder EXCEPT !.move = MoveNow]
                    /\ locks' = LocksNow /\ decoys' = DecoysNow
                    /\ steam' = SteamNow /\ blackout' = BlackoutNow
                    /\ UNCHANGED round
               ELSE /\ status' = "ROUND_OPEN" /\ round' = round + 1
                    /\ horder' = [h \in Hunters |-> NoOrder] /\ forder' = Wait
                    /\ locks' = {} /\ decoys' = {} /\ steam' = {} /\ blackout' = FALSE
  BY DEF SimResolve, ResolveRound
<1>2. PICK path : path = Walked(plan) OBVIOUS
<1>3. PICK capture \in Captures(path, luck) :
        /\ Commit(path)
        /\ report' = ReportOf(path, capture[1], capture[2])
        /\ capture[1] # "none" => /\ status' = "CAPTURED" /\ horder' = [h \in Hunters |-> OrderOf(h)]
                                  /\ forder' = [forder EXCEPT !.move = MoveNow]
        /\ capture[1] = "none" => /\ status' = "ROUND_OPEN" /\ horder' = [h \in Hunters |-> NoOrder]
                                  /\ forder' = Wait /\ decoys' = {}
  BY <1>1, <1>2
<1>4. Meters' BY <1>0, <1>3, MetersCommit DEF Placed
<1>5. EndOf(path) \in Rooms BY <1>0, <1>2, WalkInside DEF Placed
<1>6. /\ hroom' = [h \in Hunters |-> Goal(h)] /\ room' = EndOf(path) /\ history' = Append(history, EndOf(path))
      /\ UNCHANGED config
  BY <1>3 DEF Commit
<1>7. /\ history' \in Seq(Rooms) /\ Len(history') = Len(history) + 1 /\ Len(history) \in Nat \ {0}
      /\ history'[Len(history')] = EndOf(path) /\ history'[Len(history)] = room /\ history'[1] = history[1]
  BY <1>0, <1>5, <1>6 DEF Placed, Trail
<1>8. horder' \in [Hunters -> GivenOrders] BY <1>0, <1>3, OrderOfIsGiven, OrdersAreGiven
<1>9. Placed'
  <2>1. hroom' \in [Hunters -> Rooms] BY <1>0, <1>6, GoalsAreRooms
  <2>2. history' # <<>> BY <1>7
  <2> QED BY <1>4, <1>5, <1>6, <1>7, <1>8, <2>1, <2>2 DEF Placed
<1>10. CASE capture[1] # "none"
  <2>1. status' = "CAPTURED" /\ phase' = "over" BY <1>3, <1>10 DEF SimResolve
  <2> QED BY <1>9, <2>1 DEF SimInv
<1>11. CASE capture[1] = "none"
  <2>1. status' = "ROUND_OPEN" /\ forder' = Wait /\ decoys' = {} BY <1>3, <1>11
  <2>2. ASSUME config.fugitive_speed = 1 PROVE EndOf(path) \in Near(room)
    BY <1>0, <1>2, <2>2, ShortWalk DEF Placed, Trail
  <2>3. Trail'
    <3>1. room \in Near(room) /\ config' = config BY <1>6 DEF Near
    <3>2. PICK n \in Nat \ {0} : n = Len(history) BY <1>7
    <3>3. Len(history') = n + 1 /\ Len(history') # 1 /\ Len(history') - 1 = Len(history) BY <1>7, <3>2
    <3>4. config'.fugitive_speed = 1 /\ Len(history') > 1 => room' \in Near(history'[Len(history') - 1])
      BY <1>6, <1>7, <2>2, <3>1, <3>3
    <3> QED BY <1>6, <1>7, <2>1, <3>3, <3>4 DEF Trail, Wait
  <2>4. Sound'
    <3> SUFFICES ASSUME WrittenFor', FirstMarkerIsHis' PROVE room' \in candidates' BY DEF Sound
    <3>1. WrittenFor /\ FirstMarkerIsHis BY <1>6, <1>7 DEF WrittenFor, FirstMarkerIsHis
    <3>2. room \in candidates BY <1>0, <3>1 DEF Sound
    <3>3. Catchers("search", path, luck) = {} BY <1>3, <1>11, NoCaptureNoFind
    <3>4. PICK rep : rep = report' OBVIOUS
    <3>5. Observe(rep) BY <3>4 DEF SimResolve
    <3>6. rep = ReportOf(path, "none", capture[2]) BY <1>3, <1>11, <3>4
    <3>7. EndOf(path) \in candidates' BY <1>0, <1>2, <3>1, <3>2, <3>3, <3>5, <3>6, BrainLearns
    <3> QED BY <1>6, <3>7
  <2> QED BY <1>9, <2>1, <2>3, <2>4 DEF SimInv
<1> QED BY <1>10, <1>11

\* What the brain rules out he is not in: on every map, against every crew and with every draw, while search is the way to
\* be caught, he goes one door a round and no decoy can stand where no trail is yet.
THEOREM BrainStaysSound == SimSpec => []BrainIsSound
<1>1. SimInv /\ [SimNext]_simVars => SimInv'
  <2> SUFFICES ASSUME SimInv, [SimNext]_simVars PROVE SimInv' OBVIOUS
  <2>1. CASE UNCHANGED simVars
    <3>1. UNCHANGED <<config, status, hroom, horder, room, ram, trace, forder, decoys, history, candidates, phase>>
      BY <2>1 DEF simVars, engineVars, crewVars, fugVars, fieldVars
    <3>2. Placed' <=> Placed BY <3>1 DEF Placed, Meters
    <3>3. Trail' <=> Trail BY <3>1 DEF Trail
    <3>4. Sound' <=> Sound BY <3>1 DEF Sound, WrittenFor, FirstMarkerIsHis
    <3> QED BY <3>1, <3>2, <3>3, <3>4 DEF SimInv
  <2> QED BY <2>1, FugitiveStep, HuntersStep, ResolveStep DEF SimNext
<1>2. SimInv => BrainIsSound BY DEF SimInv, Sound, BrainIsSound
<1>3. SimInit => SimInv BY SimInitIsSound
<1> QED BY <1>1, <1>2, <1>3, PTL DEF SimSpec

-----------------------------------------------------------------------------
(* The secrets keep. *)

\* While the chase goes on the fugitive's view has shown a human's order only in a round whose ping was paid.
PaidFor == status # "CAPTURED" => known \ bots = {} \/ pinged = round
Guarded == reasons \subseteq bots /\ DOMAIN told = Viewers /\ PaidFor

\* What a payload adds for those who have not the fugitive's view.
LEMMA PayloadsAreDiscreet ==
  ASSUME NEW v \in Viewers, RoleOf(v) # "fugitive"
  PROVE  /\ "path" \in PayloadFor(v) => status = "CAPTURED" /\ reveal
         /\ "plan" \in PayloadFor(v) => status = "CAPTURED" /\ fugitiveAi
         /\ \A rep : Tells(PublicReport(rep)) = {}
<1>1. \A rep : Tells(PublicReport(rep)) = {} BY DEF Tells, PublicReport
<1>2. PayloadFor(v) = Route \cup AiLog BY <1>1 DEF PayloadFor
<1> QED BY <1>1, <1>2 DEF Route, AiLog

LEMMA PushesAreDiscreet ==
  ASSUME UNCHANGED roleVars, NEW v \in Viewers, RoleOf(v) # "fugitive"
  PROVE  /\ "path" \in PayloadFor(v)' => status' = "CAPTURED" /\ reveal'
         /\ "plan" \in PayloadFor(v)' => status' = "CAPTURED" /\ fugitiveAi'
<1>1. RoleOf(v)' # "fugitive" BY DEF RoleOf, roleVars
<1>2. \A rep : Tells(PublicReport(rep)) = {} BY DEF Tells, PublicReport
<1>3. Tells(PublicReport(report))' = {} BY DEF Tells, PublicReport
<1>4. PayloadFor(v)' = Route' \cup AiLog' BY <1>1, <1>3 DEF PayloadFor
<1> QED BY <1>4 DEF Route, AiLog

\* What a step tells those who have not the fugitive's view.
Discreet(w) ==
  /\ "path" \in told'[w] \ told[w] => status' = "CAPTURED" /\ reveal'
  /\ "plan" \in told'[w] \ told[w] => status' = "CAPTURED" /\ fugitiveAi

LEMMA RolesStay == ASSUME ViewsNext PROVE UNCHANGED <<roleVars, Viewers>>
<1>1. UNCHANGED roleVars
  BY DEF ViewsNext, HunterSubmits, BotSubmits, CancelHunterOrder, FugitiveSubmits, CancelFugitiveOrder, Ping,
         Resolve, ResolveFails, SetConfig, SetReveal, AsksForState
<1> QED BY <1>1 DEF roleVars, Viewers, Humans

LEMMA GuardedStep ==
  ASSUME Guarded, ViewsNext
  PROVE  Guarded' /\ \A v \in Viewers : RoleOf(v) # "fugitive" => Discreet(v)
<1>0. UNCHANGED <<admin, fugitiveAi, bots, Viewers>> BY RolesStay DEF roleVars
<1>1. ASSUME UNCHANGED told PROVE \A v \in Viewers : Discreet(v) BY <1>1 DEF Discreet
<1>2. \A S : Learn(S) \subseteq S BY DEF Learn
<1>3. ASSUME reasons' \subseteq bots, DOMAIN told' = Viewers, PaidFor',
             \A v \in Viewers : RoleOf(v) # "fugitive" => Discreet(v)
      PROVE  Guarded' /\ \A v \in Viewers : RoleOf(v) # "fugitive" => Discreet(v)
  BY <1>0, <1>3 DEF Guarded
<1>4. ASSUME NEW h \in Hunters, NEW type \in OrderTypes, NEW target \in HunterTargets, HunterSubmits(h, type, target)
      PROVE  Guarded' /\ \A v \in Viewers : RoleOf(v) # "fugitive" => Discreet(v)
  <2>1. UNCHANGED <<reasons, told, status, round, pinged>> BY <1>4 DEF HunterSubmits, SubmitHunterOrder, fugVars
  <2>2. PaidFor' BY <1>0, <1>2, <1>4, <2>1 DEF Guarded, PaidFor, HunterSubmits, Submitted, SubmitHunterOrder
  <2> QED BY <1>1, <1>3, <2>1, <2>2 DEF Guarded
<1>5. ASSUME NEW h \in Hunters, NEW type \in OrderTypes, NEW target \in HunterTargets, BotSubmits(h, type, target)
      PROVE  Guarded' /\ \A v \in Viewers : RoleOf(v) # "fugitive" => Discreet(v)
  <2>1. UNCHANGED <<told, status, round, pinged>> BY <1>5 DEF BotSubmits, SubmitHunterOrder, fugVars
  <2>2. h \in bots /\ reasons' = reasons \cup {h} /\ known' = Learn(known \cup {h}) BY <1>5 DEF BotSubmits
  <2>3. known' \ bots \subseteq known \ bots BY <1>2, <2>2
  <2>4. PaidFor' BY <1>0, <2>1, <2>3 DEF Guarded, PaidFor
  <2> QED BY <1>1, <1>3, <2>1, <2>2, <2>4 DEF Guarded
<1>6. ASSUME NEW h \in Hunters, CancelHunterOrder(h)
      PROVE  Guarded' /\ \A v \in Viewers : RoleOf(v) # "fugitive" => Discreet(v)
  <2>1. UNCHANGED <<told, reasons, status, round, pinged>> /\ known' = known \ {h}
    BY <1>6 DEF CancelHunterOrder, fugVars
  <2>2. PaidFor' BY <1>0, <2>1 DEF Guarded, PaidFor
  <2> QED BY <1>1, <1>3, <2>1, <2>2 DEF Guarded
<1>7. ASSUME NEW move \in HunterTargets, NEW hack \in HackTypes \cup {"none"}, NEW target \in TargetsOf(hack),
             FugitiveSubmits(move, hack, target)
      PROVE  Guarded' /\ \A v \in Viewers : RoleOf(v) # "fugitive" => Discreet(v)
  <2>1. UNCHANGED <<reasons, known, status, round, pinged>> BY <1>7 DEF FugitiveSubmits, SubmitFugitiveOrder
  <2>2. told' = [v \in Viewers |->
                   told[v] \cup IF fugitiveAi /\ RoleOf(v) = "fugitive" THEN {"plan"} ELSE {}]
    BY <1>7 DEF FugitiveSubmits
  <2>3. PaidFor' BY <1>0, <2>1 DEF Guarded, PaidFor
  <2>4. DOMAIN told' = Viewers /\ \A v \in Viewers : RoleOf(v) # "fugitive" => told'[v] = told[v] BY <2>2
  <2>5. \A v \in Viewers : RoleOf(v) # "fugitive" => Discreet(v) BY <2>4 DEF Discreet
  <2> QED BY <1>3, <2>1, <2>3, <2>4, <2>5 DEF Guarded
<1>8. ASSUME CancelFugitiveOrder
      PROVE  Guarded' /\ \A v \in Viewers : RoleOf(v) # "fugitive" => Discreet(v)
  <2>1. UNCHANGED <<told, reasons, known, status, round, pinged>> BY <1>8 DEF CancelFugitiveOrder
  <2>2. PaidFor' BY <1>0, <2>1 DEF Guarded, PaidFor
  <2> QED BY <1>1, <1>3, <2>1, <2>2 DEF Guarded
<1>9. ASSUME Ping
      PROVE  Guarded' /\ \A v \in Viewers : RoleOf(v) # "fugitive" => Discreet(v)
  <2>1. UNCHANGED <<told, reasons, round>> /\ pinged' = round BY <1>9 DEF Ping, CastPing
  <2>2. PaidFor' BY <2>1 DEF PaidFor
  <2> QED BY <1>1, <1>3, <2>1, <2>2 DEF Guarded
<1>10. ASSUME Resolve
       PROVE  Guarded' /\ \A v \in Viewers : RoleOf(v) # "fugitive" => Discreet(v)
  <2>1. reasons' = IF status' = "CAPTURED" THEN reasons ELSE {} BY <1>10 DEF Resolve
  <2>2. told' = [v \in Viewers |->
                   told[v] \cup PayloadFor(v)' \cup
                     Tells(IF RoleOf(v) = "fugitive" THEN report' ELSE PublicReport(report'))]
    BY <1>10 DEF Resolve
  <2>3. PaidFor'
    <3> SUFFICES ASSUME status' # "CAPTURED" PROVE known' = {} BY DEF PaidFor
    <3>1. ResolveRound BY <1>10 DEF Resolve
    <3>2. horder' = [h \in Hunters |-> NoOrder] BY <3>1 DEF ResolveRound
    <3>3. OrdersShown' = {} BY <3>2 DEF OrdersShown, NoOrder
    <3>4. FugitivePayload' = {} BY <2>1, <3>3 DEF FugitivePayload
    <3>5. known' = Learn(FugitivePayload') BY <1>10 DEF Resolve
    <3> QED BY <1>2, <3>4, <3>5
  <2>4. ASSUME NEW v \in Viewers, RoleOf(v) # "fugitive" PROVE Discreet(v)
    <3>1. Tells(PublicReport(report')) = {} BY <2>4, PayloadsAreDiscreet
    <3>2. told'[v] \ told[v] \subseteq PayloadFor(v)' BY <2>2, <2>4, <3>1
    <3> QED BY <1>0, <2>4, <3>2, PushesAreDiscreet DEF Discreet, roleVars
  <2>5. reasons' \subseteq bots BY <2>1 DEF Guarded
  <2>6. DOMAIN told' = Viewers BY <2>2
  <2> QED BY <1>3, <2>3, <2>4, <2>5, <2>6
<1>11. ASSUME ResolveFails
       PROVE  Guarded' /\ \A v \in Viewers : RoleOf(v) # "fugitive" => Discreet(v)
  <2>1. UNCHANGED <<told, reasons, known, round, pinged>> /\ status # "CAPTURED"
    <3>1. ResolveRaises /\ UNCHANGED <<reasons, known, told>> BY <1>11 DEF ResolveFails
    <3>2. PICK plan \in Planned : Commit(Walked(plan)) BY <3>1 DEF ResolveRaises
    <3>3. pinged' = pinged BY <3>2 DEF Commit
    <3>4. round' = round /\ status \in {"ROUND_OPEN", "RESOLVING"} BY <3>1 DEF ResolveRaises
    <3> QED BY <3>1, <3>3, <3>4
  <2>2. PaidFor' BY <1>0, <2>1 DEF Guarded, PaidFor
  <2> QED BY <1>1, <1>3, <2>1, <2>2 DEF Guarded
<1>12. ASSUME PushState, UNCHANGED <<status, round, pinged, reasons>>
       PROVE  Guarded' /\ \A v \in Viewers : RoleOf(v) # "fugitive" => Discreet(v)
  <2>1. known' = Learn(known \cup FugitivePayload') /\ told' = [v \in Viewers |-> told[v] \cup PayloadFor(v)']
    BY <1>12 DEF PushState
  <2>2. PaidFor'
    <3>1. pinged = round \/ FugitivePayload' \subseteq reasons BY <1>12 DEF FugitivePayload, OrdersShown
    <3>2. pinged = round \/ known' \ bots \subseteq known \ bots BY <1>2, <2>1, <3>1 DEF Guarded
    <3> QED BY <1>0, <1>12, <3>2 DEF Guarded, PaidFor
  <2>3. ASSUME NEW v \in Viewers, RoleOf(v) # "fugitive" PROVE Discreet(v)
    <3>1. told'[v] \ told[v] \subseteq PayloadFor(v)' BY <2>1, <2>3
    <3> QED BY <1>0, <2>3, <3>1, PushesAreDiscreet DEF Discreet, roleVars
  <2>4. DOMAIN told' = Viewers BY <2>1
  <2> QED BY <1>3, <1>12, <2>2, <2>3, <2>4 DEF Guarded
<1>13. ASSUME NEW c \in Configs, SetConfig(c)
       PROVE  Guarded' /\ \A v \in Viewers : RoleOf(v) # "fugitive" => Discreet(v)
  BY <1>12, <1>13 DEF SetConfig, SetEngineConfig, fugVars
<1>14. ASSUME NEW on \in BOOLEAN, SetReveal(on)
       PROVE  Guarded' /\ \A v \in Viewers : RoleOf(v) # "fugitive" => Discreet(v)
  BY <1>12, <1>14 DEF SetReveal, engineVars, fugVars
<1>15. ASSUME NEW v \in Viewers, AsksForState(v)
       PROVE  Guarded' /\ \A w \in Viewers : RoleOf(w) # "fugitive" => Discreet(w)
  <2>1. UNCHANGED <<status, round, pinged, reasons, reveal, horder>> BY <1>15 DEF AsksForState, engineVars, fugVars, crewVars
  <2>2. known' \subseteq known \cup FugitivePayload /\ told' = [told EXCEPT ![v] = @ \cup PayloadFor(v)]
    BY <1>15 DEF AsksForState
  <2>3. PaidFor'
    <3>1. pinged = round \/ FugitivePayload \subseteq reasons BY DEF FugitivePayload, OrdersShown
    <3>2. pinged = round \/ known' \ bots \subseteq known \ bots BY <2>2, <3>1 DEF Guarded
    <3> QED BY <1>0, <2>1, <3>2 DEF Guarded, PaidFor
  <2>4. ASSUME NEW w \in Viewers, RoleOf(w) # "fugitive" PROVE Discreet(w)
    <3>1. told'[w] \ told[w] \subseteq IF w = v THEN PayloadFor(w) ELSE {} BY <2>2, <2>4 DEF Guarded
    <3>2. /\ "path" \in PayloadFor(w) => status = "CAPTURED" /\ reveal
          /\ "plan" \in PayloadFor(w) => status = "CAPTURED" /\ fugitiveAi
      BY <2>4, PayloadsAreDiscreet
    <3> QED BY <2>1, <3>1, <3>2 DEF Discreet
  <2>5. DOMAIN told' = Viewers BY <2>2 DEF Guarded
  <2> QED BY <1>3, <2>1, <2>3, <2>4, <2>5 DEF Guarded
<1> QED BY <1>4, <1>5, <1>6, <1>7, <1>8, <1>9, <1>10, <1>11, <1>13, <1>14, <1>15 DEF ViewsNext

\* Who has not paid for an order does not see it, and who has not the fugitive's view learns neither his path nor an
\* AI's plan before the chase is over, whoever rides, whichever hunters are AIs and whatever the admin changes.
THEOREM SecretsAreKept == ViewsSpec => SecretsKeep
<1>1. ViewsInit => Guarded BY DEF ViewsInit, Guarded, PaidFor, Viewers, Humans
<1>2. Guarded /\ [ViewsNext]_viewVars
        => /\ Guarded'
           /\ [/\ status' # "CAPTURED" /\ known' \ bots # {} => pinged' = round'
               /\ \A v \in Viewers : RoleOf(v) # "fugitive" =>
                    /\ "path" \in told'[v] \ told[v] => status' = "CAPTURED" /\ reveal'
                    /\ "plan" \in told'[v] \ told[v] => status' = "CAPTURED" /\ fugitiveAi]_viewVars
  <2> SUFFICES ASSUME Guarded, [ViewsNext]_viewVars
               PROVE  /\ Guarded'
                      /\ [/\ status' # "CAPTURED" /\ known' \ bots # {} => pinged' = round'
                          /\ \A v \in Viewers : RoleOf(v) # "fugitive" =>
                               /\ "path" \in told'[v] \ told[v] => status' = "CAPTURED" /\ reveal'
                               /\ "plan" \in told'[v] \ told[v] => status' = "CAPTURED" /\ fugitiveAi]_viewVars
    OBVIOUS
  <2>1. CASE ViewsNext
    <3>1. Guarded' /\ \A v \in Viewers : RoleOf(v) # "fugitive" => Discreet(v) BY <2>1, GuardedStep
    <3>2. bots' = bots BY <2>1, RolesStay DEF roleVars
    <3> QED BY <3>1, <3>2 DEF Guarded, PaidFor, Discreet
  <2>2. CASE UNCHANGED viewVars
    BY <2>2 DEF viewVars, engineVars, roleVars, fugVars, Guarded, PaidFor, Viewers, Humans
  <2> QED BY <2>1, <2>2
<1> QED BY <1>1, <1>2, PTL DEF ViewsSpec, SecretsKeep
=============================================================================
