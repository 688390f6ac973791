----------------------------- MODULE TrainEngine -----------------------------
(***************************************************************************)
(* The rule engine of the train game, server/app/train/engine.py: a map of *)
(* rooms and doors, a crew of hunters, one fugitive, and the resolution of *)
(* a round.  The engine is pure: the session (TrainSession) calls it under *)
(* its lock, so every call is one action here.  The admin may replace any  *)
(* configuration value between two calls (game.py set_config), values are  *)
(* only checked for their type, and one that resolve_round cannot read     *)
(* makes it raise after it has moved everybody: that is ResolveRaises.     *)
(*                                                                         *)
(* A room name is abstract; its place in RoomNames stands for its place in *)
(* alphabetical order, which breaks the ties of the spawn rules.  The      *)
(* shuffles of resolve_round are choices.  The lists of locks, decoys and  *)
(* steam keep the entries of the current round, the only ones ever read.   *)
(***************************************************************************)
EXTENDS Integers, Sequences, FiniteSets

CONSTANTS
  RoomNames,    \* the rooms of the map, in alphabetical order
  Doors,        \* the doors: sets of two adjacent rooms
  Device,       \* room -> the device in it
  Crew,         \* the hunters, in the order they boarded
  Configs,      \* the configurations the admin may set
  OrderTypes,   \* bound: the orders hunters give
  HackTypes,    \* bound: the hacks the fugitive orders
  LastRound     \* bound: no round after this one is resolved

Rooms == {RoomNames[i] : i \in DOMAIN RoomNames}
Hunters == {Crew[i] : i \in DOMAIN Crew}

Devices == {"curtain", "coffeepot", "light", "speaker"}
HunterOrders == {"move", "search", "scan", "stay"}
Hacks == {"ping", "doorlock", "distract", "blackout", "hide", "overload"}
HackDevice ==
  [ping |-> "none", doorlock |-> "none", distract |-> "speaker",
   blackout |-> "light", hide |-> "curtain", overload |-> "coffeepot"]

-----------------------------------------------------------------------------
(* The map. *)

Neighbors(r) == {q \in Rooms : {r, q} \in Doors /\ q # r}

\* The rooms within n doors of r.
Within(r) ==
  LET ball[n \in Nat] ==
        IF n = 0 THEN {r}
        ELSE LET S == ball[n - 1] IN S \cup UNION {Neighbors(q) : q \in S}
  IN  ball

\* What GameMap.validate accepts.
ValidMap ==
  /\ Rooms # {} /\ Device \in [Rooms -> Devices]
  /\ \A d \in Doors : \E r, q \in Rooms : d = {r, q} /\ Device[r] # Device[q]
  /\ \A r \in Rooms : Within(r)[Cardinality(Rooms)] = Rooms

Distance ==
  [r \in Rooms |-> [q \in Rooms |-> CHOOSE n \in 0..Cardinality(Rooms) :
                                      /\ q \in Within(r)[n]
                                      /\ \A k \in 0..(n - 1) : q \notin Within(r)[k]]]

\* The shortest ways from r to q that enter no room of avoid but q, breadth
\* first: the search goes no further once a way has arrived.
Shortest(r, q, avoid) ==
  LET arrived(W) == {w \in W : w[Len(w)] = q}
      steps(w) == {t \in Neighbors(w[Len(w)]) : t = q \/ t \notin avoid}
                    \ {w[i] : i \in DOMAIN w}
      search[n \in Nat] ==
        IF n = 0 THEN {<<r>>}
        ELSE LET W == search[n - 1]
             IN  IF arrived(W) # {} THEN arrived(W)
                 ELSE UNION {{Append(w, t) : t \in steps(w)} : w \in W}
  IN  arrived(search[Cardinality(Rooms)])

\* shortest_path: around the rooms of avoid when that is possible at all, and
\* any shortest path of the doors that remain.
ShortestPaths(r, q, avoid) ==
  LET around == Shortest(r, q, avoid)
  IN  IF around # {} THEN around ELSE Shortest(r, q, {})

ASSUME MapAssumption == ValidMap /\ IsFiniteSet(Rooms) /\ RoomNames \in Seq(Rooms)

\* A configured number is only checked to be one; that the meters, the prices
\* and the scans are not below zero is what the defaults and the sheets hold.
ASSUME ConfigAssumption ==
  \A c \in Configs :
    /\ c.ram_max \in Nat /\ c.ram_regen \in Nat
    /\ c.scan_budget \in Nat /\ c.scan_trace \in Nat /\ c.trace_passive \in Nat
    /\ c.trace_t1 \in Int /\ c.trace_t2 \in Int /\ c.trace_t3 \in Int
    /\ \A hack \in Hacks : c.cost[hack] \in Nat /\ c.trace[hack] \in Nat

ASSUME CrewAssumption == IsFiniteSet(Hunters) /\ "none" \notin Hunters /\ Crew \in Seq(Hunters)
ASSUME BoundAssumption == HackTypes \subseteq Hacks

-----------------------------------------------------------------------------
VARIABLES
  config,       \* the values in force
  status,       \* "ROUND_OPEN", "RESOLVING" (a resolution raised half way), "CAPTURED"
  round,        \* round_no
  hroom,        \* hunter -> room
  horder,       \* hunter -> order, NoOrder until one is given
  dazed,        \* hunter -> dazed_until
  room,         \* the fugitive's room
  ram, trace,   \* what his hacks cost, and what they leave behind
  forder,       \* his order; waiting is the default
  hidden,       \* hidden_until
  frozen,       \* he no longer moves
  tracedAt,     \* traced_at, 0 until the trace is complete; then hacks_disabled holds
  pinged,       \* ping_round
  locks,        \* the doors locked in this round
  decoys,       \* the rooms with a decoy in this round
  steam,        \* the rooms full of steam in this round
  blackout,     \* blackout_round = round_no
  history,      \* position_history: his room at the end of every resolution
  report        \* last_report, with the playback and the captor

crewVars == <<hroom, horder, dazed>>
fugVars == <<room, ram, trace, forder, hidden, frozen, tracedAt, pinged>>
fieldVars == <<locks, decoys, steam, blackout>>
engineVars == <<config, status, round, crewVars, fugVars, fieldVars, history, report>>

NoOrder == [type |-> "none", target |-> "none"]
Stay == [type |-> "stay", target |-> "none"]
Wait == [move |-> "none", hack |-> "none", target |-> {}]
NoReport == [round |-> 0]

Least(a, b) == IF a < b THEN a ELSE b
Index(r) == CHOOSE i \in DOMAIN RoomNames : RoomNames[i] = r

\* fugitive_start = auto: the room whose farthest room is nearest.
Eccentricity(r) == CHOOSE n \in 0..Cardinality(Rooms) :
  (\E q \in Rooms : Distance[r][q] = n) /\ (\A q \in Rooms : Distance[r][q] <= n)
Central == CHOOSE r \in Rooms : \A q \in Rooms \ {r} :
  \/ Eccentricity(r) < Eccentricity(q)
  \/ Eccentricity(r) = Eccentricity(q) /\ Index(r) < Index(q)

\* hunter_spawn_rooms = auto: the farthest rooms from the fugitive, in turn.
AutoSpawns(start) ==
  LET farther(q, r) == \/ Distance[start][q] > Distance[start][r]
                       \/ Distance[start][q] = Distance[start][r] /\ Index(q) < Index(r)
      ranked(i) == CHOOSE r \in Rooms : Cardinality({q \in Rooms : farther(q, r)}) = i
      half == Cardinality(Rooms) \div 2
      far == IF Least(Len(Crew), half) < 1 THEN 1 ELSE Least(Len(Crew), half)
  IN  [i \in DOMAIN Crew |-> ranked((i - 1) % far)]

\* new_game, which refuses to start in a room the map does not have.
EngineInit ==
  /\ config \in Configs
  /\ config.fugitive_start \in Rooms \cup {"auto"} /\ config.hunter_spawn_rooms \in Seq(Rooms)
  /\ status = "ROUND_OPEN" /\ round = 1
  /\ room = (IF config.fugitive_start = "auto" THEN Central ELSE config.fugitive_start)
  /\ LET pool == config.hunter_spawn_rooms
         spawns == IF pool = <<>> THEN AutoSpawns(room)
                   ELSE [i \in DOMAIN Crew |-> pool[((i - 1) % Len(pool)) + 1]]
     IN  hroom = [h \in Hunters |-> spawns[CHOOSE i \in DOMAIN Crew : Crew[i] = h]]
  /\ horder = [h \in Hunters |-> NoOrder] /\ dazed = [h \in Hunters |-> -1]
  /\ ram = config.ram_max /\ trace = 0 /\ forder = Wait
  /\ hidden = -1 /\ frozen = FALSE /\ tracedAt = 0 /\ pinged = -1
  /\ locks = {} /\ decoys = {} /\ steam = {} /\ blackout = FALSE
  /\ history = <<room>> /\ report = NoReport

-----------------------------------------------------------------------------
(* Orders. *)

SubmitHunterOrder(h, type, target) ==
  /\ status = "ROUND_OPEN" /\ dazed[h] < round
  /\ IF type = "move" THEN target \in Neighbors(hroom[h]) ELSE target = "none"
  /\ horder' = [horder EXCEPT ![h] = [type |-> type, target |-> target]]
  /\ UNCHANGED <<config, status, round, hroom, dazed, fugVars, fieldVars, history, report>>

HackAvailableUnpaid(hack) ==
  /\ tracedAt = 0 /\ ~frozen /\ (hack = "ping" => config.ping_enabled)
  /\ HackDevice[hack] \in {"none", Device[room]}
HackAvailable(hack) ==
  /\ tracedAt = 0 /\ ~frozen
  /\ hack = "ping" => config.ping_enabled
  /\ HackDevice[hack] \in {"none", Device[room]}
  /\ ram >= config.cost[hack]

LockableEdges ==
  IF config.doorlock_range < 0 THEN Doors
  ELSE {d \in Doors : \E r \in d : Distance[room][r] <= config.doorlock_range}

\* What can stand in the order's target: a door, a room, or nothing.
TargetsOf(hack) ==
  CASE hack = "doorlock" -> Doors
    [] hack = "distract" -> {{r} : r \in Rooms}
    [] OTHER -> {{}}

SubmitFugitiveOrder(move, hack, target) ==
  /\ status = "ROUND_OPEN"
  /\ move # "none" => ~frozen /\ move \in Rooms /\ Distance[room][move] <= config.fugitive_speed
  /\ hack # "none" => hack # "ping" /\ HackAvailable(hack)
  /\ hack = "doorlock" => target \in LockableEdges
  /\ forder' = [move |-> move, hack |-> hack, target |-> target]
  /\ UNCHANGED <<config, status, round, crewVars, room, ram, trace, hidden, frozen, tracedAt,
                 pinged, fieldVars, history, report>>

CastPing ==
  /\ status = "ROUND_OPEN" /\ pinged # round /\ HackAvailable("ping")
  /\ ram' = ram - config.cost["ping"]
  /\ trace' = Least(100, trace + config.trace["ping"])
  /\ pinged' = round
  /\ UNCHANGED <<config, status, round, crewVars, room, forder, hidden, frozen, tracedAt,
                 fieldVars, history, report>>

-----------------------------------------------------------------------------
(* resolve_round, phase by phase; every operator reads the state before it. *)

\* 0. A hunter who is dazed or gave no order stays.
OrderOf(h) == IF dazed[h] >= round \/ horder[h] = NoOrder THEN Stay ELSE horder[h]

\* 1. The quickhack, if it is still possible: what was legal when it was
\* ordered is asked again here, after the ping and the admin.
Cast == IF forder.hack # "none" /\ HackAvailable(forder.hack) THEN forder.hack ELSE "none"
CastOf(hack, set) == IF Cast = hack THEN set ELSE {}
LocksNow == locks \cup CastOf("doorlock", {forder.target})
DecoysNow == decoys \cup CastOf("distract", forder.target)
SteamNow == steam \cup CastOf("overload", {room})
BlackoutNow == blackout \/ Cast = "blackout"
HiddenUntil == IF Cast = "hide" THEN round + config.hide_duration - 1 ELSE hidden
IsHidden == HiddenUntil >= round
\* Hiding takes the move out of the order itself.
MoveNow == IF Cast = "hide" THEN "none" ELSE forder.move
RamNow == IF Cast = "none" THEN ram ELSE ram - config.cost[Cast]
Signature ==
  IF BlackoutNow \/ ~config.signature_reveal THEN "none"
  ELSE IF Cast # "none" /\ HackDevice[Cast] # "none" THEN HackDevice[Cast]
  ELSE IF pinged = round /\ config.ping_signature THEN "ping" ELSE "none"

\* 2. The hunters move; a locked door stops them.
Goal(h) ==
  IF OrderOf(h).type = "move" /\ {hroom[h], OrderOf(h).target} \notin LocksNow
    THEN OrderOf(h).target ELSE hroom[h]

\* 3. The fugitive walks, around the hunters if he can, up to a locked door.
Planned ==
  IF MoveNow = "none" \/ frozen THEN {<<room>>}
  ELSE ShortestPaths(room, MoveNow, {hroom[h] : h \in Hunters} \cup {Goal(h) : h \in Hunters})
Walked(plan) ==
  LET open(n) == \A i \in 1..(n - 1) : {plan[i], plan[i + 1]} \notin LocksNow
  IN  SubSeq(plan, 1, CHOOSE n \in 1..Len(plan) :
                        open(n) /\ \A k \in (n + 1)..Len(plan) : ~open(k))
EndOf(path) == path[Len(path)]

\* 4. Who can catch him, and how; luck is the draw of contact_capture_chance.
CatchersSeeHidden(how, path, luck) ==
  {h \in Hunters :
     CASE how = "search" -> /\ OrderOf(h).type = "search" /\ hroom[h] = EndOf(path)
                            /\ hroom[h] \notin SteamNow
       [] how = "swap" -> FALSE
       [] how = "colocate" -> config.capture_mode = "contact" /\ Goal(h) = EndOf(path)}

Catchers(how, path, luck) ==
  {h \in Hunters :
     CASE how = "search" -> /\ OrderOf(h).type = "search" /\ hroom[h] = EndOf(path)
                            /\ hroom[h] \notin SteamNow
       [] how = "swap" -> \/ \E i \in 1..(Len(path) - 1) :
                               /\ Goal(h) # hroom[h]
                               /\ {hroom[h], Goal(h)} = {path[i], path[i + 1]}
                          \/ \E i \in 2..(Len(path) - 1) : path[i] \in {hroom[h], Goal(h)}
       [] how = "colocate" -> /\ config.capture_mode = "contact" /\ ~IsHidden
                              /\ Goal(h) = EndOf(path)
                              /\ Goal(h) = hroom[h] \/ config.contact_sure \/ luck[h]}

Draws == IF config.capture_mode = "contact" THEN [Hunters -> BOOLEAN]
         ELSE {[h \in Hunters |-> FALSE]}

\* The first kind of capture that somebody makes; the shuffled order picks whom.
CapturesInRooms(path, luck) ==
  LET by(how) == {<<h, how>> : h \in Catchers(how, path, luck)}
  IN  IF by("search") # {} THEN by("search")
      ELSE IF by("colocate") # {} THEN by("colocate") ELSE {<<"none", "none">>}
Captures(path, luck) ==
  LET by(how) == {<<h, how>> : h \in Catchers(how, path, luck)}
  IN  IF by("search") # {} THEN by("search")
      ELSE IF by("swap") # {} THEN by("swap")
      ELSE IF by("colocate") # {} THEN by("colocate") ELSE {<<"none", "none">>}

\* 4b, 4c. Searched in vain; seen without being caught.
SearchedEmpty(captor) ==
  {hroom[h] : h \in {g \in Hunters \ {captor} : /\ OrderOf(g).type = "search"
                                                 /\ hroom[g] \notin SteamNow}}
Seen(path, captor) ==
  IF /\ captor = "none" /\ ~IsHidden
     /\ config.capture_mode = "contact" \/ EndOf(path) \notin SteamNow
     /\ \E h \in Hunters : Goal(h) = EndOf(path)
    THEN {EndOf(path)} ELSE {}
DazedNow == [h \in Hunters |-> IF Goal(h) \in SteamNow THEN round + config.overload_daze_rounds
                               ELSE dazed[h]]

\* 5. Every scan within the budget reads the same room.
Scans ==
  LET asked == Cardinality({h \in Hunters : OrderOf(h).type = "scan"})
  IN  IF BlackoutNow /\ config.blackout_blocks_scan THEN 0 ELSE Least(asked, config.scan_budget)
Scanned(path) ==
  IF Scans = 0 THEN "none" ELSE Device[IF config.scan_lag >= 1 THEN room ELSE EndOf(path)]

\* 6, 8. Trace, RAM and the safety net.
TraceNow == Least(100, trace + (IF Cast = "none" THEN 0 ELSE config.trace[Cast])
                       + Scans * config.scan_trace + config.trace_passive)
TracedNow == IF tracedAt = 0 /\ TraceNow >= config.trace_t3 THEN round ELSE tracedAt
FrozenThisRound == round >= config.max_rounds
FrozenByTrace == frozen \/ (TracedNow # 0 /\ round - TracedNow >= config.overheat_rounds)
FrozenNow ==
  \/ frozen \/ round >= config.max_rounds
  \/ TracedNow # 0 /\ round - TracedNow >= config.overheat_rounds

\* 7. What the tracker shows.
Tier == CASE TraceNow >= config.trace_t3 -> 3
          [] TraceNow < config.trace_t3 /\ TraceNow >= config.trace_t2 -> 2
          [] TraceNow < config.trace_t3 /\ TraceNow < config.trace_t2 -> IF TraceNow >= config.trace_t1 THEN 1 ELSE 0
Lag == IF FrozenNow THEN 0 ELSE 3 - Tier
Markers(path) ==
  LET places == Append(history, EndOf(path))
      at == Len(places) - Lag
  IN  IF BlackoutNow THEN {}
      ELSE DecoysNow \cup (IF (Tier > 0 \/ FrozenNow) /\ at >= 1 THEN {places[at]} ELSE {})
Nearest(path) ==
  CHOOSE n \in 0..Cardinality(Rooms) :
    /\ \E h \in Hunters : Distance[Goal(h)][EndOf(path)] = n
    /\ \A h \in Hunters : Distance[Goal(h)][EndOf(path)] >= n
SignalBand(n) ==
  IF n <= config.signal_bands[1] THEN "strong"
  ELSE IF n <= config.signal_bands[2] THEN "medium" ELSE "weak"
ReadsBands == ~BlackoutNow /\ config.signal_mode # "off"
Signal(path) == IF BlackoutNow THEN "noise"
                ELSE IF config.signal_mode = "off" THEN "none" ELSE SignalBand(Nearest(path))

ReportOf(path, captor, how) ==
  [round |-> round, from |-> hroom, to |-> [h \in Hunters |-> Goal(h)], path |-> path,
   captor |-> captor, how |-> how, tier |-> Tier, signal |-> Signal(path),
   signature |-> Signature, markers |-> Markers(path), blackout |-> BlackoutNow,
   seen |-> Seen(path, captor), empty |-> SearchedEmpty(captor), scan |-> Scanned(path)]

\* 9. What is committed, whatever comes of the report.
Commit(path) ==
  /\ hroom' = [h \in Hunters |-> Goal(h)] /\ dazed' = DazedNow
  /\ room' = EndOf(path) /\ history' = Append(history, EndOf(path))
  /\ ram' = Least(config.ram_max, RamNow + config.ram_regen) /\ trace' = TraceNow
  /\ hidden' = HiddenUntil /\ frozen' = FrozenNow /\ tracedAt' = TracedNow
  /\ UNCHANGED <<config, pinged>>

ResolveRound ==
  /\ status \in {"ROUND_OPEN", "RESOLVING"} /\ round <= LastRound
  /\ ReadsBands => config.signal_bands # <<>>
  /\ \E plan \in Planned, luck \in Draws :
       LET path == Walked(plan) IN
       \E capture \in Captures(path, luck) :
         /\ Commit(path)
         /\ report' = ReportOf(path, capture[1], capture[2])
         /\ IF capture[1] # "none"
              THEN /\ status' = "CAPTURED"
                   /\ horder' = [h \in Hunters |-> OrderOf(h)]
                   /\ forder' = [forder EXCEPT !.move = MoveNow]
                   /\ locks' = LocksNow /\ decoys' = DecoysNow
                   /\ steam' = SteamNow /\ blackout' = BlackoutNow
                   /\ UNCHANGED round
              ELSE /\ status' = "ROUND_OPEN" /\ round' = round + 1
                   /\ horder' = [h \in Hunters |-> NoOrder] /\ forder' = Wait
                   /\ locks' = {} /\ decoys' = {} /\ steam' = {} /\ blackout' = FALSE

\* signal_bands is a string the engine splits when it needs it: one that is
\* not two numbers (here <<>>) raises after the commit and before the report,
\* and the round is resolved again when somebody asks.
ResolveRaises ==
  /\ status \in {"ROUND_OPEN", "RESOLVING"} /\ round <= LastRound
  /\ Len(history) <= LastRound + 1
  /\ ReadsBands /\ config.signal_bands = <<>>
  /\ \E plan \in Planned : Commit(Walked(plan))
  /\ status' = "RESOLVING"
  /\ horder' = [h \in Hunters |-> OrderOf(h)]
  /\ forder' = [forder EXCEPT !.move = MoveNow]
  /\ locks' = LocksNow /\ decoys' = DecoysNow /\ steam' = SteamNow /\ blackout' = BlackoutNow
  /\ UNCHANGED <<round, report>>

\* game.py set_config: any value, at any time.
SetEngineConfig(c) ==
  /\ c # config /\ config' = c
  /\ UNCHANGED <<status, round, crewVars, fugVars, fieldVars, history, report>>

HunterTargets == Rooms \cup {"none"}
FugitiveTargets == UNION {TargetsOf(hack) : hack \in Hacks}

EngineNext ==
  \/ \E h \in Hunters, type \in OrderTypes, target \in HunterTargets :
       SubmitHunterOrder(h, type, target)
  \/ \E move \in HunterTargets, hack \in HackTypes \cup {"none"} :
       \E target \in TargetsOf(hack) : SubmitFugitiveOrder(move, hack, target)
  \/ CastPing
  \/ ResolveRound
  \/ ResolveRaises
  \/ \E c \in Configs : SetEngineConfig(c)

EngineSpec == EngineInit /\ [][EngineNext]_engineVars

-----------------------------------------------------------------------------
(* Properties. *)

\* RAM is spent in three places (the ping at once, the hack when the round is
\* resolved, again when a resolution is repeated) against a price the admin may
\* change in between: it is never overdrawn.
RamNeverOverdrawn == ram >= 0

\* The pursuit is one way: the trace never falls, the round in which it was
\* completed stays, no hack is paid from then on, and a frozen fugitive never
\* moves again, whatever order he had given and however the round is repeated.
PursuitIsOneWay ==
  [][/\ trace' >= trace
     /\ tracedAt # 0 => tracedAt' = tracedAt /\ (ram' >= ram \/ ram' = config.ram_max)
     /\ frozen => frozen' /\ room' = room]_engineVars

\* A capture needs contact: the captor began or ended the round in a room of
\* the fugitive's path, and neither steam-blind search nor hiding in place lets
\* a hunter who merely walked in take him.
CaptureIsContact ==
  status = "CAPTURED" =>
    /\ \E i \in DOMAIN report.path : report.path[i] \in {report.from[report.captor], report.to[report.captor]}
    /\ hidden >= round /\ Len(report.path) = 1 => report.how = "search"

\* Nobody slips by: while the chase goes on, no hunter and the fugitive have
\* exchanged rooms in the round just reported, and no hunter stood or arrived
\* where the fugitive only passed through.
NobodySlipsBy ==
  report.round # 0 /\ report.captor = "none" =>
    \A h \in Hunters :
      /\ ~(report.from[h] # report.to[h] /\ report.from[h] = EndOf(report.path)
             /\ report.to[h] = report.path[1] /\ Len(report.path) = 2)
      /\ \A i \in 2..(Len(report.path) - 1) : report.path[i] \notin {report.from[h], report.to[h]}
=============================================================================
