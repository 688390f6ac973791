----------------------------- MODULE MineFloors -----------------------------
(***************************************************************************)
(* The mine through its days: server/app/mine.py, routers/mine.py, the     *)
(* minute tick of main.py and what /ws asks of the mine.                   *)
(*                                                                         *)
(* Requests run in worker threads and their transactions one after the     *)
(* other; a press of the pickaxe looks for the avatar first and opens its  *)
(* transaction later, and midnight, other people's presses and the         *)
(* avatar's own walking may come in between.  A floor is laid out when it  *)
(* is first asked for on a day.  A node is named by its day, its floor and *)
(* its cell (the code numbers them).                                       *)
(*                                                                         *)
(* Left out: the rate limit and the cooldown, which only refuse; the money *)
(* (SharedPool credits it); a kind of ore that has left the configuration, *)
(* which answers node_gone for ever (its clearing is rolled back).         *)
(***************************************************************************)
EXTENDS MineLayout

CONSTANTS
  Miners,
  Watched,       \* bound: the miner whose client is followed
  Drawn(_),      \* bound: floor -> the layouts the random generator picks from
  MaxDay,        \* bound: the last day
  NoFloor,       \* no layout today
  NoCell,        \* no ladder
  NoPress,       \* no request under way
  Outside        \* an avatar in another room

\* A floor of today.
FloorStates ==
  [nodes : SUBSET [at : Int \X Int, kind : Kinds, ladder : BOOLEAN, left : Nat, paid : Nat], ladder : (Int \X Int) \cup {NoCell}]

ASSUME DrawnAssumption == /\ \A f \in 1 .. Floors : Drawn(f) # {} /\ Drawn(f) \subseteq Layouts(f)
                          /\ MaxDay \in Nat \ {0} /\ Watched \in Miners /\ NoCell \notin Int \X Int /\ NoFloor \notin FloorStates

VARIABLES
  day,       \* the KST day
  floors,    \* today's floors: the nodes with the hits they have left and how often they have paid, the open ladder
  deepest,   \* room_meta mine_deepest
  at,        \* avatar -> the floor it is on
  press,     \* miner -> the request that has found his avatar: the node
  shown,     \* the day of the floor the watched client draws, 0 while it asks for one
  lastDay,   \* Mine.last_day: the day the tick saw last, 0 after a start
  tick,      \* where the tick is: resting, or between its transaction and its message
  stepped    \* the floors whose ladder was open on some day

mineVars == <<day, floors, deepest, at, press, shown, lastDay, tick, stepped>>

-----------------------------------------------------------------------------
NewFloor(l) ==
  [nodes |-> {[at |-> n.at, kind |-> n.kind, ladder |-> n.ladder, left |-> OreHits[n.kind], paid |-> 0] : n \in l.nodes},
   ladder |-> NoCell]

\* ensure_floor: nothing when the floor has been laid out today.
Ensure(f) ==
  \/ floors[f] # NoFloor /\ floors' = floors
  \/ floors[f] = NoFloor /\ \E l \in Drawn(f) : floors' = [floors EXCEPT ![f] = NewFloor(l)]

LadderOpen(f) == f \in 1 .. Floors /\ floors[f] # NoFloor /\ floors[f].ladder # NoCell
CanEnter(f) == f \in 1 .. Floors /\ (f <= deepest \/ LadderOpen(f - 1))

\* GET /api/mine/floor/{floor}, by anybody; a client draws the floor its avatar is on.
GetFloor(f) ==
  /\ CanEnter(f) /\ Ensure(f)
  /\ shown' = IF at[Watched] = f THEN day ELSE shown
  /\ UNCHANGED <<day, deepest, at, press, lastDay, tick, stepped>>

\* /ws enter: the floor counts as reached from now on.
OpenFloor(f) == deepest' = IF f > deepest THEN f ELSE deepest
EnterFloor(p, f) ==
  /\ at[p] # f /\ CanEnter(f) /\ OpenFloor(f) /\ at' = [at EXCEPT ![p] = f]
  /\ shown' = IF p = Watched THEN 0 ELSE shown
  /\ UNCHANGED <<day, floors, press, lastDay, tick, stepped>>

LeaveMine(p) ==
  /\ at[p] # Outside /\ at' = [at EXCEPT ![p] = Outside] /\ shown' = IF p = Watched THEN 0 ELSE shown
  /\ UNCHANGED <<day, floors, deepest, press, lastDay, tick, stepped>>

-----------------------------------------------------------------------------
(* POST /api/mine/hit. *)

\* The avatar is looked up, and with it the cell it stands on, which stays the
\* request's; a press from another floor, or out of reach of the node, will be refused.
Press(p, f, n) ==
  /\ press[p] = NoPress /\ floors[f] # NoFloor /\ n \in floors[f].nodes /\ at[p] = f
  /\ \E foot \in Cell : InReach(foot, n.at)
  /\ press' = [press EXCEPT ![p] = [day |-> day, floor |-> f, at |-> n.at]]
  /\ UNCHANGED <<day, floors, deepest, at, shown, lastDay, tick, stepped>>

Named(r) == {n \in floors[r.floor].nodes : n.at = r.at}
\* (for a mutant: a broken node still pays)
StandingOrBroken(r) == r.day = day
Standing(r) == r.day = day /\ \E n \in Named(r) : n.left > 0
PressAnswered(p) == press' = [press EXCEPT ![p] = NoPress]

\* not_here or node_gone: the transaction is rolled back.
Refused(p) ==
  LET r == press[p] IN
  /\ r # NoPress /\ (at[p] # r.floor \/ ~Standing(r))
  /\ PressAnswered(p) /\ UNCHANGED <<day, floors, deepest, at, shown, lastDay, tick, stepped>>

Pays(n) == IF OreValue[n.kind] > 0 THEN 1 ELSE 0
HitNode(n) == LET left == IF n.left > 1 THEN n.left - 1 ELSE 0
              IN [n EXCEPT !.left = left, !.paid = @ + (IF left = 0 THEN Pays(n) ELSE 0)]

\* A node without value that breaks may open the ladder, once a day on a floor that is not the last.
MayOpen(f, n) == /\ OreValue[n.kind] = 0 /\ n.left <= 1 /\ f < Floors
                 /\ floors[f].ladder = NoCell
\* (for a mutant: the ladder is the first one that came up)
OpensByChance(f, n) == IF MayOpen(f, n) THEN {LadderCell(n), floors[f].ladder} ELSE {floors[f].ladder}
Opens(f, n) ==
  IF MayOpen(f, n) THEN {LadderCell(n)} \cup {c \in {floors[f].ladder} : ~n.ladder} ELSE {floors[f].ladder}

Hit(p) ==
  LET r == press[p] IN
  /\ r # NoPress /\ at[p] = r.floor /\ Standing(r)
  /\ \E n \in Named(r) : \E ladder \in Opens(r.floor, n) :
       /\ floors' = [floors EXCEPT ![r.floor] = [nodes |-> (@.nodes \ {n}) \cup {HitNode(n)}, ladder |-> ladder]]
       /\ stepped' = stepped \cup {f \in {r.floor} : ladder # NoCell}
  /\ PressAnswered(p) /\ UNCHANGED <<day, deepest, at, shown, lastDay, tick>>

-----------------------------------------------------------------------------
(* The day and the process. *)

\* Yesterday's nodes stay in their table, and no transaction of today finds them standing.
Midnight ==
  /\ day < MaxDay /\ day' = day + 1 /\ floors' = [f \in 1 .. Floors |-> NoFloor]
  /\ UNCHANGED <<deepest, at, press, shown, lastDay, tick, stepped>>

\* spawn_mine: the first floor in a transaction ...
SpawnMine ==
  /\ tick = "rests" /\ Ensure(1) /\ tick' = "laid"
  /\ UNCHANGED <<day, deepest, at, press, shown, lastDay, stepped>>

\* (for a mutant: the reset is told only if the floors were laid anew)
ResetsWhenLaid == lastDay # 0 /\ lastDay # day /\ floors[1] = NoFloor
\* ... and then mine_reset for the clients, whose answer is to ask for their floor
\* again.  The day is read anew: midnight may have come in between.
Resets == lastDay # 0 /\ lastDay # day
TellReset ==
  /\ tick = "laid" /\ tick' = "rests" /\ lastDay' = day
  /\ shown' = IF Resets /\ at[Watched] # Outside THEN 0 ELSE shown
  /\ UNCHANGED <<day, floors, deepest, at, press, stepped>>

\* The process dies and starts: it lays out the first floor before anybody can
\* come back (and sees the day), the sockets and the requests are gone.
MineRestart ==
  /\ press' = [p \in Miners |-> NoPress] /\ at' = [p \in Miners |-> Outside] /\ shown' = 0
  /\ Ensure(1) /\ tick' = "rests" /\ lastDay' = day
  /\ UNCHANGED <<day, deepest, stepped>>

\* The process is up, and midnight was a moment ago.
MineInit ==
  /\ day = 1 /\ deepest = 1 /\ stepped = {} /\ tick = "rests" /\ lastDay = 1
  /\ floors = [f \in 1 .. Floors |-> NoFloor]
  /\ at = [p \in Miners |-> Outside] /\ press = [p \in Miners |-> NoPress] /\ shown = 0

MineNext ==
  \/ \E p \in Miners : LeaveMine(p) \/ Refused(p) \/ Hit(p)
  \/ \E f \in 1 .. Floors : GetFloor(f) \/ \E p \in Miners : EnterFloor(p, f)
  \/ \E p \in Miners, f \in 1 .. Floors : floors[f] # NoFloor /\ \E n \in floors[f].nodes : Press(p, f, n)
  \/ Midnight \/ SpawnMine \/ TellReset \/ MineRestart

MineSpec == MineInit /\ [][MineNext]_mineVars

\* The minute tick goes on, and a client that is told, or has walked, asks for its floor.
MineFairness ==
  /\ WF_mineVars(SpawnMine) /\ WF_mineVars(TellReset)
  /\ WF_mineVars(shown = 0 /\ \E f \in 1 .. Floors : at[Watched] = f /\ GetFloor(f))

-----------------------------------------------------------------------------
(* Properties. *)

\* However many people hit a node at once, repeat a request or hit it on after it
\* broke: it has paid once if it is broken and worth something, and else not at
\* all (mine.hit checks mined_by inside the transaction).
BrokenPaysOnce ==
  \A f \in 1 .. Floors : floors[f] # NoFloor =>
    \A n \in floors[f].nodes : n.paid = IF n.left = 0 THEN Pays(n) ELSE 0

\* Nobody can mine a floor into a dead end: while its ladder is not open, the
\* node that hides it still stands (README: one ladder per floor is certain).
AlwaysAWayDown ==
  \A f \in 1 .. Floors - 1 : floors[f] # NoFloor =>
    floors[f].ladder # NoCell \/ \E n \in floors[f].nodes : n.ladder /\ n.left > 0

\* No floor is skipped: whoever is on a floor, and every floor the map offers,
\* was reached by ladders that had been opened on all the floors above.
FloorsAreEarned ==
  /\ \A f \in 1 .. deepest - 1 : f \in stepped
  /\ \A p \in Miners : at[p] # Outside => at[p] <= deepest
  /\ \A f \in 2 .. Floors : floors[f] # NoFloor => f - 1 \in stepped

\* The way down: no floor ends in a dead end and none is skipped, through presses
\* that cross midnight or another's press, new layouts every day and restarts.
DescentIsSound == AlwaysAWayDown /\ FloorsAreEarned

\* Nobody is left in yesterday's mine: whose client draws a floor of an earlier
\* day sees today's in the end, or leaves, or loses the connection (main.py keeps
\* the day in memory since a request after midnight may have laid out floor 1).
MorningComes == at[Watched] # Outside /\ shown < day ~> at[Watched] = Outside \/ shown = day
=============================================================================
