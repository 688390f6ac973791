----------------------------- MODULE TrainRounds -----------------------------
(***************************************************************************)
(* What the session manager promises the people who play: one game at a    *)
(* time, a crew that is fixed once the game starts, rounds in order,       *)
(* orders that are in until they are withdrawn or the round is resolved.   *)
(* There is no lock, no database, no task and no crash here: a player      *)
(* never sees one.  TrainSession implements this (TrainRefinement).        *)
(***************************************************************************)
EXTENDS Naturals

CONSTANTS Ids,    \* people and bots that may be in a crew
          Crews   \* the crews a game may start with

VARIABLES phase, crew, round, ready

game == <<phase, crew, round, ready>>

Init == phase = "IDLE" /\ crew = {} /\ round = 0 /\ ready = {}

OpenLobby ==
  /\ phase = "IDLE" /\ phase' = "LOBBY"
  /\ UNCHANGED <<crew, round, ready>>

ChangeCrew ==
  /\ phase = "LOBBY" /\ crew' \in SUBSET Ids
  /\ UNCHANGED <<phase, round, ready>>

Start ==
  /\ phase = "LOBBY" /\ crew \in Crews
  /\ phase' = "ROUND_OPEN" /\ round' = 1
  /\ UNCHANGED <<crew, ready>>

Submit ==
  /\ phase = "ROUND_OPEN"
  /\ \E h \in crew : ready' = ready \cup {h}
  /\ UNCHANGED <<phase, crew, round>>

Withdraw ==
  /\ phase = "ROUND_OPEN"
  /\ \E h \in crew : ready' = ready \ {h}
  /\ UNCHANGED <<phase, crew, round>>

Pause ==
  /\ phase = "ROUND_OPEN" /\ phase' = "PAUSED"
  /\ UNCHANGED <<crew, round, ready>>

Resume ==
  /\ phase = "PAUSED" /\ phase' = "ROUND_OPEN"
  /\ UNCHANGED <<crew, round, ready>>

\* A resolved round is followed by the next one, for which nobody has submitted, or by the capture.
Resolve ==
  /\ phase \in {"ROUND_OPEN", "PAUSED"}
  /\ \/ phase' = "ROUND_OPEN" /\ round' = round + 1 /\ ready' = {}
     \/ phase' = "CAPTURED" /\ round' = round /\ ready' = crew
  /\ UNCHANGED crew

Close ==
  /\ phase # "IDLE"
  /\ phase' = "IDLE" /\ crew' = {} /\ round' = 0 /\ ready' = {}

Next ==
  \/ OpenLobby \/ ChangeCrew \/ Start
  \/ Submit \/ Withdraw \/ Pause \/ Resume
  \/ Resolve \/ Close

Spec == Init /\ [][Next]_game
=============================================================================
