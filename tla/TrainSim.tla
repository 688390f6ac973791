------------------------------ MODULE TrainSim ------------------------------
(***************************************************************************)
(* The Monte Carlo player of the train game, server/app/train/sim.py: one  *)
(* game played on the rule engine by a crew that shares a brain (the set   *)
(* of rooms where the fugitive may be, narrowed by every public report)    *)
(* and a scripted fugitive.  The loop of play() is cut into its three      *)
(* calls on the engine; every draw of the generator is a choice.           *)
(***************************************************************************)
EXTENDS TrainEngine

VARIABLES
  style,        \* "hacker", or "stealth": no hacks
  phase,        \* the next call of the loop: "fugitive", "hunters", "resolve"
  candidates,   \* HunterBrain.candidates
  suspect       \* HunterBrain.hide_suspect, kept at 0 once it is not positive

simVars == <<engineVars, style, phase, candidates, suspect>>

SimInit ==
  EngineInit /\ style \in {"hacker", "stealth"} /\ phase = "fugitive" /\ candidates = Rooms /\ suspect = 0

\* The rooms within n doors of a set of rooms.
Grow(S, n) == {q \in Rooms : \E r \in S : Distance[r][q] <= n}
Minimal(S, cost(_)) == {r \in S : \A q \in S : cost(r) <= cost(q)}
Maximal(S, value(_)) == {r \in S : \A q \in S : value(r) >= value(q)}

-----------------------------------------------------------------------------
(* The scripted fugitive: fugitive_order. *)

CrewRooms == {hroom[h] : h \in Hunters}
Threat(r) == CHOOSE n \in 0..Cardinality(Rooms) :
  (\E q \in CrewRooms : Distance[r][q] = n) /\ (\A q \in CrewRooms : Distance[r][q] >= n)

\* The rooms he can reach without stepping next to a hunter.
SafeArea(r) ==
  LET safe[n \in Nat] ==
        IF n = 0 THEN {r}
        ELSE LET S == safe[n - 1]
             IN  S \cup {q \in UNION {Neighbors(s) : s \in S} : Threat(q) >= 2}
  IN  Cardinality(safe[Cardinality(Rooms)])

\* Ten times the score without its random part, which adds less than 10.
Score(r) == IF r \in CrewRooms THEN -1000
            ELSE 30 * Threat(r) + 5 * SafeArea(r) + 3 * Cardinality(Neighbors(r))
Refuges ==
  LET options == {r \in Rooms : Distance[room][r] <= config.fugitive_speed}
  IN  IF options \subseteq CrewRooms THEN options
      ELSE LET score == [r \in options |-> Score(r)]
           IN  {r \in options \ CrewRooms : \A q \in options : score[q] - score[r] < 10}

Affords(hack) == ram >= config.cost[hack]
AdjacentThreat == Cardinality({h \in Hunters : Distance[room][hroom[h]] <= 1})
NearestCrew == Minimal(CrewRooms, LAMBDA r : Distance[room][r])

\* What he may order: the branches of the code, each with the hack and target.
HackChoices ==
  LET hides == /\ Device[room] = "curtain" /\ AdjacentThreat >= 2 /\ Affords("hide")
               /\ config.capture_mode = "contact"
      bars == AdjacentThreat >= 1 /\ Affords("doorlock")
      idle == {<<"none", {}>>}
  IN  IF style = "stealth" \/ tracedAt # 0 THEN idle
      ELSE IF hides THEN {<<"hide", {}>>}
      ELSE IF bars
        THEN {IF q \in Neighbors(room) THEN <<"doorlock", {q, room}>> ELSE <<"none", {}>> : q \in NearestCrew}
      ELSE CASE Device[room] = "light" /\ Threat(room) <= 2 /\ Affords("blackout") -> {<<"blackout", {}>>}
             [] Device[room] = "speaker" /\ Affords("distract") ->
                  idle \cup {<<"distract", {q}>> : q \in Maximal(Rooms, LAMBDA r : Distance[room][r])}
             [] Device[room] = "coffeepot" /\ AdjacentThreat >= 1 /\ Affords("overload") -> {<<"overload", {}>>}
             [] OTHER -> idle

FugitiveGoals ==
  IF frozen THEN {<<"none", "none", {}>>}
  ELSE {LET stays == best = room \/ choice[1] = "hide"
        IN  <<IF stays THEN "none" ELSE best, choice[1], choice[2]>>
          : best \in Refuges, choice \in HackChoices}

\* An order the engine refuses is given again without the hack.
SimFugitive ==
  /\ phase = "fugitive" /\ phase' = "hunters"
  /\ \E goal \in FugitiveGoals :
       IF /\ goal[2] # "none" => HackAvailable(goal[2])
          /\ goal[2] = "doorlock" => goal[3] \in LockableEdges
         THEN SubmitFugitiveOrder(goal[1], goal[2], goal[3])
         ELSE SubmitFugitiveOrder(goal[1], "none", {})
  /\ UNCHANGED <<style, candidates, suspect>>

-----------------------------------------------------------------------------
(* The crew: HunterBrain.orders, hunter after hunter. *)

Give(plan, h, type, target) ==
  [plan EXCEPT !.given[h] = [type |-> type, target |-> target]]

\* Towards a nearest candidate nobody has claimed, or search when already there.
Advances(plan, h) ==
  LET free == IF candidates \subseteq plan.claimed THEN candidates ELSE candidates \ plan.claimed
      goals == Minimal(free, LAMBDA r : Distance[hroom[h]][r])
      claim(goal) == [plan EXCEPT !.claimed = @ \cup {goal}]
  IN  UNION {IF goal = hroom[h] THEN {Give(claim(goal), h, "search", "none")}
             ELSE {Give(claim(goal), h, "move", step)
                     : step \in Minimal(Neighbors(hroom[h]), LAMBDA n : Distance[n][goal])}
               : goal \in goals}

Choices(plan, h) ==
  IF dazed[h] >= round THEN {plan}
  ELSE IF hroom[h] \in candidates /\ (suspect > 0 \/ Cardinality(candidates) <= 2)
    THEN {Give(plan, h, "search", "none")}
  ELSE Advances(plan, h)
         \cup (IF Cardinality(candidates) > 4 /\ plan.scans < config.scan_budget
                 THEN {Give([plan EXCEPT !.scans = @ + 1], h, "scan", "none")} ELSE {})

Plans ==
  LET made[i \in 0..Len(Crew)] ==
        IF i = 0 THEN {[given |-> horder, scans |-> 0, claimed |-> {}]}
        ELSE UNION {Choices(plan, Crew[i]) : plan \in made[i - 1]}
  IN  made[Len(Crew)]

SimHunters ==
  /\ phase = "hunters" /\ phase' = "resolve"
  /\ \E plan \in Plans : horder' = plan.given
  /\ UNCHANGED <<config, status, round, hroom, dazed, fugVars, fieldVars, history, report,
                 style, candidates, suspect>>

-----------------------------------------------------------------------------
(* What the crew learns: HunterBrain.observe. *)

Narrow(S, T) == IF S \cap T = {} THEN S ELSE S \cap T

\* A hack gives away the device of the room it was cast in.
AfterSignature(rep) ==
  LET cast == {r \in candidates : Device[r] = rep.signature}
  IN  IF rep.signature \in {"none", "ping"} THEN Grow(candidates, config.fugitive_speed)
      ELSE IF rep.signature = "curtain" THEN cast ELSE Grow(cast, config.fugitive_speed)
AfterSight(rep, S) == IF rep.seen # {} THEN Grow(rep.seen, 1) ELSE S
AfterScanNow(rep, S) == IF rep.scan = "none" THEN S ELSE {r \in S : Device[r] = rep.scan}
AfterScan(rep, S) ==
  LET read(T) == {r \in T : Device[r] = rep.scan}
  IN  IF rep.scan = "none" THEN S
      ELSE IF config.scan_lag >= 1 THEN S \cap Grow(read(candidates), config.fugitive_speed)
      ELSE read(S)
AfterSignal(rep, S) ==
  LET near(r) == CHOOSE n \in 0..Cardinality(Rooms) :
        (\E h \in Hunters : Distance[r][rep.to[h]] = n) /\ (\A h \in Hunters : Distance[r][rep.to[h]] >= n)
  IN  IF rep.signal \in {"noise", "none"} THEN S
      ELSE {r \in S : SignalBand(near(r)) = rep.signal}

\* The markers in the order they are listed: the growth of the first ones is
\* repeated for each that follows.
AfterMarkers(rep, last, S) ==
  LET near == IF rep.tier = 1 THEN Grow(rep.markers \ {last}, 3) \cup Grow({last}, 2)
              ELSE Grow(rep.markers, 1)
  IN  IF rep.markers = {} \/ rep.tier = 0 THEN S
      ELSE IF rep.tier = 3 THEN rep.markers ELSE Narrow(S, near)

HideSuspect(rep) == IF rep.signature = "curtain" THEN 2 ELSE suspect
AfterRooms(rep, S) ==
  IF config.capture_mode = "search" THEN S \ rep.empty
  ELSE IF HideSuspect(rep) <= 0 THEN S \ {rep.to[h] : h \in Hunters} ELSE S

\* When nothing fits, everything is possible again.
OrAnywhere(S) == IF S = {} THEN Rooms ELSE S

Observe(rep) ==
  IF rep.blackout
    THEN candidates' = Grow(candidates, config.fugitive_speed) /\ UNCHANGED suspect
    ELSE /\ \E last \in (IF rep.markers = {} THEN {"none"} ELSE rep.markers) :
              LET heard == AfterSignal(rep, AfterScan(rep, AfterSight(rep, AfterSignature(rep))))
                  left == AfterRooms(rep, AfterMarkers(rep, last, heard))
              IN  candidates' = OrAnywhere(left)
         /\ suspect' = (IF HideSuspect(rep) > 0 THEN HideSuspect(rep) - 1 ELSE 0)

SimResolve ==
  /\ phase = "resolve" /\ ResolveRound
  /\ Observe(report')
  /\ UNCHANGED style
  /\ phase' = IF status' = "CAPTURED" THEN "over" ELSE "fugitive"

SimNext == SimFugitive \/ SimHunters \/ SimResolve
SimSpec == SimInit /\ [][SimNext]_simVars /\ WF_simVars(SimNext)

-----------------------------------------------------------------------------
(* Properties. *)

\* In the first round a lagging marker has no room to show yet, and the brain
\* would take a decoy for it.  That takes a start beside a speaker and a trace
\* that reaches the first tier at once; the defaults stay far below it.
FirstMarkerIsHis ==
  \/ Device[history[1]] # "speaker"
  \/ config.trace["distract"] + (config.scan_budget * config.scan_trace + config.trace_passive) < config.trace_t1
WrittenFor == config.capture_mode = "search" /\ config.fugitive_speed = 1

\* The crew's inference is sound: with the rules it was written for (search
\* mode, one door a round, no marker before there is a trail) the fugitive is
\* always in one of the rooms the brain still considers, through signatures,
\* decoys, lagging markers, blackouts, sightings and scans.
BrainIsSound ==
  WrittenFor /\ FirstMarkerIsHis /\ status # "CAPTURED" => room \in candidates

\* Every game is decided: the fugitive is caught or frozen where he stands.
ChaseEnds == <>(status = "CAPTURED" \/ frozen)
=============================================================================
