------------------------ MODULE TrainSessionProofs ------------------------
(***************************************************************************)
(* Proofs about TrainSession for every value of its constants: the type    *)
(* invariant, and the inductive invariant that ties the game in memory,    *)
(* the rows of train_games, the deadline task and the lock together; and   *)
(* then what happens inside a round: its clocks, its votes, its early end, *)
(* and who may be in the crew.                                             *)
(*                                                                         *)
(* What happens inside a round is said of one game: the one in memory, or  *)
(* the one the next start will load (Current).  IInv makes the two the     *)
(* same but for the configuration, so that a crash changes nothing.        *)
(*                                                                         *)
(* Last, TrainSession implements TrainRounds (TrainRefinement): its first  *)
(* state maps to an abstract first state, and each of its steps to one     *)
(* abstract step or to none.                                               *)
(***************************************************************************)
EXTENDS TrainRefinement, FiniteSetTheorems, TLAPS

-----------------------------------------------------------------------------
(* Every game record a handler computes is a game record. *)

LEMMA NoVotesType == NoVotes \in [Ids -> SUBSET Ids]
  BY DEF NoVotes

LEMMA NoTimeType == NoTime \in Times /\ NoTime \in Spans
  BY DEF NoTime, Times, Spans

LEMMA StatusTypes ==
  /\ "IDLE" \in Statuses /\ "LOBBY" \in Statuses /\ "ROUND_OPEN" \in Statuses
  /\ "PAUSED" \in Statuses /\ "CAPTURED" \in Statuses /\ "ENDED" \in Statuses
  BY DEF Statuses

LEMMA NoGameType == NoGame \in Game /\ NoGame.status = "IDLE"
  <1>1. 0 \in Times /\ 0 \in Nat /\ {} \in SUBSET Ids
    BY DEF Times
  <1> QED BY <1>1, NoVotesType, NoTimeType, StatusTypes DEF NoGame, Game

LEMMA RetiredType ==
  ASSUME NEW x PROVE Retired(x) \in Game /\ Retired(x).status = "ENDED"
  BY NoGameType, StatusTypes DEF Retired, Game

LEMMA NewGameType ==
  ASSUME NEW n \in HunterCounts, NEW ai \in BOOLEAN
  PROVE  /\ NewGame(n, ai) \in Game /\ NewGame(n, ai).status = "LOBBY"
         /\ NewGame(n, ai).lobby = {} /\ NewGame(n, ai).orders = {} /\ NewGame(n, ai).round_no = 0
  <1>1. n \in Nat
    BY SessionAssumption
  <1>2. NewGame(n, ai) \in Game
    BY <1>1, NoGameType, StatusTypes DEF NewGame, Game
  <1> QED BY <1>2 DEF NewGame, NoGame

LEMMA DeadlineType ==
  ASSUME NEW x \in Game PROVE EffectiveDeadline(x) \in Int
  BY DEF EffectiveDeadline, MinOf, Game, Times

LEMMA OpenedType ==
  ASSUME NEW x \in Game, now \in Nat
  PROVE  Opened(x) \in Game /\ Opened(x).status = "ROUND_OPEN"
  <1>1. now \in Times /\ now + RoundTimer \in Times
    BY SessionAssumption DEF Times
  <1> QED BY <1>1, NoVotesType, NoTimeType, StatusTypes DEF Opened, Game

LEMMA PausedType ==
  ASSUME NEW x \in Game, now \in Nat
  PROVE  Paused(x) \in Game /\ Paused(x).status = "PAUSED"
  <1>1. now \in Times /\ MaxOf(0, EffectiveDeadline(x) - now) \in Spans
    BY DeadlineType DEF Times, Spans, MaxOf
  <1> QED BY <1>1, NoTimeType, StatusTypes DEF Paused, Game

LEMMA ResumedType ==
  ASSUME NEW x \in Game, now \in Nat
  PROVE  Resumed(x) \in Game /\ Resumed(x).status = "ROUND_OPEN"
  <1>1. now + x.paused_remaining \in Times /\ x.round_open_ts + MaxOf(0, now - x.paused_at) \in Times
    BY DEF Times, Spans, NoTime, MaxOf, Game
  <1> QED BY <1>1, NoTimeType, StatusTypes DEF Resumed, Game

LEMMA ExtendedType ==
  ASSUME NEW x \in Game, NEW sec \in Extensions
  PROVE  Extended(x, sec) \in Game /\ Extended(x, sec).status = x.status
  <1>1. x.paused_remaining + sec \in Spans /\ x.deadline_ts + sec \in Times
    BY SessionAssumption DEF Times, Spans, NoTime, Game
  <1> QED BY <1>1 DEF Extended, Game

LEMMA SubmittedType ==
  ASSUME NEW x \in Game, NEW h \in Ids
  PROVE  /\ Submitted(x, h) \in Game /\ Submitted(x, h).status = x.status
         /\ EffectiveDeadline(Submitted(x, h)) = EffectiveDeadline(x)
  BY DEF Submitted, Game, EffectiveDeadline

LEMMA NextRoundsType ==
  ASSUME NEW x \in Game, NEW z \in NextRounds(x)
  PROVE  z \in Game
  <1>1. PICK d \in SUBSET x.lobby, f \in {b \in BOOLEAN : x.frozen => b} : z = NextRound(x, d, f)
    BY DEF NextRounds
  <1>2. x.round_no + 1 \in Nat /\ d \in SUBSET Ids /\ f \in BOOLEAN
    BY DEF Game
  <1> QED BY <1>1, <1>2 DEF NextRound, Game

LEMMA ResolutionsType ==
  ASSUME NEW x \in Game, now \in Nat, NEW y \in Resolutions(x)
  PROVE  y \in Game /\ y.status \in {"CAPTURED", "ROUND_OPEN"}
  <1>1. CASE y = Captured(x)
    BY <1>1, NoVotesType, NoTimeType, StatusTypes DEF Captured, Game
  <1>2. ASSUME NEW z \in NextRounds(x), y = Opened(z)
        PROVE  y \in Game /\ y.status \in {"CAPTURED", "ROUND_OPEN"}
    BY <1>2, NextRoundsType, OpenedType
  <1> QED BY <1>1, <1>2 DEF Resolutions

-----------------------------------------------------------------------------
(* The inductive invariant. *)

\* What the lock holder left behind at its last save, and what a dead process leaves.
HolderInv ==
  /\ ~up => g = NoGame /\ row = 0 /\ timer = "off" /\ cont = Unheld
  /\ cont.at = "early" => g.status = "ROUND_OPEN"
  /\ cont.at = "claim" => g.status = "LOBBY"
  /\ cont.at = "create" => g.status = "ENDED"
  /\ cont.at = "insert" => /\ g.status = "LOBBY" /\ nrows < MaxGames
                            /\ g.lobby = {} /\ g.orders = {} /\ g.round_no = 0

\* Only the last row can be active, and it is the one the game in memory was saved to.
StoreInv ==
  /\ \A i \in 1..nrows : rows[i].status # "IDLE" /\ (rows[i].status # "ENDED" => i = nrows)
  /\ row \in {0, nrows}
  /\ row = 0 <=> (g.status = "IDLE" \/ cont.at = "insert")
  /\ up /\ row = 0 /\ nrows # 0 => rows[nrows].status = "ENDED"
  /\ row # 0 => g = [rows[row] EXCEPT !.early_resolve = g.early_resolve]

\* A task that woke has nothing to wait for: whatever moves the deadline replaces the task.
TimerInv ==
  /\ timer # "off" <=> g.status = "ROUND_OPEN"
  /\ timer = "fire" => EffectiveDeadline(g) <= now

IInv == TypeOK /\ HolderInv /\ StoreInv /\ TimerInv

-----------------------------------------------------------------------------
(* How steps preserve it: a step saves the game to the last row, or leaves game and rows alone. *)

\* TypeOK without the game, its row and the rows.
SmallTypes ==
  /\ now \in Nat /\ up \in BOOLEAN
  /\ admin \in Players \cup {Nobody}
  /\ timer \in {"off", "sleep", "fire"}
  /\ cont \in [at : Places, by : Players \cup {Nobody}]
  /\ ticket \in [op : QueuedOps \cup {"none"}, by : Players \cup {Nobody}]
  /\ hooks \subseteq [row : 1..MaxGames, at : {"posting", "posted"}]
  /\ openFor \in Nat /\ credit \in Int

LEMMA HeldTypes ==
  /\ Unheld \in [at : Places, by : Players \cup {Nobody}] /\ Unheld.at = "free"
  /\ Held("early", Nobody) \in [at : Places, by : Players \cup {Nobody}]
  /\ Held("early", Nobody).at = "early"
  /\ NoTicket \in [op : QueuedOps \cup {"none"}, by : Players \cup {Nobody}]
  BY DEF Unheld, Held, Places, NoTicket

LEMMA InvSmall == IInv => SmallTypes /\ g \in Game /\ row \in 0..MaxGames /\ nrows \in 0..MaxGames
                          /\ rows \in [1..MaxGames -> Game] /\ MaxGames \in Nat
  BY SessionAssumption DEF IInv, TypeOK, SmallTypes

LEMMA SaveStep ==
  ASSUME IInv, NEW x \in Game, NEW r, r = nrows, r # 0, x.status # "IDLE",
         up', g' = x, row' = r, nrows' = nrows, rows' = [rows EXCEPT ![r] = Snapshot(x)],
         SmallTypes', timer' # "off" <=> x.status = "ROUND_OPEN",
         timer' = "fire" => EffectiveDeadline(x) <= now',
         cont'.at \in {"free", "early", "create"},
         cont'.at = "early" => x.status = "ROUND_OPEN",
         cont'.at = "create" => x.status = "ENDED"
  PROVE  IInv'
  <1>1. r \in 1..MaxGames /\ rows' \in [1..MaxGames -> Game] /\ rows'[r] = x
    BY InvSmall DEF Snapshot
  <1>2. TypeOK'
    BY <1>1, InvSmall DEF TypeOK, SmallTypes
  <1>3. HolderInv'
    BY DEF HolderInv
  <1>4. StoreInv'
    <2>1. \A i \in 1..nrows' : rows'[i].status # "IDLE" /\ (rows'[i].status # "ENDED" => i = nrows')
      BY <1>1, InvSmall DEF Snapshot, IInv, StoreInv
    <2>2. g' = [rows'[row'] EXCEPT !.early_resolve = g'.early_resolve]
      BY <1>1 DEF Game
    <2> QED BY <2>1, <2>2 DEF StoreInv
  <1>5. TimerInv'
    BY DEF TimerInv, EffectiveDeadline
  <1> QED BY <1>2, <1>3, <1>4, <1>5 DEF IInv

LEMMA KeepStep ==
  ASSUME IInv, up' = up, g' = g, row' = row, nrows' = nrows, rows' = rows, SmallTypes',
         timer' # "off" <=> timer # "off", timer' = "fire" => timer = "fire" \/ Expired(g),
         now' = now, up,
         cont' = cont \/ (cont.at # "insert" /\ cont'.at \in {"free", "claim"}),
         cont'.at = "claim" => g.status = "LOBBY"
  PROVE  IInv'
  <1>1. TypeOK'
    BY InvSmall DEF TypeOK, SmallTypes
  <1>2. HolderInv'
    BY DEF IInv, HolderInv
  <1>3. StoreInv'
    BY DEF IInv, StoreInv
  <1>4. TimerInv'
    BY DEF IInv, TimerInv, EffectiveDeadline, Expired
  <1> QED BY <1>1, <1>2, <1>3, <1>4 DEF IInv

\* When the lock is free and a game is on, the game has the last row.
LEMMA EnterFacts ==
  ASSUME IInv, Enter
  PROVE  /\ up /\ cont = Unheld /\ cont.at = "free"
         /\ g.status # "IDLE" => row = nrows /\ row # 0
         /\ g.status = "IDLE" => row = 0
  BY HeldTypes DEF Enter, IInv, StoreInv

LEMMA AdminEnterFacts ==
  ASSUME IInv, NEW p \in Players, NEW op, AdminEnter(p, op)
  PROVE  Enter /\ ticket' \in [op : QueuedOps \cup {"none"}, by : Players \cup {Nobody}]
  BY InvSmall, HeldTypes DEF AdminEnter, SmallTypes

LEMMA AfterSubmitFacts ==
  ASSUME NEW x PROVE /\ AfterSubmit(x) \in [at : Places, by : Players \cup {Nobody}]
                     /\ AfterSubmit(x).at \in {"free", "early"}
                     /\ AfterSubmit(x).at = "early" => x.status = "ROUND_OPEN"
  BY HeldTypes DEF AfterSubmit, EarlyDue

\* A save that keeps the status and the deadline task.
LEMMA InPlaceStep ==
  ASSUME IInv, Enter, NEW x \in Game, x.status = g.status, g.status # "IDLE",
         EffectiveDeadline(x) = EffectiveDeadline(g), now' = now, Commit(x), UNCHANGED <<up, rowVars, timer>>, SmallTypes',
         cont'.at \in {"free", "early"}, cont'.at = "early" => x.status = "ROUND_OPEN"
  PROVE  IInv'
  <1>1. up' /\ row' = row /\ nrows' = nrows /\ row = nrows /\ row # 0
    BY EnterFacts DEF rowVars
  <1>2. (timer' # "off" <=> x.status = "ROUND_OPEN") /\ (timer' = "fire" => EffectiveDeadline(x) <= now')
    BY DEF IInv, TimerInv
  <1> QED BY <1>1, <1>2, SaveStep DEF Commit

\* _resolve keeps the invariant wherever it is called from.
LEMMA FinishRoundStep ==
  ASSUME IInv, NEW x \in Game, NEW r, FinishRound(x, r), r = nrows, r # 0, up',
         row' = r, nrows' = nrows, cont' = Unheld,
         UNCHANGED <<now, admin>>,
         ticket' \in [op : QueuedOps \cup {"none"}, by : Players \cup {Nobody}]
  PROVE  IInv'
  <1>1. PICK y \in Resolutions(x) :
          /\ g' = y
          /\ rows' = [rows EXCEPT ![r] = Snapshot(y)]
          /\ timer' = ArmFor(y)
          /\ hooks' = IF y.status = "CAPTURED" /\ ~y.webhook_sent
                      THEN hooks \cup {[row |-> r, at |-> "posting"]} ELSE hooks
          /\ IF y.status = "ROUND_OPEN" THEN openFor' = 0 /\ credit' = RoundTimer
                                        ELSE UNCHANGED <<openFor, credit>>
    BY DEF FinishRound
  <1>2. y \in Game /\ y.status \in {"CAPTURED", "ROUND_OPEN"}
    BY InvSmall, ResolutionsType DEF SmallTypes
  <1>3. timer' \in {"off", "sleep"} /\ (timer' # "off" <=> y.status = "ROUND_OPEN")
    BY <1>1 DEF ArmFor
  <1>4. hooks' \subseteq [row : 1..MaxGames, at : {"posting", "posted"}]
    <2>1. r \in 1..MaxGames
      BY InvSmall
    <2> QED BY <1>1, <2>1, InvSmall DEF SmallTypes
  <1>5. openFor' \in Nat /\ credit' \in Int
    BY <1>1, InvSmall, SessionAssumption DEF SmallTypes
  <1>6. SmallTypes'
    BY <1>3, <1>4, <1>5, InvSmall, HeldTypes DEF SmallTypes
  <1> QED BY <1>1, <1>2, <1>3, <1>6, SaveStep, HeldTypes

-----------------------------------------------------------------------------
(* One step per action. *)

LEMMA LobbyPreserves == ASSUME IInv, LobbyStep PROVE IInv'
  <1> PICK p \in Players :
        \/ Claim(p) \/ CreateRetiresCaptured(p)
        \/ \E n \in HunterCounts, ai \in BOOLEAN : CreateBinds(p, n, ai)
        \/ Join(p) \/ Leave(p)
        \/ \E n \in 2..6 : AddBots(p, n)
        \/ RemoveBots(p)
        \/ \E on \in BOOLEAN : SetFugitiveAi(p, on) \/ SetReveal(p, on)
        \/ StartGame(p)
    BY DEF LobbyStep
  <1> USE DEF clockVars, rowVars
  <1>1. CASE Claim(p)
    <2>1. cont' \in [at : Places, by : Players \cup {Nobody}] /\ cont'.at \in {"free", "claim"}
          /\ (cont'.at = "claim" => g.status = "LOBBY")
      BY <1>1, HeldTypes DEF Claim, Held, Places
    <2>2. SmallTypes'
      BY <1>1, <2>1, InvSmall DEF Claim, SmallTypes
    <2> QED BY <1>1, <2>1, <2>2, EnterFacts, KeepStep DEF Claim
  <1>2. CASE CreateRetiresCaptured(p)
    <2>1. cont' \in [at : Places, by : Players \cup {Nobody}] /\ cont'.at = "create"
      BY <1>2 DEF CreateRetiresCaptured, Held, Places
    <2>2. SmallTypes'
      BY <1>2, <2>1, InvSmall DEF CreateRetiresCaptured, SmallTypes
    <2>3. row = nrows /\ row # 0 /\ up
      BY <1>2, EnterFacts DEF CreateRetiresCaptured
    <2> QED BY <1>2, <2>1, <2>2, <2>3, RetiredType, SaveStep DEF CreateRetiresCaptured, Commit
  <1>3. ASSUME NEW n \in HunterCounts, NEW ai \in BOOLEAN, CreateBinds(p, n, ai) PROVE IInv'
    <2>1. cont' \in [at : Places, by : Players \cup {Nobody}] /\ cont'.at = "insert"
      BY <1>3 DEF CreateBinds, Held, Places
    <2>2. /\ g' \in Game /\ g'.status = "LOBBY" /\ g'.lobby = {} /\ g'.orders = {} /\ g'.round_no = 0
          /\ row' = 0 /\ nrows' = nrows /\ rows' = rows /\ nrows < MaxGames
      BY <1>3, NewGameType DEF CreateBinds
    <2>3. up /\ up' /\ timer' = timer /\ timer = "off" /\ (nrows # 0 => rows[nrows].status = "ENDED")
      <3>1. CASE Enter /\ g.status = "IDLE"
        BY <1>3, <3>1, EnterFacts DEF CreateBinds, IInv, StoreInv, TimerInv
      <3>2. CASE up /\ cont = Held("create", p)
        <4>1. g.status = "ENDED" /\ timer = "off" /\ row # 0 /\ row = nrows /\ rows[row].status = g.status
          <5>1. cont.at = "create"
            BY <3>2 DEF Held
          <5>2. g.status = "ENDED" /\ row # 0 /\ row = nrows /\ timer = "off"
            BY <5>1 DEF IInv, HolderInv, StoreInv, TimerInv
          <5>3. rows[row] \in Game /\ g = [rows[row] EXCEPT !.early_resolve = g.early_resolve]
            BY <5>2, InvSmall DEF IInv, StoreInv
          <5> QED BY <5>2, <5>3 DEF Game
        <4> QED BY <1>3, <3>2, <4>1 DEF CreateBinds
      <3> QED BY <1>3, <3>1, <3>2 DEF CreateBinds
    <2>4. SmallTypes'
      BY <1>3, <2>1, <2>3, InvSmall DEF CreateBinds, SmallTypes
    <2>5. TypeOK'
      BY <2>2, <2>4, InvSmall DEF TypeOK, SmallTypes
    <2>6. HolderInv'
      BY <2>1, <2>2, <2>3 DEF HolderInv
    <2>7. StoreInv'
      BY <2>1, <2>2, <2>3 DEF IInv, StoreInv
    <2>8. TimerInv'
      BY <2>2, <2>3 DEF TimerInv
    <2> QED BY <2>5, <2>6, <2>7, <2>8 DEF IInv
  <1>4. CASE Join(p)
    <2>1. [g EXCEPT !.lobby = @ \cup {p}] \in Game
      BY InvSmall DEF Game, Ids
    <2>2. SmallTypes' /\ cont'.at = "free"
      BY <1>4, InvSmall, EnterFacts DEF Join, LobbyFrame, SmallTypes
    <2> QED BY <1>4, <2>1, <2>2, InPlaceStep, InvSmall DEF Join, LobbyFrame, Game,
          EffectiveDeadline, clockVars
  <1>5. CASE Leave(p)
    <2>1. [g EXCEPT !.lobby = @ \ {p}] \in Game
      BY InvSmall DEF Game
    <2>2. SmallTypes' /\ cont'.at = "free"
      BY <1>5, InvSmall, EnterFacts DEF Leave, LobbyFrame, SmallTypes
    <2> QED BY <1>5, <2>1, <2>2, InPlaceStep, InvSmall DEF Leave, LobbyFrame, Game,
          EffectiveDeadline, clockVars
  <1>6. ASSUME NEW n \in 2..6, AddBots(p, n) PROVE IInv'
    <2>1. PICK added \in SUBSET (Bots \ g.lobby) : Commit([g EXCEPT !.lobby = @ \cup added])
      BY <1>6 DEF AddBots
    <2>2. [g EXCEPT !.lobby = @ \cup added] \in Game
      BY InvSmall DEF Game, Ids
    <2>3. Enter /\ SmallTypes' /\ cont'.at = "free"
      BY <1>6, InvSmall, EnterFacts, AdminEnterFacts DEF AddBots, LobbyFrame, SmallTypes
    <2> QED BY <1>6, <2>1, <2>2, <2>3, InPlaceStep, InvSmall DEF AddBots, LobbyFrame, Game,
          EffectiveDeadline, clockVars
  <1>7. CASE RemoveBots(p)
    <2>1. [g EXCEPT !.lobby = @ \ Bots] \in Game
      BY InvSmall DEF Game
    <2>2. Enter /\ SmallTypes' /\ cont'.at = "free"
      BY <1>7, InvSmall, EnterFacts, AdminEnterFacts DEF RemoveBots, LobbyFrame, SmallTypes
    <2> QED BY <1>7, <2>1, <2>2, InPlaceStep, InvSmall DEF RemoveBots, LobbyFrame, Game,
          EffectiveDeadline, clockVars
  <1>8. ASSUME NEW on \in BOOLEAN, SetFugitiveAi(p, on) PROVE IInv'
    <2>1. [g EXCEPT !.fugitive_ai = on, !.lobby = IF on THEN @ ELSE @ \ {p}] \in Game
      BY InvSmall DEF Game
    <2>2. Enter /\ SmallTypes' /\ cont'.at = "free"
      BY <1>8, InvSmall, EnterFacts, AdminEnterFacts DEF SetFugitiveAi, LobbyFrame, SmallTypes
    <2> QED BY <1>8, <2>1, <2>2, InPlaceStep, InvSmall DEF SetFugitiveAi, LobbyFrame, Game,
          EffectiveDeadline, clockVars
  <1>9. ASSUME NEW on \in BOOLEAN, SetReveal(p, on) PROVE IInv'
    <2>1. [g EXCEPT !.reveal_path = on] \in Game
      BY InvSmall DEF Game
    <2>2. Enter /\ SmallTypes' /\ cont'.at = "free"
      BY <1>9, InvSmall, EnterFacts, AdminEnterFacts DEF SetReveal, LobbyFrame, SmallTypes
    <2> QED BY <1>9, <2>1, <2>2, InPlaceStep, InvSmall DEF SetReveal, LobbyFrame, Game,
          EffectiveDeadline, clockVars
  <1>10. CASE StartGame(p)
    <2> DEFINE x == Opened([g EXCEPT !.round_no = 1])
    <2>1. [g EXCEPT !.round_no = 1] \in Game
      BY InvSmall DEF Game
    <2>2. x \in Game /\ x.status = "ROUND_OPEN"
      BY <2>1, InvSmall, OpenedType DEF SmallTypes
    <2>3. Enter /\ Commit(x) /\ timer' = "sleep" /\ cont' = cont /\ row' = row /\ nrows' = nrows /\ up' = up
      BY <1>10, <2>2, AdminEnterFacts DEF StartGame, ArmFor
    <2>4. SmallTypes' /\ cont'.at = "free" /\ row = nrows /\ row # 0 /\ up
      BY <1>10, <2>3, InvSmall, EnterFacts, AdminEnterFacts, SessionAssumption DEF StartGame, SmallTypes
    <2> HIDE DEF x
    <2> QED BY <2>2, <2>3, <2>4, SaveStep DEF Commit
  <1> QED BY <1>1, <1>2, <1>3, <1>4, <1>5, <1>6, <1>7, <1>8, <1>9, <1>10

LEMMA RoundPreserves == ASSUME IInv, RoundStep PROVE IInv'
  <1> USE DEF clockVars, rowVars
  <1>1. ASSUME NEW h \in Ids, HunterOrder(h) PROVE IInv'
    <2> DEFINE x == Submitted(g, h)
    <2>1. x \in Game /\ x.status = g.status /\ EffectiveDeadline(x) = EffectiveDeadline(g)
      BY InvSmall, SubmittedType
    <2>2. Commit(x) /\ cont' = AfterSubmit(x) /\ Enter /\ g.status = "ROUND_OPEN"
      BY <1>1 DEF HunterOrder
    <2>3. SmallTypes'
      BY <1>1, <2>2, InvSmall, AfterSubmitFacts DEF HunterOrder, OrderFrame, SmallTypes
    <2> HIDE DEF x
    <2> QED BY <1>1, <2>1, <2>2, <2>3, AfterSubmitFacts, InPlaceStep DEF HunterOrder, OrderFrame
  <1>2. ASSUME NEW p \in Players, CancelHunterOrder(p) PROVE IInv'
    <2>1. [g EXCEPT !.orders = @ \ {p}] \in Game
      BY InvSmall DEF Game
    <2>2. SmallTypes' /\ cont'.at = "free"
      BY <1>2, InvSmall, EnterFacts DEF CancelHunterOrder, OrderFrame, SmallTypes
    <2> QED BY <1>2, <2>1, <2>2, InPlaceStep, InvSmall DEF CancelHunterOrder, OrderFrame, Game,
          EffectiveDeadline, clockVars
  <1>3. ASSUME NEW p \in Players, FugitiveOrder(p) PROVE IInv'
    <2> DEFINE x == [g EXCEPT !.forder = TRUE]
    <2>1. x \in Game /\ x.status = g.status /\ EffectiveDeadline(x) = EffectiveDeadline(g)
      BY InvSmall DEF Game, EffectiveDeadline
    <2>2. Commit(x) /\ cont' = AfterSubmit(x) /\ Enter /\ g.status = "ROUND_OPEN"
      BY <1>3, AdminEnterFacts DEF FugitiveOrder
    <2>3. SmallTypes'
      BY <1>3, <2>2, InvSmall, AdminEnterFacts, AfterSubmitFacts DEF FugitiveOrder, OrderFrame, SmallTypes
    <2> HIDE DEF x
    <2> QED BY <1>3, <2>1, <2>2, <2>3, AfterSubmitFacts, InPlaceStep DEF FugitiveOrder, OrderFrame
  <1>4. ASSUME NEW p \in Players, CancelFugitiveOrder(p) PROVE IInv'
    <2>1. [g EXCEPT !.forder = FALSE] \in Game
      BY InvSmall DEF Game
    <2>2. Enter /\ SmallTypes' /\ cont'.at = "free"
      BY <1>4, InvSmall, EnterFacts, AdminEnterFacts DEF CancelFugitiveOrder, OrderFrame, SmallTypes
    <2> QED BY <1>4, <2>1, <2>2, InPlaceStep, InvSmall DEF CancelFugitiveOrder, OrderFrame, Game,
          EffectiveDeadline, clockVars
  <1>5. CASE AiFugitiveOrder
    <2> DEFINE x == [g EXCEPT !.forder = TRUE]
    <2>1. x \in Game /\ x.status = g.status /\ EffectiveDeadline(x) = EffectiveDeadline(g)
      BY InvSmall DEF Game, EffectiveDeadline
    <2>2. Commit(x) /\ cont' = AfterSubmit(x) /\ Enter /\ g.status = "ROUND_OPEN"
      BY <1>5 DEF AiFugitiveOrder
    <2>3. SmallTypes'
      BY <1>5, <2>2, InvSmall, AfterSubmitFacts DEF AiFugitiveOrder, OrderFrame, SmallTypes
    <2> HIDE DEF x
    <2> QED BY <1>5, <2>1, <2>2, <2>3, AfterSubmitFacts, InPlaceStep DEF AiFugitiveOrder, OrderFrame
  <1>6. ASSUME NEW p \in Players, NEW t \in Ids, Vote(p, t) PROVE IInv'
    <2> DEFINE voters == g.votes[t] \cup {p}
               x == IF Cardinality(voters) >= VotesNeeded(g) THEN Submitted(g, t)
                                                             ELSE [g EXCEPT !.votes[t] = voters]
    <2>1. x \in Game /\ x.status = g.status /\ EffectiveDeadline(x) = EffectiveDeadline(g)
      <3>1. voters \in SUBSET Ids
        BY InvSmall DEF Game, Ids
      <3> HIDE DEF voters
      <3>2. [g EXCEPT !.votes[t] = voters] \in Game /\ [g EXCEPT !.votes[t] = voters].status = g.status
            /\ EffectiveDeadline([g EXCEPT !.votes[t] = voters]) = EffectiveDeadline(g)
        BY <3>1, InvSmall DEF Game, EffectiveDeadline
      <3> QED BY <3>2, InvSmall, SubmittedType
    <2>2. Commit(x) /\ cont' \in {AfterSubmit(x), Unheld} /\ Enter /\ g.status = "ROUND_OPEN"
      BY <1>6 DEF Vote
    <2>3. SmallTypes'
      BY <1>6, <2>2, InvSmall, HeldTypes, AfterSubmitFacts DEF Vote, OrderFrame, SmallTypes
    <2> HIDE DEF x
    <2> QED BY <1>6, <2>1, <2>2, <2>3, AfterSubmitFacts, HeldTypes, InPlaceStep DEF Vote, OrderFrame
  <1> QED BY <1>1, <1>2, <1>3, <1>4, <1>5, <1>6 DEF RoundStep

LEMMA AdminPreserves == ASSUME IInv, AdminStep PROVE IInv'
  <1> PICK p \in Players :
        \/ \E early, ok \in BOOLEAN : SetConfig(p, early, ok)
        \/ Pause(p) \/ Resume(p) \/ EndRound(p) \/ EndGame(p)
        \/ \E sec \in Extensions : Extend(p, sec)
        \/ \E op \in QueuedOps : Queue(p, op)
    BY DEF AdminStep
  <1> USE DEF clockVars, rowVars
  <1>1. ASSUME NEW early \in BOOLEAN, NEW ok \in BOOLEAN, SetConfig(p, early, ok) PROVE IInv'
    <2> DEFINE x == [g EXCEPT !.early_resolve = early]
    <2>1. x \in Game /\ x.status = g.status /\ x = [g EXCEPT !.early_resolve = x.early_resolve]
          /\ EffectiveDeadline(x) = EffectiveDeadline(g)
      BY InvSmall DEF Game, EffectiveDeadline
    <2>2. Enter /\ SmallTypes' /\ cont' = cont /\ cont.at = "free" /\ g.status # "IDLE"
      BY <1>1, InvSmall, EnterFacts, AdminEnterFacts DEF SetConfig, OrderFrame, SmallTypes
    <2>3. CASE ok
      <3>1. Commit(x)
        BY <1>1, <2>3 DEF SetConfig
      <3> HIDE DEF x
      <3> QED BY <1>1, <2>1, <2>2, <3>1, InPlaceStep DEF SetConfig, OrderFrame
    <2>4. CASE ~ok
      <3>1. g' = x /\ rows' = rows /\ UNCHANGED <<up, rowVars, timer>>
        BY <1>1, <2>4 DEF SetConfig, OrderFrame
      <3>2. up /\ row = nrows /\ row # 0
        BY <2>2, EnterFacts
      <3>3. g' = [rows'[row'] EXCEPT !.early_resolve = g'.early_resolve]
        <4>1. rows[row] \in Game /\ g = [rows[row] EXCEPT !.early_resolve = g.early_resolve]
          BY <3>2, InvSmall DEF IInv, StoreInv
        <4> QED BY <3>1, <4>1, <2>1 DEF Game
      <3>4. TypeOK'
        BY <2>1, <2>2, <3>1, InvSmall DEF TypeOK, SmallTypes
      <3>5. HolderInv'
        BY <2>2, <3>1, <3>2 DEF HolderInv
      <3>6. StoreInv'
        BY <2>1, <2>2, <3>1, <3>2, <3>3 DEF IInv, StoreInv
      <3>7. TimerInv'
        BY <1>1, <2>1, <3>1 DEF IInv, TimerInv, SetConfig, OrderFrame, EffectiveDeadline
      <3> QED BY <3>4, <3>5, <3>6, <3>7 DEF IInv
    <2> QED BY <2>3, <2>4
  <1>2. CASE Pause(p)
    <2>1. Enter /\ SmallTypes' /\ cont'.at = "free" /\ row = nrows /\ row # 0 /\ up
      BY <1>2, InvSmall, EnterFacts, AdminEnterFacts DEF Pause, SmallTypes
    <2>2. Paused(g) \in Game /\ Paused(g).status = "PAUSED"
      BY InvSmall, PausedType DEF SmallTypes
    <2> QED BY <1>2, <2>1, <2>2, SaveStep DEF Pause, Commit
  <1>3. CASE Resume(p)
    <2>1. Resumed(g) \in Game /\ Resumed(g).status = "ROUND_OPEN"
      BY InvSmall, ResumedType DEF SmallTypes
    <2>2. Enter /\ row = nrows /\ row # 0 /\ up /\ timer' = "sleep"
      BY <1>3, <2>1, InvSmall, EnterFacts, AdminEnterFacts DEF Resume, ArmFor
    <2>3. SmallTypes' /\ cont' = AfterSubmit(Resumed(g))
      BY <1>3, <2>2, InvSmall, AdminEnterFacts, AfterSubmitFacts DEF Resume, AfterResume, SmallTypes
    <2> QED BY <1>3, <2>1, <2>2, <2>3, AfterSubmitFacts, SaveStep DEF Resume, Commit
  <1>4. CASE EndRound(p)
    <2>1. [g EXCEPT !.status = "ROUND_OPEN"] \in Game
      BY InvSmall, StatusTypes DEF Game
    <2>2. Enter /\ row = nrows /\ row # 0 /\ up /\ cont = Unheld
          /\ ticket' \in [op : QueuedOps \cup {"none"}, by : Players \cup {Nobody}]
      BY <1>4, EnterFacts, AdminEnterFacts DEF EndRound
    <2> QED BY <1>4, <2>1, <2>2, FinishRoundStep DEF EndRound
  <1>5. CASE EndGame(p)
    <2>1. Enter /\ row = nrows /\ row # 0 /\ up /\ SmallTypes' /\ cont'.at = "free" /\ cont' = cont
      BY <1>5, InvSmall, EnterFacts, AdminEnterFacts DEF EndGame, SmallTypes
    <2>2. row \in 1..MaxGames /\ rows' \in [1..MaxGames -> Game] /\ rows'[row].status = "ENDED"
      BY <1>5, <2>1, InvSmall, RetiredType DEF EndGame
    <2>3. TypeOK'
      BY <1>5, <2>1, <2>2, InvSmall, NoGameType DEF EndGame, TypeOK, SmallTypes
    <2>4. HolderInv'
      BY <1>5, <2>1 DEF EndGame, HolderInv
    <2>5. StoreInv'
      BY <1>5, <2>1, <2>2, NoGameType, InvSmall DEF EndGame, IInv, StoreInv
    <2>6. TimerInv'
      BY <1>5, NoGameType DEF EndGame, TimerInv
    <2> QED BY <2>3, <2>4, <2>5, <2>6 DEF IInv
  <1>6. ASSUME NEW sec \in Extensions, Extend(p, sec) PROVE IInv'
    <2>1. Extended(g, sec) \in Game /\ Extended(g, sec).status = g.status
      BY InvSmall, ExtendedType
    <2>2. Enter /\ row = nrows /\ row # 0 /\ up /\ cont'.at = "free"
      BY <1>6, EnterFacts, AdminEnterFacts DEF Extend
    <2>3. timer' \in {"off", "sleep"} /\ (timer' # "off" <=> g.status = "ROUND_OPEN")
      BY <1>6, InvSmall DEF Extend, ExtendTimer, ArmFor, IInv, TimerInv, SmallTypes
    <2>4. SmallTypes'
      BY <1>6, <2>3, InvSmall, AdminEnterFacts, SessionAssumption DEF Extend, SmallTypes
    <2> QED BY <1>6, <2>1, <2>2, <2>3, <2>4, SaveStep DEF Extend, Commit
  <1>7. ASSUME NEW op \in QueuedOps, Queue(p, op) PROVE IInv'
    <2>1. SmallTypes'
      BY <1>7, InvSmall DEF Queue, SmallTypes
    <2> QED BY <1>7, <2>1, KeepStep DEF Queue, IInv, HolderInv
  <1> QED BY <1>1, <1>2, <1>3, <1>4, <1>5, <1>6, <1>7

LEMMA LockHolderPreserves == ASSUME IInv, LockHolderStep PROVE IInv'
  <1> USE DEF clockVars, rowVars
  <1>0. up /\ cont.at \notin {"free", "insert"} => row = nrows /\ row # 0
    BY DEF IInv, HolderInv, StoreInv, TypeOK, Places
  <1>1. CASE ClaimLeavesLobby
    <2>1. [g EXCEPT !.lobby = @ \ {cont.by}] \in Game
          /\ [g EXCEPT !.lobby = @ \ {cont.by}].status = "LOBBY" /\ g.status = "LOBBY"
      BY <1>1, InvSmall DEF ClaimLeavesLobby, Game, IInv, HolderInv
    <2>2. SmallTypes' /\ cont'.at = "free" /\ timer' = timer
      BY <1>1, InvSmall, HeldTypes DEF ClaimLeavesLobby, SmallTypes
    <2>3. timer = "off"
      BY <2>1, InvSmall DEF IInv, TimerInv
    <2> QED BY <1>0, <1>1, <2>1, <2>2, <2>3, SaveStep DEF ClaimLeavesLobby, Commit
  <1>2. CASE CreateRejected
    <2>1. SmallTypes' /\ cont'.at = "free"
      BY <1>2, InvSmall, HeldTypes DEF CreateRejected, SmallTypes
    <2> QED BY <1>2, <2>1, KeepStep DEF CreateRejected
  <1>3. CASE CreateInserts
    <2>1. nrows < MaxGames /\ g.status = "LOBBY" /\ row = 0 /\ timer = "off" /\ up
          /\ (nrows # 0 => rows[nrows].status = "ENDED")
      BY <1>3 DEF CreateInserts, IInv, HolderInv, StoreInv, TimerInv
    <2>2. row' = nrows + 1 /\ nrows' = nrows + 1 /\ g' = g /\ rows' \in [1..MaxGames -> Game]
          /\ rows' = [rows EXCEPT ![nrows + 1] = g] /\ nrows + 1 \in 1..MaxGames /\ rows'[nrows + 1] = g
      BY <1>3, <2>1, InvSmall DEF CreateInserts, Snapshot
    <2>3. SmallTypes' /\ cont'.at = "free" /\ up' /\ timer' = timer
      BY <1>3, <2>1, InvSmall, HeldTypes DEF CreateInserts, SmallTypes
    <2>4. TypeOK'
      BY <2>2, <2>3, InvSmall DEF TypeOK, SmallTypes
    <2>5. HolderInv'
      BY <2>3 DEF HolderInv
    <2>6. StoreInv'
      <3>1. \A i \in 1..nrows' : rows'[i].status # "IDLE" /\ (rows'[i].status # "ENDED" => i = nrows')
        <4>1. SUFFICES ASSUME NEW i \in 1..nrows + 1
                       PROVE  rows'[i].status # "IDLE" /\ (rows'[i].status # "ENDED" => i = nrows + 1)
          BY <2>2
        <4>2. CASE i = nrows + 1
          BY <4>2, <2>1, <2>2
        <4>3. CASE i \in 1..nrows
          <5>1. rows'[i] = rows[i] /\ rows[i].status # "IDLE" /\ (rows[i].status # "ENDED" => i = nrows)
            BY <4>3, <2>2, InvSmall DEF IInv, StoreInv
          <5> QED BY <5>1, <4>3, <2>1
        <4> QED BY <4>2, <4>3, InvSmall
      <3>2. g' = [rows'[row'] EXCEPT !.early_resolve = g'.early_resolve]
        BY <2>2, InvSmall DEF Game
      <3>3. row' # 0
        BY <2>2, InvSmall
      <3> QED BY <2>1, <2>2, <2>3, <3>1, <3>2, <3>3 DEF StoreInv
    <2>7. TimerInv'
      BY <2>1, <2>2, <2>3 DEF TimerInv
    <2> QED BY <2>4, <2>5, <2>6, <2>7 DEF IInv
  <1>4. CASE EarlyResolve
    <2>1. row = nrows /\ row # 0
      BY <1>0, <1>4 DEF EarlyResolve
    <2> QED BY <1>4, <2>1, InvSmall, FinishRoundStep DEF EarlyResolve, SmallTypes
  <1>5. CASE StartGrace
    <2> DEFINE x == [g EXCEPT !.grace_until = MinOf(g.deadline_ts, now + Grace)]
    <2>1. MinOf(g.deadline_ts, now + Grace) \in Times
      BY InvSmall, SessionAssumption DEF MinOf, Times, Game, SmallTypes
    <2>2. x \in Game /\ x.status = "ROUND_OPEN" /\ timer' = "sleep" /\ Commit(x)
      BY <1>5, <2>1, InvSmall DEF StartGrace, ArmFor, Game, IInv, HolderInv
    <2>3. SmallTypes' /\ cont'.at = "free"
      BY <1>5, <2>2, InvSmall, HeldTypes DEF StartGrace, SmallTypes
    <2> HIDE DEF x
    <2> QED BY <1>0, <1>5, <2>2, <2>3, SaveStep DEF StartGrace, Commit
  <1> QED BY <1>1, <1>2, <1>3, <1>4, <1>5 DEF LockHolderStep

LEMMA QueuedFailsPreserves == ASSUME IInv, QueuedFails PROVE IInv'
  <1>1. SmallTypes'
    BY InvSmall, HeldTypes DEF QueuedFails, SmallTypes, clockVars
  <1> QED BY <1>1, KeepStep, EnterFacts DEF QueuedFails, rowVars, clockVars

LEMMA TaskPreserves == ASSUME IInv, TaskStep PROVE IInv'
  <1> USE DEF clockVars, rowVars
  <1>1. CASE TimerWakes
    <2>1. SmallTypes'
      BY <1>1, InvSmall DEF TimerWakes, SmallTypes
    <2> QED BY <1>1, <2>1, KeepStep DEF TimerWakes, IInv, HolderInv
  <1>2. CASE CheckDeadline
    <2>1. CASE g.status = "ROUND_OPEN" /\ Expired(g)
      <3>1. row = nrows /\ row # 0 /\ cont = Unheld /\ up
        BY <1>2, <2>1, EnterFacts DEF CheckDeadline
      <3> QED BY <1>2, <2>1, <3>1, InvSmall, FinishRoundStep DEF CheckDeadline, SmallTypes
    <2>2. CASE ~(g.status = "ROUND_OPEN" /\ Expired(g))
      BY <1>2, <2>2 DEF CheckDeadline, IInv, TimerInv, Expired
    <2> QED BY <2>1, <2>2
  <1>3. ASSUME NEW k \in hooks, HookMarks(k) PROVE IInv'
    <2>1. CASE g.status = "CAPTURED" /\ ~g.webhook_sent
      <3>1. [g EXCEPT !.webhook_sent = TRUE] \in Game
        BY InvSmall DEF Game
      <3>2. Enter /\ SmallTypes' /\ cont'.at = "free"
        BY <1>3, InvSmall, EnterFacts DEF HookMarks, SmallTypes
      <3> QED BY <1>3, <2>1, <3>1, <3>2, InPlaceStep, InvSmall DEF HookMarks, Game,
          EffectiveDeadline, clockVars
    <2>2. CASE ~(g.status = "CAPTURED" /\ ~g.webhook_sent)
      <3>1. Enter /\ SmallTypes'
        BY <1>3, InvSmall, EnterFacts DEF HookMarks, SmallTypes
      <3> QED BY <1>3, <2>2, <3>1, KeepStep, EnterFacts DEF HookMarks
    <2> QED BY <2>1, <2>2
  <1>4. ASSUME NEW k \in hooks, NEW c \in BOOLEAN, HookPosts(k, c) PROVE IInv'
    <2>1. hooks' \subseteq [row : 1..MaxGames, at : {"posting", "posted"}]
      BY <1>4, InvSmall DEF HookPosts, SmallTypes
    <2>2. SmallTypes'
      BY <1>4, <2>1, InvSmall DEF HookPosts, SmallTypes
    <2> QED BY <1>4, <2>2, KeepStep DEF HookPosts, IInv, HolderInv
  <1> QED BY <1>1, <1>2, <1>3, <1>4 DEF TaskStep

LEMMA TickPreserves == ASSUME IInv, Tick PROVE IInv'
  <1> USE DEF rowVars
  <1>1. now' \in Nat /\ openFor' \in Nat /\ credit' \in Int
    BY InvSmall DEF Tick, SmallTypes
  <1>2. TypeOK'
    BY <1>1, InvSmall DEF Tick, TypeOK, SmallTypes
  <1>3. HolderInv'
    BY DEF Tick, IInv, HolderInv
  <1>4. StoreInv'
    BY DEF Tick, IInv, StoreInv
  <1>5. TimerInv'
    <2>1. EffectiveDeadline(g) \in Int /\ EffectiveDeadline(g') = EffectiveDeadline(g)
      BY InvSmall, DeadlineType DEF Tick
    <2>2. now' = now + 1 /\ now \in Nat
      BY InvSmall DEF Tick, SmallTypes
    <2> HIDE DEF EffectiveDeadline
    <2> QED BY <2>1, <2>2 DEF Tick, IInv, TimerInv
  <1> QED BY <1>2, <1>3, <1>4, <1>5 DEF IInv

LEMMA CrashPreserves == ASSUME IInv, Crash PROVE IInv'
  <1> USE DEF clockVars
  <1>1. TypeOK'
    <2>1. g' = NoGame /\ row' = 0 /\ nrows' = nrows /\ rows' = rows /\ up' = FALSE /\ timer' = "off"
          /\ cont' = Unheld /\ ticket' = NoTicket /\ hooks' = {}
          /\ UNCHANGED <<now, openFor, credit, admin>>
      BY DEF Crash
    <2>2. SmallTypes'
      BY <2>1, InvSmall, HeldTypes DEF SmallTypes
    <2> QED BY <2>1, <2>2, InvSmall, NoGameType DEF TypeOK, SmallTypes
  <1>2. HolderInv'
    BY HeldTypes DEF Crash, HolderInv
  <1>3. StoreInv'
    BY NoGameType DEF Crash, IInv, StoreInv, Unheld
  <1>4. TimerInv'
    BY NoGameType DEF Crash, TimerInv
  <1> QED BY <1>1, <1>2, <1>3, <1>4 DEF IInv

\* The row load_active would restore is the last one.
LEMMA NewestIsLast ==
  ASSUME IInv, ActiveRows # {} PROVE Newest(ActiveRows) = nrows /\ nrows # 0 /\ nrows \in ActiveRows
  <1>1. ActiveRows = {nrows} /\ nrows # 0
    BY InvSmall DEF ActiveRows, IInv, StoreInv
  <1>2. nrows <= nrows
    BY InvSmall
  <1> QED BY <1>1, <1>2 DEF Newest

LEMMA BootPreserves == ASSUME IInv, Boot PROVE IInv'
  <1> DEFINE x == rows[nrows]
  <1>1. ~up /\ up' /\ g = NoGame /\ row = 0 /\ timer = "off" /\ cont = Unheld /\ cont' = Unheld
        /\ now' = now /\ admin' = admin /\ nrows' = nrows /\ ticket' = ticket
    BY DEF Boot, IInv, HolderInv
  <1>2. CASE ActiveRows = {}
    <2>1. UNCHANGED <<g, row, rows, timer, hooks, openFor, credit>>
      BY <1>2 DEF Boot
    <2>2. nrows # 0 => rows[nrows].status = "ENDED"
      BY <1>2, InvSmall DEF ActiveRows
    <2>3. TypeOK'
      BY <1>1, <2>1, InvSmall DEF TypeOK, SmallTypes
    <2>4. HolderInv'
      BY <1>1, <2>1, HeldTypes DEF HolderInv
    <2>5. StoreInv'
      BY <1>1, <2>1, <2>2, NoGameType, HeldTypes DEF IInv, StoreInv
    <2>6. TimerInv'
      BY <1>1, <2>1, NoGameType DEF TimerInv
    <2> QED BY <2>3, <2>4, <2>5, <2>6 DEF IInv
  <1>3. CASE ActiveRows # {}
    <2>1. nrows \in 1..nrows /\ nrows # 0 /\ x \in Game /\ x.status \notin {"IDLE", "ENDED"}
          /\ Newest(ActiveRows) = nrows /\ row' = nrows
      <3>1. nrows \in ActiveRows /\ Newest(ActiveRows) = nrows /\ nrows # 0
        BY <1>3, NewestIsLast
      <3> QED BY <3>1, <1>3, InvSmall DEF ActiveRows, IInv, StoreInv, Boot
    <2>2. CASE x.status = "ROUND_OPEN" /\ Expired(x)
      <3>1. FinishRound(x, nrows)
        BY <1>3, <2>1, <2>2 DEF Boot
      <3>2. ticket' \in [op : QueuedOps \cup {"none"}, by : Players \cup {Nobody}]
        BY <1>1, InvSmall DEF SmallTypes
      <3> HIDE DEF x
      <3> QED BY <1>1, <2>1, <3>1, <3>2, FinishRoundStep
    <2>3. CASE ~(x.status = "ROUND_OPEN" /\ Expired(x))
      <3>1. /\ g' = x /\ timer' = ArmFor(x)
            /\ hooks' = IF x.status = "CAPTURED" /\ ~x.webhook_sent
                        THEN {[row |-> nrows, at |-> "posting"]} ELSE {}
            /\ UNCHANGED <<rows, openFor, credit>>
        BY <1>3, <2>1, <2>3 DEF Boot, BootTimer
      <3>2. hooks' \subseteq [row : 1..MaxGames, at : {"posting", "posted"}]
        BY <2>1, <3>1, InvSmall
      <3>3. timer' \in {"off", "sleep"} /\ (timer' # "off" <=> x.status = "ROUND_OPEN")
        BY <3>1 DEF ArmFor
      <3>4. SmallTypes'
        BY <1>1, <3>1, <3>2, <3>3, InvSmall DEF SmallTypes
      <3>5. rows' = [rows EXCEPT ![nrows] = Snapshot(x)]
        BY <3>1, InvSmall DEF Snapshot
      <3> HIDE DEF x
      <3> QED BY <1>1, <2>1, <3>1, <3>3, <3>4, <3>5, HeldTypes, SaveStep
    <2> QED BY <2>2, <2>3
  <1> QED BY <1>2, <1>3

LEMMA InitInv == Init => IInv
  <1> SUFFICES ASSUME Init PROVE IInv
    OBVIOUS
  <1> USE DEF Init
  <1>1. TypeOK
    BY NoGameType, HeldTypes, SessionAssumption DEF TypeOK
  <1>2. HolderInv
    BY HeldTypes DEF HolderInv
  <1>3. StoreInv
    BY NoGameType, HeldTypes, SessionAssumption DEF StoreInv
  <1>4. TimerInv
    BY NoGameType DEF TimerInv
  <1> QED BY <1>1, <1>2, <1>3, <1>4 DEF IInv

LEMMA StepInv == IInv /\ [Next]_vars => IInv'
  <1> SUFFICES ASSUME IInv, [Next]_vars PROVE IInv'
    OBVIOUS
  <1>1. CASE UNCHANGED vars
    <2> USE <1>1 DEF vars
    <2>1. TypeOK'
      BY DEF IInv, TypeOK
    <2>2. HolderInv'
      BY DEF IInv, HolderInv
    <2>3. StoreInv'
      BY DEF IInv, StoreInv
    <2>4. TimerInv'
      BY DEF IInv, TimerInv, EffectiveDeadline
    <2> QED BY <2>1, <2>2, <2>3, <2>4 DEF IInv
  <1> QED BY <1>1, LobbyPreserves, RoundPreserves, AdminPreserves, QueuedFailsPreserves,
             LockHolderPreserves, TaskPreserves, TickPreserves, CrashPreserves, BootPreserves DEF Next

-----------------------------------------------------------------------------
(* The theorems. *)

\* The strengthening holds in every reachable state.
THEOREM Inductive == Spec => []IInv
  BY InitInv, StepInv, PTL DEF Spec

\* Every variable of the session keeps its type, whatever handlers, tasks and crashes interleave.
THEOREM TypeCorrect == Spec => []TypeOK
  <1>1. IInv => TypeOK
    BY DEF IInv
  <1> QED BY <1>1, Inductive, PTL

\* No crash between the two saves of create, or around end_game, leaves train_games with two games
\* that are not ENDED, so load_active restores the game that was being played.
THEOREM OneActive == Spec => []OneActiveRow
  <1>1. IInv => OneActiveRow
    BY DEF IInv, StoreInv, OneActiveRow
  <1> QED BY <1>1, Inductive, PTL

\* Whenever no handler is inside the lock, the row of train_games holds the game in memory.
THEOREM NothingLost == Spec => []NothingToLose
  <1>1. ASSUME IInv PROVE NothingToLose
    <2>1. SUFFICES ASSUME Settled
                   PROVE  IF g.status = "IDLE" THEN row = 0 /\ ActiveRows = {}
                          ELSE row \in 1..nrows /\ g = [rows[row] EXCEPT !.early_resolve = g.early_resolve]
      BY DEF NothingToLose
    <2>2. up /\ cont.at = "free"
      BY <2>1, HeldTypes DEF Settled
    <2>3. CASE g.status = "IDLE"
      BY <1>1, <2>2, <2>3, InvSmall DEF IInv, StoreInv, ActiveRows
    <2>4. CASE g.status # "IDLE"
      BY <1>1, <2>2, <2>4, InvSmall DEF IInv, StoreInv
    <2> QED BY <2>3, <2>4
  <1> QED BY <1>1, Inductive, PTL

\* An open round always has its deadline task, and no other status has one.
THEOREM TimerGuards == Spec => []TimerGuardsOpenRound
  <1>1. IInv => TimerGuardsOpenRound
    BY DEF IInv, TimerInv, TimerGuardsOpenRound
  <1> QED BY <1>1, Inductive, PTL

-----------------------------------------------------------------------------
(* The game that counts. *)

\* The game a start would load.
Stored == IF nrows = 0 \/ rows[nrows].status = "ENDED" THEN NoGame ELSE rows[nrows]

LEMMA StoredIs == ASSUME IInv PROVE Stored = IF ActiveRows = {} THEN NoGame ELSE rows[Newest(ActiveRows)]
  <1>1. CASE ActiveRows = {}
    <2>1. nrows # 0 => rows[nrows].status = "ENDED"
      BY <1>1, InvSmall DEF ActiveRows
    <2> QED BY <1>1, <2>1 DEF Stored
  <1>2. CASE ActiveRows # {}
    <2>1. Newest(ActiveRows) = nrows /\ nrows # 0 /\ nrows \in ActiveRows
      BY <1>2, NewestIsLast
    <2> QED BY <1>2, <2>1 DEF Stored, ActiveRows
  <1> QED BY <1>1, <1>2

LEMMA CurrentIs == ASSUME IInv PROVE Current = IF up THEN g ELSE Stored
  BY StoredIs DEF Current

LEMMA CurrentType == ASSUME IInv PROVE Current \in Game
  BY CurrentIs, InvSmall, NoGameType DEF Stored

\* A process that dies between two handlers leaves the game it had in memory, but for its configuration.
LEMMA StoredIsGame ==
  ASSUME IInv, up, g.status \in Playing \/ g.status = "LOBBY"
  PROVE  \/ cont.at = "insert"
         \/ Stored \in Game /\ Stored = [g EXCEPT !.early_resolve = Stored.early_resolve]
  <1> SUFFICES ASSUME cont.at # "insert"
               PROVE  Stored \in Game /\ Stored = [g EXCEPT !.early_resolve = Stored.early_resolve]
    OBVIOUS
  <1>1. row = nrows /\ nrows # 0 /\ rows[nrows] \in Game /\ g \in Game
        /\ g = [rows[nrows] EXCEPT !.early_resolve = g.early_resolve]
    BY InvSmall DEF IInv, StoreInv, Playing
  <1>2. rows[nrows].status = g.status /\ rows[nrows] = [g EXCEPT !.early_resolve = rows[nrows].early_resolve]
    BY <1>1 DEF Game
  <1> QED BY <1>1, <1>2 DEF Stored, Playing

LEMMA NothingStored ==
  ASSUME IInv, up, g.status \notin Playing \cup {"LOBBY"} \/ cont.at = "insert"
  PROVE  Stored.status \notin Playing \cup {"LOBBY"}
  <1>1. CASE row = 0
    BY <1>1, NoGameType DEF IInv, StoreInv, Stored, Playing
  <1>2. CASE row # 0
    <2>1. rows[nrows].status = g.status
      BY <1>2, InvSmall DEF IInv, StoreInv, Game
    <2> QED BY <1>2, <2>1, NoGameType DEF IInv, StoreInv, Stored, Playing
  <1> QED BY <1>1, <1>2

-----------------------------------------------------------------------------
(* The two clocks of a round. *)

\* A paused round stands where it was stopped, and what it has left is never negative.
RoundClock(x) ==
  /\ x.status = "ROUND_OPEN" => /\ x.deadline_ts - now <= credit
                                /\ now - x.round_open_ts = openFor
                                /\ x.deadline_ts >= 0
  /\ x.status = "PAUSED" => /\ 0 <= x.paused_remaining /\ x.paused_remaining <= credit
                            /\ x.paused_at - x.round_open_ts = openFor
                            /\ x.paused_at <= now

ClockInv == credit >= 0 /\ RoundClock(Current)

\* Nothing moves a clock but the steps below it.
SameClock(x, y) ==
  /\ y.status = x.status /\ y.round_open_ts = x.round_open_ts /\ y.deadline_ts = x.deadline_ts
  /\ y.paused_remaining = x.paused_remaining /\ y.paused_at = x.paused_at

LEMMA DeadlineBound == ASSUME NEW x \in Game PROVE EffectiveDeadline(x) \in Int /\ EffectiveDeadline(x) <= x.deadline_ts
  BY DEF EffectiveDeadline, MinOf, Game, Times

LEMMA OpenedClock ==
  ASSUME NEW x, NEW y, y = Opened(x), now \in Nat, now' = now, openFor' = 0, credit' = RoundTimer
  PROVE  credit' >= 0 /\ RoundClock(y)'
  BY SessionAssumption DEF RoundClock, Opened, EffectiveDeadline, NoTime

LEMMA PausedClock ==
  ASSUME NEW x \in Game, NEW y, y = Paused(x), x.status = "ROUND_OPEN", RoundClock(x), now \in Nat, credit \in Int, credit >= 0,
         UNCHANGED clockVars
  PROVE  RoundClock(y)'
  <1> DEFINE left == EffectiveDeadline(x) - now
  <1>1. left \in Int /\ left <= credit /\ now - x.round_open_ts = openFor
    BY DeadlineBound DEF RoundClock, Game, Times
  <1> HIDE DEF left
  <1>2. 0 <= MaxOf(0, left) /\ MaxOf(0, left) <= credit
    BY <1>1 DEF MaxOf
  <1>3. Paused(x).status = "PAUSED" /\ Paused(x).paused_at = now /\ Paused(x).paused_remaining = MaxOf(0, left)
        /\ Paused(x).round_open_ts = x.round_open_ts
    BY DEF Paused, Game, left
  <1> QED BY <1>1, <1>2, <1>3 DEF RoundClock, clockVars

LEMMA ResumedClock ==
  ASSUME NEW x \in Game, NEW y, y = Resumed(x), x.status = "PAUSED", RoundClock(x), now \in Nat, credit \in Int, openFor \in Nat,
         UNCHANGED clockVars
  PROVE  RoundClock(y)'
  <1>1. /\ y \in Game /\ y.status = "ROUND_OPEN" /\ y.deadline_ts = now + x.paused_remaining
        /\ y.round_open_ts = x.round_open_ts + MaxOf(0, now - x.paused_at)
    BY ResumedType DEF Resumed, Game
  <1>2. /\ x.round_open_ts \in Int /\ x.paused_at \in Int /\ x.paused_remaining \in Int
        /\ 0 <= x.paused_remaining /\ x.paused_remaining <= credit
        /\ x.paused_at - x.round_open_ts = openFor /\ x.paused_at <= now
    BY DEF RoundClock, Game, Times, Spans, NoTime
  <1>3. now - y.round_open_ts = openFor
    BY <1>1, <1>2 DEF MaxOf
  <1> QED BY <1>1, <1>2, <1>3 DEF RoundClock, clockVars

LEMMA ExtendedClock ==
  ASSUME NEW x \in Game, NEW sec \in Nat, NEW y, y = Extended(x, sec), RoundClock(x), now \in Nat, credit \in Int,
         UNCHANGED <<now, openFor>>, credit' = credit + sec
  PROVE  RoundClock(y)'
  <1>1. CASE x.status = "PAUSED"
    <2>1. /\ Extended(x, sec).status = "PAUSED" /\ Extended(x, sec).paused_remaining = x.paused_remaining + sec
          /\ Extended(x, sec).paused_at = x.paused_at /\ Extended(x, sec).round_open_ts = x.round_open_ts
          /\ x.paused_remaining \in Int
      BY <1>1 DEF Extended, Game, Spans, NoTime
    <2> QED BY <1>1, <2>1 DEF RoundClock
  <1>2. CASE x.status = "ROUND_OPEN"
    <2>1. /\ y.status = "ROUND_OPEN" /\ y.deadline_ts = x.deadline_ts + sec /\ x.deadline_ts \in Int
          /\ y.round_open_ts = x.round_open_ts
      BY <1>2 DEF Extended, Game, Times
    <2> QED BY <1>2, <2>1 DEF RoundClock
  <1>3. CASE x.status \notin Playing
    BY <1>3 DEF Extended, RoundClock, Playing, Game
  <1> QED BY <1>1, <1>2, <1>3 DEF Playing

\* A game that is not played has no clock.
LEMMA NoClock == ASSUME NEW x, x.status \notin Playing PROVE RoundClock(x)'
  BY DEF RoundClock, Playing

LEMMA FinishedClock ==
  ASSUME NEW x \in Game, NEW r, FinishRound(x, r), now \in Nat, now' = now, credit >= 0
  PROVE  credit' >= 0 /\ RoundClock(g)'
  <1>1. PICK y \in Resolutions(x) :
          g' = y /\ IF y.status = "ROUND_OPEN" THEN openFor' = 0 /\ credit' = RoundTimer ELSE UNCHANGED <<openFor, credit>>
    BY DEF FinishRound
  <1>2. CASE y = Captured(x)
    <2>1. y.status = "CAPTURED"
      BY <1>2 DEF Captured, Game
    <2> QED BY <1>1, <2>1 DEF RoundClock
  <1>3. ASSUME NEW z \in NextRounds(x), y = Opened(z) PROVE credit' >= 0 /\ RoundClock(g)'
    <2>1. y.status = "ROUND_OPEN"
      BY <1>3, NextRoundsType, OpenedType
    <2> QED BY <1>1, <1>3, <2>1, OpenedClock
  <1> QED BY <1>2, <1>3 DEF Resolutions

LEMMA ClockLive == ASSUME IInv, ClockInv, up PROVE RoundClock(g) /\ credit >= 0
  BY DEF ClockInv, Current

LEMMA ClockNow == ASSUME up', credit' >= 0, RoundClock(g)' PROVE ClockInv'
  BY DEF ClockInv, Current

\* A handler that saves a game with the same clock, or one that is not played.
LEMMA ClockSaved ==
  ASSUME IInv, ClockInv, up, up', UNCHANGED clockVars, g'.status \notin Playing \/ SameClock(g, g')
  PROVE  ClockInv'
  <1>1. RoundClock(g) /\ credit >= 0 /\ credit' = credit /\ now' = now /\ openFor' = openFor
    BY ClockLive DEF clockVars
  <1>2. RoundClock(g)'
    BY <1>1 DEF RoundClock, SameClock, Playing
  <1> QED BY <1>1, <1>2, ClockNow

LEMMA ClockStays ==
  ASSUME IInv, ClockInv, UNCHANGED <<clockVars, up, g>>, up
  PROVE  ClockInv'
  BY ClockSaved DEF SameClock

LEMMA ClockLobby == ASSUME IInv, ClockInv, LobbyStep PROVE ClockInv'
  <1> PICK p \in Players :
        \/ Claim(p) \/ CreateRetiresCaptured(p)
        \/ \E n \in HunterCounts, ai \in BOOLEAN : CreateBinds(p, n, ai)
        \/ Join(p) \/ Leave(p)
        \/ \E n \in 2..6 : AddBots(p, n)
        \/ RemoveBots(p)
        \/ \E on \in BOOLEAN : SetFugitiveAi(p, on) \/ SetReveal(p, on)
        \/ StartGame(p)
    BY DEF LobbyStep
  <1> USE DEF Enter, AdminEnter
  <1>1. CASE Claim(p)
    BY <1>1, ClockStays DEF Claim
  <1>2. CASE CreateRetiresCaptured(p)
    BY <1>2, RetiredType, ClockSaved DEF CreateRetiresCaptured, Commit, Playing
  <1>3. ASSUME NEW n \in HunterCounts, NEW ai \in BOOLEAN, CreateBinds(p, n, ai) PROVE ClockInv'
    BY <1>3, NewGameType, ClockSaved DEF CreateBinds, Playing
  <1>4. CASE \/ Join(p) \/ Leave(p) \/ RemoveBots(p) \/ (\E n \in 2..6 : AddBots(p, n))
             \/ (\E on \in BOOLEAN : SetFugitiveAi(p, on) \/ SetReveal(p, on))
    <2>1. up /\ up' /\ UNCHANGED clockVars /\ g.status \in {"LOBBY", "CAPTURED"}
      <3> USE DEF LobbyFrame
      <3>1. Join(p) \/ Leave(p) \/ RemoveBots(p) => up /\ up' /\ UNCHANGED clockVars /\ g.status \in {"LOBBY", "CAPTURED"}
        BY DEF Join, Leave, RemoveBots
      <3>2. ASSUME NEW n \in 2..6, AddBots(p, n) PROVE up /\ up' /\ UNCHANGED clockVars /\ g.status \in {"LOBBY", "CAPTURED"}
        BY <3>2 DEF AddBots
      <3>3. ASSUME NEW on \in BOOLEAN, SetFugitiveAi(p, on) PROVE up /\ up' /\ UNCHANGED clockVars /\ g.status = "LOBBY"
        BY <3>3 DEF SetFugitiveAi
      <3>4. ASSUME NEW on \in BOOLEAN, SetReveal(p, on) PROVE up /\ up' /\ UNCHANGED clockVars /\ g.status = "CAPTURED"
        BY <3>4 DEF SetReveal
      <3> QED BY <1>4, <3>1, <3>2, <3>3, <3>4
    <2>2. \/ \E crew : g' = [g EXCEPT !.lobby = crew]
          \/ \E on, crew : g' = [g EXCEPT !.fugitive_ai = on, !.lobby = crew]
          \/ \E on : g' = [g EXCEPT !.reveal_path = on]
      <3>1. Join(p) \/ Leave(p) \/ RemoveBots(p) => \E crew : g' = [g EXCEPT !.lobby = crew]
        BY DEF Join, Leave, RemoveBots, Commit
      <3>2. ASSUME NEW n \in 2..6, AddBots(p, n) PROVE \E crew : g' = [g EXCEPT !.lobby = crew]
        BY <3>2 DEF AddBots, Commit
      <3>3. ASSUME NEW on \in BOOLEAN, SetFugitiveAi(p, on) PROVE \E f, crew : g' = [g EXCEPT !.fugitive_ai = f, !.lobby = crew]
        BY <3>3 DEF SetFugitiveAi, Commit
      <3>4. ASSUME NEW on \in BOOLEAN, SetReveal(p, on) PROVE \E f : g' = [g EXCEPT !.reveal_path = f]
        BY <3>4 DEF SetReveal, Commit
      <3> QED BY <1>4, <3>1, <3>2, <3>3, <3>4
    <2>3. g'.status = g.status
      BY <2>2, InvSmall DEF Game
    <2> QED BY <2>1, <2>3, ClockSaved DEF Playing
  <1>5. CASE StartGame(p)
    <2> DEFINE x == [g EXCEPT !.round_no = 1]
    <2>1. g' = Opened(x) /\ now' = now /\ openFor' = 0 /\ credit' = RoundTimer /\ up'
      BY <1>5 DEF StartGame, Commit
    <2> HIDE DEF x
    <2>2. credit' >= 0 /\ RoundClock(g)'
      BY <2>1, InvSmall, OpenedClock DEF SmallTypes
    <2> QED BY <2>1, <2>2, ClockNow
  <1> QED BY <1>1, <1>2, <1>3, <1>4, <1>5

\* What an order, a cancellation or a vote leaves alone.
SameRound(x, y) ==
  /\ y.status = x.status /\ y.lobby = x.lobby /\ y.dazed = x.dazed /\ y.frozen = x.frozen /\ y.early_resolve = x.early_resolve
  /\ y.round_open_ts = x.round_open_ts /\ y.deadline_ts = x.deadline_ts /\ y.grace_until = x.grace_until
  /\ y.paused_remaining = x.paused_remaining /\ y.paused_at = x.paused_at

LEMMA SubmittedSame == ASSUME NEW x \in Game, NEW h \in Ids PROVE SameRound(x, Submitted(x, h))
  BY DEF SameRound, Submitted, Game

LEMMA OrdersSame == ASSUME NEW x \in Game, NEW o \in SUBSET Ids
                    PROVE  [x EXCEPT !.orders = o] \in Game /\ SameRound(x, [x EXCEPT !.orders = o])
  BY DEF SameRound, Game

LEMMA FugitiveSame == ASSUME NEW x \in Game, NEW b \in BOOLEAN
                      PROVE  [x EXCEPT !.forder = b] \in Game /\ SameRound(x, [x EXCEPT !.forder = b])
  BY DEF SameRound, Game

LEMMA VoteSame == ASSUME NEW x \in Game, NEW t \in Ids, NEW v \in SUBSET Ids
                  PROVE  [x EXCEPT !.votes[t] = v] \in Game /\ SameRound(x, [x EXCEPT !.votes[t] = v])
  BY DEF SameRound, Game

\* What one step of a round does to the game.
RoundMove(x, y) ==
  \/ \E h \in x.lobby \ x.dazed : y = Submitted(x, h)
  \/ \E p \in Players : y = [x EXCEPT !.orders = @ \ {p}]
  \/ \E b \in BOOLEAN : y = [x EXCEPT !.forder = b]
  \/ \E p \in x.lobby, t \in x.lobby \ (x.orders \cup x.dazed) :
       /\ t # p /\ Cardinality(x.votes[t] \cup {p}) < VotesNeeded(x)
       /\ y = [x EXCEPT !.votes[t] = x.votes[t] \cup {p}]

\* What it leaves to _maybe_early_resolve: everything, or nothing when it adds no order.
RoundNext(x, y) ==
  \/ cont' = AfterSubmit(y)
  \/ cont' = Unheld /\ y.orders \subseteq x.orders /\ (y.forder => x.forder)

LEMMA RoundIsMove ==
  ASSUME IInv, RoundStep
  PROVE  /\ RoundMove(g, g') /\ RoundNext(g, g') /\ Enter /\ up' /\ UNCHANGED clockVars /\ g.status = "ROUND_OPEN"
         /\ UNCHANGED <<admin, row, nrows>> /\ rows' = [rows EXCEPT ![row] = g'] /\ ticket' \in {ticket, NoTicket}
  <1> DEFINE Frame == Enter /\ up' /\ UNCHANGED clockVars /\ g.status = "ROUND_OPEN" /\ UNCHANGED <<admin, row, nrows>>
                      /\ rows' = [rows EXCEPT ![row] = g'] /\ ticket' \in {ticket, NoTicket}
  <1>0. g \in Game
    BY InvSmall
  <1> SUFFICES RoundMove(g, g') /\ RoundNext(g, g') /\ Frame
    OBVIOUS
  <1> USE DEF Enter, AdminEnter, OrderFrame, Commit, Snapshot, rowVars
  <1>1. ASSUME NEW h \in Ids, HunterOrder(h) PROVE RoundMove(g, g') /\ RoundNext(g, g') /\ Frame
    <2>1. Frame /\ h \in g.lobby \ g.dazed /\ g' = Submitted(g, h) /\ cont' = AfterSubmit(g')
      BY <1>1 DEF HunterOrder
    <2> QED BY <2>1 DEF RoundMove, RoundNext
  <1>2. ASSUME NEW p \in Players, CancelHunterOrder(p) PROVE RoundMove(g, g') /\ RoundNext(g, g') /\ Frame
    <2>1. Frame /\ g' = [g EXCEPT !.orders = @ \ {p}] /\ cont' = Unheld
      BY <1>2 DEF CancelHunterOrder
    <2>2. RoundNext(g, g')
      BY <1>0, <2>1 DEF RoundNext, Game
    <2> QED BY <2>1, <2>2 DEF RoundMove
  <1>3. ASSUME NEW p \in Players, CancelFugitiveOrder(p) PROVE RoundMove(g, g') /\ RoundNext(g, g') /\ Frame
    <2>1. Frame /\ g' = [g EXCEPT !.forder = FALSE] /\ cont' = Unheld
      BY <1>3 DEF CancelFugitiveOrder
    <2>2. RoundNext(g, g')
      BY <1>0, <2>1 DEF RoundNext, Game
    <2>3. FALSE \in BOOLEAN
      OBVIOUS
    <2> QED BY <2>1, <2>2, <2>3 DEF RoundMove
  <1>4. ASSUME AiFugitiveOrder \/ (\E p \in Players : FugitiveOrder(p)) PROVE RoundMove(g, g') /\ RoundNext(g, g') /\ Frame
    <2>1. Frame /\ g' = [g EXCEPT !.forder = TRUE] /\ cont' = AfterSubmit(g')
      <3>1. CASE AiFugitiveOrder
        BY <3>1 DEF AiFugitiveOrder
      <3>2. ASSUME NEW p \in Players, FugitiveOrder(p) PROVE Frame /\ g' = [g EXCEPT !.forder = TRUE] /\ cont' = AfterSubmit(g')
        BY <3>2 DEF FugitiveOrder
      <3> QED BY <1>4, <3>1, <3>2
    <2>2. TRUE \in BOOLEAN
      OBVIOUS
    <2> QED BY <2>1, <2>2 DEF RoundMove, RoundNext
  <1>5. ASSUME NEW p \in Players, NEW t \in Ids, Vote(p, t) PROVE RoundMove(g, g') /\ RoundNext(g, g') /\ Frame
    <2> DEFINE voters == g.votes[t] \cup {p}
    <2>1. Frame /\ p \in g.lobby /\ t # p /\ t \in g.lobby \ (g.orders \cup g.dazed)
      BY <1>5 DEF Vote
    <2>2. IF Cardinality(voters) >= VotesNeeded(g)
          THEN g' = Submitted(g, t) /\ cont' = AfterSubmit(g')
          ELSE g' = [g EXCEPT !.votes[t] = voters] /\ cont' = Unheld
      BY <1>5 DEF Vote
    <2>3. Cardinality(voters) \in Nat /\ VotesNeeded(g) \in Int
      <3>1. IsFiniteSet(voters) /\ IsFiniteSet(g.lobby)
        <4>1. g.lobby \subseteq Ids /\ voters \subseteq Ids /\ IsFiniteSet(Ids)
          BY <1>0, SessionAssumption, FS_Union DEF Game, Ids
        <4> QED BY <4>1, FS_Subset
      <3> QED BY <3>1, FS_CardinalityType DEF VotesNeeded, MaxOf
    <2>4. CASE Cardinality(voters) >= VotesNeeded(g)
      <3>1. t \in g.lobby \ g.dazed /\ g' = Submitted(g, t) /\ cont' = AfterSubmit(g')
        BY <2>1, <2>2, <2>4
      <3> QED BY <2>1, <3>1 DEF RoundMove, RoundNext
    <2>5. CASE ~(Cardinality(voters) >= VotesNeeded(g))
      <3>1. Cardinality(voters) < VotesNeeded(g)
        BY <2>3, <2>5
      <3>2. g' = [g EXCEPT !.votes[t] = voters] /\ cont' = Unheld
        BY <2>2, <2>5
      <3>3. RoundMove(g, g')
        BY <2>1, <3>1, <3>2 DEF RoundMove
      <3>4. g'.orders = g.orders /\ g'.forder = g.forder
        BY <1>0, <3>2 DEF Game
      <3> QED BY <2>1, <3>2, <3>3, <3>4 DEF RoundNext
    <2> QED BY <2>4, <2>5
  <1> QED BY <1>1, <1>2, <1>3, <1>4, <1>5 DEF RoundStep

LEMMA MoveKeeps == ASSUME NEW x \in Game, NEW y, RoundMove(x, y) PROVE y \in Game /\ SameRound(x, y)
  <1>1. ASSUME NEW h \in x.lobby \ x.dazed, y = Submitted(x, h) PROVE y \in Game /\ SameRound(x, y)
    BY <1>1, SubmittedType, SubmittedSame DEF Game
  <1>2. ASSUME NEW p \in Players, y = [x EXCEPT !.orders = @ \ {p}] PROVE y \in Game /\ SameRound(x, y)
    <2>1. x.orders \ {p} \in SUBSET Ids
      BY DEF Game
    <2> QED BY <1>2, <2>1, OrdersSame
  <1>3. ASSUME NEW b \in BOOLEAN, y = [x EXCEPT !.forder = b] PROVE y \in Game /\ SameRound(x, y)
    BY <1>3, FugitiveSame
  <1>4. ASSUME NEW p \in x.lobby, NEW t \in x.lobby \ (x.orders \cup x.dazed), y = [x EXCEPT !.votes[t] = x.votes[t] \cup {p}]
        PROVE  y \in Game /\ SameRound(x, y)
    <2>1. x.votes[t] \cup {p} \in SUBSET Ids /\ t \in Ids
      BY DEF Game
    <2> QED BY <1>4, <2>1, VoteSame
  <1> QED BY <1>1, <1>2, <1>3, <1>4 DEF RoundMove

LEMMA RoundKeeps ==
  ASSUME IInv, RoundStep
  PROVE  g' \in Game /\ SameRound(g, g') /\ Enter /\ up' /\ UNCHANGED clockVars /\ g.status = "ROUND_OPEN"
  BY RoundIsMove, MoveKeeps, InvSmall

LEMMA ClockRound == ASSUME IInv, ClockInv, RoundStep PROVE ClockInv'
  <1>1. g' \in Game /\ SameRound(g, g') /\ up /\ up' /\ UNCHANGED clockVars
    BY RoundKeeps DEF Enter
  <1> QED BY <1>1, ClockSaved DEF SameRound, SameClock

LEMMA ClockAdmin == ASSUME IInv, ClockInv, AdminStep PROVE ClockInv'
  <1> PICK p \in Players :
        \/ \E early, ok \in BOOLEAN : SetConfig(p, early, ok)
        \/ Pause(p) \/ Resume(p) \/ EndRound(p) \/ EndGame(p)
        \/ \E sec \in Extensions : Extend(p, sec)
        \/ \E op \in QueuedOps : Queue(p, op)
    BY DEF AdminStep
  <1> USE DEF Enter, AdminEnter
  <1>0. g \in Game /\ now \in Nat /\ credit \in Int /\ openFor \in Nat
    BY InvSmall DEF SmallTypes
  <1>1. ASSUME NEW early \in BOOLEAN, NEW ok \in BOOLEAN, SetConfig(p, early, ok) PROVE ClockInv'
    <2>1. g' = [g EXCEPT !.early_resolve = early] /\ up /\ up' /\ UNCHANGED clockVars
      BY <1>1 DEF SetConfig, Commit, OrderFrame
    <2> QED BY <1>0, <2>1, ClockSaved DEF SameClock, Game
  <1>2. CASE Pause(p)
    <2>1. up /\ up' /\ g' = Paused(g) /\ g.status = "ROUND_OPEN" /\ UNCHANGED clockVars
      BY <1>2 DEF Pause, Commit
    <2> QED BY <1>0, <2>1, ClockLive, ClockNow, PausedClock DEF clockVars
  <1>3. CASE Resume(p)
    <2>1. up /\ up' /\ g' = Resumed(g) /\ g.status = "PAUSED" /\ UNCHANGED clockVars
      BY <1>3 DEF Resume, Commit
    <2> QED BY <1>0, <2>1, ClockLive, ClockNow, ResumedClock DEF clockVars
  <1>4. CASE EndRound(p)
    <2> DEFINE x == [g EXCEPT !.status = "ROUND_OPEN"]
    <2>1. x \in Game
      BY <1>0, StatusTypes DEF Game
    <2>2. FinishRound(x, row) /\ now' = now /\ up /\ up'
      BY <1>4 DEF EndRound
    <2> HIDE DEF x
    <2> QED BY <1>0, <2>1, <2>2, ClockLive, ClockNow, FinishedClock
  <1>5. CASE EndGame(p)
    BY <1>5, NoGameType, ClockSaved DEF EndGame, Playing
  <1>6. ASSUME NEW sec \in Extensions, Extend(p, sec) PROVE ClockInv'
    <2>1. up /\ up' /\ g' = Extended(g, sec) /\ UNCHANGED <<now, openFor>> /\ credit' = credit + sec /\ sec \in Nat
      BY <1>6, SessionAssumption DEF Extend, Commit
    <2>2. RoundClock(g)' /\ credit >= 0
      BY <1>0, <2>1, ClockLive, ExtendedClock
    <2> QED BY <1>0, <2>1, <2>2, ClockNow
  <1>7. ASSUME NEW op \in QueuedOps, Queue(p, op) PROVE ClockInv'
    BY <1>7, ClockStays DEF Queue
  <1> QED BY <1>1, <1>2, <1>3, <1>4, <1>5, <1>6, <1>7

LEMMA ClockHolder == ASSUME IInv, ClockInv, LockHolderStep \/ QueuedFails \/ TaskStep PROVE ClockInv'
  <1>0. g \in Game /\ now \in Nat /\ credit \in Int /\ openFor \in Nat
    BY InvSmall DEF SmallTypes
  <1> USE DEF Enter
  <1>1. CASE ClaimLeavesLobby
    <2>1. g' = [g EXCEPT !.lobby = @ \ {cont.by}] /\ up /\ up' /\ UNCHANGED clockVars
      BY <1>1 DEF ClaimLeavesLobby, Commit
    <2>2. g' \in Game /\ g'.status \notin Playing
      BY <1>0, <1>1, <2>1 DEF ClaimLeavesLobby, Game, IInv, HolderInv, Playing
    <2> QED BY <2>1, <2>2, ClockSaved
  <1>2. CASE CreateRejected \/ CreateInserts \/ QueuedFails \/ TimerWakes \/ (\E k \in hooks, c \in BOOLEAN : HookPosts(k, c))
    BY <1>2, ClockStays DEF CreateRejected, CreateInserts, QueuedFails, TimerWakes, HookPosts
  <1>3. CASE EarlyResolve
    BY <1>0, <1>3, ClockLive, ClockNow, FinishedClock DEF EarlyResolve
  <1>4. CASE StartGrace
    <2> DEFINE y == [g EXCEPT !.grace_until = MinOf(g.deadline_ts, now + Grace)]
    <2>1. g' = y /\ up /\ up' /\ UNCHANGED clockVars
      BY <1>4 DEF StartGrace, Commit
    <2>2. SameClock(g, g')
      BY <1>0, <2>1 DEF SameClock, Game
    <2> QED BY <2>1, <2>2, ClockSaved
  <1>5. CASE CheckDeadline
    <2>1. CASE g.status = "ROUND_OPEN" /\ Expired(g)
      BY <1>0, <1>5, <2>1, ClockLive, ClockNow, FinishedClock DEF CheckDeadline
    <2>2. CASE ~(g.status = "ROUND_OPEN" /\ Expired(g))
      BY <1>5, <2>2, ClockStays DEF CheckDeadline, clockVars
    <2> QED BY <2>1, <2>2
  <1>6. ASSUME NEW k \in hooks, HookMarks(k) PROVE ClockInv'
    <2>1. CASE g.status = "CAPTURED" /\ ~g.webhook_sent
      <3>1. g' = [g EXCEPT !.webhook_sent = TRUE] /\ up /\ up' /\ UNCHANGED clockVars
        BY <1>6, <2>1 DEF HookMarks, Commit
      <3>2. g' \in Game /\ g'.status \notin Playing
        BY <1>0, <2>1, <3>1 DEF Game, Playing
      <3> QED BY <3>1, <3>2, ClockSaved
    <2>2. CASE ~(g.status = "CAPTURED" /\ ~g.webhook_sent)
      BY <1>6, <2>2, ClockStays DEF HookMarks
    <2> QED BY <2>1, <2>2
  <1> QED BY <1>1, <1>2, <1>3, <1>4, <1>5, <1>6 DEF LockHolderStep, TaskStep

\* A second passes: an open round has one second less, unless its deadline is already due.
LEMMA ClockTick == ASSUME IInv, ClockInv, Tick PROVE ClockInv'
  <1> DEFINE x == Current
  <1>1. x \in Game /\ RoundClock(x) /\ now \in Nat /\ openFor \in Nat /\ credit \in Int /\ credit >= 0
    BY CurrentType, InvSmall DEF SmallTypes, ClockInv
  <1>2. /\ x.status \in Playing /\ now' = now + 1 /\ Current' = x
        /\ openFor' = IF x.status = "ROUND_OPEN" THEN openFor + 1 ELSE openFor
        /\ credit' = IF x.status = "ROUND_OPEN" /\ ~Expired(x) THEN credit - 1 ELSE credit
    BY DEF Tick, Current, ActiveRows, rowVars, Playing
  <1> HIDE DEF x
  <1>3. EffectiveDeadline(x) \in Int /\ EffectiveDeadline(x) <= x.deadline_ts /\ x.deadline_ts \in Int
        /\ x.round_open_ts \in Int /\ x.paused_at \in Int /\ x.paused_remaining \in Int
    BY <1>1, DeadlineBound DEF Game, Times, Spans, NoTime
  <1>4. CASE x.status = "PAUSED"
    <2>1. credit' = credit /\ openFor' = openFor
      BY <1>2, <1>4
    <2> QED BY <1>1, <1>2, <1>3, <1>4, <2>1 DEF ClockInv, RoundClock
  <1>5. CASE x.status = "ROUND_OPEN"
    <2>1. openFor' = openFor + 1 /\ now' - x.round_open_ts = openFor' /\ x.deadline_ts >= 0
      BY <1>1, <1>2, <1>3, <1>5 DEF RoundClock
    <2>2. credit' >= 0 /\ x.deadline_ts - now' <= credit'
      <3>1. CASE Expired(x)
        BY <1>1, <1>2, <1>3, <1>5, <3>1 DEF RoundClock
      <3>2. CASE ~Expired(x)
        <4>1. now < EffectiveDeadline(x)
          BY <1>1, <1>3, <3>2 DEF Expired
        <4> QED BY <1>1, <1>2, <1>3, <1>5, <3>2, <4>1 DEF RoundClock
      <3> QED BY <3>1, <3>2
    <2> QED BY <1>2, <1>5, <2>1, <2>2 DEF ClockInv, RoundClock
  <1> QED BY <1>2, <1>4, <1>5 DEF Playing

\* The process dies: the game the next start will load has the clock the game in memory had.
LEMMA CrashStored == ASSUME IInv, Crash PROVE Current' = Stored /\ Stored' = Stored
  <1>1. ~up' /\ nrows' = nrows /\ rows' = rows
    BY DEF Crash
  <1> QED BY <1>1, StoredIs DEF Current, Stored, ActiveRows

LEMMA ClockCrash == ASSUME IInv, ClockInv, Crash PROVE ClockInv'
  <1>1. Current' = Stored /\ UNCHANGED clockVars /\ up
    BY CrashStored DEF Crash
  <1>2. RoundClock(g) /\ credit >= 0 /\ g \in Game
    BY <1>1, ClockLive, InvSmall
  <1>3. Stored.status \notin Playing \/ SameClock(g, Stored)
    <2>1. CASE (g.status \in Playing \/ g.status = "LOBBY") /\ cont.at # "insert"
      <3> DEFINE early == Stored.early_resolve
      <3>1. Stored = [g EXCEPT !.early_resolve = early]
        BY <1>1, <2>1, StoredIsGame
      <3> HIDE DEF early
      <3> QED BY <1>2, <3>1 DEF SameClock, Game
    <2>2. CASE ~((g.status \in Playing \/ g.status = "LOBBY") /\ cont.at # "insert")
      BY <1>1, <2>2, NothingStored
    <2> QED BY <2>1, <2>2
  <1> QED BY <1>1, <1>2, <1>3 DEF ClockInv, RoundClock, SameClock, clockVars, Playing

\* Manager.start resumes the stored game as it is, or resolves the round that ran out while it was down.
LEMMA BootIs ==
  ASSUME IInv, Boot
  PROVE  /\ ~up /\ up' /\ now' = now /\ admin' = admin /\ nrows' = nrows /\ cont' = Unheld /\ ticket' = ticket
         /\ Current = Stored /\ Stored \in Game
         /\ \/ g' = Stored /\ UNCHANGED <<rows, openFor, credit>>
            \/ Stored.status = "ROUND_OPEN" /\ nrows # 0 /\ FinishRound(Stored, nrows)
  <1>1. ~up /\ up' /\ now' = now /\ admin' = admin /\ nrows' = nrows /\ cont' = Unheld /\ ticket' = ticket /\ g = NoGame
    BY DEF Boot, IInv, HolderInv
  <1>2. Current = Stored /\ Stored \in Game
    BY <1>1, CurrentIs, CurrentType
  <1>3. CASE ActiveRows = {}
    <2>1. nrows # 0 => rows[nrows].status = "ENDED"
      BY <1>3, InvSmall DEF ActiveRows
    <2> QED BY <1>1, <1>2, <1>3, <2>1 DEF Boot, Stored
  <1>4. CASE ActiveRows # {}
    <2>1. Newest(ActiveRows) = nrows /\ nrows # 0 /\ nrows \in ActiveRows
      BY <1>4, NewestIsLast
    <2>2. Stored = rows[nrows]
      BY <2>1 DEF Stored, ActiveRows
    <2> QED BY <1>1, <1>2, <1>4, <2>1, <2>2 DEF Boot
  <1> QED BY <1>3, <1>4

LEMMA ClockBoot == ASSUME IInv, ClockInv, Boot PROVE ClockInv'
  <1>1. Current = Stored /\ Stored \in Game /\ up' /\ now' = now
    BY BootIs
  <1>2. RoundClock(Stored) /\ credit >= 0 /\ now \in Nat
    BY <1>1, InvSmall DEF ClockInv, SmallTypes
  <1>3. CASE g' = Stored /\ UNCHANGED <<rows, openFor, credit>>
    BY <1>1, <1>2, <1>3, ClockNow DEF RoundClock
  <1>4. CASE FinishRound(Stored, nrows)
    BY <1>1, <1>2, <1>4, FinishedClock, ClockNow
  <1> QED BY <1>3, <1>4, BootIs

LEMMA ClockInit == Init => ClockInv
  <1> SUFFICES ASSUME Init PROVE ClockInv
    OBVIOUS
  <1>1. credit = 0 /\ Current = NoGame
    BY DEF Init, Current
  <1> QED BY <1>1, NoGameType DEF ClockInv, RoundClock

LEMMA ClockStep == IInv /\ ClockInv /\ [Next]_vars => ClockInv'
  <1> SUFFICES ASSUME IInv, ClockInv, [Next]_vars PROVE ClockInv'
    OBVIOUS
  <1>1. CASE UNCHANGED vars
    <2>1. Current' = Current /\ UNCHANGED clockVars
      BY <1>1 DEF vars, Current, ActiveRows, clockVars
    <2> QED BY <2>1 DEF ClockInv, RoundClock, clockVars
  <1> QED BY <1>1, ClockLobby, ClockRound, ClockAdmin, ClockHolder, ClockTick, ClockCrash, ClockBoot DEF Next

\* No pause, extension, grace, crash or restart hands out round time or takes any: what is left of a
\* round never exceeds what it was granted and has not used, and its vote window counts its open seconds.
THEOREM TimeKept == Spec => []TimeIsKept
  <1>1. ASSUME IInv, ClockInv PROVE TimeIsKept
    <2>1. Current \in Game /\ now \in Nat /\ credit \in Int
      BY <1>1, CurrentType, InvSmall DEF SmallTypes
    <2>2. EffectiveDeadline(Current) \in Int /\ EffectiveDeadline(Current) <= Current.deadline_ts
          /\ Current.deadline_ts \in Int
      BY <2>1, DeadlineBound DEF Game, Times
    <2> QED BY <1>1, <2>1, <2>2 DEF ClockInv, RoundClock, TimeIsKept, RoundTimeIsGranted, VoteClockCountsPlay
  <1>2. Spec => []ClockInv
    BY ClockInit, ClockStep, Inductive, PTL DEF Spec
  <1> QED BY <1>1, <1>2, Inductive, PTL

-----------------------------------------------------------------------------
(* The votes. *)

\* What every vote of a played game is: the ledger VoteLedgerSound reads, of any game and at any time.
VotesCount(x) ==
  x.status \in Playing =>
    \A t \in Ids : x.votes[t] # {} =>
      /\ t \in x.lobby \ (x.orders \cup x.dazed)
      /\ x.votes[t] \subseteq x.lobby \ {t}
      /\ Cardinality(x.votes[t]) < VotesNeeded(x)

\* A played game whose crew, orders and votes a step leaves alone.
SameBoard(x, y) ==
  /\ x.status \in Playing
  /\ y.lobby = x.lobby /\ y.orders = x.orders /\ y.dazed = x.dazed /\ y.votes = x.votes

\* All a step can do to the votes.
BoardMove(x, y) ==
  \/ y.status \notin Playing
  \/ y.votes = NoVotes
  \/ x.status = "ROUND_OPEN" /\ RoundMove(x, y)
  \/ SameBoard(x, y)

LEMMA MoveCounts == ASSUME NEW x \in Game, NEW y, VotesCount(x), BoardMove(x, y) PROVE VotesCount(y)
  <1> USE DEF VotesCount
  <1>1. CASE y.status \notin Playing
    BY <1>1
  <1>2. CASE y.votes = NoVotes
    BY <1>2 DEF NoVotes
  <1>3. CASE SameBoard(x, y)
    BY <1>3 DEF SameBoard, VotesNeeded
  <1>4. CASE x.status = "ROUND_OPEN" /\ RoundMove(x, y)
    <2>1. x.status \in Playing /\ y.lobby = x.lobby /\ y.dazed = x.dazed /\ VotesNeeded(y) = VotesNeeded(x)
      BY <1>4, MoveKeeps DEF SameRound, VotesNeeded, Playing
    <2>2. ASSUME NEW h \in x.lobby \ x.dazed, y = Submitted(x, h) PROVE VotesCount(y)
      <3>1. y.orders = x.orders \cup {h} /\ \A t \in Ids : y.votes[t] = IF t = h THEN {} ELSE x.votes[t]
        BY <2>2 DEF Submitted, Game
      <3> QED BY <2>1, <3>1
    <2>3. ASSUME NEW p \in Players, y = [x EXCEPT !.orders = @ \ {p}] PROVE VotesCount(y)
      <3>1. y.orders = x.orders \ {p} /\ y.votes = x.votes
        BY <2>3 DEF Game
      <3> QED BY <2>1, <3>1
    <2>4. ASSUME NEW b \in BOOLEAN, y = [x EXCEPT !.forder = b] PROVE VotesCount(y)
      <3>1. y.orders = x.orders /\ y.votes = x.votes
        BY <2>4 DEF Game
      <3> QED BY <2>1, <3>1
    <2>5. ASSUME NEW p \in x.lobby, NEW t \in x.lobby \ (x.orders \cup x.dazed), t # p,
                 Cardinality(x.votes[t] \cup {p}) < VotesNeeded(x), y = [x EXCEPT !.votes[t] = x.votes[t] \cup {p}]
          PROVE  VotesCount(y)
      <3>1. y.orders = x.orders /\ \A u \in Ids : y.votes[u] = IF u = t THEN x.votes[t] \cup {p} ELSE x.votes[u]
        BY <2>5 DEF Game
      <3>2. x.votes[t] \subseteq x.lobby \ {t} /\ t \in Ids
        BY <2>1 DEF Game
      <3> QED BY <2>1, <2>5, <3>1, <3>2
    <2> QED BY <1>4, <2>2, <2>3, <2>4, <2>5 DEF RoundMove
  <1> QED BY <1>1, <1>2, <1>3, <1>4 DEF BoardMove

LEMMA FinishedBoard ==
  ASSUME NEW x \in Game, NEW r, FinishRound(x, r)
  PROVE  \/ g'.status = "CAPTURED" /\ g'.orders = x.lobby
         \/ g'.status = "ROUND_OPEN" /\ g'.orders = {} /\ g'.votes = NoVotes
  <1>1. PICK y \in Resolutions(x) : g' = y
    BY DEF FinishRound
  <1>2. CASE y = Captured(x)
    <2>1. Captured(x).status = "CAPTURED" /\ Captured(x).orders = x.lobby
      BY DEF Captured, Game
    <2> QED BY <1>1, <1>2, <2>1
  <1>3. ASSUME NEW z \in NextRounds(x), y = Opened(z) PROVE g'.status = "ROUND_OPEN" /\ g'.orders = {} /\ g'.votes = NoVotes
    <2>1. PICK d \in SUBSET x.lobby, f \in {b \in BOOLEAN : x.frozen => b} : z = NextRound(x, d, f)
      BY DEF NextRounds
    <2>2. z \in Game /\ z.orders = {}
      BY <2>1, NextRoundsType DEF NextRound, Game
    <2>3. Opened(z).status = "ROUND_OPEN" /\ Opened(z).orders = {} /\ Opened(z).votes = NoVotes
      BY <2>2 DEF Opened, Game
    <2> QED BY <1>1, <1>3, <2>3
  <1> QED BY <1>2, <1>3 DEF Resolutions

\* Every step of the system is one of these moves of the game that counts.
LEMMA BoardLobby == ASSUME IInv, LobbyStep PROVE BoardMove(Current, Current')
  <1> PICK p \in Players :
        \/ Claim(p) \/ CreateRetiresCaptured(p)
        \/ \E n \in HunterCounts, ai \in BOOLEAN : CreateBinds(p, n, ai)
        \/ Join(p) \/ Leave(p)
        \/ \E n \in 2..6 : AddBots(p, n)
        \/ RemoveBots(p)
        \/ \E on \in BOOLEAN : SetFugitiveAi(p, on) \/ SetReveal(p, on)
        \/ StartGame(p)
    BY DEF LobbyStep
  <1> USE DEF Enter, AdminEnter
  <1>0. g \in Game
    BY InvSmall
  <1>1. CASE Claim(p)
    <2>1. Current = g /\ Current' = g
      BY <1>1 DEF Claim, Current
    <2> QED BY <2>1 DEF BoardMove, SameBoard
  <1>2. CASE CreateRetiresCaptured(p)
    <2>1. Current' = Retired(g)
      BY <1>2 DEF CreateRetiresCaptured, Commit, Current
    <2> QED BY <2>1, RetiredType DEF BoardMove, Playing
  <1>3. ASSUME NEW n \in HunterCounts, NEW ai \in BOOLEAN, CreateBinds(p, n, ai) PROVE BoardMove(Current, Current')
    <2>1. Current' = NewGame(n, ai)
      BY <1>3 DEF CreateBinds, Current
    <2> QED BY <2>1, NewGameType DEF BoardMove, Playing
  <1>4. ASSUME up, up', g.status \in {"LOBBY", "CAPTURED"},
               \/ \E crew : g' = [g EXCEPT !.lobby = crew]
               \/ \E on, crew : g' = [g EXCEPT !.fugitive_ai = on, !.lobby = crew]
               \/ \E on : g' = [g EXCEPT !.reveal_path = on]
        PROVE  BoardMove(Current, Current')
    <2>1. g'.status = g.status
      BY <1>0, <1>4 DEF Game
    <2> QED BY <1>4, <2>1 DEF BoardMove, Current, Playing
  <1>5. CASE Join(p) \/ Leave(p) \/ RemoveBots(p)
    <2>1. up /\ up' /\ g.status = "LOBBY"
      BY <1>5 DEF Join, Leave, RemoveBots, LobbyFrame
    <2>2. \E crew : g' = [g EXCEPT !.lobby = crew]
      BY <1>5 DEF Join, Leave, RemoveBots, Commit
    <2> QED BY <1>4, <2>1, <2>2
  <1>6. ASSUME NEW n \in 2..6, AddBots(p, n) PROVE BoardMove(Current, Current')
    BY <1>4, <1>6 DEF AddBots, Commit, LobbyFrame
  <1>7. ASSUME NEW on \in BOOLEAN, SetFugitiveAi(p, on) PROVE BoardMove(Current, Current')
    <2>1. up /\ up' /\ g.status = "LOBBY" /\ \E f, crew : g' = [g EXCEPT !.fugitive_ai = f, !.lobby = crew]
      BY <1>7 DEF SetFugitiveAi, Commit, LobbyFrame
    <2> QED BY <1>4, <2>1
  <1>8. ASSUME NEW on \in BOOLEAN, SetReveal(p, on) PROVE BoardMove(Current, Current')
    <2>1. up /\ up' /\ g.status = "CAPTURED"
      BY <1>8 DEF SetReveal, LobbyFrame
    <2>2. g' = [g EXCEPT !.reveal_path = on]
      BY <1>8 DEF SetReveal, Commit
    <2> QED BY <1>4, <2>1, <2>2
  <1>9. CASE StartGame(p)
    <2>1. g' = Opened([g EXCEPT !.round_no = 1]) /\ up' = up /\ up
      BY <1>9 DEF StartGame, Commit
    <2>2. g'.votes = NoVotes
      BY <1>0, <2>1 DEF Opened, Game
    <2> QED BY <2>1, <2>2 DEF BoardMove, Current
  <1> QED BY <1>1, <1>2, <1>3, <1>5, <1>6, <1>7, <1>8, <1>9

LEMMA BoardRound == ASSUME IInv, RoundStep PROVE BoardMove(Current, Current')
  BY RoundIsMove DEF BoardMove, Current, Enter

LEMMA BoardAdmin == ASSUME IInv, AdminStep PROVE BoardMove(Current, Current')
  <1> PICK p \in Players :
        \/ \E early, ok \in BOOLEAN : SetConfig(p, early, ok)
        \/ Pause(p) \/ Resume(p) \/ EndRound(p) \/ EndGame(p)
        \/ \E sec \in Extensions : Extend(p, sec)
        \/ \E op \in QueuedOps : Queue(p, op)
    BY DEF AdminStep
  <1> USE DEF Enter, AdminEnter
  <1>0. g \in Game
    BY InvSmall
  <1>1. ASSUME NEW early \in BOOLEAN, NEW ok \in BOOLEAN, SetConfig(p, early, ok) PROVE BoardMove(Current, Current')
    <2>1. g' = [g EXCEPT !.early_resolve = early] /\ up /\ up'
      BY <1>1 DEF SetConfig, Commit, OrderFrame
    <2>2. g'.status = g.status /\ (g.status \in Playing => SameBoard(g, g'))
      BY <1>0, <2>1 DEF SameBoard, Game
    <2> QED BY <2>1, <2>2 DEF BoardMove, Current
  <1>2. CASE Pause(p)
    <2>1. g' = Paused(g) /\ up /\ up' /\ g.status = "ROUND_OPEN"
      BY <1>2 DEF Pause, Commit
    <2>2. SameBoard(g, g')
      BY <1>0, <2>1 DEF SameBoard, Paused, Playing, Game
    <2> QED BY <2>1, <2>2 DEF BoardMove, Current
  <1>3. CASE Resume(p)
    <2>1. g' = Resumed(g) /\ up /\ up' /\ g.status = "PAUSED"
      BY <1>3 DEF Resume, Commit
    <2>2. SameBoard(g, g')
      BY <1>0, <2>1 DEF SameBoard, Resumed, Playing, Game
    <2> QED BY <2>1, <2>2 DEF BoardMove, Current
  <1>4. CASE EndRound(p)
    <2> DEFINE x == [g EXCEPT !.status = "ROUND_OPEN"]
    <2>1. x \in Game
      BY <1>0, StatusTypes DEF Game
    <2>2. FinishRound(x, row) /\ up /\ up'
      BY <1>4 DEF EndRound
    <2> HIDE DEF x
    <2> QED BY <2>1, <2>2, FinishedBoard DEF BoardMove, Current, Playing
  <1>5. CASE EndGame(p)
    <2>1. g' = NoGame /\ up'
      BY <1>5 DEF EndGame
    <2> QED BY <2>1, NoGameType DEF BoardMove, Current, Playing
  <1>6. ASSUME NEW sec \in Extensions, Extend(p, sec) PROVE BoardMove(Current, Current')
    <2>1. g' = Extended(g, sec) /\ up /\ up' /\ g.status \in Playing
      BY <1>6 DEF Extend, Commit, Playing
    <2>2. SameBoard(g, g')
      BY <1>0, <2>1 DEF SameBoard, Extended, Game
    <2> QED BY <2>1, <2>2 DEF BoardMove, Current
  <1>7. ASSUME NEW op \in QueuedOps, Queue(p, op) PROVE BoardMove(Current, Current')
    <2>1. Current = g /\ Current' = g
      BY <1>7 DEF Queue, Current
    <2> QED BY <2>1 DEF BoardMove, SameBoard
  <1> QED BY <1>1, <1>2, <1>3, <1>4, <1>5, <1>6, <1>7

LEMMA BoardRest == ASSUME IInv, LockHolderStep \/ QueuedFails \/ TaskStep \/ Tick \/ Crash \/ Boot PROVE BoardMove(Current, Current')
  <1> USE DEF Enter
  <1>0. g \in Game /\ NoGame \in Game
    BY InvSmall, NoGameType
  <1>1. ASSUME Current' = Current PROVE BoardMove(Current, Current')
    BY <1>1 DEF BoardMove, SameBoard
  <1>2. CASE CreateRejected \/ CreateInserts \/ QueuedFails \/ TimerWakes \/ (\E k \in hooks, c \in BOOLEAN : HookPosts(k, c))
    BY <1>1, <1>2 DEF CreateRejected, CreateInserts, QueuedFails, TimerWakes, HookPosts, Current
  <1>3. CASE ClaimLeavesLobby
    <2>1. g' = [g EXCEPT !.lobby = @ \ {cont.by}] /\ up' /\ g.status = "LOBBY"
      BY <1>3 DEF ClaimLeavesLobby, Commit, IInv, HolderInv
    <2>2. g'.status = "LOBBY"
      BY <1>0, <2>1 DEF Game
    <2> QED BY <2>1, <2>2 DEF BoardMove, Current, Playing
  <1>4. ASSUME FinishRound(g, row), up' PROVE BoardMove(Current, Current')
    BY <1>0, <1>4, FinishedBoard DEF BoardMove, Current, Playing
  <1>5. CASE EarlyResolve
    BY <1>4, <1>5 DEF EarlyResolve
  <1>6. CASE StartGrace
    <2>1. g' = [g EXCEPT !.grace_until = MinOf(g.deadline_ts, now + Grace)] /\ up /\ up' /\ g.status \in Playing
      BY <1>6 DEF StartGrace, Commit, IInv, HolderInv, Playing
    <2>2. SameBoard(g, g')
      BY <1>0, <2>1 DEF SameBoard, Game
    <2> QED BY <2>1, <2>2 DEF BoardMove, Current
  <1>7. CASE CheckDeadline
    <2>1. CASE g.status = "ROUND_OPEN" /\ Expired(g)
      BY <1>4, <1>7, <2>1 DEF CheckDeadline
    <2>2. CASE ~(g.status = "ROUND_OPEN" /\ Expired(g))
      BY <1>1, <1>7, <2>2 DEF CheckDeadline, Current
    <2> QED BY <2>1, <2>2
  <1>8. ASSUME NEW k \in hooks, HookMarks(k) PROVE BoardMove(Current, Current')
    <2>1. CASE g.status = "CAPTURED" /\ ~g.webhook_sent
      <3>1. g' = [g EXCEPT !.webhook_sent = TRUE] /\ up'
        BY <1>8, <2>1 DEF HookMarks, Commit
      <3>2. g'.status = "CAPTURED"
        BY <1>0, <2>1, <3>1 DEF Game
      <3> QED BY <3>1, <3>2 DEF BoardMove, Current, Playing
    <2>2. CASE ~(g.status = "CAPTURED" /\ ~g.webhook_sent)
      BY <1>1, <1>8, <2>2 DEF HookMarks, Current
    <2> QED BY <2>1, <2>2
  <1>9. CASE Tick
    BY <1>1, <1>9 DEF Tick, Current, ActiveRows, rowVars
  <1>10. CASE Crash
    <2>1. Current' = Stored /\ up
      BY <1>10, CrashStored DEF Crash
    <2>2. CASE g.status \in Playing /\ cont.at # "insert"
      <3> DEFINE early == Stored.early_resolve
      <3>1. Stored = [g EXCEPT !.early_resolve = early]
        BY <2>1, <2>2, StoredIsGame
      <3> HIDE DEF early
      <3>2. SameBoard(g, Stored)
        BY <1>0, <2>2, <3>1 DEF SameBoard, Game
      <3> QED BY <2>1, <3>2 DEF BoardMove, Current
    <2>3. CASE g.status = "LOBBY" /\ cont.at # "insert"
      <3> DEFINE early == Stored.early_resolve
      <3>1. Stored = [g EXCEPT !.early_resolve = early]
        BY <2>1, <2>3, StoredIsGame
      <3> HIDE DEF early
      <3>2. Stored.status = "LOBBY"
        BY <1>0, <2>3, <3>1 DEF Game
      <3> QED BY <2>1, <3>2 DEF BoardMove, Playing
    <2>4. CASE g.status \notin Playing \cup {"LOBBY"} \/ cont.at = "insert"
      BY <2>1, <2>4, NothingStored DEF BoardMove
    <2> QED BY <2>2, <2>3, <2>4
  <1>11. CASE Boot
    <2>1. up' /\ Current = Stored /\ Stored \in Game
      BY <1>11, BootIs
    <2>2. CASE g' = Stored
      BY <1>1, <2>1, <2>2 DEF Current
    <2>3. CASE FinishRound(Stored, nrows)
      BY <2>1, <2>3, FinishedBoard DEF BoardMove, Current, Playing
    <2> QED BY <1>11, <2>2, <2>3, BootIs
  <1> QED BY <1>2, <1>3, <1>5, <1>6, <1>7, <1>8, <1>9, <1>10, <1>11 DEF LockHolderStep, TaskStep

LEMMA CountStep == IInv /\ VotesCount(Current) /\ [Next]_vars => VotesCount(Current)'
  <1> SUFFICES ASSUME IInv, VotesCount(Current), [Next]_vars PROVE VotesCount(Current)'
    OBVIOUS
  <1>1. BoardMove(Current, Current')
    <2>1. CASE UNCHANGED vars
      <3>1. Current' = Current
        BY <2>1 DEF vars, Current, ActiveRows
      <3> QED BY <3>1 DEF BoardMove, SameBoard
    <2> QED BY <2>1, BoardLobby, BoardRound, BoardAdmin, BoardRest DEF Next
  <1>2. VotesCount(Current')
    BY <1>1, CurrentType, MoveCounts
  <1> QED BY <1>2 DEF VotesCount, VotesNeeded

\* However orders, cancellations, votes, pauses, crashes and restarts interleave, a pending vote is against
\* a hunter who could still act, by other hunters of the crew, and short of the majority that ends it.
THEOREM VotesSound == Spec => []VoteLedgerSound
  <1>1. Init => VotesCount(Current)
    <2> SUFFICES ASSUME Init PROVE VotesCount(Current)
      OBVIOUS
    <2>1. Current = NoGame
      BY DEF Init, Current
    <2> QED BY <2>1, NoGameType DEF VotesCount, Playing
  <1>2. Spec => []VotesCount(Current)
    BY <1>1, CountStep, Inductive, PTL DEF Spec
  <1>3. VotesCount(Current) => VoteLedgerSound
    BY DEF VotesCount, VoteLedgerSound, Settled, Current
  <1> QED BY <1>2, <1>3, PTL

-----------------------------------------------------------------------------
(* The early end of a round. *)

\* A lobby has no orders yet, so that the round it starts opens without any.
Fresh(x) == x.status = "LOBBY" => x.orders = {}

\* With the crew in, the round is waiting for the fugitive's grace and nothing else.
Early(x) ==
  x.status = "ROUND_OPEN" /\ x.early_resolve /\ x.orders # {} /\ x.lobby \subseteq x.orders \cup x.dazed =>
    ~x.forder /\ ~x.frozen /\ x.grace_until # NoTime

\* The game in memory and the one a start would load; a handler between its two saves is about to see to it.
EarlyInv ==
  /\ Fresh(g) /\ Fresh(Stored)
  /\ cont.at = "early" => EarlyDue(g)
  /\ cont.at # "early" => Early(g) /\ Early(Stored)

\* What the theorem leaves out: set_config turning early_resolve on under an open round, which triggers
\* nothing, and a process that dies between the save of the last order and _maybe_early_resolve.
NoLateEdit == ~(g.status = "ROUND_OPEN" /\ g'.status = "ROUND_OPEN" /\ ~g.early_resolve /\ g'.early_resolve)
NoCrashAtEarly == up /\ ~up' => cont.at # "early"

LEMMA EarlyNoGame == Fresh(NoGame) /\ Early(NoGame)
  BY NoGameType DEF Fresh, Early

LEMMA StoredSaved ==
  ASSUME IInv, NEW r, r = nrows, r # 0, NEW y, rows' = [rows EXCEPT ![r] = y], nrows' = nrows
  PROVE  Stored' \in {NoGame, y}
  <1>1. r \in 1..MaxGames /\ rows'[r] = y
    BY InvSmall
  <1> QED BY <1>1 DEF Stored

LEMMA EarlySaved ==
  ASSUME IInv, NEW r, r = nrows, r # 0, rows' = [rows EXCEPT ![r] = g'], nrows' = nrows,
         Fresh(g'), Early(g') \/ cont'.at = "early", cont'.at = "early" => EarlyDue(g')
  PROVE  EarlyInv'
  <1>1. Stored' = NoGame \/ Stored' = g'
    BY StoredSaved
  <1>2. Fresh(Stored') /\ (Early(g') => Early(Stored'))
    BY <1>1, EarlyNoGame
  <1> QED BY <1>2 DEF EarlyInv, Fresh, Early, EarlyDue, AllHuntersSubmitted

LEMMA EarlyKept ==
  ASSUME EarlyInv, cont.at # "early", UNCHANGED <<rows, nrows>>, Fresh(g'), Early(g'), cont'.at # "early"
  PROVE  EarlyInv'
  BY DEF EarlyInv, Fresh, Early, Stored

LEMMA EarlyStays ==
  ASSUME EarlyInv, UNCHANGED <<g, rows, nrows, cont>> PROVE EarlyInv'
  BY DEF EarlyInv, Fresh, Early, Stored, EarlyDue, AllHuntersSubmitted

LEMMA NotPlayed == ASSUME NEW x, x.status \notin {"LOBBY", "ROUND_OPEN"} PROVE Fresh(x) /\ Early(x)
  BY DEF Fresh, Early

LEMMA NoOrders == ASSUME NEW x, x.orders = {} PROVE Fresh(x) /\ Early(x)
  BY DEF Fresh, Early

\* _maybe_early_resolve goes on exactly when there is something left to do.
LEMMA AfterSubmitEarly ==
  ASSUME NEW x PROVE (AfterSubmit(x).at = "early" => EarlyDue(x)) /\ (Early(x) \/ AfterSubmit(x).at = "early")
  <1>1. CASE EarlyDue(x)
    BY <1>1, HeldTypes DEF AfterSubmit
  <1>2. CASE ~EarlyDue(x)
    <2>1. AfterSubmit(x).at = "free"
      BY <1>2, HeldTypes DEF AfterSubmit
    <2>2. Early(x)
      BY <1>2 DEF EarlyDue, Early, AllHuntersSubmitted
    <2> QED BY <2>1, <2>2
  <1> QED BY <1>1, <1>2

LEMMA EarlyFinished ==
  ASSUME IInv, NEW x \in Game, NEW r, r = nrows, r # 0, FinishRound(x, r), nrows' = nrows, cont'.at # "early"
  PROVE  EarlyInv'
  <1>1. rows' = [rows EXCEPT ![r] = g']
    BY DEF FinishRound, Snapshot
  <1>2. Fresh(g') /\ Early(g')
    <2>1. CASE g'.status = "CAPTURED"
      BY <2>1, NotPlayed
    <2>2. CASE g'.orders = {}
      BY <2>2, NoOrders
    <2> QED BY <2>1, <2>2, FinishedBoard
  <1> QED BY <1>1, <1>2, EarlySaved

LEMMA EarlyLobby == ASSUME IInv, EarlyInv, LobbyStep PROVE EarlyInv'
  <1> PICK p \in Players :
        \/ Claim(p) \/ CreateRetiresCaptured(p)
        \/ \E n \in HunterCounts, ai \in BOOLEAN : CreateBinds(p, n, ai)
        \/ Join(p) \/ Leave(p)
        \/ \E n \in 2..6 : AddBots(p, n)
        \/ RemoveBots(p)
        \/ \E on \in BOOLEAN : SetFugitiveAi(p, on) \/ SetReveal(p, on)
        \/ StartGame(p)
    BY DEF LobbyStep
  <1> USE DEF Snapshot
  <1>0. g \in Game
    BY InvSmall
  <1>1. CASE Claim(p)
    <2>1. Enter /\ UNCHANGED <<rows, nrows>> /\ g' = g
      BY <1>1 DEF Claim, rowVars
    <2>2. cont'.at # "early"
      BY <1>1, HeldTypes DEF Claim, Held
    <2> QED BY <2>1, <2>2, EnterFacts, EarlyKept DEF EarlyInv
  <1>2. CASE CreateRetiresCaptured(p)
    <2>1. Enter /\ g.status = "CAPTURED" /\ rows' = [rows EXCEPT ![row] = g'] /\ nrows' = nrows /\ g' = Retired(g)
      BY <1>2 DEF CreateRetiresCaptured, Commit, rowVars
    <2>2. cont'.at # "early"
      BY <1>2 DEF CreateRetiresCaptured, Held
    <2>3. Fresh(g') /\ Early(g')
      BY <2>1, RetiredType, NotPlayed
    <2> QED BY <2>1, <2>2, <2>3, EnterFacts, EarlySaved
  <1>3. ASSUME NEW n \in HunterCounts, NEW ai \in BOOLEAN, CreateBinds(p, n, ai) PROVE EarlyInv'
    <2>1. UNCHANGED <<rows, nrows>> /\ g' = NewGame(n, ai) /\ cont'.at # "early"
      BY <1>3 DEF CreateBinds, Held
    <2>2. cont.at # "early"
      BY <1>3, HeldTypes DEF CreateBinds, Enter, Held
    <2>3. Fresh(g') /\ Early(g')
      BY <2>1, NewGameType, NoOrders
    <2> QED BY <2>1, <2>2, <2>3, EarlyKept
  <1>4. ASSUME Enter, UNCHANGED <<row, nrows, cont>>, g.status \in {"LOBBY", "CAPTURED"}, rows' = [rows EXCEPT ![row] = g'],
               \/ \E crew : g' = [g EXCEPT !.lobby = crew]
               \/ \E on, crew : g' = [g EXCEPT !.fugitive_ai = on, !.lobby = crew]
               \/ \E on : g' = [g EXCEPT !.reveal_path = on]
        PROVE  EarlyInv'
    <2>1. g'.status = g.status /\ g'.orders = g.orders
      BY <1>0, <1>4 DEF Game
    <2>2. Fresh(g') /\ Early(g')
      BY <1>4, <2>1 DEF EarlyInv, Fresh, Early
    <2> QED BY <1>4, <2>2, EnterFacts, EarlySaved
  <1>5. CASE Join(p) \/ Leave(p) \/ RemoveBots(p)
    <2>1. Enter /\ UNCHANGED <<row, nrows, cont>> /\ g.status = "LOBBY"
      BY <1>5 DEF Join, Leave, RemoveBots, LobbyFrame, AdminEnter, rowVars
    <2>2. rows' = [rows EXCEPT ![row] = g'] /\ \E crew : g' = [g EXCEPT !.lobby = crew]
      BY <1>5 DEF Join, Leave, RemoveBots, Commit
    <2> QED BY <1>4, <2>1, <2>2
  <1>6. ASSUME NEW n \in 2..6, AddBots(p, n) PROVE EarlyInv'
    <2>1. Enter /\ UNCHANGED <<row, nrows, cont>> /\ g.status = "LOBBY"
      BY <1>6 DEF AddBots, LobbyFrame, AdminEnter, rowVars
    <2>2. rows' = [rows EXCEPT ![row] = g'] /\ \E crew : g' = [g EXCEPT !.lobby = crew]
      BY <1>6 DEF AddBots, Commit
    <2> QED BY <1>4, <2>1, <2>2
  <1>7. ASSUME NEW on \in BOOLEAN, SetFugitiveAi(p, on) PROVE EarlyInv'
    <2>1. Enter /\ UNCHANGED <<row, nrows, cont>> /\ g.status = "LOBBY"
      BY <1>7 DEF SetFugitiveAi, LobbyFrame, AdminEnter, rowVars
    <2>2. rows' = [rows EXCEPT ![row] = g'] /\ \E f, crew : g' = [g EXCEPT !.fugitive_ai = f, !.lobby = crew]
      BY <1>7 DEF SetFugitiveAi, Commit
    <2> QED BY <1>4, <2>1, <2>2
  <1>8. ASSUME NEW on \in BOOLEAN, SetReveal(p, on) PROVE EarlyInv'
    <2>1. Enter /\ UNCHANGED <<row, nrows, cont>> /\ g.status = "CAPTURED"
      BY <1>8 DEF SetReveal, LobbyFrame, AdminEnter, rowVars
    <2>2. rows' = [rows EXCEPT ![row] = g'] /\ g' = [g EXCEPT !.reveal_path = on]
      BY <1>8 DEF SetReveal, Commit
    <2> QED BY <1>4, <2>1, <2>2
  <1>9. CASE StartGame(p)
    <2>1. Enter /\ UNCHANGED <<row, nrows, cont>> /\ g.status = "LOBBY" /\ rows' = [rows EXCEPT ![row] = g']
          /\ g' = Opened([g EXCEPT !.round_no = 1])
      BY <1>9 DEF StartGame, Commit, AdminEnter, rowVars
    <2>2. g'.orders = {}
      BY <1>0, <2>1 DEF Opened, Game, EarlyInv, Fresh
    <2> QED BY <2>1, <2>2, NoOrders, EnterFacts, EarlySaved
  <1> QED BY <1>1, <1>2, <1>3, <1>5, <1>6, <1>7, <1>8, <1>9

LEMMA EarlyRound == ASSUME IInv, EarlyInv, RoundStep PROVE EarlyInv'
  <1>1. /\ RoundNext(g, g') /\ g \in Game /\ SameRound(g, g') /\ Enter /\ g.status = "ROUND_OPEN"
        /\ UNCHANGED <<row, nrows>> /\ rows' = [rows EXCEPT ![row] = g']
    BY RoundIsMove, MoveKeeps, InvSmall
  <1>2. Fresh(g')
    BY <1>1 DEF Fresh, SameRound
  <1>3. CASE cont' = AfterSubmit(g')
    BY <1>1, <1>2, <1>3, AfterSubmitEarly, EnterFacts, EarlySaved
  <1>4. CASE cont' = Unheld /\ g'.orders \subseteq g.orders /\ (g'.forder => g.forder)
    <2>1. Early(g)
      BY <1>1, EnterFacts DEF EarlyInv
    <2>2. Early(g')
      BY <1>1, <1>4, <2>1 DEF Early, SameRound
    <2>3. cont'.at # "early"
      BY <1>4, HeldTypes
    <2> QED BY <1>1, <1>2, <2>2, <2>3, EnterFacts, EarlySaved
  <1> QED BY <1>1, <1>3, <1>4 DEF RoundNext

LEMMA EarlyAdmin == ASSUME IInv, EarlyInv, NoLateEdit, AdminStep PROVE EarlyInv'
  <1> PICK p \in Players :
        \/ \E early, ok \in BOOLEAN : SetConfig(p, early, ok)
        \/ Pause(p) \/ Resume(p) \/ EndRound(p) \/ EndGame(p)
        \/ \E sec \in Extensions : Extend(p, sec)
        \/ \E op \in QueuedOps : Queue(p, op)
    BY DEF AdminStep
  <1> USE DEF Snapshot
  <1>0. g \in Game
    BY InvSmall
  <1>1. ASSUME NEW early \in BOOLEAN, NEW ok \in BOOLEAN, SetConfig(p, early, ok) PROVE EarlyInv'
    <2>1. Enter /\ g' = [g EXCEPT !.early_resolve = early] /\ UNCHANGED <<row, nrows, cont>>
          /\ g.status \in {"LOBBY", "ROUND_OPEN", "PAUSED"}
      BY <1>1 DEF SetConfig, Commit, OrderFrame, AdminEnter, rowVars
    <2>2. rows' = [rows EXCEPT ![row] = g'] \/ rows' = rows
      BY <1>1 DEF SetConfig, Commit
    <2>3. /\ g'.status = g.status /\ g'.orders = g.orders /\ g'.lobby = g.lobby /\ g'.dazed = g.dazed
          /\ g'.forder = g.forder /\ g'.frozen = g.frozen /\ g'.grace_until = g.grace_until
      BY <1>0, <2>1 DEF Game
    <2>4. Early(g) /\ Fresh(g)
      BY <2>1, EnterFacts DEF EarlyInv
    <2>5. Early(g') /\ Fresh(g')
      BY <2>3, <2>4 DEF Early, Fresh, NoLateEdit
    <2> QED BY <2>1, <2>2, <2>5, EnterFacts, EarlySaved, EarlyKept
  <1>2. CASE Pause(p)
    <2>1. Enter /\ g' = Paused(g) /\ g.status = "ROUND_OPEN" /\ UNCHANGED <<row, nrows, cont>> /\ rows' = [rows EXCEPT ![row] = g']
      BY <1>2 DEF Pause, Commit, AdminEnter, rowVars
    <2>2. Fresh(g') /\ Early(g')
      BY <1>0, <2>1, InvSmall, PausedType, NotPlayed DEF SmallTypes
    <2> QED BY <2>1, <2>2, EnterFacts, EarlySaved
  <1>3. CASE Resume(p)
    <2>1. Enter /\ g' = Resumed(g) /\ g.status = "PAUSED" /\ UNCHANGED <<row, nrows>> /\ rows' = [rows EXCEPT ![row] = g']
          /\ cont' = AfterSubmit(g')
      BY <1>3 DEF Resume, Commit, AdminEnter, rowVars, AfterResume
    <2>2. Fresh(g')
      BY <1>0, <2>1, InvSmall, ResumedType DEF SmallTypes, Fresh
    <2> QED BY <2>1, <2>2, AfterSubmitEarly, EnterFacts, EarlySaved
  <1>4. CASE EndRound(p)
    <2> DEFINE x == [g EXCEPT !.status = "ROUND_OPEN"]
    <2>1. x \in Game
      BY <1>0, StatusTypes DEF Game
    <2>2. FinishRound(x, row) /\ Enter /\ UNCHANGED <<nrows, cont>> /\ g.status \in {"ROUND_OPEN", "PAUSED"}
      BY <1>4 DEF EndRound, AdminEnter, rowVars
    <2> HIDE DEF x
    <2> QED BY <2>1, <2>2, EnterFacts, EarlyFinished
  <1>5. CASE EndGame(p)
    <2>1. Enter /\ g' = NoGame /\ g.status # "IDLE" /\ UNCHANGED <<nrows, cont>> /\ rows' = [rows EXCEPT ![row] = Retired(g)]
      BY <1>5 DEF EndGame, AdminEnter
    <2>2. row = nrows /\ row # 0 /\ cont'.at # "early"
      BY <2>1, EnterFacts
    <2>3. Stored' = NoGame \/ Stored' = Retired(g)
      BY <2>1, <2>2, StoredSaved
    <2>4. Fresh(Stored') /\ Early(Stored')
      BY <2>3, EarlyNoGame, RetiredType, NotPlayed
    <2> QED BY <2>1, <2>2, <2>4, EarlyNoGame DEF EarlyInv, Fresh, Early
  <1>6. ASSUME NEW sec \in Extensions, Extend(p, sec) PROVE EarlyInv'
    <2>1. Enter /\ g' = Extended(g, sec) /\ g.status \in {"ROUND_OPEN", "PAUSED"} /\ UNCHANGED <<row, nrows, cont>>
          /\ rows' = [rows EXCEPT ![row] = g']
      BY <1>6 DEF Extend, Commit, AdminEnter, rowVars
    <2>2. /\ g'.status = g.status /\ g'.orders = g.orders /\ g'.lobby = g.lobby /\ g'.dazed = g.dazed
          /\ g'.forder = g.forder /\ g'.frozen = g.frozen /\ g'.grace_until = g.grace_until /\ g'.early_resolve = g.early_resolve
      BY <1>0, <2>1 DEF Extended, Game
    <2>3. Early(g) /\ Fresh(g)
      BY <2>1, EnterFacts DEF EarlyInv
    <2>4. Early(g') /\ Fresh(g')
      BY <2>2, <2>3 DEF Early, Fresh
    <2> QED BY <2>1, <2>4, EnterFacts, EarlySaved
  <1>7. ASSUME NEW op \in QueuedOps, Queue(p, op) PROVE EarlyInv'
    BY <1>7, EarlyStays DEF Queue, rowVars
  <1> QED BY <1>1, <1>2, <1>3, <1>4, <1>5, <1>6, <1>7

LEMMA EarlyHolder == ASSUME IInv, ClockInv, EarlyInv, LockHolderStep \/ QueuedFails \/ TaskStep PROVE EarlyInv'
  <1> USE DEF Snapshot, rowVars
  <1>0. g \in Game /\ now \in Nat /\ nrows \in 0..MaxGames /\ MaxGames \in Nat /\ rows \in [1..MaxGames -> Game]
    BY InvSmall DEF SmallTypes
  <1>1. CASE ClaimLeavesLobby
    <2>1. g' = [g EXCEPT !.lobby = @ \ {cont.by}] /\ rows' = [rows EXCEPT ![row] = g'] /\ UNCHANGED <<row, nrows>> /\ cont' = Unheld
      BY <1>1 DEF ClaimLeavesLobby, Commit
    <2>2. g.status = "LOBBY" /\ row = nrows /\ row # 0
      BY <1>1 DEF ClaimLeavesLobby, IInv, HolderInv, StoreInv
    <2>3. g'.orders = {} /\ cont'.at # "early"
      BY <1>0, <2>1, <2>2, HeldTypes DEF EarlyInv, Fresh, Game
    <2> QED BY <2>1, <2>2, <2>3, NoOrders, EarlySaved
  <1>2. CASE CreateRejected
    <2>1. cont.at # "early" /\ cont'.at # "early" /\ UNCHANGED <<g, rows, nrows>>
      BY <1>2, HeldTypes DEF CreateRejected
    <2> QED BY <2>1, EarlyKept DEF EarlyInv
  <1>3. CASE CreateInserts
    <2>1. nrows' = nrows + 1 /\ rows' = [rows EXCEPT ![nrows + 1] = g] /\ g' = g /\ cont'.at # "early"
      BY <1>3, HeldTypes DEF CreateInserts
    <2>2. g.status = "LOBBY" /\ nrows < MaxGames /\ g.orders = {}
      BY <1>3 DEF CreateInserts, IInv, HolderInv
    <2>3. Stored' = g
      BY <1>0, <2>1, <2>2 DEF Stored
    <2>4. Fresh(g) /\ Early(g)
      BY <2>2, NoOrders
    <2> QED BY <2>1, <2>3, <2>4 DEF EarlyInv, Fresh, Early
  <1>4. CASE EarlyResolve
    <2>1. FinishRound(g, row) /\ nrows' = nrows /\ cont'.at # "early"
      BY <1>4, HeldTypes DEF EarlyResolve
    <2>2. row = nrows /\ row # 0
      BY <1>4 DEF EarlyResolve, IInv, HolderInv, StoreInv
    <2> QED BY <1>0, <2>1, <2>2, EarlyFinished
  <1>5. CASE StartGrace
    <2> DEFINE grace == MinOf(g.deadline_ts, now + Grace)
    <2>1. g' = [g EXCEPT !.grace_until = grace] /\ rows' = [rows EXCEPT ![row] = g'] /\ UNCHANGED <<row, nrows>> /\ cont' = Unheld
          /\ up /\ ~g.forder /\ ~g.frozen
      BY <1>5 DEF StartGrace, Commit
    <2>2. g.status = "ROUND_OPEN" /\ row = nrows /\ row # 0
      BY <1>5 DEF StartGrace, IInv, HolderInv, StoreInv
    <2>3. grace # NoTime
      <3>1. g.deadline_ts \in Int /\ g.deadline_ts >= 0
        BY <1>0, <2>1, <2>2, ClockLive DEF RoundClock, Game, Times
      <3> QED BY <1>0, <3>1, SessionAssumption DEF MinOf, NoTime
    <2> HIDE DEF grace
    <2>4. g'.status = "ROUND_OPEN" /\ g'.grace_until = grace /\ ~g'.forder /\ ~g'.frozen /\ cont'.at # "early"
      BY <1>0, <2>1, <2>2, HeldTypes DEF Game
    <2>5. Fresh(g') /\ Early(g')
      BY <2>3, <2>4 DEF Fresh, Early
    <2> QED BY <2>1, <2>2, <2>4, <2>5, EarlySaved
  <1>6. CASE QueuedFails \/ TimerWakes \/ (\E k \in hooks, c \in BOOLEAN : HookPosts(k, c))
    BY <1>6, EarlyStays DEF QueuedFails, TimerWakes, HookPosts
  <1>7. CASE CheckDeadline
    <2>1. CASE g.status = "ROUND_OPEN" /\ Expired(g)
      <3>1. FinishRound(g, row) /\ Enter /\ UNCHANGED <<nrows, cont>>
        BY <1>7, <2>1 DEF CheckDeadline
      <3> QED BY <1>0, <2>1, <3>1, EnterFacts, EarlyFinished
    <2>2. CASE ~(g.status = "ROUND_OPEN" /\ Expired(g))
      BY <1>7, <2>2, EarlyStays DEF CheckDeadline
    <2> QED BY <2>1, <2>2
  <1>8. ASSUME NEW k \in hooks, HookMarks(k) PROVE EarlyInv'
    <2>1. CASE g.status = "CAPTURED" /\ ~g.webhook_sent
      <3>1. g' = [g EXCEPT !.webhook_sent = TRUE] /\ rows' = [rows EXCEPT ![row] = g'] /\ Enter /\ UNCHANGED <<row, nrows, cont>>
        BY <1>8, <2>1 DEF HookMarks, Commit
      <3>2. g'.status = "CAPTURED"
        BY <1>0, <2>1, <3>1 DEF Game
      <3> QED BY <2>1, <3>1, <3>2, NotPlayed, EnterFacts, EarlySaved
    <2>2. CASE ~(g.status = "CAPTURED" /\ ~g.webhook_sent)
      BY <1>8, <2>2, EarlyStays DEF HookMarks
    <2> QED BY <2>1, <2>2
  <1> QED BY <1>1, <1>2, <1>3, <1>4, <1>5, <1>6, <1>7, <1>8 DEF LockHolderStep, TaskStep

LEMMA EarlyStep == IInv /\ ClockInv /\ EarlyInv /\ [Next]_vars /\ [NoLateEdit /\ NoCrashAtEarly]_vars => EarlyInv'
  <1> SUFFICES ASSUME IInv, ClockInv, EarlyInv, [Next]_vars, [NoLateEdit /\ NoCrashAtEarly]_vars PROVE EarlyInv'
    OBVIOUS
  <1>1. CASE UNCHANGED vars
    BY <1>1, EarlyStays DEF vars
  <1>2. CASE Tick
    BY <1>2, EarlyStays DEF Tick, rowVars
  <1>3. ASSUME Crash, NoCrashAtEarly PROVE EarlyInv'
    <2>1. cont.at # "early" /\ UNCHANGED <<rows, nrows>> /\ g' = NoGame /\ cont'.at # "early"
      BY <1>3, HeldTypes DEF Crash, NoCrashAtEarly
    <2> QED BY <2>1, EarlyNoGame, EarlyKept
  <1>4. CASE Boot
    <2>1. nrows' = nrows /\ cont' = Unheld /\ cont.at # "early" /\ Stored \in Game
      BY <1>4, BootIs, HeldTypes DEF IInv, HolderInv
    <2>2. CASE g' = Stored /\ UNCHANGED rows
      BY <2>1, <2>2, HeldTypes, EarlyKept DEF EarlyInv
    <2>3. CASE nrows # 0 /\ FinishRound(Stored, nrows)
      BY <2>1, <2>3, HeldTypes, EarlyFinished
    <2> QED BY <1>4, <2>2, <2>3, BootIs
  <1> QED BY <1>1, <1>2, <1>3, <1>4, EarlyLobby, EarlyRound, EarlyAdmin, EarlyHolder DEF Next

\* With early_resolve on, a round whose crew is all in is never left to its full timer, whatever order orders,
\* votes, cancellations, pauses, extensions and crashes come in: but for an edit that turns early_resolve on
\* under the open round, and a crash between the last order and what follows it.
THEOREM EarlyHonoured == Spec /\ [][NoLateEdit /\ NoCrashAtEarly]_vars => []EarlyResolveHonoured
  <1>1. Init => EarlyInv
    <2> SUFFICES ASSUME Init PROVE EarlyInv
      OBVIOUS
    <2>1. g = NoGame /\ Stored = NoGame /\ cont.at # "early"
      BY HeldTypes DEF Init, Stored
    <2> QED BY <2>1, EarlyNoGame DEF EarlyInv
  <1>2. Spec /\ [][NoLateEdit /\ NoCrashAtEarly]_vars => []EarlyInv
    BY <1>1, EarlyStep, ClockInit, ClockStep, Inductive, PTL DEF Spec
  <1>3. EarlyInv => EarlyResolveHonoured
    BY HeldTypes DEF EarlyInv, EarlyResolveHonoured, Settled, Early
  <1> QED BY <1>2, <1>3, PTL

-----------------------------------------------------------------------------
(* Who may be in the crew. *)

\* In a lobby without an AI fugitive, the one who plays the fugitive is not in the crew.
Crew(x) == x.status = "LOBBY" /\ ~x.fugitive_ai => admin \notin x.lobby

\* A claim between its two saves is about to take the new admin out; a queued request was made by the admin.
CrewInv ==
  /\ cont.at = "claim" => cont.by = admin
  /\ ticket.op = "set_fugitive_ai" => ticket.by = admin
  /\ cont.at # "claim" => Crew(Current)

\* What the theorem leaves out: a process that dies between the two saves of claim, and a change of
\* admin while a set_fugitive_ai of the old one waits for the lock, which then takes the old one out.
NoCrashAtClaim == up /\ ~up' => cont.at # "claim"
NoClaimOverQueued == ticket.op = "set_fugitive_ai" => admin' = admin

LEMMA NotLobbyCrew == ASSUME NEW x, x.status # "LOBBY" PROVE Crew(x)'
  BY DEF Crew

LEMMA CrewLive == ASSUME CrewInv, Enter PROVE up /\ Crew(g) /\ cont.at # "claim"
  BY HeldTypes DEF CrewInv, Enter, Current

\* A step that changes neither who is admin nor what is queued, but for a request it serves.
LEMMA CrewKept ==
  ASSUME CrewInv, UNCHANGED admin, ticket' \in {ticket, NoTicket}, cont'.at # "claim", Crew(Current)'
  PROVE  CrewInv'
  BY HeldTypes DEF CrewInv, NoTicket

LEMMA CrewStays ==
  ASSUME CrewInv, UNCHANGED <<admin, ticket, cont, up, g, rows, nrows>> PROVE CrewInv'
  <1>1. Current' = Current
    BY DEF Current, ActiveRows
  <1> QED BY <1>1 DEF CrewInv, Crew

LEMMA AfterSubmitPlace == ASSUME NEW x PROVE AfterSubmit(x).at # "claim"
  BY HeldTypes DEF AfterSubmit

LEMMA CrewLobby == ASSUME IInv, CrewInv, NoClaimOverQueued, LobbyStep PROVE CrewInv'
  <1> PICK p \in Players :
        \/ Claim(p) \/ CreateRetiresCaptured(p)
        \/ \E n \in HunterCounts, ai \in BOOLEAN : CreateBinds(p, n, ai)
        \/ Join(p) \/ Leave(p)
        \/ \E n \in 2..6 : AddBots(p, n)
        \/ RemoveBots(p)
        \/ \E on \in BOOLEAN : SetFugitiveAi(p, on) \/ SetReveal(p, on)
        \/ StartGame(p)
    BY DEF LobbyStep
  <1>0. g \in Game
    BY InvSmall
  <1>1. CASE Claim(p)
    <2>1. up /\ up' = up /\ g' = g /\ admin' = p /\ ticket' = ticket
          /\ cont' = IF g.status = "LOBBY" /\ p \in g.lobby THEN Held("claim", p) ELSE Unheld
      BY <1>1 DEF Claim, Enter
    <2>2. ticket'.op = "set_fugitive_ai" => ticket'.by = admin'
      BY <2>1 DEF CrewInv, NoClaimOverQueued
    <2>3. CASE g.status = "LOBBY" /\ p \in g.lobby
      <3>1. cont'.at = "claim" /\ cont'.by = admin'
        BY <2>1, <2>3 DEF Held
      <3> QED BY <2>2, <3>1 DEF CrewInv
    <2>4. CASE ~(g.status = "LOBBY" /\ p \in g.lobby)
      <3>1. cont'.at # "claim" /\ Current' = g /\ Crew(Current)'
        BY <2>1, <2>4, HeldTypes DEF Crew, Current
      <3> QED BY <2>2, <3>1 DEF CrewInv
    <2> QED BY <2>3, <2>4
  <1>2. CASE CreateRetiresCaptured(p)
    <2>1. up' /\ g' = Retired(g) /\ UNCHANGED <<admin, ticket>> /\ cont'.at # "claim"
      BY <1>2 DEF CreateRetiresCaptured, Commit, Enter, Held
    <2>2. Crew(Current)'
      BY <2>1, RetiredType DEF Current, Crew
    <2> QED BY <2>1, <2>2, CrewKept
  <1>3. ASSUME NEW n \in HunterCounts, NEW ai \in BOOLEAN, CreateBinds(p, n, ai) PROVE CrewInv'
    <2>1. up' /\ g' = NewGame(n, ai) /\ ticket' = ticket /\ cont'.at # "claim"
      BY <1>3 DEF CreateBinds, Enter, Held
    <2>2. ticket'.op = "set_fugitive_ai" => ticket'.by = admin'
      BY <2>1 DEF CrewInv, NoClaimOverQueued
    <2>3. Crew(Current)'
      BY <2>1, NewGameType DEF Current, Crew
    <2> QED BY <2>1, <2>2, <2>3 DEF CrewInv
  <1>4. ASSUME Enter, UNCHANGED <<up, admin, cont>>, ticket' \in {ticket, NoTicket}, Crew(g)' PROVE CrewInv'
    BY <1>4, CrewLive, CrewKept DEF Current
  <1> USE DEF LobbyFrame, Commit
  <1>5. CASE Join(p)
    <2>1. Enter /\ UNCHANGED <<up, admin, cont, ticket>> /\ (p # admin \/ g.fugitive_ai)
          /\ g' = [g EXCEPT !.lobby = @ \cup {p}]
      BY <1>5 DEF Join, MayJoin
    <2>2. g'.status = g.status /\ g'.fugitive_ai = g.fugitive_ai /\ g'.lobby = g.lobby \cup {p}
      BY <1>0, <2>1 DEF Game
    <2> QED BY <1>4, <2>1, <2>2, CrewLive DEF Crew
  <1>6. CASE Leave(p)
    <2>1. Enter /\ UNCHANGED <<up, admin, cont, ticket>> /\ g' = [g EXCEPT !.lobby = @ \ {p}]
      BY <1>6 DEF Leave
    <2>2. g'.status = g.status /\ g'.fugitive_ai = g.fugitive_ai /\ g'.lobby \subseteq g.lobby
      BY <1>0, <2>1 DEF Game
    <2> QED BY <1>4, <2>1, <2>2, CrewLive DEF Crew
  <1>7. ASSUME NEW n \in 2..6, AddBots(p, n) PROVE CrewInv'
    <2>1. Enter /\ UNCHANGED <<up, admin, cont>> /\ ticket' \in {ticket, NoTicket}
      BY <1>7 DEF AddBots, AdminEnter
    <2>2. PICK added \in SUBSET (Bots \ g.lobby) : g' = [g EXCEPT !.lobby = @ \cup added]
      BY <1>7 DEF AddBots
    <2>3. g'.status = g.status /\ g'.fugitive_ai = g.fugitive_ai /\ g'.lobby = g.lobby \cup added
      BY <1>0, <2>2 DEF Game
    <2>4. admin \notin added
      BY InvSmall, SessionAssumption DEF SmallTypes
    <2> QED BY <1>4, <2>1, <2>3, <2>4, CrewLive DEF Crew
  <1>8. CASE RemoveBots(p)
    <2>1. Enter /\ UNCHANGED <<up, admin, cont>> /\ ticket' \in {ticket, NoTicket} /\ g' = [g EXCEPT !.lobby = @ \ Bots]
      BY <1>8 DEF RemoveBots, AdminEnter
    <2>2. g'.status = g.status /\ g'.fugitive_ai = g.fugitive_ai /\ g'.lobby \subseteq g.lobby
      BY <1>0, <2>1 DEF Game
    <2> QED BY <1>4, <2>1, <2>2, CrewLive DEF Crew
  <1>9. ASSUME NEW on \in BOOLEAN, SetFugitiveAi(p, on) PROVE CrewInv'
    <2>1. Enter /\ UNCHANGED <<up, admin, cont>> /\ ticket' \in {ticket, NoTicket}
      BY <1>9 DEF SetFugitiveAi, AdminEnter
    <2>2. p = admin
      <3>1. admin = p \/ ticket = [op |-> "set_fugitive_ai", by |-> p]
        BY <1>9 DEF SetFugitiveAi, AdminEnter
      <3> QED BY <3>1 DEF CrewInv
    <2>3. g' = [g EXCEPT !.fugitive_ai = on, !.lobby = IF on THEN @ ELSE @ \ {p}]
      BY <1>9 DEF SetFugitiveAi
    <2>4. g'.fugitive_ai = on /\ (~on => p \notin g'.lobby)
      BY <1>0, <2>3 DEF Game
    <2> QED BY <1>4, <2>1, <2>2, <2>4 DEF Crew
  <1>10. ASSUME NEW on \in BOOLEAN, SetReveal(p, on) PROVE CrewInv'
    <2>1. Enter /\ UNCHANGED <<up, admin, cont>> /\ ticket' \in {ticket, NoTicket}
      BY <1>10 DEF SetReveal, AdminEnter
    <2>2. g.status = "CAPTURED" /\ g' = [g EXCEPT !.reveal_path = on]
      BY <1>10 DEF SetReveal
    <2>3. g'.status = "CAPTURED"
      BY <1>0, <2>2 DEF Game
    <2> QED BY <1>4, <2>1, <2>3 DEF Crew
  <1>11. CASE StartGame(p)
    <2>1. Enter /\ UNCHANGED <<up, admin, cont>> /\ ticket' \in {ticket, NoTicket}
      BY <1>11 DEF StartGame, AdminEnter
    <2>2. g' = Opened([g EXCEPT !.round_no = 1])
      BY <1>11 DEF StartGame
    <2>3. g'.status = "ROUND_OPEN"
      BY <1>0, <2>2 DEF Opened, Game
    <2> QED BY <1>4, <2>1, <2>3 DEF Crew
  <1> QED BY <1>1, <1>2, <1>3, <1>5, <1>6, <1>7, <1>8, <1>9, <1>10, <1>11

LEMMA CrewRound == ASSUME IInv, CrewInv, RoundStep PROVE CrewInv'
  <1>1. /\ RoundNext(g, g') /\ SameRound(g, g') /\ up' /\ g.status = "ROUND_OPEN"
        /\ admin' = admin /\ ticket' \in {ticket, NoTicket}
    BY RoundIsMove, RoundKeeps
  <1>2. cont'.at # "claim"
    BY <1>1, AfterSubmitPlace, HeldTypes DEF RoundNext
  <1>3. Crew(Current)'
    BY <1>1 DEF Current, Crew, SameRound
  <1> QED BY <1>1, <1>2, <1>3, CrewKept

LEMMA CrewAdmin == ASSUME IInv, CrewInv, AdminStep PROVE CrewInv'
  <1> PICK p \in Players :
        \/ \E early, ok \in BOOLEAN : SetConfig(p, early, ok)
        \/ Pause(p) \/ Resume(p) \/ EndRound(p) \/ EndGame(p)
        \/ \E sec \in Extensions : Extend(p, sec)
        \/ \E op \in QueuedOps : Queue(p, op)
    BY DEF AdminStep
  <1>0. g \in Game /\ now \in Nat
    BY InvSmall DEF SmallTypes
  <1>1. ASSUME up', admin' = admin, ticket' \in {ticket, NoTicket}, cont'.at # "claim", g'.status # "LOBBY" PROVE CrewInv'
    BY <1>1, CrewKept DEF Current, Crew
  <1> USE DEF Commit, AdminEnter
  <1>2. ASSUME NEW early \in BOOLEAN, NEW ok \in BOOLEAN, SetConfig(p, early, ok) PROVE CrewInv'
    <2>1. Enter /\ UNCHANGED <<up, admin, cont>> /\ ticket' \in {ticket, NoTicket} /\ g' = [g EXCEPT !.early_resolve = early]
      BY <1>2 DEF SetConfig, OrderFrame
    <2>2. g'.status = g.status /\ g'.fugitive_ai = g.fugitive_ai /\ g'.lobby = g.lobby
      BY <1>0, <2>1 DEF Game
    <2> QED BY <2>1, <2>2, CrewLive, CrewKept DEF Crew, Current
  <1>3. CASE Pause(p)
    <2>1. Enter /\ UNCHANGED <<up, admin, cont>> /\ ticket' \in {ticket, NoTicket} /\ g' = Paused(g)
      BY <1>3 DEF Pause
    <2> QED BY <1>0, <1>1, <2>1, PausedType, CrewLive
  <1>4. CASE Resume(p)
    <2>1. Enter /\ UNCHANGED <<up, admin>> /\ ticket' \in {ticket, NoTicket} /\ g' = Resumed(g) /\ cont' = AfterSubmit(g')
      BY <1>4 DEF Resume, AfterResume
    <2> QED BY <1>0, <1>1, <2>1, ResumedType, AfterSubmitPlace, CrewLive
  <1>5. CASE EndRound(p)
    <2> DEFINE x == [g EXCEPT !.status = "ROUND_OPEN"]
    <2>1. x \in Game
      BY <1>0, StatusTypes DEF Game
    <2>2. Enter /\ UNCHANGED <<up, admin, cont>> /\ ticket' \in {ticket, NoTicket} /\ FinishRound(x, row)
      BY <1>5 DEF EndRound
    <2> HIDE DEF x
    <2> QED BY <1>1, <2>1, <2>2, FinishedBoard, CrewLive
  <1>6. CASE EndGame(p)
    <2>1. Enter /\ UNCHANGED <<up, admin, cont>> /\ ticket' \in {ticket, NoTicket} /\ g' = NoGame
      BY <1>6 DEF EndGame
    <2> QED BY <1>1, <2>1, NoGameType, CrewLive
  <1>7. ASSUME NEW sec \in Extensions, Extend(p, sec) PROVE CrewInv'
    <2>1. Enter /\ UNCHANGED <<up, admin, cont>> /\ ticket' \in {ticket, NoTicket} /\ g' = Extended(g, sec)
          /\ g.status \in {"ROUND_OPEN", "PAUSED"}
      BY <1>7 DEF Extend
    <2> QED BY <1>0, <1>1, <2>1, ExtendedType, CrewLive
  <1>8. ASSUME NEW op \in QueuedOps, Queue(p, op) PROVE CrewInv'
    <2>1. up /\ admin = p /\ ticket' = [op |-> op, by |-> p] /\ UNCHANGED <<up, admin, cont, g>>
      BY <1>8 DEF Queue
    <2> QED BY <2>1 DEF CrewInv, Current, Crew
  <1> QED BY <1>2, <1>3, <1>4, <1>5, <1>6, <1>7, <1>8

LEMMA CrewHolder == ASSUME IInv, CrewInv, LockHolderStep \/ QueuedFails \/ TaskStep PROVE CrewInv'
  <1>0. g \in Game
    BY InvSmall
  <1> USE DEF Commit
  <1>1. CASE ClaimLeavesLobby
    <2>1. up' /\ cont.by = admin /\ g' = [g EXCEPT !.lobby = @ \ {cont.by}] /\ UNCHANGED <<admin, ticket>> /\ cont' = Unheld
      BY <1>1 DEF ClaimLeavesLobby, CrewInv
    <2>2. g'.lobby = g.lobby \ {admin} /\ cont'.at # "claim"
      BY <1>0, <2>1, HeldTypes DEF Game
    <2> QED BY <2>1, <2>2, CrewKept DEF Crew, Current
  <1>2. CASE CreateRejected \/ CreateInserts \/ StartGrace
    <2>1. up /\ up' /\ UNCHANGED <<admin, ticket>> /\ cont.at # "claim" /\ cont' = Unheld
      BY <1>2 DEF CreateRejected, CreateInserts, StartGrace
    <2>2. g' = g \/ g' = [g EXCEPT !.grace_until = MinOf(g.deadline_ts, now + Grace)]
      BY <1>2 DEF CreateRejected, CreateInserts, StartGrace
    <2>3. g'.status = g.status /\ g'.fugitive_ai = g.fugitive_ai /\ g'.lobby = g.lobby
      BY <1>0, <2>2 DEF Game
    <2>4. Crew(Current)'
      BY <2>1, <2>3 DEF CrewInv, Crew, Current
    <2> QED BY <2>1, <2>4, HeldTypes, CrewKept
  <1>3. ASSUME FinishRound(g, row), up', UNCHANGED <<admin, ticket>>, cont' = Unheld PROVE CrewInv'
    <2>1. Crew(Current)'
      BY <1>0, <1>3, FinishedBoard DEF Crew, Current
    <2> QED BY <1>3, <2>1, HeldTypes, CrewKept
  <1>4. CASE EarlyResolve
    BY <1>3, <1>4 DEF EarlyResolve
  <1>5. CASE CheckDeadline
    <2>1. CASE g.status = "ROUND_OPEN" /\ Expired(g)
      BY <1>3, <1>5, <2>1 DEF CheckDeadline, Enter
    <2>2. CASE ~(g.status = "ROUND_OPEN" /\ Expired(g))
      BY <1>5, <2>2, CrewStays DEF CheckDeadline, rowVars
    <2> QED BY <2>1, <2>2
  <1>6. CASE TimerWakes \/ (\E k \in hooks, c \in BOOLEAN : HookPosts(k, c))
    BY <1>6, CrewStays DEF TimerWakes, HookPosts, rowVars
  <1>7. CASE QueuedFails
    <2>1. up /\ Enter /\ UNCHANGED <<up, admin, g, cont>> /\ ticket' = NoTicket
      BY <1>7 DEF QueuedFails, Enter
    <2>2. Crew(Current)'
      BY <2>1, CrewLive DEF Crew, Current
    <2> QED BY <2>1, <2>2, CrewLive, CrewKept
  <1>8. ASSUME NEW k \in hooks, HookMarks(k) PROVE CrewInv'
    <2>1. CASE g.status = "CAPTURED" /\ ~g.webhook_sent
      <3>1. g' = [g EXCEPT !.webhook_sent = TRUE] /\ Enter /\ UNCHANGED <<up, admin, ticket, cont>>
        BY <1>8, <2>1 DEF HookMarks
      <3>2. g'.status = "CAPTURED"
        BY <1>0, <2>1, <3>1 DEF Game
      <3>3. Crew(Current)'
        BY <3>1, <3>2 DEF Crew, Current, Enter
      <3> QED BY <3>1, <3>3, CrewLive, CrewKept
    <2>2. CASE ~(g.status = "CAPTURED" /\ ~g.webhook_sent)
      BY <1>8, <2>2, CrewStays DEF HookMarks, rowVars
    <2> QED BY <2>1, <2>2
  <1> QED BY <1>1, <1>2, <1>4, <1>5, <1>6, <1>7, <1>8 DEF LockHolderStep, TaskStep

LEMMA CrewStep == IInv /\ CrewInv /\ [Next]_vars /\ [NoCrashAtClaim /\ NoClaimOverQueued]_vars => CrewInv'
  <1> SUFFICES ASSUME IInv, CrewInv, [Next]_vars, [NoCrashAtClaim /\ NoClaimOverQueued]_vars PROVE CrewInv'
    OBVIOUS
  <1>1. CASE UNCHANGED vars
    BY <1>1, CrewStays DEF vars
  <1>2. CASE Tick
    BY <1>2, CrewStays DEF Tick, rowVars
  <1>3. ASSUME Crash, NoCrashAtClaim PROVE CrewInv'
    <2>1. up /\ Current' = Stored /\ cont.at # "claim" /\ admin' = admin /\ ticket' = NoTicket /\ cont' = Unheld
      BY <1>3, CrashStored DEF Crash, NoCrashAtClaim
    <2>2. Crew(g) /\ g \in Game
      BY <2>1, InvSmall DEF CrewInv, Current
    <2>3. Crew(Stored)
      <3>1. CASE (g.status \in Playing \/ g.status = "LOBBY") /\ cont.at # "insert"
        <4> DEFINE early == Stored.early_resolve
        <4>1. Stored = [g EXCEPT !.early_resolve = early]
          BY <2>1, <3>1, StoredIsGame
        <4> HIDE DEF early
        <4> QED BY <2>2, <4>1 DEF Crew, Game
      <3>2. CASE ~((g.status \in Playing \/ g.status = "LOBBY") /\ cont.at # "insert")
        BY <2>1, <3>2, NothingStored DEF Crew
      <3> QED BY <3>1, <3>2
    <2>4. Crew(Current)'
      BY <2>1, <2>3 DEF Crew
    <2> QED BY <2>1, <2>4, HeldTypes, CrewKept
  <1>4. CASE Boot
    <2>1. up' /\ admin' = admin /\ cont' = Unheld /\ ticket' = ticket /\ Current = Stored /\ Stored \in Game
          /\ cont.at # "claim"
      BY <1>4, BootIs, HeldTypes DEF IInv, HolderInv
    <2>2. CASE g' = Stored
      <3>1. Crew(Current)'
        BY <2>1, <2>2 DEF CrewInv, Crew, Current
      <3> QED BY <2>1, <3>1, HeldTypes, CrewKept
    <2>3. CASE FinishRound(Stored, nrows)
      <3>1. Crew(Current)'
        BY <2>1, <2>3, FinishedBoard DEF Crew, Current
      <3> QED BY <2>1, <3>1, HeldTypes, CrewKept
    <2> QED BY <1>4, <2>2, <2>3, BootIs
  <1>5. CASE LobbyStep
    <2>1. CASE NoClaimOverQueued
      BY <1>5, <2>1, CrewLobby
    <2> QED BY <1>1, <2>1
  <1> QED BY <1>1, <1>2, <1>3, <1>4, <1>5, CrewRound, CrewAdmin, CrewHolder DEF Next

\* Whoever creates, claims, joins, leaves or hands the fugitive to an AI and back, in any order and through any
\* restart, the person playing the fugitive is not in the crew of the lobby: but for a crash between the two
\* saves of claim, and an admin who changes while a set_fugitive_ai waits for the lock.
THEOREM CrewHolds == Spec /\ [][NoCrashAtClaim /\ NoClaimOverQueued]_vars => []FugitiveIsNotCrew
  <1>1. Init => CrewInv
    <2> SUFFICES ASSUME Init PROVE CrewInv
      OBVIOUS
    <2>1. Current = NoGame /\ cont.at # "claim" /\ ticket.op # "set_fugitive_ai"
      BY HeldTypes DEF Init, Current, NoTicket
    <2> QED BY <2>1, NoGameType DEF CrewInv, Crew
  <1>2. Spec /\ [][NoCrashAtClaim /\ NoClaimOverQueued]_vars => []CrewInv
    BY <1>1, CrewStep, Inductive, PTL DEF Spec
  <1>3. CrewInv => FugitiveIsNotCrew
    BY HeldTypes DEF CrewInv, FugitiveIsNotCrew, Settled, Crew, Current
  <1> QED BY <1>2, <1>3, PTL

-----------------------------------------------------------------------------
(* What the database shows, in terms of its last row and of the game in memory. *)

Shown(x) == IF x.status = "ENDED" THEN NoGame ELSE x

ShowsLastRow == Durable = IF nrows = 0 THEN NoGame ELSE Shown(rows[nrows])

LEMMA DurableIs == IInv => ShowsLastRow
  <1> SUFFICES ASSUME IInv PROVE ShowsLastRow
    OBVIOUS
  <1> USE DEF ShowsLastRow
  <1>1. CASE ActiveRows = {}
    <2>1. nrows # 0 => rows[nrows].status = "ENDED"
      BY <1>1, InvSmall DEF ActiveRows
    <2> QED BY <1>1, <2>1 DEF Durable, Shown
  <1>2. CASE ActiveRows # {}
    <2>1. Newest(ActiveRows) = nrows /\ nrows # 0 /\ nrows \in ActiveRows
      BY <1>2, NewestIsLast
    <2> QED BY <1>2, <2>1 DEF Durable, Shown, ActiveRows
  <1> QED BY <1>1, <1>2

\* A game with a row: the database shows it, but for its configuration.
LEMMA DurableIsGame ==
  ASSUME IInv, row # 0, g.status # "ENDED"
  PROVE  /\ nrows # 0 /\ row = nrows
         /\ Durable.status = g.status /\ Durable.lobby = g.lobby
         /\ Durable.round_no = g.round_no /\ Durable.orders = g.orders
  <1>1. row = nrows /\ nrows # 0 /\ g = [rows[nrows] EXCEPT !.early_resolve = g.early_resolve]
        /\ rows[nrows] \in Game
    BY InvSmall DEF IInv, StoreInv
  <1>2. g.status = rows[nrows].status /\ g.lobby = rows[nrows].lobby
        /\ g.round_no = rows[nrows].round_no /\ g.orders = rows[nrows].orders
    BY <1>1 DEF Game
  <1> QED BY <1>1, <1>2, DurableIs DEF ShowsLastRow, Shown

\* A save of the last row shows what was saved.
LEMMA DurableSaved ==
  ASSUME IInv, IInv', NEW x, nrows # 0, nrows' = nrows, rows' = [rows EXCEPT ![nrows] = Snapshot(x)]
  PROVE  Durable' = Shown(x)
  <1>1. ShowsLastRow'
    BY DurableIs, PTL
  <1>2. rows'[nrows'] = x
    BY InvSmall DEF Snapshot
  <1> QED BY <1>1, <1>2 DEF ShowsLastRow

\* A step that leaves the rows alone shows nothing.
LEMMA DurableKept ==
  ASSUME rows' = rows, nrows' = nrows PROVE Rounds!game' = Rounds!game
  BY DEF Durable, ActiveRows, Newest, Rounds!game

-----------------------------------------------------------------------------
(* One lemma per kind of step. *)

\* The abstract step of a save of game x: what x and the game before it look like.
LEMMA CrewSaved ==
  ASSUME IInv, IInv', NEW x \in Game, row # 0, g.status = "LOBBY", x.status = "LOBBY",
         x.round_no = g.round_no, x.orders = g.orders,
         nrows' = nrows, rows' = [rows EXCEPT ![row] = Snapshot(x)]
  PROVE  Rounds!ChangeCrew
  <1>1. Durable' = x
    BY DurableIsGame, DurableSaved DEF Shown
  <1>2. x.lobby \in SUBSET Ids
    BY DEF Game
  <1> QED BY <1>1, <1>2, DurableIsGame DEF Rounds!ChangeCrew

\* A save that changes nothing a player sees.
LEMMA HiddenSaved ==
  ASSUME IInv, IInv', NEW x, row # 0, g.status # "ENDED", x.status = g.status,
         x.lobby = g.lobby, x.round_no = g.round_no, x.orders = g.orders,
         nrows' = nrows, rows' = [rows EXCEPT ![row] = Snapshot(x)]
  PROVE  Rounds!game' = Rounds!game
  <1>1. Durable' = x
    BY DurableIsGame, DurableSaved DEF Shown
  <1> QED BY <1>1, DurableIsGame DEF Rounds!game

\* The game is over: nothing is shown any more.
LEMMA RetiredSaved ==
  ASSUME IInv, IInv', NEW x, row # 0, nrows' = nrows, x.status = "ENDED",
         rows' = [rows EXCEPT ![row] = x]
  PROVE  [Rounds!Next]_(Rounds!game)
  <1>1. row = nrows /\ nrows # 0
    BY DEF IInv, StoreInv
  <1>2. Durable' = NoGame
    BY <1>1, DurableSaved DEF Shown, Snapshot
  <1>3. NoGame.status = "IDLE" /\ NoGame.lobby = {} /\ NoGame.round_no = 0 /\ NoGame.orders = {}
    BY DEF NoGame
  <1>4. CASE g.status = "ENDED"
    <2>1. rows[nrows].status = "ENDED"
      <3>1. g = [rows[nrows] EXCEPT !.early_resolve = g.early_resolve] /\ rows[nrows] \in Game
        BY <1>1, InvSmall DEF IInv, StoreInv
      <3> QED BY <3>1, <1>4 DEF Game
    <2>2. Durable = NoGame
      BY <1>1, <2>1, DurableIs DEF ShowsLastRow, Shown
    <2> QED BY <1>2, <2>2 DEF Rounds!game
  <1>5. CASE g.status # "ENDED"
    <2>1. g.status # "IDLE" /\ Durable.status = g.status
      BY <1>5, DurableIsGame DEF IInv, StoreInv
    <2>2. Rounds!Close
      BY <1>2, <1>3, <2>1 DEF Rounds!Close
    <2> QED BY <2>2 DEF Rounds!Next
  <1> QED BY <1>4, <1>5

\* _resolve from an open or paused round x in row r is one Resolve, wherever it is called from.
LEMMA ResolveSaved ==
  ASSUME IInv, IInv', NEW x \in Game, NEW r, r = nrows, nrows # 0, nrows' = nrows, FinishRound(x, r),
         Durable.status \in Playing,
         x.lobby = Durable.lobby, x.round_no = Durable.round_no
  PROVE  Rounds!Resolve
  <1>1. PICK y \in Resolutions(x) : rows' = [rows EXCEPT ![r] = Snapshot(y)]
    BY DEF FinishRound
  <1>2. CASE y = Captured(x)
    <2>1. y.status = "CAPTURED" /\ y.lobby = x.lobby /\ y.round_no = x.round_no /\ y.orders = x.lobby
      BY <1>2 DEF Captured, Game
    <2>2. Durable' = y
      BY <1>1, <2>1, DurableSaved DEF Shown
    <2> QED BY <2>1, <2>2 DEF Rounds!Resolve, Playing
  <1>3. ASSUME NEW z \in NextRounds(x), y = Opened(z)
        PROVE  Rounds!Resolve
    <2>1. PICK d \in SUBSET x.lobby, f \in BOOLEAN : z = NextRound(x, d, f)
      BY <1>3 DEF NextRounds
    <2>2. z \in Game /\ z.lobby = x.lobby /\ z.round_no = x.round_no + 1 /\ z.orders = {}
      BY <2>1, NextRoundsType DEF NextRound, Game
    <2>3. y.status = "ROUND_OPEN" /\ y.lobby = x.lobby /\ y.round_no = x.round_no + 1 /\ y.orders = {}
      BY <1>3, <2>2 DEF Opened, Game
    <2>4. Durable' = y
      BY <1>1, <2>3, DurableSaved DEF Shown
    <2> QED BY <2>3, <2>4 DEF Rounds!Resolve, Playing
  <1> QED BY <1>1, <1>2, <1>3 DEF Resolutions

-----------------------------------------------------------------------------
(* One step per action. *)

Mapped == [Rounds!Next]_(Rounds!game)

LEMMA AdminEnters == ASSUME NEW p \in Players, NEW op, AdminEnter(p, op) PROVE Enter
  BY DEF AdminEnter

LEMMA LobbyMaps == ASSUME IInv, IInv', LobbyStep PROVE Mapped
  <1> PICK p \in Players :
        \/ Claim(p) \/ CreateRetiresCaptured(p)
        \/ \E n \in HunterCounts, ai \in BOOLEAN : CreateBinds(p, n, ai)
        \/ Join(p) \/ Leave(p)
        \/ \E n \in 2..6 : AddBots(p, n)
        \/ RemoveBots(p)
        \/ \E on \in BOOLEAN : SetFugitiveAi(p, on) \/ SetReveal(p, on)
        \/ StartGame(p)
    BY DEF LobbyStep
  <1> USE DEF rowVars, Mapped, Rounds!Next
  <1>1. CASE Claim(p)
    BY <1>1, DurableKept DEF Claim
  <1>2. CASE CreateRetiresCaptured(p)
    BY <1>2, EnterFacts, RetiredType, RetiredSaved DEF CreateRetiresCaptured, Commit, Snapshot
  <1>3. ASSUME NEW n \in HunterCounts, NEW ai \in BOOLEAN, CreateBinds(p, n, ai) PROVE Mapped
    BY <1>3, DurableKept DEF CreateBinds
  <1> DEFINE With(crew) == [g EXCEPT !.lobby = crew]
  <1>4. ASSUME NEW crew \in SUBSET Ids, Enter, g.status = "LOBBY", Commit(With(crew)), nrows' = nrows
        PROVE  Mapped
    <2>1. With(crew) \in Game /\ With(crew).status = "LOBBY"
          /\ With(crew).round_no = g.round_no /\ With(crew).orders = g.orders
      BY <1>4, InvSmall DEF Game
    <2> HIDE DEF With
    <2> QED BY <1>4, <2>1, EnterFacts, CrewSaved DEF Commit
  <1>5. CASE Join(p)
    <2>1. g.lobby \cup {p} \in SUBSET Ids
      BY InvSmall DEF Game, Ids
    <2> QED BY <1>4, <1>5, <2>1 DEF Join, LobbyFrame
  <1>6. CASE Leave(p)
    <2>1. g.lobby \ {p} \in SUBSET Ids
      BY InvSmall DEF Game
    <2> QED BY <1>4, <1>6, <2>1 DEF Leave, LobbyFrame
  <1>7. ASSUME NEW n \in 2..6, AddBots(p, n) PROVE Mapped
    <2>1. PICK added \in SUBSET (Bots \ g.lobby) : Commit(With(g.lobby \cup added))
      BY <1>7 DEF AddBots
    <2>2. g.lobby \cup added \in SUBSET Ids
      BY InvSmall DEF Game, Ids
    <2> QED BY <1>4, <1>7, <2>1, <2>2, AdminEnters DEF AddBots, LobbyFrame
  <1>8. CASE RemoveBots(p)
    <2>1. g.lobby \ Bots \in SUBSET Ids
      BY InvSmall DEF Game
    <2> QED BY <1>4, <1>8, <2>1, AdminEnters DEF RemoveBots, LobbyFrame
  <1>9. ASSUME NEW on \in BOOLEAN, SetFugitiveAi(p, on) PROVE Mapped
    <2> DEFINE x == [g EXCEPT !.fugitive_ai = on, !.lobby = IF on THEN @ ELSE @ \ {p}]
    <2>1. x \in Game /\ x.status = g.status /\ x.round_no = g.round_no /\ x.orders = g.orders
      BY InvSmall DEF Game
    <2>2. Enter /\ g.status = "LOBBY" /\ Commit(x) /\ nrows' = nrows
      BY <1>9, AdminEnters DEF SetFugitiveAi, LobbyFrame
    <2> HIDE DEF x
    <2> QED BY <2>1, <2>2, EnterFacts, CrewSaved DEF Commit
  <1>10. ASSUME NEW on \in BOOLEAN, SetReveal(p, on) PROVE Mapped
    <2> DEFINE x == [g EXCEPT !.reveal_path = on]
    <2>1. x.status = g.status /\ x.lobby = g.lobby /\ x.round_no = g.round_no /\ x.orders = g.orders
      BY InvSmall DEF Game
    <2>2. Enter /\ g.status = "CAPTURED" /\ Commit(x) /\ nrows' = nrows
      BY <1>10, AdminEnters DEF SetReveal, LobbyFrame
    <2> HIDE DEF x
    <2> QED BY <2>1, <2>2, EnterFacts, HiddenSaved DEF Commit
  <1>11. CASE StartGame(p)
    <2> DEFINE x == Opened([g EXCEPT !.round_no = 1])
    <2>1. x.status = "ROUND_OPEN" /\ x.lobby = g.lobby /\ x.round_no = 1 /\ x.orders = g.orders
      BY InvSmall DEF Opened, Game
    <2>2. Enter /\ g.status = "LOBBY" /\ Commit(x) /\ nrows' = nrows
          /\ Cardinality(g.lobby) >= MinHunters
      BY <1>11, AdminEnters DEF StartGame
    <2> HIDE DEF x
    <2>3. Durable' = x /\ Durable.status = g.status /\ Durable.lobby = g.lobby /\ Durable.orders = g.orders
      BY <2>1, <2>2, EnterFacts, DurableIsGame, DurableSaved DEF Commit, Shown
    <2>4. g.lobby \in SUBSET Ids
      BY InvSmall DEF Game
    <2>5. Rounds!Start
      BY <2>1, <2>2, <2>3, <2>4 DEF Rounds!Start
    <2> QED BY <2>5
  <1> QED BY <1>1, <1>2, <1>3, <1>5, <1>6, <1>7, <1>8, <1>9, <1>10, <1>11

LEMMA RoundMaps == ASSUME IInv, IInv', RoundStep PROVE Mapped
  <1> USE DEF rowVars, Mapped, Rounds!Next
  <1>1. ASSUME NEW h \in g.lobby, Enter, g.status = "ROUND_OPEN", Commit(Submitted(g, h)), nrows' = nrows
        PROVE  Mapped
    <2> DEFINE x == Submitted(g, h)
    <2>1. x.status = g.status /\ x.lobby = g.lobby /\ x.round_no = g.round_no
          /\ x.orders = g.orders \cup {h}
      BY InvSmall DEF Submitted, Game
    <2> HIDE DEF x
    <2>2. Durable' = x /\ Durable.status = g.status /\ Durable.lobby = g.lobby
          /\ Durable.orders = g.orders /\ Durable.round_no = g.round_no
      BY <1>1, <2>1, EnterFacts, DurableIsGame, DurableSaved DEF Commit, Shown, x
    <2>3. Rounds!Submit
      BY <1>1, <2>1, <2>2 DEF Rounds!Submit
    <2> QED BY <2>3
  <1>2. ASSUME NEW h \in Ids, HunterOrder(h) PROVE Mapped
    BY <1>1, <1>2 DEF HunterOrder, OrderFrame
  <1>3. ASSUME NEW p \in Players, CancelHunterOrder(p) PROVE Mapped
    <2> DEFINE x == [g EXCEPT !.orders = @ \ {p}]
    <2>1. x.status = g.status /\ x.lobby = g.lobby /\ x.round_no = g.round_no
          /\ x.orders = g.orders \ {p}
      BY InvSmall DEF Game
    <2>2. Enter /\ g.status = "ROUND_OPEN" /\ p \in g.lobby /\ Commit(x) /\ nrows' = nrows
      BY <1>3 DEF CancelHunterOrder, OrderFrame
    <2> HIDE DEF x
    <2>3. Durable' = x /\ Durable.status = g.status /\ Durable.lobby = g.lobby
          /\ Durable.orders = g.orders /\ Durable.round_no = g.round_no
      BY <2>1, <2>2, EnterFacts, DurableIsGame, DurableSaved DEF Commit, Shown
    <2>4. Rounds!Withdraw
      BY <2>1, <2>2, <2>3 DEF Rounds!Withdraw
    <2> QED BY <2>4
  <1>4. ASSUME NEW b \in BOOLEAN, Enter, g.status = "ROUND_OPEN", Commit([g EXCEPT !.forder = b]),
               nrows' = nrows
        PROVE  Mapped
    <2> DEFINE x == [g EXCEPT !.forder = b]
    <2>1. x.status = g.status /\ x.lobby = g.lobby /\ x.round_no = g.round_no /\ x.orders = g.orders
      BY InvSmall DEF Game
    <2> HIDE DEF x
    <2> QED BY <1>4, <2>1, EnterFacts, HiddenSaved DEF Commit, x
  <1>5. ASSUME NEW p \in Players, FugitiveOrder(p) PROVE Mapped
    BY <1>4, <1>5, AdminEnters DEF FugitiveOrder, OrderFrame
  <1>6. ASSUME NEW p \in Players, CancelFugitiveOrder(p) PROVE Mapped
    BY <1>4, <1>6, AdminEnters DEF CancelFugitiveOrder, OrderFrame
  <1>7. CASE AiFugitiveOrder
    BY <1>4, <1>7 DEF AiFugitiveOrder, OrderFrame
  <1>8. ASSUME NEW p \in Players, NEW t \in Ids, Vote(p, t) PROVE Mapped
    <2> DEFINE voters == g.votes[t] \cup {p}
               x == [g EXCEPT !.votes[t] = voters]
    <2>1. Enter /\ g.status = "ROUND_OPEN" /\ t \in g.lobby /\ nrows' = nrows
          /\ (Commit(Submitted(g, t)) \/ Commit(x))
      BY <1>8 DEF Vote, OrderFrame
    <2>2. x.status = g.status /\ x.lobby = g.lobby /\ x.round_no = g.round_no /\ x.orders = g.orders
      BY InvSmall DEF Game
    <2> HIDE DEF x
    <2>3. CASE Commit(x)
      BY <2>1, <2>2, <2>3, EnterFacts, HiddenSaved DEF Commit
    <2>4. CASE Commit(Submitted(g, t))
      BY <1>1, <2>1, <2>4
    <2> QED BY <2>1, <2>3, <2>4
  <1> QED BY <1>2, <1>3, <1>5, <1>6, <1>7, <1>8 DEF RoundStep

LEMMA AdminMaps == ASSUME IInv, IInv', AdminStep PROVE Mapped
  <1> PICK p \in Players :
        \/ \E early, ok \in BOOLEAN : SetConfig(p, early, ok)
        \/ Pause(p) \/ Resume(p) \/ EndRound(p) \/ EndGame(p)
        \/ \E sec \in Extensions : Extend(p, sec)
        \/ \E op \in QueuedOps : Queue(p, op)
    BY DEF AdminStep
  <1> USE DEF rowVars, Mapped, Rounds!Next
  <1>1. ASSUME NEW early \in BOOLEAN, NEW ok \in BOOLEAN, SetConfig(p, early, ok) PROVE Mapped
    <2> DEFINE x == [g EXCEPT !.early_resolve = early]
    <2>1. x.status = g.status /\ x.lobby = g.lobby /\ x.round_no = g.round_no /\ x.orders = g.orders
      BY InvSmall DEF Game
    <2>2. Enter /\ g.status \in {"LOBBY", "ROUND_OPEN", "PAUSED"} /\ nrows' = nrows
          /\ (Commit(x) \/ rows' = rows)
      BY <1>1, AdminEnters DEF SetConfig, OrderFrame
    <2> HIDE DEF x
    <2> QED BY <2>1, <2>2, EnterFacts, HiddenSaved, DurableKept DEF Commit
  <1>2. CASE Pause(p)
    <2>1. Paused(g).status = "PAUSED" /\ Paused(g).lobby = g.lobby
          /\ Paused(g).round_no = g.round_no /\ Paused(g).orders = g.orders
      BY InvSmall DEF Paused, Game
    <2>2. Enter /\ g.status = "ROUND_OPEN" /\ Commit(Paused(g)) /\ nrows' = nrows
      BY <1>2, AdminEnters DEF Pause
    <2>3. Durable' = Paused(g) /\ Durable.status = g.status /\ Durable.lobby = g.lobby
          /\ Durable.orders = g.orders /\ Durable.round_no = g.round_no
      BY <2>1, <2>2, EnterFacts, DurableIsGame, DurableSaved DEF Commit, Shown
    <2>4. Rounds!Pause
      BY <2>1, <2>2, <2>3 DEF Rounds!Pause
    <2> QED BY <2>4
  <1>3. CASE Resume(p)
    <2>1. Resumed(g).status = "ROUND_OPEN" /\ Resumed(g).lobby = g.lobby
          /\ Resumed(g).round_no = g.round_no /\ Resumed(g).orders = g.orders
      BY InvSmall DEF Resumed, Game
    <2>2. Enter /\ g.status = "PAUSED" /\ Commit(Resumed(g)) /\ nrows' = nrows
      BY <1>3, AdminEnters DEF Resume
    <2>3. Durable' = Resumed(g) /\ Durable.status = g.status /\ Durable.lobby = g.lobby
          /\ Durable.orders = g.orders /\ Durable.round_no = g.round_no
      BY <2>1, <2>2, EnterFacts, DurableIsGame, DurableSaved DEF Commit, Shown
    <2>4. Rounds!Resume
      BY <2>1, <2>2, <2>3 DEF Rounds!Resume
    <2> QED BY <2>4
  <1>4. CASE EndRound(p)
    <2> DEFINE x == [g EXCEPT !.status = "ROUND_OPEN"]
    <2>1. x \in Game /\ x.lobby = g.lobby /\ x.round_no = g.round_no
      BY InvSmall, StatusTypes DEF Game
    <2>2. Enter /\ g.status \in Playing /\ FinishRound(x, row) /\ nrows' = nrows
      BY <1>4, AdminEnters DEF EndRound, Playing
    <2> HIDE DEF x
    <2>3. row = nrows /\ nrows # 0 /\ Durable.status = g.status
          /\ x.lobby = Durable.lobby /\ x.round_no = Durable.round_no
      BY <2>1, <2>2, EnterFacts, DurableIsGame DEF Playing
    <2> QED BY <2>1, <2>2, <2>3, ResolveSaved
  <1>5. CASE EndGame(p)
    BY <1>5, AdminEnters, EnterFacts, RetiredType, RetiredSaved DEF EndGame
  <1>6. ASSUME NEW sec \in Extensions, Extend(p, sec) PROVE Mapped
    <2>1. Extended(g, sec).status = g.status /\ Extended(g, sec).lobby = g.lobby
          /\ Extended(g, sec).round_no = g.round_no /\ Extended(g, sec).orders = g.orders
      BY InvSmall DEF Extended, Game
    <2>2. Enter /\ g.status \in {"ROUND_OPEN", "PAUSED"} /\ Commit(Extended(g, sec)) /\ nrows' = nrows
      BY <1>6, AdminEnters DEF Extend
    <2> QED BY <2>1, <2>2, EnterFacts, HiddenSaved DEF Commit
  <1>7. ASSUME NEW op \in QueuedOps, Queue(p, op) PROVE Mapped
    BY <1>7, DurableKept DEF Queue
  <1> QED BY <1>1, <1>2, <1>3, <1>4, <1>5, <1>6, <1>7

LEMMA LockHolderMaps == ASSUME IInv, IInv', LockHolderStep PROVE Mapped
  <1> USE DEF rowVars, Mapped, Rounds!Next
  <1>1. CASE ClaimLeavesLobby
    <2> DEFINE x == [g EXCEPT !.lobby = @ \ {cont.by}]
    <2>1. x \in Game /\ x.status = g.status /\ x.round_no = g.round_no /\ x.orders = g.orders
      BY InvSmall DEF Game
    <2>2. Commit(x) /\ nrows' = nrows /\ g.status = "LOBBY" /\ row # 0
      BY <1>1 DEF ClaimLeavesLobby, IInv, HolderInv, StoreInv
    <2> HIDE DEF x
    <2> QED BY <2>1, <2>2, CrewSaved DEF Commit
  <1>2. CASE CreateRejected
    BY <1>2, DurableKept DEF CreateRejected
  <1>3. CASE CreateInserts
    <2>1. g.status = "LOBBY" /\ g.lobby = {} /\ g.orders = {} /\ g.round_no = 0
          /\ nrows < MaxGames /\ (nrows # 0 => rows[nrows].status = "ENDED")
      BY <1>3 DEF CreateInserts, IInv, HolderInv, StoreInv
    <2>2. Durable = NoGame
      BY <2>1, DurableIs DEF ShowsLastRow, Shown
    <2>3. ShowsLastRow'
      BY DurableIs, PTL
    <2>4. nrows' = nrows + 1 /\ nrows' # 0 /\ rows'[nrows'] = g
      BY <1>3, <2>1, InvSmall DEF CreateInserts, Snapshot
    <2>5. Durable' = g
      BY <2>1, <2>3, <2>4 DEF ShowsLastRow, Shown
    <2>6. Rounds!OpenLobby
      BY <2>1, <2>2, <2>5 DEF Rounds!OpenLobby, NoGame
    <2> QED BY <2>6
  <1>4. CASE EarlyResolve
    <2>1. g.status = "ROUND_OPEN" /\ row # 0 /\ FinishRound(g, row) /\ nrows' = nrows
      BY <1>4 DEF EarlyResolve, IInv, HolderInv, StoreInv
    <2>2. row = nrows /\ nrows # 0 /\ Durable.status \in Playing
          /\ g.lobby = Durable.lobby /\ g.round_no = Durable.round_no
      BY <2>1, DurableIsGame DEF Playing
    <2> QED BY <2>1, <2>2, InvSmall, ResolveSaved
  <1>5. CASE StartGrace
    <2> DEFINE x == [g EXCEPT !.grace_until = MinOf(g.deadline_ts, now + Grace)]
    <2>1. x.status = g.status /\ x.lobby = g.lobby /\ x.round_no = g.round_no /\ x.orders = g.orders
      BY InvSmall DEF Game
    <2>2. Commit(x) /\ nrows' = nrows /\ g.status = "ROUND_OPEN" /\ row # 0
      BY <1>5 DEF StartGrace, IInv, HolderInv, StoreInv
    <2> HIDE DEF x
    <2> QED BY <2>1, <2>2, HiddenSaved DEF Commit
  <1> QED BY <1>1, <1>2, <1>3, <1>4, <1>5 DEF LockHolderStep

LEMMA TaskMaps == ASSUME IInv, IInv', TaskStep PROVE Mapped
  <1> USE DEF rowVars, Mapped, Rounds!Next
  <1>1. CASE TimerWakes
    BY <1>1, DurableKept DEF TimerWakes
  <1>2. CASE CheckDeadline
    <2>1. Enter /\ nrows' = nrows
      BY <1>2 DEF CheckDeadline
    <2>2. CASE g.status = "ROUND_OPEN" /\ Expired(g)
      <3>1. FinishRound(g, row) /\ row = nrows /\ nrows # 0 /\ Durable.status \in Playing
            /\ g.lobby = Durable.lobby /\ g.round_no = Durable.round_no
        BY <1>2, <2>1, <2>2, EnterFacts, DurableIsGame DEF CheckDeadline, Playing
      <3> QED BY <2>1, <3>1, InvSmall, ResolveSaved
    <2>3. CASE ~(g.status = "ROUND_OPEN" /\ Expired(g))
      BY <1>2, <2>1, <2>3, DurableKept DEF CheckDeadline
    <2> QED BY <2>2, <2>3
  <1>3. ASSUME NEW k \in hooks, HookMarks(k) PROVE Mapped
    <2> DEFINE x == [g EXCEPT !.webhook_sent = TRUE]
    <2>1. x.status = g.status /\ x.lobby = g.lobby /\ x.round_no = g.round_no /\ x.orders = g.orders
      BY InvSmall DEF Game
    <2>2. Enter /\ nrows' = nrows /\ ((g.status = "CAPTURED" /\ Commit(x)) \/ rows' = rows)
      BY <1>3 DEF HookMarks
    <2> HIDE DEF x
    <2> QED BY <2>1, <2>2, EnterFacts, HiddenSaved, DurableKept DEF Commit
  <1>4. ASSUME NEW k \in hooks, NEW c \in BOOLEAN, HookPosts(k, c) PROVE Mapped
    BY <1>4, DurableKept DEF HookPosts
  <1> QED BY <1>1, <1>2, <1>3, <1>4 DEF TaskStep

LEMMA BootMaps == ASSUME IInv, IInv', Boot PROVE Mapped
  <1> USE DEF Mapped, Rounds!Next
  <1> DEFINE x == rows[nrows]
  <1>1. CASE rows' = rows
    BY <1>1, DurableKept DEF Boot
  <1>2. CASE rows' # rows
    <2>1. ActiveRows # {} /\ rows[Newest(ActiveRows)].status = "ROUND_OPEN"
          /\ FinishRound(rows[Newest(ActiveRows)], Newest(ActiveRows)) /\ nrows' = nrows
      BY <1>2 DEF Boot
    <2>2. Newest(ActiveRows) = nrows /\ nrows # 0
      BY <2>1, NewestIsLast
    <2>3. Durable = x /\ x.status = "ROUND_OPEN" /\ x \in Game
      BY <2>1, <2>2, InvSmall DEF Durable
    <2> HIDE DEF x
    <2> QED BY <2>1, <2>2, <2>3, ResolveSaved DEF Playing, x
  <1> QED BY <1>1, <1>2

LEMMA StepMaps == IInv /\ IInv' /\ [Next]_vars => [Rounds!Next]_(Rounds!game)
  <1> SUFFICES ASSUME IInv, IInv', [Next]_vars PROVE Mapped
    BY DEF Mapped
  <1>1. CASE UNCHANGED vars
    BY <1>1, DurableKept DEF vars, Mapped
  <1>2. CASE QueuedFails \/ Tick \/ Crash
    BY <1>2, DurableKept DEF QueuedFails, Tick, Crash, Mapped, rowVars
  <1> QED BY <1>1, <1>2, LobbyMaps, RoundMaps, AdminMaps, LockHolderMaps, TaskMaps, BootMaps DEF Next

LEMMA InitMaps == Init => Rounds!Init
  <1> SUFFICES ASSUME Init PROVE Rounds!Init
    OBVIOUS
  <1>1. Durable = NoGame
    BY DEF Init, Durable, ActiveRows
  <1> QED BY <1>1 DEF Rounds!Init, NoGame

-----------------------------------------------------------------------------

\* The session manager implements the orderly game of TrainRounds: no interleaving of requests, tasks,
\* crashes and restarts loses an order, repeats or skips a round, or changes a crew in play.
THEOREM SessionImplementsRounds == Spec => ImplementsRounds
  BY InitMaps, StepMaps, Inductive, PTL DEF Spec, ImplementsRounds, Rounds!Spec
=============================================================================
