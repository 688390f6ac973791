---------------------------- MODULE TrainSession ----------------------------
(***************************************************************************)
(* The session manager of the train game (server/app/train/game.py):      *)
(* lobby, rounds, deadline and grace, votes, pause / resume / extend, the  *)
(* admin binding, the snapshot taken after every transition, and a crash   *)
(* and restart of the one server process at any point.                     *)
(*                                                                         *)
(* Every mutating handler of Manager runs under one asyncio lock.  A step  *)
(* of this module is what a handler does up to its next snapshot: memory   *)
(* changes and the save that follows them form one step, because a crash   *)
(* before the save loses the memory change with the process.  A handler    *)
(* that saves twice keeps the lock between its steps in `cont`.            *)
(*                                                                         *)
(* The rule engine is abstracted to what the session reads from it: which  *)
(* hunters have an order or are dazed, whether the fugitive has an order   *)
(* or is frozen, the round number, and whether a round ended in a capture. *)
(***************************************************************************)
EXTENDS Integers, FiniteSets

CONSTANTS
  Players,       \* people with an account
  Bots,          \* the "bot:N" ids of AI hunters
  Nobody,        \* no admin is bound yet
  Claimants,     \* people who know TRAIN_ADMIN_SECRET
  HookUrl,       \* TRAIN_WEBHOOK_URL is configured
  AiAvailable,   \* a Gemini key is configured
  HunterCounts,  \* the values of hunter_count games are created with
  RoundTimer,    \* round_timer_sec
  Grace,         \* fugitive_grace_sec
  VoteAfter,     \* vote_skip_after_sec
  Extensions,    \* the values of `sec` the admin extends by
  MaxTime,       \* bound: the clock stops here
  MaxCredit,     \* bound: the admin extends no further than this
  MaxRound,      \* bound: the round that can only end in a capture
  MaxGames,      \* bound: rows of train_games
  QueuedOps,     \* admin requests that may pass their role check and then wait for the lock
  EditableIn,    \* statuses in which the admin edits the configuration
  CrashPoints    \* lock states in which the process may die

ASSUME SessionAssumption ==
  /\ Players \cap Bots = {} /\ Nobody \notin Players \cup Bots
  /\ IsFiniteSet(Players) /\ IsFiniteSet(Bots)
  /\ AiAvailable \in BOOLEAN /\ HookUrl \in BOOLEAN
  /\ Claimants \subseteq Players
  /\ HunterCounts \subseteq 2..6
  /\ RoundTimer \in Nat /\ Grace \in Nat /\ VoteAfter \in Nat
  /\ Extensions \subseteq Nat \ {0}
  /\ QueuedOps \subseteq {"end_game", "end_round", "fugitive_order", "pause", "set_fugitive_ai"}
  /\ MaxTime \in Nat /\ MaxCredit \in Nat /\ MaxRound \in Nat \ {0} /\ MaxGames \in Nat \ {0}

Ids == Players \cup Bots
NoTime == -1
MinHunters == 2

VARIABLES
  now,       \* Manager.now()
  up,        \* the process is running
  admin,     \* Manager.admin_id, written through to train_meta
  g,         \* Manager.game: policy and what the session reads of the engine
  row,       \* g.row_id, 0 while the game has none
  rows,      \* train_games: the snapshot in each row
  nrows,     \* the last row id handed out
  timer,     \* the deadline task: "off", "sleep", or "fire" (awake, waiting for the lock)
  cont,      \* who holds Manager.lock between two saves of one handler, and where
  ticket,    \* an admin request past _require_admin and waiting for the lock
  hooks,     \* running _webhook_task instances for the capture line
  openFor,   \* history: seconds the current round has been open and not paused
  credit     \* history: seconds of round time granted and not yet played

vars == <<now, up, admin, g, row, rows, nrows, timer, cont, ticket, hooks,
          openFor, credit>>

clockVars == <<now, openFor, credit>>
rowVars   == <<row, nrows>>

-----------------------------------------------------------------------------
(* The game record: Policy, TrainGame and the engine fields the session uses. *)

Statuses == {"IDLE", "LOBBY", "ROUND_OPEN", "PAUSED", "CAPTURED", "ENDED"}

Times == Int
Spans == Nat \cup {NoTime}

Game == [status : Statuses, hunter_count : Nat, lobby : SUBSET Ids,
         fugitive_ai : BOOLEAN, early_resolve : BOOLEAN,
         round_open_ts : Times, deadline_ts : Times, grace_until : Times,
         paused_remaining : Spans, paused_at : Times,
         votes : [Ids -> SUBSET Ids], webhook_sent : BOOLEAN, reveal_path : BOOLEAN,
         round_no : Nat, orders : SUBSET Ids, dazed : SUBSET Ids,
         forder : BOOLEAN, frozen : BOOLEAN]

NoVotes == [h \in Ids |-> {}]

NoGame == [status |-> "IDLE", hunter_count |-> 0, lobby |-> {},
           fugitive_ai |-> FALSE, early_resolve |-> TRUE,
           round_open_ts |-> 0, deadline_ts |-> 0, grace_until |-> NoTime,
           paused_remaining |-> NoTime, paused_at |-> NoTime,
           votes |-> NoVotes, webhook_sent |-> FALSE, reveal_path |-> FALSE,
           round_no |-> 0, orders |-> {}, dazed |-> {},
           forder |-> FALSE, frozen |-> FALSE]

\* A fresh lobby, as create builds it.
NewGame(n, ai) == [NoGame EXCEPT !.status = "LOBBY", !.hunter_count = n, !.fugitive_ai = ai]

\* A game's state is never read again once its row says ENDED: keep the status only.
RetiredStillActive(x) == x
Retired(x) == [NoGame EXCEPT !.status = "ENDED"]

MinOf(a, b) == IF a <= b THEN a ELSE b
MaxOf(a, b) == IF a >= b THEN a ELSE b

EffectiveDeadline(x) ==
  IF x.grace_until = NoTime THEN x.deadline_ts ELSE MinOf(x.deadline_ts, x.grace_until)

Expired(x) == EffectiveDeadline(x) <= now

VotesNeeded(x) == (MaxOf(Cardinality(x.lobby), 1) - 1) \div 2 + 1

VoteOpen(x) == now >= x.round_open_ts + VoteAfter

AllSubmittedIgnoringDaze(x) == x.lobby \subseteq x.orders
AllHuntersSubmitted(x) == \A h \in x.lobby : h \in x.orders \/ h \in x.dazed

\* E.submit_hunter_order followed by the vote bookkeeping of _after_hunter_submit.
SubmittedKeepsVotes(x, h) == [x EXCEPT !.orders = @ \cup {h}]
Submitted(x, h) == [x EXCEPT !.orders = @ \cup {h}, !.votes[h] = {}]

\* _open_round.
Opened(x) ==
  [x EXCEPT !.status = "ROUND_OPEN", !.round_open_ts = now, !.deadline_ts = now + RoundTimer,
            !.grace_until = NoTime, !.paused_remaining = NoTime, !.paused_at = NoTime,
            !.votes = NoVotes]

PausedUnclamped(x) ==
  [x EXCEPT !.status = "PAUSED", !.paused_at = now, !.grace_until = NoTime,
            !.paused_remaining = EffectiveDeadline(x) - now]
Paused(x) ==
  [x EXCEPT !.status = "PAUSED", !.paused_at = now, !.grace_until = NoTime,
            !.paused_remaining = MaxOf(0, EffectiveDeadline(x) - now)]

ResumedUnshifted(x) ==
  [x EXCEPT !.status = "ROUND_OPEN", !.deadline_ts = now + x.paused_remaining,
            !.paused_remaining = NoTime, !.paused_at = NoTime]
Resumed(x) ==
  [x EXCEPT !.status = "ROUND_OPEN", !.deadline_ts = now + x.paused_remaining,
            !.round_open_ts = @ + MaxOf(0, now - x.paused_at),
            !.paused_remaining = NoTime, !.paused_at = NoTime]

Extended(x, sec) ==
  IF x.status = "PAUSED" THEN [x EXCEPT !.paused_remaining = @ + sec]
                         ELSE [x EXCEPT !.deadline_ts = @ + sec]

\* What E.resolve_round may return: a capture, or the next round with any hunters dazed
\* and the fugitive frozen for good once frozen.
Captured(x) ==
  [x EXCEPT !.status = "CAPTURED", !.grace_until = NoTime, !.votes = NoVotes, !.orders = x.lobby]

NextRoundKeepsOrders(x, d, f) ==
  [x EXCEPT !.round_no = @ + 1, !.forder = FALSE, !.dazed = d, !.frozen = f]
NextRound(x, d, f) ==
  [x EXCEPT !.round_no = @ + 1, !.orders = {}, !.forder = FALSE, !.dazed = d, !.frozen = f]

NextRounds(x) == {NextRound(x, d, f) : d \in SUBSET x.lobby, f \in {b \in BOOLEAN : x.frozen => b}}

Resolutions(x) ==
  {Captured(x)} \cup IF x.round_no < MaxRound THEN {Opened(y) : y \in NextRounds(x)} ELSE {}

-----------------------------------------------------------------------------
(* The lock, the snapshot and the timer. *)

Unheld == [at |-> "free", by |-> Nobody]
Held(where, p) == [at |-> where, by |-> p]
Places == {"free", "early", "claim", "create", "insert"}
NoTicket == [op |-> "none", by |-> Nobody]

\* `async with self.lock` by a request that needs no role.
Enter == up /\ cont = Unheld

\* _require_admin runs before the lock: a request enters at once, or it was queued earlier,
\* on the role it had then.  No admin request overtakes a queued one (the lock is FIFO).
AdminEnter(p, op) ==
  /\ Enter
  /\ \/ ticket = NoTicket /\ admin = p /\ UNCHANGED ticket
     \/ ticket = [op |-> op, by |-> p] /\ ticket' = NoTicket

\* _save of the game in memory, which has a row.
SnapshotDroppingOrders(x) == [x EXCEPT !.orders = {}]
Snapshot(x) == x

Commit(x) ==
  /\ g' = x
  /\ rows' = [rows EXCEPT ![row] = Snapshot(x)]

\* _arm and _cancel_timer: exactly the open round has a task.
ArmFor(x) == IF x.status = "ROUND_OPEN" THEN "sleep" ELSE "off"
BootTimerForgotten(x) == "off"
BootTimer(x) == ArmFor(x)
ExtendTimer(x) == IF x.status = "ROUND_OPEN" THEN ArmFor(x) ELSE timer

\* Where a handler that ends in _maybe_early_resolve goes next; it has more to do
\* only if the crew is in and the fugitive is done, frozen or not yet on the clock.
EarlyDue(x) ==
  /\ x.status = "ROUND_OPEN" /\ x.early_resolve /\ AllHuntersSubmitted(x)
  /\ x.forder \/ x.frozen \/ x.grace_until = NoTime
AfterSubmit(x) == IF EarlyDue(x) THEN Held("early", Nobody) ELSE Unheld
AfterResume(x) == AfterSubmit(x)

\* _resolve of game x in row r: commit the result, then open the next round or announce the capture.
FinishRound(x, r) ==
  \E y \in Resolutions(x) :
    /\ g' = y
    /\ rows' = [rows EXCEPT ![r] = Snapshot(y)]
    /\ timer' = ArmFor(y)
    /\ hooks' = IF y.status = "CAPTURED" /\ ~y.webhook_sent
                THEN hooks \cup {[row |-> r, at |-> "posting"]} ELSE hooks
    /\ IF y.status = "ROUND_OPEN" THEN openFor' = 0 /\ credit' = RoundTimer
                                  ELSE UNCHANGED <<openFor, credit>>

-----------------------------------------------------------------------------
(* Lobby and admin binding. *)

Claim(p) ==
  /\ Enter /\ p \in Claimants
  /\ admin' = p
  /\ cont' = IF g.status = "LOBBY" /\ p \in g.lobby THEN Held("claim", p) ELSE Unheld
  /\ UNCHANGED <<clockVars, up, g, rowVars, rows, timer, ticket, hooks>>

ClaimLeavesLobby ==
  /\ up /\ cont.at = "claim"
  /\ Commit([g EXCEPT !.lobby = @ \ {cont.by}])
  /\ cont' = Unheld
  /\ UNCHANGED <<clockVars, up, admin, rowVars, timer, ticket, hooks>>

CreateRetiresCaptured(p) ==
  /\ Enter /\ g.status = "CAPTURED"
  /\ Commit(Retired(g))
  /\ timer' = "off"
  /\ cont' = Held("create", p)
  /\ UNCHANGED <<clockVars, up, admin, rowVars, ticket, hooks>>

\* bad_config or unknown_map: the handler raises after the old game was retired.
CreateRejected ==
  /\ up /\ cont.at = "create"
  /\ cont' = Unheld
  /\ UNCHANGED <<clockVars, up, admin, g, rowVars, rows, timer, ticket, hooks>>

CreateBinds(p, n, ai) ==
  /\ \/ Enter /\ g.status = "IDLE"
     \/ up /\ cont = Held("create", p)
  /\ ai => AiAvailable
  /\ nrows < MaxGames
  /\ g' = NewGame(n, ai) /\ row' = 0
  /\ admin' = p
  /\ cont' = Held("insert", p)
  /\ UNCHANGED <<clockVars, up, nrows, rows, timer, ticket, hooks>>

CreateInserts ==
  /\ up /\ cont.at = "insert"
  /\ row' = nrows + 1 /\ nrows' = nrows + 1
  /\ rows' = [rows EXCEPT ![nrows + 1] = Snapshot(g)]
  /\ cont' = Unheld
  /\ UNCHANGED <<clockVars, up, admin, g, timer, ticket, hooks>>

LobbyFrame == UNCHANGED <<clockVars, up, admin, rowVars, timer, cont, hooks>>

MayJoinAnyone(p) == TRUE
MayJoin(p) == p # admin \/ g.fugitive_ai

Join(p) ==
  /\ Enter /\ g.status = "LOBBY" /\ MayJoin(p)
  /\ p \in g.lobby \/ Cardinality(g.lobby) < g.hunter_count
  /\ Commit([g EXCEPT !.lobby = @ \cup {p}])
  /\ UNCHANGED ticket /\ LobbyFrame

Leave(p) ==
  /\ Enter /\ g.status = "LOBBY" /\ MayJoin(p)
  /\ Commit([g EXCEPT !.lobby = @ \ {p}])
  /\ UNCHANGED ticket /\ LobbyFrame

AddBots(p, target) ==
  /\ AdminEnter(p, "add_bots") /\ g.status = "LOBBY" /\ AiAvailable
  /\ LET need == MinOf(MaxOf(target, MinHunters), g.hunter_count) - Cardinality(g.lobby)
     IN  /\ need > 0
         /\ \E added \in SUBSET (Bots \ g.lobby) :
              /\ Cardinality(added) = need
              /\ Commit([g EXCEPT !.lobby = @ \cup added])
  /\ LobbyFrame

RemoveBots(p) ==
  /\ AdminEnter(p, "remove_bots") /\ g.status = "LOBBY"
  /\ Commit([g EXCEPT !.lobby = @ \ Bots])
  /\ LobbyFrame

SetFugitiveAi(p, on) ==
  /\ AdminEnter(p, "set_fugitive_ai") /\ g.status = "LOBBY"
  /\ on => AiAvailable
  /\ Commit([g EXCEPT !.fugitive_ai = on, !.lobby = IF on THEN @ ELSE @ \ {p}])
  /\ LobbyFrame

SetReveal(p, on) ==
  /\ AdminEnter(p, "set_reveal") /\ g.status = "CAPTURED"
  /\ Commit([g EXCEPT !.reveal_path = on])
  /\ LobbyFrame

StartGame(p) ==
  /\ AdminEnter(p, "start_game") /\ g.status = "LOBBY"
  /\ Cardinality(g.lobby) >= MinHunters
  /\ LET x == Opened([g EXCEPT !.round_no = 1])
     IN  Commit(x) /\ timer' = ArmFor(x)
  /\ openFor' = 0 /\ credit' = RoundTimer
  /\ UNCHANGED <<now, up, admin, rowVars, cont, hooks>>

-----------------------------------------------------------------------------
(* Orders, votes and early resolution. *)

OrderFrame == UNCHANGED <<clockVars, up, admin, rowVars, timer, hooks>>

\* hunter_order, and an AI hunter's answer, which only fills an empty slot.
HunterOrder(h) ==
  /\ Enter /\ g.status = "ROUND_OPEN"
  /\ h \in g.lobby \ g.dazed
  /\ h \in Bots => h \notin g.orders
  /\ Commit(Submitted(g, h))
  /\ cont' = AfterSubmit(Submitted(g, h))
  /\ UNCHANGED ticket /\ OrderFrame

CancelHunterOrder(p) ==
  /\ Enter /\ g.status = "ROUND_OPEN" /\ p \in g.lobby
  /\ Commit([g EXCEPT !.orders = @ \ {p}])
  /\ UNCHANGED <<ticket, cont>> /\ OrderFrame

FugitiveOrder(p) ==
  /\ AdminEnter(p, "fugitive_order") /\ g.status = "ROUND_OPEN" /\ ~g.fugitive_ai
  /\ LET x == [g EXCEPT !.forder = TRUE]
     IN  Commit(x) /\ cont' = AfterSubmit(x)
  /\ OrderFrame

CancelFugitiveOrder(p) ==
  /\ AdminEnter(p, "cancel_fugitive_order") /\ g.status = "ROUND_OPEN" /\ ~g.fugitive_ai
  /\ Commit([g EXCEPT !.forder = FALSE])
  /\ UNCHANGED cont /\ OrderFrame

AiFugitiveOrder ==
  /\ Enter /\ g.status = "ROUND_OPEN" /\ g.fugitive_ai /\ ~g.forder
  /\ LET x == [g EXCEPT !.forder = TRUE]
     IN  Commit(x) /\ cont' = AfterSubmit(x)
  /\ UNCHANGED ticket /\ OrderFrame

Vote(p, t) ==
  /\ Enter /\ g.status = "ROUND_OPEN" /\ p \in g.lobby /\ VoteOpen(g)
  /\ t # p /\ t \in g.lobby \ (g.orders \cup g.dazed)
  /\ LET voters == g.votes[t] \cup {p}
         passed == Cardinality(voters) >= VotesNeeded(g)
         x == IF passed THEN Submitted(g, t) ELSE [g EXCEPT !.votes[t] = voters]
     IN  /\ Commit(x)
         /\ cont' = IF passed THEN AfterSubmit(x) ELSE Unheld
  /\ UNCHANGED ticket /\ OrderFrame

\* _maybe_early_resolve: resolve at once, or put the fugitive on the grace clock.
EarlyResolve ==
  /\ up /\ cont.at = "early"
  /\ g.forder \/ g.frozen
  /\ FinishRound(g, row)
  /\ cont' = Unheld
  /\ UNCHANGED <<now, up, admin, rowVars, ticket>>

StartGrace ==
  /\ up /\ cont.at = "early"
  /\ ~(g.forder \/ g.frozen)
  /\ Commit([g EXCEPT !.grace_until = MinOf(g.deadline_ts, now + Grace)])
  /\ timer' = ArmFor(g)
  /\ cont' = Unheld
  /\ UNCHANGED <<clockVars, up, admin, rowVars, ticket, hooks>>

-----------------------------------------------------------------------------
(* Admin: configuration and flow. *)

\* A value that cannot be coerced raises after the values before it were applied, without a save.
SetConfig(p, early, ok) ==
  /\ AdminEnter(p, "set_config")
  /\ g.status \in EditableIn \cap {"LOBBY", "ROUND_OPEN", "PAUSED"}
  /\ LET x == [g EXCEPT !.early_resolve = early]
     IN  IF ok THEN Commit(x) ELSE g' = x /\ UNCHANGED rows
  /\ UNCHANGED cont /\ OrderFrame

Pause(p) ==
  /\ AdminEnter(p, "pause") /\ g.status = "ROUND_OPEN"
  /\ Commit(Paused(g)) /\ timer' = "off"
  /\ UNCHANGED <<clockVars, up, admin, rowVars, cont, hooks>>

Resume(p) ==
  /\ AdminEnter(p, "resume") /\ g.status = "PAUSED"
  /\ Commit(Resumed(g)) /\ timer' = ArmFor(Resumed(g))
  /\ cont' = AfterResume(Resumed(g))
  /\ UNCHANGED <<clockVars, up, admin, rowVars, hooks>>

Extend(p, sec) ==
  /\ AdminEnter(p, "extend") /\ g.status \in {"ROUND_OPEN", "PAUSED"}
  /\ credit + sec <= MaxCredit
  /\ Commit(Extended(g, sec))
  /\ timer' = ExtendTimer(g)
  /\ credit' = credit + sec
  /\ UNCHANGED <<now, openFor, up, admin, rowVars, cont, hooks>>

EndRound(p) ==
  /\ AdminEnter(p, "end_round") /\ g.status \in {"ROUND_OPEN", "PAUSED"}
  /\ FinishRound([g EXCEPT !.status = "ROUND_OPEN"], row)
  /\ UNCHANGED <<now, up, admin, rowVars, cont>>

EndGame(p) ==
  /\ AdminEnter(p, "end_game") /\ g.status # "IDLE"
  /\ g' = NoGame /\ row' = 0
  /\ rows' = [rows EXCEPT ![row] = Retired(g)]
  /\ timer' = "off"
  /\ UNCHANGED <<clockVars, up, admin, nrows, cont, hooks>>

\* An admin request arrives while the lock is taken: role checked now, run later.
Queue(p, op) ==
  /\ up /\ admin = p /\ ticket = NoTicket
  /\ ticket' = [op |-> op, by |-> p]
  /\ UNCHANGED <<clockVars, up, admin, g, rowVars, rows, timer, cont, hooks>>

\* The queued request finds the game in a state it does not apply to, and fails.
QueuedFails ==
  /\ Enter /\ ticket # NoTicket
  /\ \/ g.status = "IDLE"
     \/ ticket.op = "set_fugitive_ai" /\ g.status # "LOBBY"
     \/ ticket.op = "end_round" /\ g.status \notin {"ROUND_OPEN", "PAUSED"}
     \/ ticket.op = "fugitive_order" /\ (g.status # "ROUND_OPEN" \/ g.fugitive_ai)
     \/ ticket.op = "pause" /\ g.status # "ROUND_OPEN"
  /\ ticket' = NoTicket
  /\ UNCHANGED <<clockVars, up, admin, g, rowVars, rows, timer, cont, hooks>>

-----------------------------------------------------------------------------
(* The deadline task, the webhook task, the clock, crash and restart. *)

TimerWakes ==
  /\ up /\ timer = "sleep" /\ Expired(g)
  /\ timer' = "fire"
  /\ UNCHANGED <<clockVars, up, admin, g, rowVars, rows, cont, ticket, hooks>>

CheckDeadline ==
  /\ Enter /\ timer = "fire"
  /\ IF g.status = "ROUND_OPEN" /\ Expired(g)
     THEN FinishRound(g, row)
     ELSE timer' = "off" /\ UNCHANGED <<g, rows, hooks, openFor, credit>>
  /\ UNCHANGED <<now, up, admin, rowVars, cont, ticket>>

\* The POST ends: confirmed, or reported failed, whether it was delivered or not.
HookPosts(k, confirmed) ==
  /\ up /\ k \in hooks /\ k.at = "posting"
  /\ confirmed => HookUrl
  /\ hooks' = (hooks \ {k}) \cup IF confirmed THEN {[k EXCEPT !.at = "posted"]} ELSE {}
  /\ UNCHANGED <<clockVars, up, admin, g, rowVars, rows, timer, cont, ticket>>

HookMarks(k) ==
  /\ Enter /\ k \in hooks /\ k.at = "posted"
  /\ hooks' = hooks \ {k}
  /\ IF g.status = "CAPTURED" /\ ~g.webhook_sent
     THEN Commit([g EXCEPT !.webhook_sent = TRUE])
     ELSE UNCHANGED <<g, rows>>
  /\ UNCHANGED <<clockVars, up, admin, rowVars, timer, cont, ticket>>

\* The game a reader of the server, or of its database while it is down, would see.
ActiveRows == {i \in 1..nrows : rows[i].status # "ENDED"}
Newest(S) == CHOOSE i \in S : \A j \in S : j <= i
Current == IF up THEN g ELSE IF ActiveRows = {} THEN NoGame ELSE rows[Newest(ActiveRows)]

\* Time matters only while a round is open or paused; a handler takes no time.
Tick ==
  /\ now < MaxTime /\ cont = Unheld /\ Current.status \in {"ROUND_OPEN", "PAUSED"}
  /\ now' = now + 1
  /\ openFor' = IF Current.status = "ROUND_OPEN" THEN openFor + 1 ELSE openFor
  /\ credit' = IF Current.status = "ROUND_OPEN" /\ ~Expired(Current) THEN credit - 1 ELSE credit
  /\ UNCHANGED <<up, admin, g, rowVars, rows, timer, cont, ticket, hooks>>

Crash ==
  /\ up /\ cont.at \in CrashPoints
  /\ up' = FALSE
  /\ g' = NoGame /\ row' = 0 /\ timer' = "off"
  /\ cont' = Unheld /\ ticket' = NoTicket /\ hooks' = {}
  /\ UNCHANGED <<clockVars, admin, nrows, rows>>

\* Manager.start.
Boot ==
  /\ ~up /\ up' = TRUE
  /\ IF ActiveRows = {}
     THEN UNCHANGED <<g, row, rows, timer, hooks, openFor, credit>>
     ELSE LET r == Newest(ActiveRows)
              x == rows[r]
          IN  /\ row' = r
              /\ IF x.status = "ROUND_OPEN" /\ Expired(x)
                 THEN FinishRound(x, r)
                 ELSE /\ g' = x /\ timer' = BootTimer(x)
                      /\ hooks' = IF x.status = "CAPTURED" /\ ~x.webhook_sent
                                  THEN {[row |-> r, at |-> "posting"]} ELSE {}
                      /\ UNCHANGED <<rows, openFor, credit>>
  /\ UNCHANGED <<now, admin, nrows, cont, ticket>>

-----------------------------------------------------------------------------

Init ==
  /\ now = 0 /\ up = TRUE /\ admin = Nobody
  /\ g = NoGame /\ row = 0 /\ nrows = 0
  /\ rows = [i \in 1..MaxGames |-> NoGame]
  /\ timer = "off" /\ cont = Unheld /\ ticket = NoTicket
  /\ hooks = {}
  /\ openFor = 0 /\ credit = 0

LobbyStep ==
  \E p \in Players :
    \/ Claim(p) \/ CreateRetiresCaptured(p)
    \/ \E n \in HunterCounts, ai \in BOOLEAN : CreateBinds(p, n, ai)
    \/ Join(p) \/ Leave(p)
    \/ \E n \in 2..6 : AddBots(p, n)
    \/ RemoveBots(p)
    \/ \E on \in BOOLEAN : SetFugitiveAi(p, on) \/ SetReveal(p, on)
    \/ StartGame(p)

RoundStep ==
  \/ \E h \in Ids : HunterOrder(h)
  \/ \E p \in Players :
       \/ CancelHunterOrder(p) \/ FugitiveOrder(p) \/ CancelFugitiveOrder(p)
       \/ \E t \in Ids : Vote(p, t)
  \/ AiFugitiveOrder

AdminStep ==
  \E p \in Players :
    \/ \E early, ok \in BOOLEAN : SetConfig(p, early, ok)
    \/ Pause(p) \/ Resume(p) \/ EndRound(p) \/ EndGame(p)
    \/ \E sec \in Extensions : Extend(p, sec)
    \/ \E op \in QueuedOps : Queue(p, op)

LockHolderStep ==
  ClaimLeavesLobby \/ CreateRejected \/ CreateInserts \/ EarlyResolve \/ StartGrace

TaskStep ==
  \/ TimerWakes \/ CheckDeadline
  \/ \E k \in hooks : HookMarks(k) \/ \E c \in BOOLEAN : HookPosts(k, c)

Next ==
  \/ LobbyStep \/ RoundStep \/ AdminStep \/ QueuedFails
  \/ LockHolderStep \/ TaskStep
  \/ Tick \/ Crash \/ Boot

Spec == Init /\ [][Next]_vars

\* The event loop runs every ready task, the lock is FIFO, time passes and the process is restarted.
Fairness ==
  /\ SF_vars(Tick) /\ WF_vars(Boot) /\ WF_vars(TimerWakes)
  /\ SF_vars(CheckDeadline)
  /\ WF_vars(LockHolderStep)

FairSpec == Spec /\ Fairness

-----------------------------------------------------------------------------
(* Properties. *)

Playing == {"ROUND_OPEN", "PAUSED"}
Settled == up /\ cont = Unheld

\* The types, the base of every proof; what is left of a paused round or a grace is never negative.
TypeOK ==
  /\ now \in Nat /\ up \in BOOLEAN
  /\ admin \in Players \cup {Nobody}
  /\ g \in Game /\ row \in 0..MaxGames
  /\ nrows \in 0..MaxGames /\ rows \in [1..MaxGames -> Game]
  /\ timer \in {"off", "sleep", "fire"}
  /\ cont \in [at : Places, by : Players \cup {Nobody}]
  /\ ticket \in [op : QueuedOps \cup {"none"}, by : Players \cup {Nobody}]
  /\ hooks \subseteq [row : 1..MaxGames, at : {"posting", "posted"}]
  /\ openFor \in Nat /\ credit \in Int

\* train_games never holds two games that are not ENDED, through any crash between the saves
\* of create and end_game: the row load_active restores is the only candidate.
OneActiveRow == \A i \in 1..nrows : rows[i].status # "ENDED" => i = nrows

\* "Snapshots after every transition": whenever no handler is inside, a crash would bring back
\* every order, vote, deadline and round of the game in memory.  (Configuration is left out here:
\* set_config applies the values before a bad one and raises without a save.)
NothingToLose ==
  Settled =>
    IF g.status = "IDLE"
    THEN row = 0 /\ ActiveRows = {}
    ELSE /\ row \in 1..nrows
         /\ g = [rows[row] EXCEPT !.early_resolve = g.early_resolve]

\* An open round always has its deadline task and nothing else has: through early resolution,
\* grace, pause, extend, the round ending under a task that already woke, and a restart.
TimerGuardsOpenRound == Settled => (timer # "off" <=> g.status = "ROUND_OPEN")

\* The time left on an open or paused round never exceeds the time it was granted and has not
\* used: pausing, resuming, grace and restarts never hand out extra seconds.
RoundTimeIsGranted ==
  /\ Current.status = "ROUND_OPEN" => EffectiveDeadline(Current) - now <= credit
  /\ Current.status = "PAUSED" => Current.paused_remaining <= credit

\* The vote window opens after VoteAfter seconds of play, whatever was paused in between.
VoteClockCountsPlay ==
  /\ Current.status = "ROUND_OPEN" => now - Current.round_open_ts = openFor
  /\ Current.status = "PAUSED" => Current.paused_at - Current.round_open_ts = openFor

\* A pending vote is against a hunter who could still act, by other hunters, and short of the majority
\* that would have ended it.
VoteLedgerSound ==
  Settled /\ g.status \in Playing =>
    \A t \in Ids : g.votes[t] # {} =>
      /\ t \in g.lobby \ (g.orders \cup g.dazed)
      /\ g.votes[t] \subseteq g.lobby \ {t}
      /\ Cardinality(g.votes[t]) < VotesNeeded(g)

\* The person playing the fugitive is never in the crew of a lobby (claim and set_fugitive_ai take
\* them out, join keeps them out) unless an AI plays the fugitive.
FugitiveIsNotCrew ==
  Settled /\ g.status = "LOBBY" /\ ~g.fugitive_ai => admin \notin g.lobby

\* Time is neither handed out nor lost by what interrupts a round: the two clocks
\* of a round, its deadline and its vote window, both stand still in a pause.
TimeIsKept == RoundTimeIsGranted /\ VoteClockCountsPlay

\* With early_resolve on, a round in which every hunter who can act has submitted is not left
\* waiting on the full timer: it is resolved, or the fugitive is on the grace clock.
\* (A round that opens with the whole crew dazed has no submission to react to.)
EarlyResolveHonoured ==
  Settled /\ g.status = "ROUND_OPEN" /\ g.early_resolve /\ g.orders # {}
          /\ g.lobby \subseteq g.orders \cup g.dazed =>
    ~g.forder /\ ~g.frozen /\ g.grace_until # NoTime

\* The round is open in the database, and its deadline is within the bound MaxTime: a later
\* one never comes due in the model.
OpenIn(i, r) == rows[i].status = "ROUND_OPEN" /\ rows[i].round_no = r
                  /\ EffectiveDeadline(rows[i]) <= MaxTime

\* Every open round is resolved, paused or ended once its deadline is due: no interleaving of
\* orders, cancellations, votes, extensions and restarts leaves it open for good.
OpenRoundEnds == \A i \in 1..MaxGames, r \in 1..MaxRound : OpenIn(i, r) ~> ~OpenIn(i, r)
=============================================================================
