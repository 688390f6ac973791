------------------------------ MODULE TrainTasks ------------------------------
(***************************************************************************)
(* The AI players of the train game: the two background tasks of the       *)
(* session manager (server/app/train/game.py _schedule_ai and what it      *)
(* starts), one that asks a language model for every AI hunter in turn and *)
(* one that asks for an AI fugitive, and the questions they ask            *)
(* (bot_player.py: retries, fallback models, answers that cannot be read). *)
(*                                                                         *)
(* A question waits outside the lock; what is done with its answer is one  *)
(* section under the lock and one step here.  A task is cancelled wherever *)
(* it waits.  The one that is cancelled while it resolves a round is the   *)
(* task that does it: the next round's task takes its place, and the       *)
(* cancellation reaches the old one at its next await, which is the push   *)
(* of the round it has just resolved.                                      *)
(*                                                                         *)
(* Clocks, votes and snapshots are TrainSession's: the deadline and the    *)
(* grace are one step that may happen at any time, and the lobby before a  *)
(* game is part of its start.  early_resolve is on.                        *)
(***************************************************************************)
EXTENDS Integers, Sequences, FiniteSets

CONSTANTS
  Humans,      \* the people in the crew
  BotSeq,      \* the AI hunters, in the order they were added
  Models,      \* the number of models a question may be put to
  Attempts,    \* RETRY_ATTEMPTS
  MaxRound,    \* bound: a round that can only end in a capture
  MaxGames,    \* bound: games that are started
  MaxRestarts  \* bound: the process dies and comes back

Bots == {BotSeq[i] : i \in DOMAIN BotSeq}
Crew == Humans \cup Bots

ASSUME TasksAssumption ==
  /\ Humans \cap Bots = {} /\ BotSeq \in Seq(Bots)
  /\ Models \in Nat \ {0} /\ Attempts \in Nat \ {0}

VARIABLES
  game,      \* which game object Manager.game is
  status,    \* "IDLE" (no game), "ROUND_OPEN", "PAUSED", "CAPTURED"
  round,     \* round_no
  ai,        \* policy.fugitive_ai
  orders,    \* hunter -> the question his order answers, Human or None
  forder,    \* the same for the fugitive
  dazed,     \* the hunters who are dazed in this round
  frozen,    \* the fugitive is frozen
  botTask,   \* Manager.bot_task with bot_task_round
  fugTask,   \* Manager.fugitive_task with fugitive_task_round
  restarts   \* how often the process has died

session == <<game, status, round, ai, orders, forder, dazed, frozen>>
vars == <<session, botTask, fugTask, restarts>>

None == <<0, 0>>
Human == <<0, 1>>
Now == <<game, round>>

\* A task: the game and round it was started for, the hunters it still has to
\* ask for, and where it is: between two hunters, waiting for the model's
\* answer, holding one, or done.
NoTask == [game |-> 0, round |-> 0, todo |-> <<>>, at |-> "done", model |-> 1, attempt |-> 1]
Running(task) == task.at # "done"
Started(todo, n, r) ==
  [game |-> n, round |-> r, todo |-> todo, at |-> "next", model |-> 1, attempt |-> 1]
Ended(task) == [task EXCEPT !.at = "done", !.todo = <<>>, !.model = 1, !.attempt = 1]

\* What a task still holds is checked against the game when it continues.
Stale(task) == task.game # game \/ task.round # round \/ status # "ROUND_OPEN"

-----------------------------------------------------------------------------
(* Scheduling. *)

WithHim(todo, b, ords, out) == IF ords[b] = None /\ b \notin out THEN Append(todo, b) ELSE todo
Pending(ords, out) ==
  LET upTo[i \in 0..Len(BotSeq)] == IF i = 0 THEN <<>> ELSE WithHim(upTo[i - 1], BotSeq[i], ords, out)
  IN  upTo[Len(BotSeq)]

\* _schedule_bot_turn: a task that is still running is kept when it is for this
\* round, whatever game it is for, and replaced when it is for another.
BotTurn(task, n, r, ords, out) ==
  IF Pending(ords, out) = <<>> \/ (Running(task) /\ task.round = r) THEN task
  ELSE Started(Pending(ords, out), n, r)

FugitiveTurn(task, n, r, isAi, ord) ==
  IF ~isAi \/ ord # None \/ (Running(task) /\ task.round = r) THEN task
  ELSE Started(<<>>, n, r)

\* What becomes of the task that resolves a round: cancelled in favour of the
\* next round's, or done when no other was started.
Replaced(task, turn) == IF turn = task THEN Ended(task) ELSE turn

\* asking is the fugitive's task as the caller left it.
NextRound(self, asking) ==
  \E out \in SUBSET Crew :
    LET none == [h \in Crew |-> None]
        bot == BotTurn(botTask, game, round + 1, none, out)
        fug == FugitiveTurn(asking, game, round + 1, ai, None)
    IN  /\ round < MaxRound
        /\ status' = "ROUND_OPEN" /\ round' = round + 1
        /\ orders' = none /\ forder' = None /\ dazed' = out
        /\ frozen' \in {frozen, TRUE}
        /\ botTask' = (IF self = "bot" THEN Replaced(botTask, bot) ELSE bot)
        /\ fugTask' = (IF self = "fugitive" THEN Replaced(asking, fug) ELSE fug)
        /\ UNCHANGED <<game, ai, restarts>>

\* A capture opens no round and schedules nothing.
Captured(self, asking, ords, ord) ==
  /\ status' = "CAPTURED" /\ orders' = ords /\ forder' = ord
  /\ botTask' = (IF self = "bot" THEN Ended(botTask) ELSE botTask)
  /\ fugTask' = (IF self = "fugitive" THEN Ended(asking) ELSE asking)
  /\ UNCHANGED <<game, round, ai, dazed, frozen, restarts>>

\* The process dies after the save and comes back: Manager.start.
Reborn(ords, ord) ==
  /\ restarts < MaxRestarts /\ restarts' = restarts + 1
  /\ orders' = ords /\ forder' = ord
  /\ botTask' = (IF status = "ROUND_OPEN" THEN BotTurn(NoTask, game, round, ords, dazed) ELSE NoTask)
  /\ fugTask' = (IF status = "ROUND_OPEN" THEN FugitiveTurn(NoTask, game, round, ai, ord) ELSE NoTask)
  /\ UNCHANGED <<game, status, round, ai, dazed, frozen>>

\* An order is in: _maybe_early_resolve.
Due(ords, ord) == (\A h \in Crew \ dazed : ords[h] # None) /\ (ord # None \/ frozen)
Taken(self, ords, ord) ==
  \/ ~Due(ords, ord)
     /\ orders' = ords /\ forder' = ord
     /\ botTask' = (IF self = "bot" THEN [botTask EXCEPT !.todo = Tail(@), !.at = "next"] ELSE botTask)
     /\ fugTask' = (IF self = "fugitive" THEN Ended(fugTask) ELSE fugTask)
     /\ UNCHANGED <<game, status, round, ai, dazed, frozen, restarts>>
  \/ Due(ords, ord) /\ (NextRound(self, fugTask) \/ Captured(self, fugTask, ords, ord) \/ Reborn(ords, ord))

-----------------------------------------------------------------------------
(* The people. *)

Init ==
  /\ game = 0 /\ status = "IDLE" /\ round = 0 /\ ai = FALSE
  /\ orders = [h \in Crew |-> None] /\ forder = None /\ dazed = {} /\ frozen = FALSE
  /\ botTask = NoTask /\ fugTask = NoTask /\ restarts = 0

Start ==
  /\ status = "IDLE" /\ game < MaxGames
  /\ game' = game + 1 /\ status' = "ROUND_OPEN" /\ round' = 1 /\ ai' \in BOOLEAN
  /\ orders' = [h \in Crew |-> None] /\ forder' = None /\ dazed' = {} /\ frozen' = FALSE
  /\ botTask' = BotTurn(botTask, game', 1, orders', {})
  /\ fugTask' = FugitiveTurn(fugTask, game', 1, ai', None)
  /\ UNCHANGED restarts

HunterOrder(h) ==
  /\ status = "ROUND_OPEN" /\ h \notin dazed
  /\ Taken("person", [orders EXCEPT ![h] = Human], forder)

CancelHunterOrder(h) ==
  /\ status = "ROUND_OPEN" /\ orders' = [orders EXCEPT ![h] = None]
  /\ UNCHANGED <<game, status, round, ai, forder, dazed, frozen, botTask, fugTask, restarts>>

\* The crew votes to go on without him: his order is to stay.
VotePasses(h) ==
  /\ status = "ROUND_OPEN" /\ h \notin dazed /\ orders[h] = None
  /\ Taken("person", [orders EXCEPT ![h] = Human], forder)

FugitiveOrder ==
  /\ status = "ROUND_OPEN" /\ ~ai /\ Taken("person", orders, Human)

CancelFugitiveOrder ==
  /\ status = "ROUND_OPEN" /\ ~ai /\ forder' = None
  /\ UNCHANGED <<game, status, round, ai, orders, dazed, frozen, botTask, fugTask, restarts>>

Pause ==
  /\ status = "ROUND_OPEN" /\ status' = "PAUSED"
  /\ UNCHANGED <<game, round, ai, orders, forder, dazed, frozen, botTask, fugTask, restarts>>

\* Resuming schedules, and then resolves at once if everybody is in.
Resume ==
  /\ status = "PAUSED"
  /\ \/ /\ status' = "ROUND_OPEN"
        /\ botTask' = BotTurn(botTask, game, round, orders, dazed)
        /\ fugTask' = FugitiveTurn(fugTask, game, round, ai, forder)
        /\ ~Due(orders, forder)
        /\ UNCHANGED <<game, round, ai, orders, forder, dazed, frozen, restarts>>
     \/ /\ Due(orders, forder)
        /\ LET asking == FugitiveTurn(fugTask, game, round, ai, forder)
           IN  NextRound("person", asking) \/ Captured("person", asking, orders, forder)

\* The deadline, the grace, or the admin's end_round, also of a paused round.
EndRound ==
  /\ status \in {"ROUND_OPEN", "PAUSED"}
  /\ NextRound("person", fugTask) \/ Captured("person", fugTask, orders, forder)

EndGame ==
  /\ status # "IDLE" /\ status' = "IDLE"
  /\ UNCHANGED <<game, round, ai, orders, forder, dazed, frozen, botTask, fugTask, restarts>>

Restart == Reborn(orders, forder)

-----------------------------------------------------------------------------
(* A question: generate_with_retry, and what decide makes of its end. *)

Answered(task) == [task EXCEPT !.at = "answer", !.model = 1, !.attempt = 1]
RetriedForever(task) == [task EXCEPT !.attempt = IF @ < Attempts THEN @ + 1 ELSE 1]
Retried(task) ==
  IF task.attempt < Attempts THEN [task EXCEPT !.attempt = @ + 1]
  ELSE IF task.model < Models THEN [task EXCEPT !.model = @ + 1, !.attempt = 1]
  ELSE Answered(task)

\* A transient error is tried again, then with the next model; the last one,
\* any other error and an answer that cannot be read become an order to wait.
Asks(task) == IF task.at = "asking" THEN {Retried(task), Answered(task)} ELSE {}

\* _run_bot_turn between two hunters: stop when the round is over, pass over
\* who has an order already.
BotNext ==
  /\ botTask.at = "next"
  /\ botTask' = (IF botTask.todo = <<>> \/ Stale(botTask) THEN Ended(botTask)
                 ELSE IF orders[Head(botTask.todo)] # None THEN [botTask EXCEPT !.todo = Tail(@)]
                 ELSE [botTask EXCEPT !.at = "asking"])
  /\ UNCHANGED <<session, fugTask, restarts>>

BotAsks ==
  /\ botTask' \in Asks(botTask)
  /\ UNCHANGED <<session, fugTask, restarts>>

\* A hunter order that breaks the rules is replaced by "stay".
BotOrdersAnyGame ==
  /\ botTask.at = "answer"
  /\ IF botTask.round # round \/ status # "ROUND_OPEN" THEN botTask' = Ended(botTask) /\ UNCHANGED <<session, fugTask, restarts>>
     ELSE Taken("bot", [orders EXCEPT ![Head(botTask.todo)] = <<botTask.game, botTask.round>>], forder)
BotOrders ==
  /\ botTask.at = "answer"
  /\ IF Stale(botTask)
       THEN botTask' = Ended(botTask) /\ UNCHANGED <<session, fugTask, restarts>>
     ELSE IF orders[Head(botTask.todo)] # None
       THEN /\ botTask' = [botTask EXCEPT !.todo = Tail(@), !.at = "next"]
            /\ UNCHANGED <<session, fugTask, restarts>>
     ELSE Taken("bot", [orders EXCEPT ![Head(botTask.todo)] = <<botTask.game, botTask.round>>], forder)

FugitiveNext ==
  /\ fugTask.at = "next" /\ fugTask' = [fugTask EXCEPT !.at = "asking"]
  /\ UNCHANGED <<session, botTask, restarts>>

FugitiveAsks ==
  /\ fugTask' \in Asks(fugTask)
  /\ UNCHANGED <<session, botTask, restarts>>

\* An order that breaks the rules loses its hack, and then its move.
FugitiveAiOrders ==
  /\ fugTask.at = "answer"
  /\ IF Stale(fugTask) \/ forder # None
       THEN fugTask' = Ended(fugTask) /\ UNCHANGED <<session, botTask, restarts>>
     ELSE Taken("fugitive", orders, <<fugTask.game, fugTask.round>>)

Next ==
  \/ Start \/ Pause \/ Resume \/ EndRound \/ EndGame \/ Restart
  \/ \E h \in Humans : HunterOrder(h) \/ CancelHunterOrder(h)
  \/ \E h \in Crew : VotePasses(h)
  \/ FugitiveOrder \/ CancelFugitiveOrder
  \/ BotNext \/ BotAsks \/ BotOrders
  \/ FugitiveNext \/ FugitiveAsks \/ FugitiveAiOrders

\* The event loop runs its tasks, and the model service answers or fails.
Spec ==
  /\ Init /\ [][Next]_vars
  /\ WF_vars(BotNext) /\ WF_vars(BotAsks) /\ WF_vars(BotOrders)
  /\ WF_vars(FugitiveNext) /\ WF_vars(FugitiveAsks) /\ WF_vars(FugitiveAiOrders)

-----------------------------------------------------------------------------
(* Properties. *)

\* An answer that comes late, for a round that is over or a game that was
\* ended, never becomes an order: what an AI player has ordered answers the
\* question of this round of this game.
AnswersAreFresh ==
  status \in {"ROUND_OPEN", "PAUSED"} =>
    /\ \A b \in Bots : orders[b] \in {None, Human, Now}
    /\ ai => forder \in {None, Now}

Asked(task, todo) == Running(task) /\ task.game = game /\ task.round = round /\ todo

\* In an open round every AI player who could order and has not is about to be
\* asked, across pauses, captures, restarts and answers that come late.
AiPlayersAreAsked ==
  status = "ROUND_OPEN" =>
    /\ \A b \in Bots \ dazed :
         orders[b] = None => Asked(botTask, \E i \in DOMAIN botTask.todo : botTask.todo[i] = b)
    /\ ai /\ forder = None => Asked(fugTask, TRUE)

\* The same, for the first game the process plays.
NobodyIsForgotten == game = 1 => AiPlayersAreAsked

\* One turn, one question, one answer: whom the tasks serve and what they put in.
TurnsAreSound == AnswersAreFresh /\ NobodyIsForgotten

\* Whoever is about to be asked gets an order before the round ends, however
\* the model service fails: the retries end, and an answer nobody can read is
\* an order to wait.
AskedIsAnswered ==
  \A r \in 1..MaxRound, b \in Bots :
    LET waits == /\ round = r /\ status = "ROUND_OPEN" /\ orders[b] = None
                 /\ Asked(botTask, \E i \in DOMAIN botTask.todo : botTask.todo[i] = b)
    IN  waits ~> ~(round = r /\ status = "ROUND_OPEN" /\ orders[b] = None)
=============================================================================
