-------------------------- MODULE TrainTasksProofs --------------------------
(***************************************************************************)
(* Proofs about TrainTasks, for any crew, number of rounds and games and   *)
(* any answers of the model service: what an AI player orders answers the  *)
(* question of this round, and nobody who may order is forgotten.          *)
(***************************************************************************)
EXTENDS TrainTasks, Sums

Tasks ==
  [game : Nat, round : Nat, todo : Seq(Bots), at : {"done", "next", "asking", "answer"}, model : Nat, attempt : Nat]

Typed ==
  /\ game \in Nat /\ round \in Nat /\ ai \in BOOLEAN
  /\ status \in {"IDLE", "ROUND_OPEN", "PAUSED", "CAPTURED"}
  /\ orders \in [Crew -> Nat \X Nat] /\ forder \in Nat \X Nat /\ dazed \subseteq Crew
  /\ botTask \in Tasks /\ fugTask \in Tasks
  /\ botTask.at \in {"asking", "answer"} => botTask.todo # <<>>

-----------------------------------------------------------------------------
(* Whom a task serves. *)

Has(s, b) == \E i \in DOMAIN s : s[i] = b
Listed(task, b) == Has(task.todo, b)

\* A task that runs for this round of this game will come to everybody who waits.
Covers(task, n, r, ords, out) ==
  Running(task) /\ task.round = r => task.game = n /\ \A b \in Bots \ out : ords[b] = None => Listed(task, b)
\* Whoever waits is served.
Serves(task, n, r, ords, out) ==
  \A b \in Bots \ out : ords[b] = None => Running(task) /\ task.game = n /\ task.round = r /\ Listed(task, b)
ServesHim(task, n, r, isAi, ord) == isAi /\ ord = None => Running(task) /\ task.game = n /\ task.round = r

\* No task is ahead of the game.
Past(task, n, r) == Running(task) => task.game = n /\ task.round <= r

InTime ==
  /\ game = 0 => status = "IDLE" /\ ~Running(botTask) /\ ~Running(fugTask)
  /\ game = 1 =>
       /\ Past(botTask, game, round) /\ Past(fugTask, game, round)
       /\ status \in {"ROUND_OPEN", "PAUSED"} => Covers(botTask, game, round, orders, dazed)
       /\ status = "ROUND_OPEN" => /\ Serves(botTask, game, round, orders, dazed)
                                   /\ ServesHim(fugTask, game, round, ai, forder)

Inv == Typed /\ AnswersAreFresh /\ InTime

-----------------------------------------------------------------------------
(* Scheduling. *)

LEMMA CrewIs == BotSeq \in Seq(Bots) /\ Bots \subseteq Crew /\ Humans \subseteq Crew /\ Humans \cap Bots = {}
BY TasksAssumption DEF Crew

LEMMA PendingIs ==
  ASSUME NEW ords, NEW out
  PROVE  /\ Pending(ords, out) \in Seq(Bots)
         /\ \A b \in Bots \ out : ords[b] = None => Has(Pending(ords, out), b)
<1> DEFINE n == Len(BotSeq)
           upTo == CHOOSE g : g = [i \in 0..n |-> IF i = 0 THEN <<>> ELSE WithHim(g[i - 1], BotSeq[i], ords, out)]
           G == [p \in (1..n) \X Seq(Bots) |-> WithHim(p[2], BotSeq[p[1]], ords, out)]
<1>0. n \in Nat /\ \A i \in 1..n : BotSeq[i] \in Bots BY CrewIs
<1>1. Pending(ords, out) = upTo[n] BY DEF Pending
<1>2. \A s \in Seq(Bots), b \in Bots : WithHim(s, b, ords, out) \in Seq(Bots) BY DEF WithHim
<1>3. G \in [(1..n) \X Seq(Bots) -> Seq(Bots)] BY <1>0, <1>2
<1>4. <<>> \in Seq(Bots) OBVIOUS
<1>5. PICK f \in [0..n -> Seq(Bots)] : f[0] = <<>> /\ \A i \in 1..n : f[i] = G[<<i, f[i - 1]>>]
  <2> HIDE DEF G, n
  <2>1. Runs(n, Seq(Bots), <<>>, G) # {} BY <1>0, <1>3, <1>4, Recursion
  <2> QED BY <2>1 DEF Runs
<1>6. \A i \in 1..n : f[i] = WithHim(f[i - 1], BotSeq[i], ords, out)
  <2> SUFFICES ASSUME NEW i \in 1..n PROVE f[i] = WithHim(f[i - 1], BotSeq[i], ords, out) OBVIOUS
  <2>1. i - 1 \in 0..n BY <1>0
  <2>2. <<i, f[i - 1]>> \in (1..n) \X Seq(Bots) BY <2>1
  <2> QED BY <1>5, <2>2
<1> HIDE DEF G
<1>7. f = [i \in 0..n |-> IF i = 0 THEN <<>> ELSE WithHim(f[i - 1], BotSeq[i], ords, out)]
  <2>1. \A i \in 0..n : i = 0 \/ i \in 1..n BY <1>0
  <2>2. \A i \in 0..n : f[i] = IF i = 0 THEN <<>> ELSE WithHim(f[i - 1], BotSeq[i], ords, out) BY <1>5, <1>6, <2>1
  <2> HIDE DEF n
  <2> QED BY <2>2
<1>8. upTo = [i \in 0..n |-> IF i = 0 THEN <<>> ELSE WithHim(upTo[i - 1], BotSeq[i], ords, out)] BY <1>7
<1> HIDE DEF upTo
<1>9. \A i \in 0..n : upTo[i] = IF i = 0 THEN <<>> ELSE WithHim(upTo[i - 1], BotSeq[i], ords, out) BY ONLY <1>8
<1> HIDE DEF n
<1> DEFINE H == {i \in Nat : i <= n => /\ upTo[i] \in Seq(Bots)
                                      /\ \A j \in 1..i : ords[BotSeq[j]] = None /\ BotSeq[j] \notin out
                                                           => Has(upTo[i], BotSeq[j])}
<1>10. 0 \in H
  <2>1. 0 \in 0..n BY <1>0
  <2>2. upTo[0] = <<>> BY <1>9, <2>1
  <2>3. ~ \E j \in 1..0 : TRUE OBVIOUS
  <2>4. upTo[0] \in Seq(Bots) BY <1>4, <2>2
  <2> QED BY <2>3, <2>4
<1>11. ASSUME NEW i \in Nat, i \in H PROVE i + 1 \in H
  <2> SUFFICES ASSUME i + 1 <= n
               PROVE  /\ upTo[i + 1] \in Seq(Bots)
                      /\ \A j \in 1..(i + 1) : ords[BotSeq[j]] = None /\ BotSeq[j] \notin out => Has(upTo[i + 1], BotSeq[j])
    OBVIOUS
  <2>1. i <= n /\ i + 1 \in 0..n /\ i + 1 # 0 /\ (i + 1) - 1 = i /\ i + 1 \in 1..n BY <1>0
  <2>2. PICK s : s = upTo[i] OBVIOUS
  <2>3. s \in Seq(Bots) /\ \A j \in 1..i : ords[BotSeq[j]] = None /\ BotSeq[j] \notin out => Has(s, BotSeq[j])
    BY <1>11, <2>1, <2>2
  <2>4. upTo[i + 1] = WithHim(s, BotSeq[i + 1], ords, out) BY <1>9, <2>1, <2>2
  <2>5. BotSeq[i + 1] \in Bots BY <1>0, <2>1
  <2>6. ASSUME NEW x, Has(s, x) PROVE Has(WithHim(s, BotSeq[i + 1], ords, out), x)
    <3>1. PICK k \in DOMAIN s : s[k] = x BY <2>6 DEF Has
    <3>2. k \in DOMAIN Append(s, BotSeq[i + 1]) /\ Append(s, BotSeq[i + 1])[k] = x BY <2>3, <2>5, <3>1
    <3> QED BY <3>1, <3>2 DEF WithHim, Has
  <2>7. ASSUME ords[BotSeq[i + 1]] = None, BotSeq[i + 1] \notin out
        PROVE  Has(WithHim(s, BotSeq[i + 1], ords, out), BotSeq[i + 1])
    <3>1. Len(s) + 1 \in DOMAIN Append(s, BotSeq[i + 1]) /\ Append(s, BotSeq[i + 1])[Len(s) + 1] = BotSeq[i + 1]
      BY <2>3, <2>5
    <3> QED BY <2>7, <3>1 DEF WithHim, Has
  <2>8. \A j \in 1..(i + 1) : j = i + 1 \/ j \in 1..i OBVIOUS
  <2>9. WithHim(s, BotSeq[i + 1], ords, out) \in Seq(Bots) BY <1>2, <2>3, <2>5
  <2> QED BY <2>3, <2>4, <2>6, <2>7, <2>8, <2>9
<1> HIDE DEF H
<1>12. n \in H BY <1>0, <1>10, <1>11, NatInduct
<1>13. /\ upTo[n] \in Seq(Bots)
       /\ \A j \in 1..n : ords[BotSeq[j]] = None /\ BotSeq[j] \notin out => Has(upTo[n], BotSeq[j])
  BY <1>0, <1>12 DEF H
<1>14. \A b \in Bots : \E j \in 1..n : b = BotSeq[j] BY DEF Bots, n
<1> QED BY <1>1, <1>13, <1>14

LEMMA TaskFacts ==
  /\ NoTask \in Tasks /\ ~Running(NoTask)
  /\ \A task \in Tasks : Ended(task) \in Tasks /\ ~Running(Ended(task))
  /\ \A todo \in Seq(Bots), n \in Nat, r \in Nat :
       /\ Started(todo, n, r) \in Tasks /\ Running(Started(todo, n, r)) /\ Started(todo, n, r).at = "next"
       /\ Started(todo, n, r).game = n /\ Started(todo, n, r).round = r /\ Started(todo, n, r).todo = todo
<1>1. <<>> \in Seq(Bots) OBVIOUS
<1>2. NoTask \in Tasks /\ ~Running(NoTask) BY <1>1 DEF Tasks, NoTask, Running
<1>3. ASSUME NEW task \in Tasks PROVE Ended(task) \in Tasks /\ ~Running(Ended(task)) BY <1>1 DEF Tasks, Ended, Running
<1>4. ASSUME NEW todo \in Seq(Bots), NEW n \in Nat, NEW r \in Nat
      PROVE  /\ Started(todo, n, r) \in Tasks /\ Running(Started(todo, n, r)) /\ Started(todo, n, r).at = "next"
             /\ Started(todo, n, r).game = n /\ Started(todo, n, r).round = r /\ Started(todo, n, r).todo = todo
  BY DEF Tasks, Started, Running
<1> QED BY <1>2, <1>3, <1>4

\* A task that works for the hunters is there for all who wait, and one that runs for this round is kept.
LEMMA BotTurnServes ==
  ASSUME NEW task \in Tasks, NEW n \in Nat, NEW r \in Nat, NEW ords, NEW out,
         NEW turn, turn = BotTurn(task, n, r, ords, out)
  PROVE  /\ turn \in Tasks
         /\ turn = task \/ (turn.at = "next" /\ turn.game = n /\ turn.round = r)
         /\ Covers(task, n, r, ords, out) => Covers(turn, n, r, ords, out) /\ Serves(turn, n, r, ords, out)
         /\ turn = task /\ ~(Running(task) /\ task.round = r) => \A b \in Bots \ out : ords[b] # None
<1> DEFINE todo == Pending(ords, out)
<1>1. todo \in Seq(Bots) /\ \A b \in Bots \ out : ords[b] = None => Has(todo, b) BY PendingIs
<1> HIDE DEF todo
<1>2. CASE todo = <<>>
  <2>1. turn = task BY <1>2 DEF BotTurn, todo
  <2>2. \A b \in Bots \ out : ords[b] # None BY <1>1, <1>2 DEF Has
  <2>3. Serves(turn, n, r, ords, out) BY <2>2 DEF Serves
  <2> QED BY <2>1, <2>2, <2>3
<1>3. CASE todo # <<>> /\ Running(task) /\ task.round = r
  <2>1. turn = task BY <1>3 DEF BotTurn, todo
  <2>2. Covers(task, n, r, ords, out) => Serves(task, n, r, ords, out) BY <1>3 DEF Serves, Covers
  <2> QED BY <1>3, <2>1, <2>2
<1>4. CASE todo # <<>> /\ ~(Running(task) /\ task.round = r)
  <2>1. turn = Started(todo, n, r) BY <1>4 DEF BotTurn, todo
  <2>2. /\ turn \in Tasks /\ Running(turn) /\ turn.at = "next" /\ turn.game = n /\ turn.round = r /\ turn.todo = todo
    BY <1>1, <2>1, TaskFacts
  <2>3. turn # task BY <1>4, <2>2
  <2>4. Covers(turn, n, r, ords, out) /\ Serves(turn, n, r, ords, out) BY <1>1, <2>2 DEF Serves, Covers, Listed
  <2> QED BY <2>2, <2>3, <2>4
<1> QED BY <1>2, <1>3, <1>4

LEMMA FugitiveTurnServes ==
  ASSUME NEW task \in Tasks, NEW n \in Nat, NEW r \in Nat, NEW isAi, NEW ord,
         NEW turn, turn = FugitiveTurn(task, n, r, isAi, ord)
  PROVE  /\ turn \in Tasks
         /\ turn = task \/ (turn.game = n /\ turn.round = r)
         /\ (Running(task) /\ task.round = r => task.game = n) => ServesHim(turn, n, r, isAi, ord)
         /\ turn = task /\ ~(Running(task) /\ task.round = r) => ~isAi \/ ord # None
<1>1. CASE ~isAi \/ ord # None \/ (Running(task) /\ task.round = r)
  <2>1. turn = task BY <1>1 DEF FugitiveTurn
  <2> QED BY <1>1, <2>1 DEF ServesHim
<1>2. CASE ~(~isAi \/ ord # None \/ (Running(task) /\ task.round = r))
  <2> PICK nobody : nobody = <<>> OBVIOUS
  <2>1. turn = Started(nobody, n, r) BY <1>2 DEF FugitiveTurn
  <2>2. nobody \in Seq(Bots) OBVIOUS
  <2>3. /\ Started(nobody, n, r) \in Tasks /\ Running(Started(nobody, n, r))
        /\ Started(nobody, n, r).game = n /\ Started(nobody, n, r).round = r
    BY <2>2 DEF Tasks, Started, Running
  <2>4. turn \in Tasks /\ Running(turn) /\ turn.game = n /\ turn.round = r BY <2>1, <2>3
  <2>5. turn # task BY <1>2, <2>4
  <2> QED BY <2>4, <2>5 DEF ServesHim
<1> QED BY <1>1, <1>2

-----------------------------------------------------------------------------
(* The ends of a round. *)

Sound(task) == task.at \in {"asking", "answer"} => task.todo # <<>>

LEMMA Pairs == None \in Nat \X Nat /\ Human \in Nat \X Nat /\ Human # None
  /\ \A n \in Nat, r \in Nat : <<n, r>> \in Nat \X Nat /\ (n # 0 => <<n, r>> # None)
BY DEF None, Human

\* A new round, whoever brings it about.
LEMMA NextRoundStep ==
  ASSUME Typed, NEW self, NEW asking \in Tasks, game # 0,
         game = 1 => Past(botTask, game, round) /\ Past(asking, game, round), NextRound(self, asking)
  PROVE  Inv'
<1>0. game \in Nat /\ round \in Nat /\ botTask \in Tasks /\ round + 1 \in Nat /\ ai \in BOOLEAN /\ Sound(botTask)
  BY DEF Typed, Sound
<1>1. PICK none : none = [h \in Crew |-> None] OBVIOUS
<1>2. PICK out \in SUBSET Crew :
        LET bot == BotTurn(botTask, game, round + 1, none, out)
            fug == FugitiveTurn(asking, game, round + 1, ai, None)
        IN  /\ status' = "ROUND_OPEN" /\ round' = round + 1
            /\ orders' = none /\ forder' = None /\ dazed' = out
            /\ botTask' = (IF self = "bot" THEN Replaced(botTask, bot) ELSE bot)
            /\ fugTask' = (IF self = "fugitive" THEN Replaced(asking, fug) ELSE fug)
            /\ UNCHANGED <<game, ai, restarts>>
  BY <1>1 DEF NextRound
<1>3. PICK bot : bot = BotTurn(botTask, game, round + 1, none, out) OBVIOUS
<1>4. PICK fug : fug = FugitiveTurn(asking, game, round + 1, ai, None) OBVIOUS
<1>5. /\ botTask' = (IF self = "bot" THEN Replaced(botTask, bot) ELSE bot)
      /\ fugTask' = (IF self = "fugitive" THEN Replaced(asking, fug) ELSE fug)
      /\ status' = "ROUND_OPEN" /\ round' = round + 1
      /\ orders' = none /\ forder' = None /\ dazed' = out /\ game' = game /\ ai' = ai
  BY <1>2, <1>3, <1>4
<1>6. /\ bot \in Tasks
      /\ bot = botTask \/ (bot.at = "next" /\ bot.game = game /\ bot.round = round + 1)
      /\ Covers(botTask, game, round + 1, none, out)
            => Covers(bot, game, round + 1, none, out) /\ Serves(bot, game, round + 1, none, out)
      /\ bot = botTask /\ ~(Running(botTask) /\ botTask.round = round + 1) => \A b \in Bots \ out : none[b] # None
  BY <1>0, <1>3, BotTurnServes
<1>7. /\ fug \in Tasks
      /\ fug = asking \/ (fug.game = game /\ fug.round = round + 1)
      /\ (Running(asking) /\ asking.round = round + 1 => asking.game = game) => ServesHim(fug, game, round + 1, ai, None)
      /\ fug = asking /\ ~(Running(asking) /\ asking.round = round + 1) => ~ai \/ None # None
  BY <1>0, <1>4, FugitiveTurnServes
<1>8. botTask' \in {bot, Ended(botTask)} /\ fugTask' \in {fug, Ended(asking)} BY <1>5 DEF Replaced
<1>9. /\ botTask' \in Tasks /\ fugTask' \in Tasks
      /\ ~Running(Ended(botTask)) /\ ~Running(Ended(asking)) /\ Ended(botTask) \in Tasks /\ Ended(asking) \in Tasks
  BY <1>0, <1>6, <1>7, <1>8, TaskFacts
<1>10. Sound(botTask')
  <2>1. Sound(bot) BY <1>0, <1>6 DEF Sound
  <2>2. Sound(Ended(botTask)) BY <1>0 DEF Sound, Ended, Tasks
  <2> QED BY <1>8, <2>1, <2>2
<1>11. orders' \in [Crew -> Nat \X Nat] /\ forder' \in Nat \X Nat BY <1>1, <1>5, Pairs
<1>12. Typed'
  <2>1. game' \in Nat /\ round' \in Nat /\ ai' \in BOOLEAN BY <1>0, <1>5
  <2>2. status' \in {"IDLE", "ROUND_OPEN", "PAUSED", "CAPTURED"} /\ dazed' \subseteq Crew BY <1>2, <1>5
  <2> QED BY <1>9, <1>10, <1>11, <2>1, <2>2 DEF Typed, Sound
<1>13. AnswersAreFresh'
  <2>1. \A b \in Bots : orders'[b] = None BY <1>1, <1>5, CrewIs
  <2> QED BY <1>5, <2>1 DEF AnswersAreFresh
<1>14. InTime'
  <2> SUFFICES ASSUME game = 1
        PROVE  /\ Past(botTask', game, round + 1) /\ Past(fugTask', game, round + 1)
               /\ Covers(botTask', game, round + 1, none, out) /\ Serves(botTask', game, round + 1, none, out)
               /\ ServesHim(fugTask', game, round + 1, ai, None)
    BY <1>5 DEF InTime
  <2>1. Past(botTask, game, round) /\ Past(asking, game, round) OBVIOUS
  <2>2. ~(Running(botTask) /\ botTask.round = round + 1) /\ ~(Running(asking) /\ asking.round = round + 1)
    BY <1>0, <2>1 DEF Past, Tasks
  <2>3. Past(bot, game, round + 1) /\ Past(fug, game, round + 1)
    <3>1. botTask.round \in Nat /\ asking.round \in Nat BY <1>0 DEF Tasks
    <3>2. Past(botTask, game, round + 1) /\ Past(asking, game, round + 1) BY <1>0, <2>1, <3>1 DEF Past
    <3>3. Past(bot, game, round + 1)
      <4>1. CASE bot = botTask BY <3>2, <4>1
      <4>2. CASE bot.game = game /\ bot.round = round + 1 BY <1>0, <4>2 DEF Past
      <4> QED BY <1>6, <4>1, <4>2
    <3>4. Past(fug, game, round + 1)
      <4>1. CASE fug = asking BY <3>2, <4>1
      <4>2. CASE fug.game = game /\ fug.round = round + 1 BY <1>0, <4>2 DEF Past
      <4> QED BY <1>7, <4>1, <4>2
    <3> QED BY <3>3, <3>4
  <2>4. Past(Ended(botTask), game, round + 1) /\ Past(Ended(asking), game, round + 1) BY <1>9 DEF Past
  <2>5. Covers(bot, game, round + 1, none, out) /\ Serves(bot, game, round + 1, none, out)
    BY <1>6, <2>2 DEF Covers
  <2>6. botTask' = bot \/ (botTask' = Ended(botTask) /\ bot = botTask) BY <1>5 DEF Replaced
  <2>7. fugTask' = fug \/ (fugTask' = Ended(asking) /\ fug = asking) BY <1>5 DEF Replaced
  <2>8. bot = botTask => Bots \ out = {}
    <3>1. \A b \in Bots \ out : none[b] = None BY <1>1, CrewIs
    <3> QED BY <1>6, <2>2, <3>1
  <2>9. Covers(botTask', game, round + 1, none, out) /\ Serves(botTask', game, round + 1, none, out)
    <3>1. CASE botTask' = bot BY <2>5, <3>1
    <3>2. CASE botTask' = Ended(botTask) /\ bot = botTask
      <4>1. ~Running(botTask') BY <1>9, <3>2
      <4> QED BY <2>8, <3>2, <4>1 DEF Covers, Serves
    <3> QED BY <2>6, <3>1, <3>2
  <2>10. ServesHim(fugTask', game, round + 1, ai, None)
    <3>1. CASE fugTask' = fug BY <1>7, <2>2, <3>1
    <3>2. CASE fugTask' = Ended(asking) /\ fug = asking
      <4>1. ~ai BY <1>7, <2>2, <3>2
      <4> QED BY <4>1 DEF ServesHim
    <3> QED BY <2>7, <3>1, <3>2
  <2> QED BY <1>8, <2>3, <2>4, <2>9, <2>10
<1> QED BY <1>12, <1>13, <1>14 DEF Inv

LEMMA CapturedStep ==
  ASSUME Typed, NEW self, NEW asking \in Tasks, game # 0,
         game = 1 => Past(botTask, game, round) /\ Past(asking, game, round),
         NEW ords \in [Crew -> Nat \X Nat], NEW ord \in Nat \X Nat, Captured(self, asking, ords, ord)
  PROVE  Inv'
<1>0. game \in Nat /\ round \in Nat /\ botTask \in Tasks /\ ai \in BOOLEAN /\ Sound(botTask) /\ dazed \subseteq Crew
  BY DEF Typed, Sound
<1>1. /\ botTask' \in {botTask, Ended(botTask)} /\ fugTask' \in {asking, Ended(asking)}
      /\ status' = "CAPTURED" /\ orders' = ords /\ forder' = ord
      /\ game' = game /\ round' = round /\ ai' = ai /\ dazed' = dazed
  BY DEF Captured
<1>2. /\ ~Running(Ended(botTask)) /\ ~Running(Ended(asking)) /\ Ended(botTask) \in Tasks /\ Ended(asking) \in Tasks
  BY <1>0, TaskFacts
<1>3. Sound(botTask')
  <2>1. Sound(Ended(botTask)) BY <1>0 DEF Sound, Ended, Tasks
  <2> QED BY <1>0, <1>1, <2>1
<1>4. Typed' BY <1>0, <1>1, <1>2, <1>3 DEF Typed, Sound
<1>5. AnswersAreFresh' BY <1>1 DEF AnswersAreFresh
<1>6. InTime'
  <2>1. game = 1 => Past(botTask', game, round) /\ Past(fugTask', game, round) BY <1>1, <1>2 DEF Past
  <2> QED BY <1>1, <2>1 DEF InTime
<1> QED BY <1>4, <1>5, <1>6 DEF Inv

\* A process that comes back starts its tasks from nothing.
LEMMA RebornStep ==
  ASSUME Typed, game = 0 => status = "IDLE", NEW ords \in [Crew -> Nat \X Nat], NEW ord \in Nat \X Nat,
         status \in {"ROUND_OPEN", "PAUSED"} =>
           (\A b \in Bots : ords[b] \in {None, Human, Now}) /\ (ai => ord \in {None, Now}),
         Reborn(ords, ord)
  PROVE  Inv'
<1>0. game \in Nat /\ round \in Nat /\ ai \in BOOLEAN /\ dazed \subseteq Crew
      /\ status \in {"IDLE", "ROUND_OPEN", "PAUSED", "CAPTURED"}
  BY DEF Typed
<1>1. PICK bot : bot = BotTurn(NoTask, game, round, ords, dazed) OBVIOUS
<1>2. PICK fug : fug = FugitiveTurn(NoTask, game, round, ai, ord) OBVIOUS
<1>3. /\ orders' = ords /\ forder' = ord /\ game' = game /\ round' = round /\ ai' = ai /\ dazed' = dazed /\ status' = status
      /\ botTask' = (IF status = "ROUND_OPEN" THEN bot ELSE NoTask)
      /\ fugTask' = (IF status = "ROUND_OPEN" THEN fug ELSE NoTask)
  BY <1>1, <1>2 DEF Reborn
<1>4. NoTask \in Tasks /\ ~Running(NoTask) BY TaskFacts
<1>5. Covers(NoTask, game, round, ords, dazed) BY <1>4 DEF Covers
<1>6. /\ bot \in Tasks
      /\ bot = NoTask \/ (bot.at = "next" /\ bot.game = game /\ bot.round = round)
      /\ Covers(bot, game, round, ords, dazed) /\ Serves(bot, game, round, ords, dazed)
  BY <1>0, <1>1, <1>4, <1>5, BotTurnServes
<1>7. /\ fug \in Tasks
      /\ fug = NoTask \/ (fug.game = game /\ fug.round = round)
      /\ ServesHim(fug, game, round, ai, ord)
  BY <1>0, <1>2, <1>4, FugitiveTurnServes
<1>8. Typed'
  <2>1. Sound(bot) /\ Sound(NoTask) BY <1>6 DEF Sound, NoTask
  <2>2. botTask' \in {bot, NoTask} /\ fugTask' \in {fug, NoTask} BY <1>3
  <2>3. Sound(botTask') BY <2>1, <2>2
  <2>4. botTask' \in Tasks /\ fugTask' \in Tasks BY <1>4, <1>6, <1>7, <2>2
  <2> QED BY <1>0, <1>3, <2>3, <2>4 DEF Typed, Sound
<1>9. AnswersAreFresh'
  <2>1. Now' = Now BY <1>3 DEF Now
  <2>2. status \in {"ROUND_OPEN", "PAUSED"} => (\A b \in Bots : orders'[b] \in {None, Human, Now'}) /\ (ai' => forder' \in {None, Now'})
    BY <1>3, <2>1
  <2> QED BY <1>3, <2>2 DEF AnswersAreFresh
<1>10. InTime'
  <2>1. Past(bot, game, round) /\ Past(fug, game, round) /\ Past(NoTask, game, round) BY <1>0, <1>4, <1>6, <1>7 DEF Past
  <2>2. status # "ROUND_OPEN" => botTask' = NoTask /\ fugTask' = NoTask BY <1>3
  <2>3. status = "ROUND_OPEN" => botTask' = bot /\ fugTask' = fug BY <1>3
  <2> QED BY <1>3, <1>4, <1>5, <1>6, <1>7, <2>1, <2>2, <2>3 DEF InTime
<1> QED BY <1>8, <1>9, <1>10 DEF Inv

-----------------------------------------------------------------------------
(* An order is in. *)

\* The task goes on to the next hunter: whoever else was listed still is.
LEMMA Passed ==
  ASSUME NEW task \in Tasks, task.todo # <<>>, NEW t2, t2.todo = Tail(task.todo),
         NEW b, b # Head(task.todo), Listed(task, b)
  PROVE  Listed(t2, b)
<1> DEFINE s == task.todo
<1>1. s \in Seq(Bots) BY DEF Tasks
<1>2. Has(s, b) BY DEF Listed
<1>3. PICK i \in DOMAIN s : s[i] = b BY <1>2 DEF Has
<1>4. i # 1 BY <1>1, <1>3
<1>5. i - 1 \in DOMAIN Tail(s) /\ Tail(s)[i - 1] = b BY <1>1, <1>3, <1>4
<1> QED BY <1>5 DEF Has, Listed

\* The first hunter of a task is passed over or has been given his order.
LEMMA TailTask ==
  ASSUME NEW task \in Tasks, task.todo # <<>>, Running(task),
         NEW t2, t2 = [task EXCEPT !.todo = Tail(@), !.at = "next"] \/ (t2 = [task EXCEPT !.todo = Tail(@)] /\ task.at = "next")
  PROVE  /\ t2 \in Tasks /\ Running(t2) /\ t2.game = task.game /\ t2.round = task.round
         /\ t2.todo = Tail(task.todo) /\ t2.at = "next"
<1>1. task.todo \in Seq(Bots) /\ Tail(task.todo) \in Seq(Bots) BY DEF Tasks
<1> QED BY <1>1 DEF Tasks, Running

LEMMA TakenStep ==
  ASSUME Inv, status = "ROUND_OPEN", NEW self \in {"bot", "fugitive", "person"},
         NEW ords \in [Crew -> Nat \X Nat], NEW ord \in Nat \X Nat, Taken(self, ords, ord),
         \A b \in Bots : ords[b] \in {None, Human, Now} /\ (orders[b] # None => ords[b] # None),
         ai => ord \in {None, Now}, forder # None => ord # None,
         self = "bot" => botTask.at = "answer" /\ ords[Head(botTask.todo)] # None,
         self = "fugitive" => ord # None
  PROVE  Inv'
<1>0. Typed /\ InTime /\ game # 0 BY DEF Inv, InTime
<1>1. game = 1 => Past(botTask, game, round) /\ Past(fugTask, game, round) BY <1>0 DEF InTime
<1>2. CASE Due(ords, ord) /\ NextRound(self, fugTask) BY <1>0, <1>1, <1>2, NextRoundStep DEF Typed
<1>3. CASE Due(ords, ord) /\ Captured(self, fugTask, ords, ord) BY <1>0, <1>1, <1>3, CapturedStep DEF Typed
<1>4. CASE Due(ords, ord) /\ Reborn(ords, ord) BY <1>0, <1>4, RebornStep
<1>5. CASE ~Due(ords, ord)
  <2>1. /\ orders' = ords /\ forder' = ord
        /\ botTask' = (IF self = "bot" THEN [botTask EXCEPT !.todo = Tail(@), !.at = "next"] ELSE botTask)
        /\ fugTask' = (IF self = "fugitive" THEN Ended(fugTask) ELSE fugTask)
        /\ UNCHANGED <<game, status, round, ai, dazed, frozen, restarts>>
    BY <1>5 DEF Taken
  <2>2. botTask \in Tasks /\ fugTask \in Tasks /\ Sound(botTask) BY <1>0 DEF Typed, Sound
  <2>3. /\ botTask' \in Tasks /\ Sound(botTask')
        /\ Running(botTask') => Running(botTask) /\ botTask'.game = botTask.game /\ botTask'.round = botTask.round
        /\ Covers(botTask, game, round, orders, dazed) => Covers(botTask', game, round, ords, dazed)
        /\ Serves(botTask, game, round, orders, dazed) => Serves(botTask', game, round, ords, dazed)
    <3>1. CASE self = "bot"
      <4>1. PICK t2 : t2 = [botTask EXCEPT !.todo = Tail(@), !.at = "next"] OBVIOUS
      <4>2. botTask' = t2 BY <2>1, <3>1, <4>1
      <4>3. botTask.todo # <<>> /\ Running(botTask) BY <2>2, <3>1 DEF Sound, Running
      <4>4. /\ t2 \in Tasks /\ Running(t2) /\ t2.game = botTask.game /\ t2.round = botTask.round
            /\ t2.todo = Tail(botTask.todo) /\ t2.at = "next"
        BY <2>2, <4>1, <4>3, TailTask
      <4>5. Sound(t2) BY <4>4 DEF Sound
      <4>6. \A b \in Bots : orders[b] # None => ords[b] # None OBVIOUS
      <4>7. ords[Head(botTask.todo)] # None BY <3>1
      <4>8. \A b \in Bots : ords[b] = None => orders[b] = None /\ (Listed(botTask, b) => Listed(t2, b))
        BY <2>2, <4>3, <4>4, <4>6, <4>7, Passed
      <4>9. /\ Covers(botTask, game, round, orders, dazed) => Covers(t2, game, round, ords, dazed)
            /\ Serves(botTask, game, round, orders, dazed) => Serves(t2, game, round, ords, dazed)
        BY <4>3, <4>4, <4>8 DEF Covers, Serves
      <4> QED BY <4>2, <4>3, <4>4, <4>5, <4>9
    <3>2. CASE self # "bot"
      <4>1. botTask' = botTask BY <2>1, <3>2
      <4> QED BY <2>2, <4>1 DEF Covers, Serves
    <3> QED BY <3>1, <3>2
  <2>4. fugTask' \in Tasks /\ (Running(fugTask') => fugTask' = fugTask) /\ (ord = None => fugTask' = fugTask)
    BY <2>1, <2>2, TaskFacts
  <2>5. Typed'
    <3>1. game \in Nat /\ round \in Nat /\ ai \in BOOLEAN /\ dazed \subseteq Crew BY <1>0 DEF Typed
    <3> QED BY <2>1, <2>3, <2>4, <3>1 DEF Typed, Sound
  <2>6. AnswersAreFresh'
    <3>1. Now' = Now BY <2>1 DEF Now
    <3>2. (\A b \in Bots : orders'[b] \in {None, Human, Now'}) /\ (ai' => forder' \in {None, Now'}) BY <2>1, <3>1
    <3> QED BY <3>2 DEF AnswersAreFresh
  <2>7. InTime'
    <3> SUFFICES ASSUME game = 1
          PROVE  /\ Past(botTask', game, round) /\ Past(fugTask', game, round)
                 /\ Covers(botTask', game, round, ords, dazed) /\ Serves(botTask', game, round, ords, dazed)
                 /\ ServesHim(fugTask', game, round, ai, ord)
      BY <1>0, <2>1 DEF InTime
    <3>1. Past(botTask', game, round) /\ Past(fugTask', game, round) BY <1>1, <2>3, <2>4 DEF Past
    <3>2. Covers(botTask, game, round, orders, dazed) /\ Serves(botTask, game, round, orders, dazed)
          /\ ServesHim(fugTask, game, round, ai, forder)
      BY <1>0 DEF InTime
    <3>3. ServesHim(fugTask', game, round, ai, ord) BY <2>4, <3>2 DEF ServesHim
    <3> QED BY <2>3, <3>1, <3>2, <3>3
  <2> QED BY <2>5, <2>6, <2>7 DEF Inv
<1> QED BY <1>2, <1>3, <1>4, <1>5 DEF Taken

-----------------------------------------------------------------------------
(* Every step. *)

\* What a task does with itself while the game stands still.
LEMMA TaskMoves ==
  ASSUME Inv, UNCHANGED session, NEW bot, NEW fug, botTask' = bot, fugTask' = fug,
         bot \in Tasks, fug \in Tasks, Sound(bot),
         Running(bot) => Running(botTask) /\ bot.game = botTask.game /\ bot.round = botTask.round,
         Running(fug) => Running(fugTask) /\ fug.game = fugTask.game /\ fug.round = fugTask.round,
         Covers(botTask, game, round, orders, dazed) => Covers(bot, game, round, orders, dazed),
         game = 1 /\ status = "ROUND_OPEN" /\ Serves(botTask, game, round, orders, dazed)
           => Serves(bot, game, round, orders, dazed),
         status = "ROUND_OPEN" /\ ServesHim(fugTask, game, round, ai, forder) => ServesHim(fug, game, round, ai, forder)
  PROVE  Inv'
<1>0. Typed /\ AnswersAreFresh /\ InTime BY DEF Inv
<1>1. game' = game /\ status' = status /\ round' = round /\ ai' = ai /\ orders' = orders /\ forder' = forder
      /\ dazed' = dazed
  BY DEF session
<1>2. Typed' BY <1>0, <1>1 DEF Typed, Sound
<1>3. AnswersAreFresh'
  <2>1. Now' = Now BY <1>1 DEF Now
  <2> QED BY <1>0, <1>1, <2>1 DEF AnswersAreFresh
<1>4. InTime'
  <2>1. game = 1 => Past(bot, game, round) /\ Past(fug, game, round) BY <1>0 DEF InTime, Past
  <2>2. game = 0 => status = "IDLE" /\ ~Running(bot) /\ ~Running(fug) BY <1>0 DEF InTime
  <2>3. game = 1 /\ status \in {"ROUND_OPEN", "PAUSED"} => Covers(bot, game, round, orders, dazed) BY <1>0 DEF InTime
  <2>4. game = 1 /\ status = "ROUND_OPEN" => Serves(bot, game, round, orders, dazed) /\ ServesHim(fug, game, round, ai, forder)
    BY <1>0 DEF InTime
  <2> QED BY <1>1, <2>1, <2>2, <2>3, <2>4 DEF InTime
<1> QED BY <1>2, <1>3, <1>4 DEF Inv

\* The game stops for a while, or for good.
LEMMA StopStep ==
  ASSUME Inv, Pause \/ EndGame
  PROVE  Inv'
<1>0. Typed /\ AnswersAreFresh /\ InTime BY DEF Inv
<1>1. /\ (status' = "PAUSED" /\ status = "ROUND_OPEN") \/ (status' = "IDLE" /\ status # "IDLE")
      /\ UNCHANGED <<game, round, ai, orders, forder, dazed, frozen, botTask, fugTask, restarts>>
  BY DEF Pause, EndGame
<1>2. Typed' BY <1>0, <1>1 DEF Typed
<1>3. AnswersAreFresh'
  <2>1. Now' = Now BY <1>1 DEF Now
  <2> QED BY <1>0, <1>1, <2>1 DEF AnswersAreFresh
<1>4. InTime' BY <1>0, <1>1 DEF InTime
<1> QED BY <1>2, <1>3, <1>4 DEF Inv

LEMMA StartStep ==
  ASSUME Inv, Start
  PROVE  Inv'
<1>0. Typed /\ InTime /\ game \in Nat /\ botTask \in Tasks /\ fugTask \in Tasks /\ Sound(botTask) BY DEF Inv, Typed, Sound
<1>1. PICK none : none = [h \in Crew |-> None] OBVIOUS
<1>2. PICK bot : bot = BotTurn(botTask, game', 1, none, {}) OBVIOUS
<1>3. PICK fug : fug = FugitiveTurn(fugTask, game', 1, ai', None) OBVIOUS
<1>4. /\ game' = game + 1 /\ status' = "ROUND_OPEN" /\ round' = 1 /\ ai' \in BOOLEAN
      /\ orders' = none /\ forder' = None /\ dazed' = {} /\ botTask' = bot /\ fugTask' = fug
  BY <1>1, <1>2, <1>3 DEF Start
<1>5. game' \in Nat /\ game' # 0 /\ (game' = 1 => game = 0) BY <1>0, <1>4
<1>6. /\ bot \in Tasks
      /\ bot = botTask \/ (bot.at = "next" /\ bot.game = game' /\ bot.round = 1)
      /\ Covers(botTask, game', 1, none, {}) => Covers(bot, game', 1, none, {}) /\ Serves(bot, game', 1, none, {})
  BY <1>0, <1>2, <1>5, BotTurnServes
<1>7. /\ fug \in Tasks
      /\ fug = fugTask \/ (fug.game = game' /\ fug.round = 1)
      /\ (Running(fugTask) /\ fugTask.round = 1 => fugTask.game = game') => ServesHim(fug, game', 1, ai', None)
  BY <1>0, <1>3, <1>5, FugitiveTurnServes
<1>8. Typed'
  <2>1. orders' \in [Crew -> Nat \X Nat] /\ forder' \in Nat \X Nat BY <1>1, <1>4, Pairs
  <2>2. Sound(bot) BY <1>0, <1>6 DEF Sound
  <2> QED BY <1>4, <1>5, <1>6, <1>7, <2>1, <2>2 DEF Typed, Sound
<1>9. AnswersAreFresh'
  <2>1. \A b \in Bots : orders'[b] = None BY <1>1, <1>4, CrewIs
  <2> QED BY <1>4, <2>1 DEF AnswersAreFresh
<1>10. InTime'
  <2> SUFFICES ASSUME game' = 1
        PROVE  /\ Past(bot, game', 1) /\ Past(fug, game', 1)
               /\ Covers(bot, game', 1, none, {}) /\ Serves(bot, game', 1, none, {}) /\ ServesHim(fug, game', 1, ai', None)
    BY <1>4, <1>5 DEF InTime
  <2>1. ~Running(botTask) /\ ~Running(fugTask) BY <1>0, <1>5 DEF InTime
  <2>2. Covers(botTask, game', 1, none, {}) BY <2>1 DEF Covers
  <2>3. Past(bot, game', 1) /\ Past(fug, game', 1) BY <1>6, <1>7, <2>1 DEF Past
  <2> QED BY <1>6, <1>7, <2>1, <2>2, <2>3
<1> QED BY <1>8, <1>9, <1>10 DEF Inv

LEMMA ResumeStep ==
  ASSUME Inv, Resume
  PROVE  Inv'
<1>0. Typed /\ AnswersAreFresh /\ InTime /\ game \in Nat /\ round \in Nat /\ botTask \in Tasks /\ fugTask \in Tasks
      /\ Sound(botTask) /\ orders \in [Crew -> Nat \X Nat] /\ forder \in Nat \X Nat /\ status = "PAUSED"
  BY DEF Inv, Typed, Sound, Resume
<1>1. game # 0 /\ (game = 1 => Past(botTask, game, round) /\ Past(fugTask, game, round)
                               /\ Covers(botTask, game, round, orders, dazed))
  BY <1>0 DEF InTime
<1>2. PICK bot : bot = BotTurn(botTask, game, round, orders, dazed) OBVIOUS
<1>3. PICK fug : fug = FugitiveTurn(fugTask, game, round, ai, forder) OBVIOUS
<1>4. /\ bot \in Tasks
      /\ bot = botTask \/ (bot.at = "next" /\ bot.game = game /\ bot.round = round)
      /\ Covers(botTask, game, round, orders, dazed)
            => Covers(bot, game, round, orders, dazed) /\ Serves(bot, game, round, orders, dazed)
  BY <1>0, <1>2, BotTurnServes
<1>5. /\ fug \in Tasks
      /\ fug = fugTask \/ (fug.game = game /\ fug.round = round)
      /\ (Running(fugTask) /\ fugTask.round = round => fugTask.game = game) => ServesHim(fug, game, round, ai, forder)
  BY <1>0, <1>3, FugitiveTurnServes
<1>6. game = 1 => Past(bot, game, round) /\ Past(fug, game, round)
  <2>1. ASSUME game = 1 PROVE Past(bot, game, round) BY <1>0, <1>1, <1>4, <2>1 DEF Past
  <2>2. ASSUME game = 1 PROVE Past(fug, game, round) BY <1>0, <1>1, <1>5, <2>2 DEF Past
  <2> QED BY <2>1, <2>2
<1>7. CASE NextRound("person", fug) BY <1>0, <1>1, <1>5, <1>6, <1>7, NextRoundStep
<1>8. CASE Captured("person", fug, orders, forder) BY <1>0, <1>1, <1>5, <1>6, <1>8, CapturedStep
<1>9. CASE /\ status' = "ROUND_OPEN" /\ botTask' = bot /\ fugTask' = fug
           /\ UNCHANGED <<game, round, ai, orders, forder, dazed, frozen, restarts>>
  <2>1. Typed'
    <3>1. Sound(bot) BY <1>0, <1>4 DEF Sound
    <3> QED BY <1>0, <1>4, <1>5, <1>9, <3>1 DEF Typed, Sound
  <2>2. AnswersAreFresh'
    <3>1. Now' = Now BY <1>9 DEF Now
    <3> QED BY <1>0, <1>9, <3>1 DEF AnswersAreFresh
  <2>3. game = 1 => ServesHim(fug, game, round, ai, forder) BY <1>1, <1>5 DEF Past
  <2>4. InTime' BY <1>1, <1>4, <1>6, <1>9, <2>3 DEF InTime
  <2> QED BY <2>1, <2>2, <2>4 DEF Inv
<1> QED BY <1>2, <1>3, <1>7, <1>8, <1>9 DEF Resume

\* The hunters' task has nobody left to ask, or is no longer for this round.
LEMMA BotStops ==
  ASSUME Inv, botTask.todo = <<>> \/ Stale(botTask), botTask' = Ended(botTask), UNCHANGED <<session, fugTask>>
  PROVE  Inv'
<1>1. botTask \in Tasks /\ fugTask \in Tasks BY DEF Inv, Typed
<1>2. PICK bot : bot = Ended(botTask) OBVIOUS
<1>3. bot \in Tasks /\ ~Running(bot) BY <1>1, <1>2, TaskFacts
<1>4. Sound(bot) BY <1>3 DEF Sound, Running
<1>5. Covers(bot, game, round, orders, dazed) BY <1>3 DEF Covers
<1>6. status = "ROUND_OPEN" /\ Serves(botTask, game, round, orders, dazed) => Serves(bot, game, round, orders, dazed)
  BY DEF Serves, Stale, Listed, Has
<1>7. UNCHANGED session /\ botTask' = bot /\ fugTask' = fugTask BY <1>2
<1> QED BY <1>1, <1>3, <1>4, <1>5, <1>6, <1>7, TaskMoves

\* He has an order already: the hunters' task goes on to the next.
LEMMA BotPasses ==
  ASSUME Inv, Running(botTask), botTask.todo # <<>>, orders[Head(botTask.todo)] # None,
         \/ botTask' = [botTask EXCEPT !.todo = Tail(@), !.at = "next"]
         \/ botTask' = [botTask EXCEPT !.todo = Tail(@)] /\ botTask.at = "next",
         UNCHANGED <<session, fugTask>>
  PROVE  Inv'
<1>1. botTask \in Tasks /\ fugTask \in Tasks BY DEF Inv, Typed
<1>2. PICK bot : bot = botTask' OBVIOUS
<1>3. bot = [botTask EXCEPT !.todo = Tail(@), !.at = "next"] \/ (bot = [botTask EXCEPT !.todo = Tail(@)] /\ botTask.at = "next")
  BY <1>2
<1>4. /\ bot \in Tasks /\ Running(bot) /\ bot.game = botTask.game /\ bot.round = botTask.round
      /\ bot.todo = Tail(botTask.todo) /\ bot.at = "next"
  BY <1>1, <1>3, TailTask
<1>5. Sound(bot) BY <1>4 DEF Sound
<1>6. \A b \in Bots : orders[b] = None /\ Listed(botTask, b) => Listed(bot, b) BY <1>1, <1>4, Passed
<1>7. Covers(botTask, game, round, orders, dazed) => Covers(bot, game, round, orders, dazed)
  BY <1>4, <1>6 DEF Covers
<1>8. Serves(botTask, game, round, orders, dazed) => Serves(bot, game, round, orders, dazed)
  BY <1>4, <1>6 DEF Serves
<1>9. UNCHANGED session /\ botTask' = bot /\ fugTask' = fugTask BY <1>2
<1> QED BY <1>1, <1>4, <1>5, <1>7, <1>8, <1>9, TaskMoves

\* A task that changes nothing but its place, its model and its attempt.
LEMMA BotWaits ==
  ASSUME Inv, Running(botTask), NEW bot \in Tasks, botTask' = bot, UNCHANGED <<session, fugTask>>,
         bot.game = botTask.game, bot.round = botTask.round, bot.todo = botTask.todo, Running(bot), bot.todo # <<>>
  PROVE  Inv'
<1>1. fugTask \in Tasks BY DEF Inv, Typed
<1>2. Sound(bot) BY DEF Sound
<1>3. Covers(botTask, game, round, orders, dazed) => Covers(bot, game, round, orders, dazed) BY DEF Covers, Listed
<1>4. Serves(botTask, game, round, orders, dazed) => Serves(bot, game, round, orders, dazed) BY DEF Serves, Listed
<1> QED BY <1>1, <1>2, <1>3, <1>4, TaskMoves

LEMMA FugitiveWaits ==
  ASSUME Inv, Running(fugTask), NEW fug \in Tasks, fugTask' = fug, UNCHANGED <<session, botTask>>,
         Running(fug) => fug.game = fugTask.game /\ fug.round = fugTask.round,
         Running(fug) \/ Stale(fugTask) \/ forder # None
  PROVE  Inv'
<1>1. botTask \in Tasks /\ Sound(botTask) BY DEF Inv, Typed, Sound
<1>2. status = "ROUND_OPEN" /\ ServesHim(fugTask, game, round, ai, forder) => ServesHim(fug, game, round, ai, forder)
  BY DEF ServesHim, Stale
<1> QED BY <1>1, <1>2, TaskMoves

\* A question that is asked again, of this model or another, or has its answer, is the same question.
LEMMA AsksIs ==
  ASSUME NEW task \in Tasks, NEW t2 \in Asks(task)
  PROVE  /\ task.at = "asking" /\ Running(task)
         /\ t2 \in Tasks /\ Running(t2) /\ t2.game = task.game /\ t2.round = task.round /\ t2.todo = task.todo
<1>1. task.at = "asking" /\ Running(task) /\ t2 \in {Retried(task), Answered(task)} BY DEF Asks, Running
<1>2. ASSUME NEW t3, t3 = Answered(task)
      PROVE  t3 \in Tasks /\ Running(t3) /\ t3.game = task.game /\ t3.round = task.round /\ t3.todo = task.todo
  BY <1>2 DEF Answered, Tasks, Running
<1>0. task.attempt + 1 \in Nat /\ task.model + 1 \in Nat BY DEF Tasks
<1>3. ASSUME NEW t3, t3 = [task EXCEPT !.attempt = task.attempt + 1]
      PROVE  t3 \in Tasks /\ Running(t3) /\ t3.game = task.game /\ t3.round = task.round /\ t3.todo = task.todo
  BY <1>0, <1>1, <1>3 DEF Tasks, Running
<1>4. ASSUME NEW t3, t3 = [task EXCEPT !.model = task.model + 1, !.attempt = 1]
      PROVE  t3 \in Tasks /\ Running(t3) /\ t3.game = task.game /\ t3.round = task.round /\ t3.todo = task.todo
  BY <1>0, <1>1, <1>4 DEF Tasks, Running
<1>5. Retried(task) \in {[task EXCEPT !.attempt = task.attempt + 1],
                       [task EXCEPT !.model = task.model + 1, !.attempt = 1], Answered(task)}
  BY DEF Retried
<1> QED BY <1>1, <1>2, <1>3, <1>4, <1>5

LEMMA BotStep ==
  ASSUME Inv, BotNext \/ BotAsks
  PROVE  Inv'
<1>0. botTask \in Tasks /\ Sound(botTask) BY DEF Inv, Typed, Sound
<1>1. CASE BotAsks
  <2>1. botTask' \in Asks(botTask) /\ UNCHANGED <<session, fugTask>> BY <1>1 DEF BotAsks
  <2>2. PICK bot \in Asks(botTask) : bot = botTask' BY <2>1
  <2>3. /\ botTask.at = "asking" /\ Running(botTask)
        /\ bot \in Tasks /\ Running(bot) /\ bot.game = botTask.game /\ bot.round = botTask.round /\ bot.todo = botTask.todo
    BY <1>0, <2>2, AsksIs
  <2>4. bot.todo # <<>> BY <1>0, <2>3 DEF Sound
  <2> QED BY <2>1, <2>2, <2>3, <2>4, BotWaits
<1>2. CASE BotNext
  <2>0. botTask.at = "next" /\ Running(botTask) /\ UNCHANGED <<session, fugTask>> BY <1>2 DEF BotNext, Running
  <2>1. CASE botTask.todo = <<>> \/ Stale(botTask)
    <3>1. botTask' = Ended(botTask) BY <1>2, <2>1 DEF BotNext
    <3> QED BY <2>0, <2>1, <3>1, BotStops
  <2>2. CASE ~(botTask.todo = <<>> \/ Stale(botTask)) /\ orders[Head(botTask.todo)] # None
    <3>1. botTask' = [botTask EXCEPT !.todo = Tail(@)] BY <1>2, <2>2 DEF BotNext
    <3> QED BY <2>0, <2>2, <3>1, BotPasses
  <2>3. CASE ~(botTask.todo = <<>> \/ Stale(botTask)) /\ orders[Head(botTask.todo)] = None
    <3>1. botTask' = [botTask EXCEPT !.at = "asking"] BY <1>2, <2>3 DEF BotNext
    <3>2. /\ botTask' \in Tasks /\ Running(botTask') /\ botTask'.game = botTask.game /\ botTask'.round = botTask.round
          /\ botTask'.todo = botTask.todo
      BY <1>0, <3>1 DEF Tasks, Running
    <3>3. PICK bot : bot = botTask' OBVIOUS
    <3> QED BY <2>0, <2>3, <3>2, <3>3, BotWaits
  <2> QED BY <2>1, <2>2, <2>3
<1> QED BY <1>1, <1>2

LEMMA FugitiveStep ==
  ASSUME Inv, FugitiveNext \/ FugitiveAsks
  PROVE  Inv'
<1>0. fugTask \in Tasks BY DEF Inv, Typed
<1>1. CASE FugitiveAsks
  <2>1. fugTask' \in Asks(fugTask) /\ UNCHANGED <<session, botTask>> BY <1>1 DEF FugitiveAsks
  <2>2. PICK fug \in Asks(fugTask) : fug = fugTask' BY <2>1
  <2>3. /\ Running(fugTask)
        /\ fug \in Tasks /\ Running(fug) /\ fug.game = fugTask.game /\ fug.round = fugTask.round
    BY <1>0, <2>2, AsksIs
  <2> QED BY <2>1, <2>2, <2>3, FugitiveWaits
<1>2. CASE FugitiveNext
  <2>1. fugTask.at = "next" /\ fugTask' = [fugTask EXCEPT !.at = "asking"] /\ UNCHANGED <<session, botTask>>
    BY <1>2 DEF FugitiveNext
  <2>2. PICK fug : fug = fugTask' OBVIOUS
  <2>3. /\ Running(fugTask)
        /\ fug \in Tasks /\ Running(fug) /\ fug.game = fugTask.game /\ fug.round = fugTask.round
    BY <1>0, <2>1, <2>2 DEF Tasks, Running
  <2> QED BY <2>1, <2>2, <2>3, FugitiveWaits
<1> QED BY <1>1, <1>2

LEMMA BotOrdersStep ==
  ASSUME Inv, BotOrders
  PROVE  Inv'
<1>0. botTask \in Tasks /\ Sound(botTask) /\ botTask.at = "answer" /\ Running(botTask) /\ Typed /\ InTime /\ AnswersAreFresh
  BY DEF Inv, Typed, Sound, Running, BotOrders
<1>1. botTask.todo # <<>> BY <1>0 DEF Sound
<1>2. CASE Stale(botTask)
  <2>1. botTask' = Ended(botTask) /\ UNCHANGED <<session, fugTask>> BY <1>2 DEF BotOrders
  <2> QED BY <1>2, <2>1, BotStops
<1>3. CASE ~Stale(botTask) /\ orders[Head(botTask.todo)] # None
  <2>1. botTask' = [botTask EXCEPT !.todo = Tail(@), !.at = "next"] /\ UNCHANGED <<session, fugTask>>
    BY <1>3 DEF BotOrders
  <2> QED BY <1>0, <1>1, <1>3, <2>1, BotPasses
<1>4. CASE ~Stale(botTask) /\ orders[Head(botTask.todo)] = None
  <2>1. PICK h : h = Head(botTask.todo) OBVIOUS
  <2>2. botTask.todo \in Seq(Bots) BY <1>0 DEF Tasks
  <2>3. h \in Bots /\ h \in Crew BY <1>1, <2>1, <2>2, CrewIs
  <2>4. PICK ords : ords = [orders EXCEPT ![h] = <<botTask.game, botTask.round>>] OBVIOUS
  <2>5. Taken("bot", ords, forder) BY <1>4, <2>1, <2>4 DEF BotOrders
  <2>6. status = "ROUND_OPEN" /\ <<botTask.game, botTask.round>> = Now BY <1>4 DEF Stale, Now
  <2>7. game \in Nat /\ round \in Nat /\ game # 0 /\ orders \in [Crew -> Nat \X Nat] /\ forder \in Nat \X Nat
    BY <1>0, <2>6 DEF Typed, InTime
  <2>8. Now \in Nat \X Nat /\ Now # None BY <2>7, Pairs DEF Now
  <2>9. ords \in [Crew -> Nat \X Nat] /\ ords[h] = Now /\ \A b \in Crew \ {h} : ords[b] = orders[b]
    BY <2>3, <2>4, <2>6, <2>7, <2>8
  <2>10. (\A b \in Bots : orders[b] \in {None, Human, Now}) /\ (ai => forder \in {None, Now})
    BY <1>0, <2>6 DEF AnswersAreFresh
  <2>11. \A b \in Bots : ords[b] \in {None, Human, Now} /\ (orders[b] # None => ords[b] # None)
    BY <2>8, <2>9, <2>10, CrewIs
  <2>12. ords[Head(botTask.todo)] # None BY <2>1, <2>8, <2>9
  <2> QED BY <1>0, <2>5, <2>6, <2>7, <2>9, <2>10, <2>11, <2>12, TakenStep
<1> QED BY <1>2, <1>3, <1>4

LEMMA FugitiveAiOrdersStep ==
  ASSUME Inv, FugitiveAiOrders
  PROVE  Inv'
<1>0. fugTask \in Tasks /\ fugTask.at = "answer" /\ Running(fugTask) /\ Typed /\ InTime /\ AnswersAreFresh
  BY DEF Inv, Typed, Running, FugitiveAiOrders
<1>1. CASE Stale(fugTask) \/ forder # None
  <2>1. fugTask' = Ended(fugTask) /\ UNCHANGED <<session, botTask>> BY <1>1 DEF FugitiveAiOrders
  <2>2. PICK fug : fug = fugTask' OBVIOUS
  <2>3. fug \in Tasks /\ ~Running(fug) BY <1>0, <2>1, <2>2, TaskFacts
  <2> QED BY <1>0, <1>1, <2>1, <2>2, <2>3, FugitiveWaits
<1>2. CASE ~(Stale(fugTask) \/ forder # None)
  <2>1. PICK ord : ord = <<fugTask.game, fugTask.round>> OBVIOUS
  <2>2. Taken("fugitive", orders, ord) BY <1>2, <2>1 DEF FugitiveAiOrders
  <2>3. status = "ROUND_OPEN" /\ ord = Now BY <1>2, <2>1 DEF Stale, Now
  <2>4. game \in Nat /\ round \in Nat /\ game # 0 /\ orders \in [Crew -> Nat \X Nat] BY <1>0, <2>3 DEF Typed, InTime
  <2>5. ord \in Nat \X Nat /\ ord # None BY <2>3, <2>4, Pairs DEF Now
  <2>6. \A b \in Bots : orders[b] \in {None, Human, Now} BY <1>0, <2>3 DEF AnswersAreFresh
  <2> QED BY <1>0, <2>2, <2>3, <2>4, <2>5, <2>6, TakenStep
<1> QED BY <1>1, <1>2

\* What people do.
LEMMA HunterStep ==
  ASSUME Inv, NEW h \in Crew, status = "ROUND_OPEN", Taken("person", [orders EXCEPT ![h] = Human], forder)
  PROVE  Inv'
<1>1. orders \in [Crew -> Nat \X Nat] /\ forder \in Nat \X Nat BY DEF Inv, Typed
<1>2. (\A b \in Bots : orders[b] \in {None, Human, Now}) /\ (ai => forder \in {None, Now}) BY DEF Inv, AnswersAreFresh
<1>3. PICK ords : ords = [orders EXCEPT ![h] = Human] OBVIOUS
<1>4. ords \in [Crew -> Nat \X Nat] /\ \A b \in Crew : ords[b] \in {Human, orders[b]} BY <1>1, <1>3, Pairs
<1>5. \A b \in Bots : ords[b] \in {None, Human, Now} /\ (orders[b] # None => ords[b] # None)
  BY <1>2, <1>4, CrewIs, Pairs
<1>6. Taken("person", ords, forder) BY <1>3
<1> QED BY <1>1, <1>2, <1>4, <1>5, <1>6, TakenStep

LEMMA FugitiveOrderStep ==
  ASSUME Inv, FugitiveOrder
  PROVE  Inv'
<1>1. orders \in [Crew -> Nat \X Nat] /\ status = "ROUND_OPEN" /\ ~ai /\ Taken("person", orders, Human)
  BY DEF Inv, Typed, FugitiveOrder
<1>2. \A b \in Bots : orders[b] \in {None, Human, Now} BY <1>1 DEF Inv, AnswersAreFresh
<1>3. Human \in Nat \X Nat /\ Human # None BY Pairs
<1> QED BY <1>1, <1>2, <1>3, TakenStep

LEMMA CancelStep ==
  ASSUME Inv, CancelFugitiveOrder \/ \E h \in Humans : CancelHunterOrder(h)
  PROVE  Inv'
<1>0. Typed /\ AnswersAreFresh /\ InTime BY DEF Inv
<1>1. CASE CancelFugitiveOrder
  <2>1. /\ status = "ROUND_OPEN" /\ ~ai /\ forder' = None
        /\ UNCHANGED <<game, status, round, ai, orders, dazed, frozen, botTask, fugTask, restarts>>
    BY <1>1 DEF CancelFugitiveOrder
  <2>2. Typed' BY <1>0, <2>1, Pairs DEF Typed
  <2>3. AnswersAreFresh'
    <3>1. Now' = Now BY <2>1 DEF Now
    <3> QED BY <1>0, <2>1, <3>1 DEF AnswersAreFresh
  <2>4. InTime' BY <1>0, <2>1 DEF InTime, ServesHim
  <2> QED BY <2>2, <2>3, <2>4 DEF Inv
<1>2. ASSUME NEW h \in Humans, CancelHunterOrder(h) PROVE Inv'
  <2>1. /\ status = "ROUND_OPEN" /\ orders' = [orders EXCEPT ![h] = None]
        /\ UNCHANGED <<game, status, round, ai, forder, dazed, frozen, botTask, fugTask, restarts>>
    BY <1>2 DEF CancelHunterOrder
  <2>2. orders' \in [Crew -> Nat \X Nat] /\ \A b \in Bots : orders'[b] = orders[b]
    BY <1>0, <2>1, CrewIs, Pairs DEF Typed
  <2>3. Typed' BY <1>0, <2>1, <2>2 DEF Typed
  <2>4. AnswersAreFresh'
    <3>1. Now' = Now BY <2>1 DEF Now
    <3> QED BY <1>0, <2>1, <2>2, <3>1 DEF AnswersAreFresh
  <2>5. /\ Covers(botTask, game, round, orders, dazed) => Covers(botTask, game, round, orders', dazed)
        /\ Serves(botTask, game, round, orders, dazed) => Serves(botTask, game, round, orders', dazed)
    BY <2>2 DEF Covers, Serves
  <2>6. InTime' BY <1>0, <2>1, <2>5 DEF InTime
  <2> QED BY <2>3, <2>4, <2>6 DEF Inv
<1> QED BY <1>1, <1>2

LEMMA EndRoundStep ==
  ASSUME Inv, EndRound
  PROVE  Inv'
<1>0. Typed /\ InTime /\ fugTask \in Tasks /\ orders \in [Crew -> Nat \X Nat] /\ forder \in Nat \X Nat
      /\ status \in {"ROUND_OPEN", "PAUSED"}
  BY DEF Inv, Typed, EndRound
<1>1. game # 0 /\ (game = 1 => Past(botTask, game, round) /\ Past(fugTask, game, round)) BY <1>0 DEF InTime
<1>2. CASE NextRound("person", fugTask) BY <1>0, <1>1, <1>2, NextRoundStep
<1>3. CASE Captured("person", fugTask, orders, forder) BY <1>0, <1>1, <1>3, CapturedStep
<1> QED BY <1>2, <1>3 DEF EndRound

LEMMA RestartStep ==
  ASSUME Inv, Restart
  PROVE  Inv'
<1>1. Typed /\ orders \in [Crew -> Nat \X Nat] /\ forder \in Nat \X Nat /\ (game = 0 => status = "IDLE")
  BY DEF Inv, Typed, InTime
<1>2. status \in {"ROUND_OPEN", "PAUSED"} =>
        (\A b \in Bots : orders[b] \in {None, Human, Now}) /\ (ai => forder \in {None, Now})
  BY DEF Inv, AnswersAreFresh
<1> QED BY <1>1, <1>2, RebornStep DEF Restart

-----------------------------------------------------------------------------
(* The theorem. *)

LEMMA InvHoldsAtFirst == Init => Inv
<1> SUFFICES ASSUME Init PROVE Inv OBVIOUS
<1>1. NoTask \in Tasks /\ ~Running(NoTask) /\ NoTask.at = "done" BY TaskFacts DEF NoTask
<1>2. Typed BY <1>1, Pairs DEF Init, Typed
<1>3. AnswersAreFresh BY DEF Init, AnswersAreFresh
<1>4. InTime BY <1>1 DEF Init, InTime
<1> QED BY <1>2, <1>3, <1>4 DEF Inv

LEMMA InvIsKept == Inv /\ [Next]_vars => Inv'
<1> SUFFICES ASSUME Inv, [Next]_vars PROVE Inv' OBVIOUS
<1>1. ASSUME NEW h \in Crew, VotePasses(h) PROVE Inv' BY <1>1, HunterStep DEF VotePasses
<1>2. ASSUME NEW h \in Humans, HunterOrder(h) PROVE Inv' BY <1>2, HunterStep, CrewIs DEF HunterOrder
<1>3. CASE UNCHANGED vars
  <2>1. UNCHANGED <<game, status, round, ai, orders, forder, dazed, botTask, fugTask>> BY <1>3 DEF vars, session
  <2>2. Now' = Now BY <2>1 DEF Now
  <2>3. Typed' BY <2>1 DEF Inv, Typed
  <2>4. AnswersAreFresh' BY <2>1, <2>2 DEF Inv, AnswersAreFresh
  <2>5. InTime' BY <2>1 DEF Inv, InTime
  <2> QED BY <2>3, <2>4, <2>5 DEF Inv
<1> QED
  BY <1>1, <1>2, <1>3, StartStep, StopStep, ResumeStep, EndRoundStep, RestartStep, CancelStep, FugitiveOrderStep,
     BotStep, BotOrdersStep, FugitiveStep, FugitiveAiOrdersStep
  DEF Next

\* What an AI player has ordered answers the question of this round of this
\* game, and in the first game every AI player who may order and has not is
\* about to be asked: for any crew and any answers, in any order, through
\* pauses, captures, early resolution and restarts (_schedule_ai, _run_bot_turn,
\* _run_fugitive_turn, _maybe_early_resolve, Manager.start).
THEOREM TurnsStaySound == Spec => []TurnsAreSound
<1>1. Inv => TurnsAreSound
  <2> SUFFICES ASSUME Inv PROVE TurnsAreSound OBVIOUS
  <2>1. AnswersAreFresh BY DEF Inv
  <2>2. ASSUME game = 1, status = "ROUND_OPEN", NEW b \in Bots \ dazed, orders[b] = None
        PROVE  Asked(botTask, \E i \in DOMAIN botTask.todo : botTask.todo[i] = b)
    BY <2>2 DEF Inv, InTime, Serves, Listed, Has, Asked
  <2>3. ASSUME game = 1, status = "ROUND_OPEN", ai, forder = None PROVE Asked(fugTask, TRUE)
    BY <2>3 DEF Inv, InTime, ServesHim, Asked
  <2>4. NobodyIsForgotten BY <2>2, <2>3 DEF NobodyIsForgotten, AiPlayersAreAsked
  <2> QED BY <2>1, <2>4 DEF TurnsAreSound
<1> QED BY <1>1, InvHoldsAtFirst, InvIsKept, PTL DEF Spec

=============================================================================
