--------------------------- MODULE TrainRefinement ---------------------------
(***************************************************************************)
(* TrainSession implements TrainRounds.  The game the players see is the   *)
(* newest row of train_games that is not ENDED: a crash and the restart    *)
(* after it leave it as it is, and every handler changes it by one step of *)
(* TrainRounds, whatever it does to the lock, the tasks and the memory.    *)
(***************************************************************************)
EXTENDS TrainSession

Durable == IF ActiveRows = {} THEN NoGame ELSE rows[Newest(ActiveRows)]

Rounds == INSTANCE TrainRounds WITH
            Crews <- {c \in SUBSET Ids : Cardinality(c) >= MinHunters},
            phase <- Durable.status,
            crew  <- Durable.lobby,
            round <- Durable.round_no,
            ready <- Durable.orders

\* No interleaving of requests, tasks, crashes and restarts shows a player anything but an orderly
\* game: no order is lost by a restart, no round is played twice or skipped, no crew changes in play.
ImplementsRounds == Rounds!Spec
=============================================================================
