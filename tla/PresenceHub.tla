----------------------------- MODULE PresenceHub -----------------------------
(***************************************************************************)
(* Who is online, where, and who has been told: the hub of                 *)
(* server/app/presence.py, the socket handler of routers/ws.py and the     *)
(* token handlers of routers/auth.py that kick a session.                  *)
(*                                                                         *)
(* The event loop runs one handler per socket; a step here is what a       *)
(* handler does between two awaits.  A broadcast picks its targets at once *)
(* and reaches them in the order of the calls.  A target that takes no     *)
(* message is dropped by the broadcast two seconds later, wherever the     *)
(* target is by then; which sockets those are is a choice.                 *)
(*                                                                         *)
(* What a client shows is its list of the people in its room: set by       *)
(* entered, changed by join and leave.  The client answers hello, and the  *)
(* list that came with it, with enter (src/client/src/scenes), so what it  *)
(* shows before is left out.  So are coordinates; and                      *)
(* whether a place may be entered is a choice (progress.locked, and        *)
(* MineFloors for the floors).                                             *)
(***************************************************************************)
EXTENDS Integers

CONSTANTS
  Players,
  Sockets,       \* pairs of a player and a number; one whose handler has ended is used again
  Places,        \* the presence rooms
  Base,          \* where a new socket appears
  Nobody,        \* no socket
  Troubled,      \* bound: the players who log in anew, hang up or stall
  MaxRotations,  \* bound: how often
  MaxWalks       \* bound: times somebody enters another place

ASSUME PresenceAssumption ==
  /\ Sockets \subseteq Players \X Nat /\ Base \in Places /\ Troubled \subseteq Players
  /\ Nobody \notin Sockets /\ Nobody \notin Players /\ MaxWalks \in Nat /\ MaxRotations \in Nat

VARIABLES
  online,  \* Hub.online: player -> the socket of his Online, or Nobody
  sock,    \* socket -> its handler: where it is, its Online.room, the place it
           \* is asked to enter, the socket it replaces, the token it came with,
           \* and its client: whether it knows its place, and whom it shows
  open,    \* the sockets nobody has closed
  hung,    \* the sockets a broadcast is waiting on in vain
  token,   \* player -> the token in the database, the newest one a client
           \* holds, and where the handler that issues one is
  raced,   \* the players two sockets of whom have joined at once
  stale,   \* the players a socket of whom walked on after it had left the hub
  walks    \* how often somebody has entered another place

vars == <<online, sock, open, hung, token, raced, stale, walks>>

Owner(c) == c[1]
Seated(c) == online[Owner(c)] = c
NewSocket == [at |-> "new", room |-> Base, goal |-> Base, prev |-> Nobody, cred |-> 0, knows |-> FALSE, shows |-> {}]

-----------------------------------------------------------------------------
(* The hub. *)

\* The people a snapshot of a place names, and the sockets a broadcast to it is for.
Present(on, so, place) == {p \in Players : on[p] # Nobody /\ so[on[p]].room = place}
Targets(on, so, place, exclude) == {on[p] : p \in Present(on, so, place) \ {exclude}}

\* What the handlers and clients are after a join or a leave of p is broadcast to a place.
Joined(on, so, p, place) ==
  [c \in Sockets |-> IF so[c].knows /\ c \in Targets(on, so, place, p) THEN [so[c] EXCEPT !.shows = @ \cup {p}] ELSE so[c]]
Left(on, so, p, place) ==
  [c \in Sockets |-> IF so[c].knows /\ c \in Targets(on, so, place, Nobody) THEN [so[c] EXCEPT !.shows = @ \ {p}] ELSE so[c]]

\* leave: only the Online that is in the hub takes the player with it.
LeavesAnybody(c) == online[Owner(c)] # Nobody
Leaves(c) == Seated(c)
Leave(c, so) ==
  LET on == [online EXCEPT ![Owner(c)] = Nobody] IN
  IF Leaves(c) THEN online' = on /\ sock' = Left(on, so, Owner(c), so[c].room)
  ELSE online' = online /\ sock' = so

\* Some broadcast, of whatever message, has reached a socket that takes none.
Stall(c) ==
  /\ Owner(c) \in Troubled /\ Seated(c) /\ c \notin hung /\ hung' = hung \cup {c}
  /\ UNCHANGED <<online, sock, open, token, raced, stale, walks>>

\* The end of that broadcast: leave, and then close.
Drop(c) ==
  /\ c \in hung /\ hung' = hung \ {c} /\ open' = open \ {c} /\ Leave(c, sock)
  /\ UNCHANGED <<token, raced, stale, walks>>

-----------------------------------------------------------------------------
(* The handler of a socket: ws_endpoint and Hub.join. *)

At(c, place) == [sock EXCEPT ![c].at = place]

\* The token is looked up and hello is on its way.
Hello(c) ==
  /\ sock[c].at = "new" /\ (\A d \in Sockets : sock[d].prev # c)
  /\ token[Owner(c)].held = token[Owner(c)].db
  /\ open' = open \cup {c}
  /\ sock' = [sock EXCEPT ![c] = [NewSocket EXCEPT !.at = "hello", !.cred = token[Owner(c)].db]]
  /\ UNCHANGED <<online, hung, token, raced, stale, walks>>

\* join: whoever of the same player is in the hub is taken out first.
Join(c) ==
  LET p == Owner(c)
      on == [online EXCEPT ![p] = c]
  IN
  /\ sock[c].at = "hello"
  /\ raced' = raced \cup {q \in {p} : \E d \in Sockets : Owner(d) = p /\ sock[d].at \in {"replace", "replaced"}}
  /\ \/ /\ online[p] = Nobody
        /\ online' = on /\ sock' = Joined(on, At(c, "loop"), p, Base)
     \/ /\ online[p] # Nobody
        /\ online' = [online EXCEPT ![p] = Nobody]
        /\ sock' = [sock EXCEPT ![c].at = "replace", ![c].prev = online[p]]
  /\ UNCHANGED <<open, hung, token, stale, walks>>

\* The old socket is closed and its room told ...
Replace(c) ==
  /\ sock[c].at = "replace"
  /\ open' = open \ {sock[c].prev}
  /\ sock' = Left(online, [sock EXCEPT ![c].at = "replaced", ![c].prev = Nobody], Owner(c), sock[sock[c].prev].room)
  /\ UNCHANGED <<online, hung, token, raced, stale, walks>>

\* ... and the new one takes the seat, whoever has it by then.
TakeSeat(c) ==
  LET on == [online EXCEPT ![Owner(c)] = c] IN
  /\ sock[c].at = "replaced"
  /\ online' = on /\ sock' = Joined(on, At(c, "loop"), Owner(c), Base)
  /\ UNCHANGED <<open, hung, token, raced, stale, walks>>

\* enter: the locks are read in a thread ...
Enter(c, place) ==
  /\ sock[c].at = "loop" /\ c \in open
  /\ \/ place = sock[c].room /\ ~sock[c].knows /\ UNCHANGED walks
     \/ place # sock[c].room /\ walks < MaxWalks /\ walks' = walks + 1
  /\ sock' = [sock EXCEPT ![c].at = "checks", ![c].goal = place]
  /\ UNCHANGED <<online, open, hung, token, raced, stale>>

\* ... and the answer may be no.
Refuse(c) ==
  /\ sock[c].at = "checks" /\ sock[c].goal # Base
  /\ sock' = [sock EXCEPT ![c].at = "loop", ![c].goal = Base]
  /\ UNCHANGED <<online, open, hung, token, raced, stale, walks>>

GoneOn(c) == stale' = IF Seated(c) THEN stale ELSE stale \cup {Owner(c)}

\* move_room: out of the old place ...
Walk(c) ==
  LET there == [sock EXCEPT ![c].room = sock[c].goal, ![c].goal = Base] IN
  /\ sock[c].at = "checks"
  /\ \/ /\ sock[c].goal = sock[c].room /\ UNCHANGED stale
        /\ sock' = [there EXCEPT ![c].at = "walked"]
     \/ /\ sock[c].goal # sock[c].room /\ GoneOn(c)
        /\ sock' = Left(online, [there EXCEPT ![c].at = "walks"], Owner(c), sock[c].room)
  /\ UNCHANGED <<online, open, hung, token, raced, walks>>

\* ... and into the new one.
Appear(c) ==
  /\ sock[c].at = "walks" /\ GoneOn(c)
  /\ sock' = Joined(online, At(c, "walked"), Owner(c), sock[c].room)
  /\ UNCHANGED <<online, open, hung, token, raced, walks>>

\* The end of a handler: leave, and nothing of its socket is left.
Ended(c) == Leave(c, [sock EXCEPT ![c] = [NewSocket EXCEPT !.room = sock[c].room]]) /\ hung' = hung \ {c}

\* entered names the people who are there now; it cannot be sent to a closed socket.
EnteredAsTold(c) ==
  /\ sock[c].at = "walked" /\ c \in open
  /\ sock' = [sock EXCEPT ![c] = [@ EXCEPT !.at = "loop", !.knows = TRUE]]
  /\ UNCHANGED <<online, open, hung, token, raced, stale, walks>>
Entered(c) ==
  /\ sock[c].at = "walked" /\ c \in open
  /\ sock' = [sock EXCEPT ![c] = [@ EXCEPT !.at = "loop", !.knows = TRUE,
                                           !.shows = Present(online, sock, sock[c].room) \ {Owner(c)}]]
  /\ UNCHANGED <<online, open, hung, token, raced, stale, walks>>

\* The receive or the send on a closed socket raises, and the handler leaves the hub.
Finish(c) ==
  /\ sock[c].at \in {"loop", "walked"} /\ c \notin open /\ Ended(c)
  /\ UNCHANGED <<open, token, raced, stale, walks>>

\* The client goes away.
Hangup(c) ==
  /\ Owner(c) \in Troubled /\ c \in open /\ open' = open \ {c}
  /\ UNCHANGED <<online, sock, hung, token, raced, stale, walks>>

-----------------------------------------------------------------------------
(* A new token: register of a known name, or token/rotate. *)

Rotate(p) ==
  /\ p \in Troubled /\ token[p].at = "no" /\ token[p].db < MaxRotations
  /\ token' = [token EXCEPT ![p].db = @ + 1, ![p].at = "committed"]
  /\ UNCHANGED <<online, sock, open, hung, raced, stale, walks>>

\* kick_threadsafe looks from the worker thread and queues the kick ...
QueueKick(p) ==
  /\ token[p].at = "committed"
  /\ token' = [token EXCEPT ![p].at = IF online[p] # Nobody THEN "kick" ELSE "answer"]
  /\ UNCHANGED <<online, sock, open, hung, raced, stale, walks>>

\* ... which takes whoever is in the hub when it runs.
Kick(p) ==
  LET c == online[p] IN
  /\ token[p].at = "kick" /\ token' = [token EXCEPT ![p].at = IF token[p].held = token[p].db THEN "no" ELSE "answer"]
  /\ IF c = Nobody THEN UNCHANGED <<online, sock, open>> ELSE open' = open \ {c} /\ Leave(c, sock)
  /\ UNCHANGED <<hung, raced, stale, walks>>

\* The answer is sent by the loop the kick was queued on before.
Answer(p) ==
  /\ token[p].at = "answer"
  /\ token' = [token EXCEPT ![p].held = token[p].db, ![p].at = "no"]
  /\ UNCHANGED <<online, sock, open, hung, raced, stale, walks>>

-----------------------------------------------------------------------------
Init ==
  /\ online = [p \in Players |-> Nobody] /\ sock = [c \in Sockets |-> NewSocket]
  /\ open = {} /\ hung = {}
  /\ token = [p \in Players |-> [db |-> 0, held |-> 0, at |-> "no"]]
  /\ raced = {} /\ stale = {} /\ walks = 0

Handler(c) ==
  \/ Join(c) \/ Replace(c) \/ TakeSeat(c) \/ Refuse(c) \/ Walk(c) \/ Appear(c)
  \/ Entered(c) \/ Finish(c) \/ Drop(c)

Next ==
  \/ \E c \in Sockets : Hello(c) \/ Handler(c) \/ Stall(c) \/ Hangup(c) \/ \E place \in Places : Enter(c, place)
  \/ \E p \in Players : Rotate(p) \/ QueueKick(p) \/ Kick(p) \/ Answer(p)

Spec == Init /\ [][Next]_vars

-----------------------------------------------------------------------------
(* Properties. *)

Quiet ==
  /\ \A c \in Sockets : sock[c].at \in {"new", "loop"} /\ (sock[c].at = "loop" => c \in open)
  /\ hung = {}

\* No ghosts: a socket whose handler is running belongs to somebody the others can see.  A drop, a
\* kick or the end of an old handler never takes the seat of the socket that replaced it, and whoever
\* lost the seat is closed.  Two sockets of one player that join at once are the exception.
NoGhostSocket ==
  Quiet => \A c \in Sockets : sock[c].at = "loop" => Seated(c) \/ Owner(c) \in raced

Watching(c) == Seated(c) /\ sock[c].knows

\* Once everything is quiet, what a client shows is who is there, whatever the order in which people
\* came, walked, were replaced, kicked and dropped while it entered.  A player one of whose sockets
\* walked on after it had lost its seat is the exception.
ShowsTheRoom ==
  Quiet => \A c \in Sockets : Watching(c) =>
    \A p \in Players \ (raced \cup stale \cup {Owner(c)}) :
      p \in sock[c].shows <=> p \in Present(online, sock, sock[c].room)

\* A kick never disconnects a session that was opened with the token the kick is about.
KickSparesTheNew ==
  \A p \in Players :
    token[p].at = "kick" /\ token'[p].at # "kick" /\ online[p] # Nobody =>
      sock[online[p]].cred # token[p].db

\* Whatever closes a socket closes the right one, at once or in the end.
SeatsAreRight == [][KickSparesTheNew /\ NoGhostSocket']_vars
=============================================================================
