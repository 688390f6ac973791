------------------------------ MODULE RoomView ------------------------------
(***************************************************************************)
(* What one client sees of a room: the versions of server/app/db.py, the   *)
(* snapshot of routers/room.py, the room messages of presence.py, and the  *)
(* refreshing of client/src/scenes/RoomScene.ts.                           *)
(*                                                                         *)
(* Every writer (place, move, remove, a note, a guest's note, the clearing *)
(* up at boot) changes the items and the version in one transaction and    *)
(* announces the version after it; the worker threads that announce may    *)
(* overtake each other.  A snapshot is two reads outside of a transaction. *)
(* The answer to it comes over another connection than the messages.       *)
(***************************************************************************)
EXTENDS Integers, Sequences

CONSTANTS
  NoRequest,
  MaxVersion, MaxConnects  \* bounds: how often the room changes, and the client connects

RequestStates == [etag : Int, stage : {"sent", "read", "same", "answered"}, version : Int, items : Int]

ASSUME ViewAssumption == {MaxVersion, MaxConnects} \subseteq Nat /\ NoRequest \notin RequestStates

VARIABLES
  version,     \* room_meta version:<room>
  items,       \* the items, as the number of changes that made them
  announcing,  \* the versions committed and not yet broadcast
  online,      \* how far the client's socket is: "off", "joined" the hub, or "entered" the room
  inbox,       \* the versions on their way to the client, in messages room and entered
  request,     \* the client's inflight request: its etag, and what the server has read for it
  seen,        \* the version and the items the client shows
  connects,    \* how often it has connected
  swallowed,   \* a message asked for a refresh while one was under way
  lost         \* an answer to a snapshot was lost

viewVars == <<version, items, announcing, online, inbox, request, seen, connects, swallowed, lost>>

-----------------------------------------------------------------------------
(* The server. *)

\* One transaction: the items and bump_room_version.
WriteRoom ==
  /\ version < MaxVersion /\ items' = items + 1 /\ version' = version + 1
  /\ announcing' = announcing \cup {version'}
  /\ UNCHANGED <<online, inbox, request, seen, connects, swallowed, lost>>

\* _notify, after the commit: to whoever is in the hub by now.
AnnounceRoom(v) ==
  /\ v \in announcing /\ announcing' = announcing \ {v}
  /\ inbox' = IF online = "off" THEN inbox ELSE Append(inbox, v)
  /\ UNCHANGED <<version, items, online, request, seen, connects, swallowed, lost>>

\* (for a mutant: the items are read first)
ItemsFirst == <<"items", "version">>
\* GET /api/room/{room_id}: 304 when the etag is the version, else two reads in this order.
ReadOrder == <<"version", "items">>
Reading(stage) == request # NoRequest /\ request.stage = stage
Read(what) == IF what = "version" THEN [request EXCEPT !.version = version] ELSE [request EXCEPT !.items = items]
FirstRead ==
  /\ Reading("sent")
  /\ request' = IF request.etag = version THEN [request EXCEPT !.stage = "same"] ELSE [Read(ReadOrder[1]) EXCEPT !.stage = "read"]
  /\ UNCHANGED <<version, items, announcing, online, inbox, seen, connects, swallowed, lost>>
SecondRead ==
  /\ Reading("read") /\ request' = [Read(ReadOrder[2]) EXCEPT !.stage = "answered"]
  /\ UNCHANGED <<version, items, announcing, online, inbox, seen, connects, swallowed, lost>>

\* /ws: the socket joins the hub; enter reads the version when it is in the room.
JoinHub ==
  /\ online = "off" /\ connects < MaxConnects /\ connects' = connects + 1 /\ online' = "joined"
  /\ UNCHANGED <<version, items, announcing, inbox, request, seen, swallowed, lost>>
EnterRoom ==
  /\ online = "joined" /\ online' = "entered" /\ inbox' = Append(inbox, version)
  /\ UNCHANGED <<version, items, announcing, request, seen, connects, swallowed, lost>>

\* The process starts again: the sockets and the requests break; what seed and
\* reconcile change, they count, and there is nobody to tell.
HouseRestart(cleans) ==
  /\ cleans => version < MaxVersion
  /\ online # "off" /\ online' = "off" /\ inbox' = <<>> /\ announcing' = {}
  /\ request' = NoRequest /\ lost' = (lost \/ request # NoRequest)
  /\ version' = IF cleans THEN version + 1 ELSE version
  /\ items' = IF cleans THEN items + 1 ELSE items
  /\ UNCHANGED <<seen, connects, swallowed>>

-----------------------------------------------------------------------------
(* The client. *)

\* refreshRoom: one request at a time, and whoever asks meanwhile shares it.
Refresh ==
  IF request = NoRequest
  THEN request' = [etag |-> seen.version, stage |-> "sent", version |-> 0, items |-> 0] /\ UNCHANGED swallowed
  ELSE swallowed' = TRUE /\ UNCHANGED request
Hear ==
  /\ inbox # <<>> /\ inbox' = Tail(inbox)
  /\ IF Head(inbox) # seen.version THEN Refresh ELSE UNCHANGED <<request, swallowed>>
  /\ UNCHANGED <<version, items, announcing, online, seen, connects, lost>>

Answered ==
  /\ Reading("same") \/ Reading("answered")
  /\ seen' = IF Reading("same") THEN seen ELSE [version |-> request.version, items |-> request.items]
  /\ request' = NoRequest
  /\ UNCHANGED <<version, items, announcing, online, inbox, connects, swallowed, lost>>
\* A network error is not tried again.
AnswerLost ==
  /\ request # NoRequest /\ request' = NoRequest /\ lost' = TRUE
  /\ UNCHANGED <<version, items, announcing, online, inbox, seen, connects, swallowed>>

Disconnect ==
  /\ online # "off" /\ online' = "off" /\ inbox' = <<>>
  /\ UNCHANGED <<version, items, announcing, request, seen, connects, swallowed, lost>>

ViewInit ==
  /\ version = 0 /\ items = 0 /\ announcing = {} /\ online = "off" /\ inbox = <<>> /\ request = NoRequest
  /\ seen = [version |-> -1, items |-> -1] /\ connects = 0 /\ swallowed = FALSE /\ lost = FALSE

ViewNext ==
  \/ WriteRoom \/ (\E v \in announcing : AnnounceRoom(v))
  \/ FirstRead \/ SecondRead \/ JoinHub \/ EnterRoom \/ (\E cleans \in BOOLEAN : HouseRestart(cleans))
  \/ Hear \/ Answered \/ AnswerLost \/ Disconnect

ViewSpec == ViewInit /\ [][ViewNext]_viewVars

-----------------------------------------------------------------------------
(* Properties. *)

\* A version is never a lie: who shows the room's current version shows its
\* current items (or a 304 would leave him with old ones for good).  Reading the
\* version before the items is what makes it so: the items may only be newer.
EtagIsHonest == seen.version = version => seen.items = items

\* Nothing is on its way, the client is connected, and no answer was lost.
Quiet == announcing = {} /\ online = "entered" /\ inbox = <<>> /\ request = NoRequest /\ ~lost

\* A connected client shows the room as it is: no change, reconnect or restart
\* slips between the snapshot and the messages, or past the etag.  The exception
\* is a message that found a refresh under way, and shares its answer.
ViewIsCurrent == EtagIsHonest /\ (Quiet /\ ~swallowed => seen.version = version /\ seen.items = items)

=============================================================================
