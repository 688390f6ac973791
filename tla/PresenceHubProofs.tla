-------------------------- MODULE PresenceHubProofs --------------------------
(***************************************************************************)
(* Proofs about PresenceHub for every set of players, sockets and places:  *)
(* no ghosts, no kick of a new session, and what a client shows once       *)
(* everything is quiet.                                                    *)
(*                                                                         *)
(* The invariant says of every moment what the properties say of the quiet *)
(* ones: who may hold a seat while a newcomer replaces somebody, which     *)
(* sockets are still to be closed, and which message is still to come for  *)
(* whoever a client wrongly shows or misses.                               *)
(***************************************************************************)
EXTENDS PresenceHub, TLAPS

-----------------------------------------------------------------------------
(* Types. *)

Live == {"loop", "checks", "walks", "walked"}
Waiting == {"replace", "replaced"}

HandlerType ==
  [at : {"new", "hello"} \cup Waiting \cup Live, room : Places, goal : Places, prev : Sockets \cup {Nobody},
   cred : Nat, knows : BOOLEAN, shows : SUBSET Players]

Seating == {on \in [Players -> Sockets \cup {Nobody}] : \A p \in Players : on[p] # Nobody => Owner(on[p]) = p}

TokenType == [db : Nat, held : Nat, at : {"no", "committed", "kick", "answer"}]

Typed ==
  /\ online \in Seating /\ sock \in [Sockets -> HandlerType]
  /\ token \in [Players -> TokenType]

LEMMA OwnerType == ASSUME NEW c \in Sockets PROVE Owner(c) \in Players /\ c # Nobody
  BY PresenceAssumption DEF Owner

LEMMA NewSocketType ==
  /\ NewSocket \in HandlerType /\ NewSocket.at = "new" /\ NewSocket.room = Base /\ NewSocket.prev = Nobody
  /\ NewSocket.cred = 0 /\ NewSocket.knows = FALSE
  BY PresenceAssumption DEF NewSocket, HandlerType

-----------------------------------------------------------------------------
(* The invariant. *)

\* Who is in the hub has come all the way; while a newcomer waits, nobody else of that player is.
Seats ==
  /\ \A p \in Players : online[p] # Nobody => sock[online[p]].at \in Live
  /\ \A c \in Sockets :
       /\ sock[c].at \notin Live => ~sock[c].knows
       /\ sock[c].at \in {"hello"} \cup Waiting => sock[c].room = Base
       /\ IF sock[c].at = "replace" THEN sock[c].prev \in Sockets /\ Owner(sock[c].prev) = Owner(c)
                                    ELSE sock[c].prev = Nobody
       /\ sock[c].at \in Waiting /\ Owner(c) \notin raced =>
            /\ online[Owner(c)] = Nobody
            /\ \A d \in Sockets : Owner(d) = Owner(c) /\ sock[d].at \in Waiting => d = c

\* While a new token is on its way, no socket was opened with it.
Tokens ==
  /\ \A p \in Players : token[p].held <= token[p].db /\ (token[p].at # "no" => token[p].held < token[p].db)
  /\ \A c \in Sockets : sock[c].cred <= token[Owner(c)].held

\* A socket that is open and has lost its seat is about to be closed by the one that took it.
Closing(c) == \E d \in Sockets : sock[d].at = "replace" /\ sock[d].prev = c
Ghosts == \A c \in Sockets : sock[c].at \in Live /\ c \in open => Seated(c) \/ Owner(c) \in raced \/ Closing(c)

\* Somebody who is there is shown, or will be once they appear; somebody who is shown is there, or will be
\* taken out by the newcomer that replaces them.
Here(p, place) == online[p] # Nobody /\ sock[online[p]].room = place
Going(p, place) == \E d \in Sockets : Owner(d) = p /\ sock[d].at = "replace" /\ sock[sock[d].prev].room = place
InStep(c, p) ==
  /\ Here(p, sock[c].room) /\ sock[online[p]].at # "walks" => p \in sock[c].shows
  /\ p \in sock[c].shows => Here(p, sock[c].room) \/ Going(p, sock[c].room)
Shown(c) == Watching(c) /\ sock[c].at \in {"loop", "checks"}
Shows == \A c \in Sockets : Shown(c) => \A p \in Players \ (raced \cup stale \cup {Owner(c)}) : InStep(c, p)

Inv == Typed /\ Seats /\ Tokens /\ Ghosts /\ Shows

-----------------------------------------------------------------------------
(* What the two broadcasts change: whom the watchers of one place show. *)

\* Everything of the handlers but what their clients show.
Keeps(so, s2) ==
  /\ s2 \in [Sockets -> HandlerType]
  /\ \A e \in Sockets : /\ s2[e].at = so[e].at /\ s2[e].room = so[e].room /\ s2[e].prev = so[e].prev
                        /\ s2[e].cred = so[e].cred /\ s2[e].knows = so[e].knows

LEMMA TargetsAre ==
  ASSUME NEW on \in Seating, NEW so, NEW place, NEW x, NEW e \in Sockets
  PROVE  e \in Targets(on, so, place, x) <=> on[Owner(e)] = e /\ so[e].room = place /\ Owner(e) # x
  <1>1. Owner(e) \in Players /\ e # Nobody
    BY OwnerType
  <1>2. \A q \in Players : on[q] = e => q = Owner(e)
    BY <1>1 DEF Seating
  <1> QED BY <1>1, <1>2 DEF Targets, Present

LEMMA JoinedFields ==
  ASSUME NEW on \in Seating, NEW so \in [Sockets -> HandlerType], NEW p \in Players, NEW place, NEW s2, s2 = Joined(on, so, p, place)
  PROVE  /\ Keeps(so, s2)
         /\ \A e \in Sockets : s2[e].shows = IF so[e].knows /\ on[Owner(e)] = e /\ so[e].room = place /\ Owner(e) # p
                                             THEN so[e].shows \cup {p} ELSE so[e].shows
  <1>1. ASSUME NEW e \in Sockets
        PROVE  /\ s2[e] \in HandlerType
               /\ s2[e].at = so[e].at /\ s2[e].room = so[e].room /\ s2[e].prev = so[e].prev
               /\ s2[e].cred = so[e].cred /\ s2[e].knows = so[e].knows
               /\ s2[e].shows = IF so[e].knows /\ on[Owner(e)] = e /\ so[e].room = place /\ Owner(e) # p
                                THEN so[e].shows \cup {p} ELSE so[e].shows
    <2>1. s2[e] = IF so[e].knows /\ on[Owner(e)] = e /\ so[e].room = place /\ Owner(e) # p
                  THEN [so[e] EXCEPT !.shows = @ \cup {p}] ELSE so[e]
      BY TargetsAre DEF Joined
    <2>2. so[e] \in HandlerType
      OBVIOUS
    <2> QED BY <2>1, <2>2 DEF HandlerType
  <1>2. s2 \in [Sockets -> HandlerType]
    BY <1>1 DEF Joined
  <1> QED BY <1>1, <1>2 DEF Keeps

LEMMA LeftFields ==
  ASSUME NEW on \in Seating, NEW so \in [Sockets -> HandlerType], NEW p \in Players, NEW place, NEW s2, s2 = Left(on, so, p, place)
  PROVE  /\ Keeps(so, s2)
         /\ \A e \in Sockets : s2[e].shows = IF so[e].knows /\ on[Owner(e)] = e /\ so[e].room = place
                                             THEN so[e].shows \ {p} ELSE so[e].shows
  <1>1. ASSUME NEW e \in Sockets
        PROVE  /\ s2[e] \in HandlerType
               /\ s2[e].at = so[e].at /\ s2[e].room = so[e].room /\ s2[e].prev = so[e].prev
               /\ s2[e].cred = so[e].cred /\ s2[e].knows = so[e].knows
               /\ s2[e].shows = IF so[e].knows /\ on[Owner(e)] = e /\ so[e].room = place
                                THEN so[e].shows \ {p} ELSE so[e].shows
    <2>1. Owner(e) # Nobody
      BY OwnerType, PresenceAssumption
    <2>2. s2[e] = IF so[e].knows /\ on[Owner(e)] = e /\ so[e].room = place
                  THEN [so[e] EXCEPT !.shows = @ \ {p}] ELSE so[e]
      BY <2>1, TargetsAre DEF Left
    <2>3. so[e] \in HandlerType
      OBVIOUS
    <2> QED BY <2>2, <2>3 DEF HandlerType
  <1>2. s2 \in [Sockets -> HandlerType]
    BY <1>1 DEF Left
  <1> QED BY <1>1, <1>2 DEF Keeps

LEMMA LeaveFields ==
  ASSUME Typed, NEW c \in Sockets, NEW so \in [Sockets -> HandlerType], Leave(c, so)
  PROVE  /\ Keeps(so, sock') /\ online' \in Seating
         /\ \A p \in Players : online'[p] = IF Seated(c) /\ p = Owner(c) THEN Nobody ELSE online[p]
         /\ \A e \in Sockets : sock'[e].shows = IF Seated(c) /\ so[e].knows /\ online'[Owner(e)] = e /\ so[e].room = so[c].room
                                                THEN so[e].shows \ {Owner(c)} ELSE so[e].shows
  <1> DEFINE on == [online EXCEPT ![Owner(c)] = Nobody]
  <1>1. on \in Seating /\ Owner(c) \in Players
    BY OwnerType DEF Typed, Seating
  <1>2. CASE Seated(c)
    <2>1. online' = on /\ sock' = Left(on, so, Owner(c), so[c].room)
      BY <1>2 DEF Leave, Leaves
    <2>2. \A p \in Players : on[p] = IF p = Owner(c) THEN Nobody ELSE online[p]
      BY <1>1 DEF Typed, Seating
    <2> HIDE DEF on
    <2> QED BY <1>1, <1>2, <2>1, <2>2, LeftFields
  <1>3. CASE ~Seated(c)
    <2>1. online' = online /\ sock' = so
      BY <1>3 DEF Leave, Leaves
    <2> QED BY <1>3, <2>1 DEF Keeps, Typed
  <1> QED BY <1>2, <1>3

-----------------------------------------------------------------------------
(* Leaving: a drop, a kick, or the end of a handler. *)

\* The handlers as leave finds them: as they are, or with the leaving one already at its end.
LeavesAs(c, so) ==
  /\ so \in [Sockets -> HandlerType]
  /\ \A e \in Sockets \ {c} : so[e] = sock[e]
  /\ so[c].room = sock[c].room /\ so[c].prev = sock[c].prev /\ so[c].cred <= sock[c].cred
  /\ \/ so[c] = sock[c]
     \/ sock[c].at \in Live /\ so[c].at = "new" /\ ~so[c].knows

LEMMA LeavePreserves ==
  ASSUME Inv, NEW c \in Sockets, NEW so, LeavesAs(c, so), Leave(c, so),
         open' \subseteq open, c \notin open', UNCHANGED <<raced, stale>>
  PROVE  /\ online' \in Seating /\ sock' \in [Sockets -> HandlerType] /\ Seats' /\ Ghosts' /\ Shows'
         /\ \A e \in Sockets : sock'[e].cred <= sock[e].cred
  <1> DEFINE p == Owner(c)
  <1>0. p \in Players /\ c # Nobody
    BY OwnerType
  <1>1. /\ sock' \in [Sockets -> HandlerType] /\ online' \in Seating
        /\ \A e \in Sockets : /\ sock'[e].at = so[e].at /\ sock'[e].room = sock[e].room /\ sock'[e].prev = sock[e].prev
                              /\ sock'[e].cred = so[e].cred /\ sock'[e].knows = so[e].knows
        /\ \A q \in Players : online'[q] = IF Seated(c) /\ q = p THEN Nobody ELSE online[q]
        /\ \A e \in Sockets : sock'[e].shows = IF Seated(c) /\ so[e].knows /\ online'[Owner(e)] = e /\ so[e].room = so[c].room
                                               THEN so[e].shows \ {p} ELSE so[e].shows
    <2>1. Typed /\ so \in [Sockets -> HandlerType]
      BY DEF Inv, LeavesAs
    <2>2. /\ Keeps(so, sock') /\ online' \in Seating
          /\ \A q \in Players : online'[q] = IF Seated(c) /\ q = Owner(c) THEN Nobody ELSE online[q]
          /\ \A e \in Sockets : sock'[e].shows = IF Seated(c) /\ so[e].knows /\ online'[Owner(e)] = e /\ so[e].room = so[c].room
                                                 THEN so[e].shows \ {Owner(c)} ELSE so[e].shows
      BY <2>1, LeaveFields
    <2>3. \A e \in Sockets : so[e].room = sock[e].room /\ so[e].prev = sock[e].prev
      BY DEF LeavesAs
    <2> QED BY <2>2, <2>3 DEF Keeps
  <1>2. /\ \A e \in Sockets \ {c} : so[e] = sock[e]
        /\ so[c].room = sock[c].room /\ so[c].cred <= sock[c].cred
        /\ so[c] = sock[c] \/ (sock[c].at \in Live /\ so[c].at = "new" /\ ~so[c].knows)
    BY DEF LeavesAs
  <1>3. \A q \in Players : online'[q] # Nobody => online'[q] = online[q] /\ online[q] \in Sockets /\ online[q] # c /\ Owner(online[q]) = q
    BY <1>0, <1>1 DEF Inv, Typed, Seating, Seated
  <1>4. Seats'
    <2>1. \A q \in Players : online'[q] # Nobody => sock'[online'[q]].at \in Live
      BY <1>1, <1>2, <1>3 DEF Inv, Seats
    <2>2. ASSUME NEW e \in Sockets
          PROVE  /\ sock'[e].at \notin Live => ~sock'[e].knows
                 /\ sock'[e].at \in {"hello"} \cup Waiting => sock'[e].room = Base
                 /\ IF sock'[e].at = "replace" THEN sock'[e].prev \in Sockets /\ Owner(sock'[e].prev) = Owner(e)
                                              ELSE sock'[e].prev = Nobody
                 /\ sock'[e].at \in Waiting => sock[e].at = sock'[e].at
      BY <1>1, <1>2 DEF Inv, Seats, Live, Waiting
    <2>3. ASSUME NEW e \in Sockets, sock'[e].at \in Waiting, Owner(e) \notin raced'
          PROVE  online'[Owner(e)] = Nobody /\ \A d \in Sockets : Owner(d) = Owner(e) /\ sock'[d].at \in Waiting => d = e
      BY <1>1, <2>2, <2>3, OwnerType DEF Inv, Seats
    <2> QED BY <2>1, <2>2, <2>3 DEF Seats
  <1>5. \A d \in Sockets : sock[d].at = "replace" <=> sock'[d].at = "replace"
    BY <1>1, <1>2 DEF Live
  <1>6. Ghosts'
    <2> SUFFICES ASSUME NEW e \in Sockets, sock'[e].at \in Live, e \in open'
                 PROVE  Seated(e)' \/ Owner(e) \in raced' \/ Closing(e)'
      BY DEF Ghosts
    <2>1. e # c /\ sock[e].at \in Live /\ e \in open
      BY <1>1, <1>2
    <2>2. Seated(e) => Seated(e)'
      BY <1>1, <2>1, OwnerType DEF Seated
    <2>3. Closing(e) => Closing(e)'
      BY <1>1, <1>5 DEF Closing
    <2> QED BY <2>1, <2>2, <2>3 DEF Inv, Ghosts
  <1>7. Shows'
    <2> SUFFICES ASSUME NEW e \in Sockets, Shown(e)', NEW q \in Players \ (raced' \cup stale' \cup {Owner(e)})
                 PROVE  InStep(e, q)'
      BY DEF Shows
    <2>1. online'[Owner(e)] = e /\ online[Owner(e)] = e /\ e # c /\ so[e] = sock[e] /\ sock[e].knows /\ sock[e].at \in {"loop", "checks"}
      BY <1>1, <1>2, <1>3, OwnerType DEF Shown, Watching, Seated
    <2>2. InStep(e, q)
      BY <2>1 DEF Inv, Shows, Shown, Watching, Seated
    <2>6. sock'[e].shows = IF Seated(c) /\ sock[e].room = sock[c].room THEN sock[e].shows \ {p} ELSE sock[e].shows
      <3>1. sock'[e].shows = IF Seated(c) /\ so[e].knows /\ online'[Owner(e)] = e /\ so[e].room = so[c].room
                             THEN so[e].shows \ {p} ELSE so[e].shows
        BY <1>1
      <3> QED BY <1>2, <2>1, <3>1
    <2>3. Going(q, sock[e].room) => Going(q, sock[e].room)'
      <3> SUFFICES ASSUME NEW d \in Sockets, Owner(d) = q, sock[d].at = "replace", sock[sock[d].prev].room = sock[e].room
                   PROVE  sock'[d].at = "replace" /\ sock'[sock'[d].prev].room = sock'[e].room
        BY DEF Going
      <3>1. sock[d].prev \in Sockets
        BY DEF Inv, Seats
      <3> QED BY <1>1, <1>5, <3>1
    <2>4. CASE Seated(c) /\ q = p
      <3>1. ~Here(q, sock[e].room)'
        BY <1>1, <2>4 DEF Here
      <3>2. sock'[e].shows = IF sock[e].room = sock[c].room THEN sock[e].shows \ {p} ELSE sock[e].shows
        BY <2>4, <2>6
      <3>3. Here(q, sock[e].room) => sock[e].room = sock[c].room
        BY <2>4 DEF Here, Seated
      <3>4. q \in sock'[e].shows => Going(q, sock[e].room)'
        BY <2>2, <2>3, <2>4, <3>2, <3>3 DEF InStep
      <3> QED BY <3>1, <3>4 DEF InStep
    <2>5. CASE ~(Seated(c) /\ q = p)
      <3>1. online'[q] = online[q] /\ (q \in sock'[e].shows <=> q \in sock[e].shows) /\ sock'[e].room = sock[e].room
        BY <1>1, <2>5, <2>6
      <3>2. online[q] # Nobody => sock'[online[q]].room = sock[online[q]].room /\ sock'[online[q]].at = sock[online[q]].at
        BY <1>1, <1>2, <1>3, <3>1
      <3> QED BY <2>2, <2>3, <3>1, <3>2 DEF InStep, Here
    <2> QED BY <2>4, <2>5
  <1>8. \A e \in Sockets : sock'[e].cred <= sock[e].cred
    BY <1>1, <1>2 DEF Inv, Typed, HandlerType
  <1> QED BY <1>1, <1>4, <1>6, <1>7, <1>8

\* The tokens once some sockets are older than before, and nothing else.
LEMMA TokensKept ==
  ASSUME Inv, sock' \in [Sockets -> HandlerType], \A e \in Sockets : sock'[e].cred <= sock[e].cred, UNCHANGED token
  PROVE  Tokens'
  <1>1. \A e \in Sockets : sock'[e].cred \in Nat /\ sock[e].cred \in Nat /\ token[Owner(e)].held \in Nat
    BY OwnerType DEF Inv, Typed, HandlerType, TokenType
  <1> QED BY <1>1 DEF Inv, Tokens

LEMMA DropPreserves == ASSUME Inv, NEW c \in Sockets, Drop(c) PROVE Inv'
  <1>1. Leave(c, sock) /\ open' = open \ {c} /\ UNCHANGED <<token, raced, stale>> /\ LeavesAs(c, sock)
    BY DEF Drop, LeavesAs, Inv, Typed, HandlerType
  <1>2. online' \in Seating /\ sock' \in [Sockets -> HandlerType] /\ Seats' /\ Ghosts' /\ Shows' /\ \A e \in Sockets : sock'[e].cred <= sock[e].cred
    BY <1>1, LeavePreserves
  <1> QED BY <1>1, <1>2, TokensKept DEF Inv, Typed

LEMMA FinishPreserves == ASSUME Inv, NEW c \in Sockets, Finish(c) PROVE Inv'
  <1> DEFINE so == [sock EXCEPT ![c] = [NewSocket EXCEPT !.room = sock[c].room]]
  <1>1. Leave(c, so) /\ open' = open /\ c \notin open /\ UNCHANGED <<token, raced, stale>> /\ sock[c].at \in {"loop", "walked"}
    BY DEF Finish, Ended
  <1>2. LeavesAs(c, so)
    <2>1. so \in [Sockets -> HandlerType] /\ so[c] = [NewSocket EXCEPT !.room = sock[c].room] /\ sock[c] \in HandlerType
      BY NewSocketType DEF Inv, Typed, HandlerType
    <2>2. so[c].room = sock[c].room /\ so[c].prev = Nobody /\ so[c].cred = 0 /\ so[c].at = "new" /\ ~so[c].knows
      BY <2>1, NewSocketType DEF HandlerType
    <2>3. sock[c].prev = Nobody /\ 0 <= sock[c].cred
      BY <1>1, <2>1 DEF Inv, Seats, HandlerType
    <2> QED BY <1>1, <2>1, <2>2, <2>3 DEF LeavesAs, Live
  <1> HIDE DEF so
  <1>3. online' \in Seating /\ sock' \in [Sockets -> HandlerType] /\ Seats' /\ Ghosts' /\ Shows' /\ \A e \in Sockets : sock'[e].cred <= sock[e].cred
    BY <1>1, <1>2, LeavePreserves
  <1> QED BY <1>1, <1>3, TokensKept DEF Inv, Typed

-----------------------------------------------------------------------------
(* Coming in: hello, join, and the newcomer that takes somebody's place. *)

LEMMA HelloPreserves == ASSUME Inv, NEW c \in Sockets, Hello(c) PROVE Inv'
  <1> DEFINE h == [NewSocket EXCEPT !.at = "hello", !.cred = token[Owner(c)].db]
  <1>0. Owner(c) \in Players /\ sock[c].at = "new" /\ (\A d \in Sockets : sock[d].prev # c)
        /\ token[Owner(c)].held = token[Owner(c)].db /\ token[Owner(c)].db \in Nat
        /\ UNCHANGED <<online, hung, token, raced, stale, walks>> /\ open' = open \cup {c}
    BY OwnerType DEF Hello, Inv, Typed, TokenType
  <1>1. h \in HandlerType /\ h.at = "hello" /\ h.room = Base /\ h.prev = Nobody /\ h.cred = token[Owner(c)].db /\ h.knows = FALSE
    BY <1>0, NewSocketType DEF HandlerType
  <1>2. sock' = [sock EXCEPT ![c] = h]
    BY DEF Hello
  <1> HIDE DEF h
  <1>3. sock' \in [Sockets -> HandlerType] /\ sock'[c] = h /\ \A e \in Sockets \ {c} : sock'[e] = sock[e]
    BY <1>1, <1>2 DEF Inv, Typed
  <1>4. \A q \in Players : online[q] # c
    BY <1>0 DEF Inv, Seats, Live, OwnerType
  <1>5. Typed'
    BY <1>0, <1>3 DEF Inv, Typed
  <1>6. Seats'
    <2>1. \A q \in Players : online'[q] # Nobody => sock'[online'[q]].at \in Live
      BY <1>0, <1>3, <1>4 DEF Inv, Seats, Typed, Seating
    <2>2. \A e \in Sockets : sock'[e].at \in Waiting <=> sock[e].at \in Waiting
      BY <1>0, <1>1, <1>3 DEF Waiting
    <2> QED BY <1>0, <1>1, <1>3, <2>1, <2>2 DEF Inv, Seats, Live, Waiting
  <1>7. Tokens'
    BY <1>0, <1>1, <1>3 DEF Inv, Tokens
  <1>8. \A d \in Sockets : sock'[d].at = "replace" <=> sock[d].at = "replace"
    BY <1>0, <1>1, <1>3
  <1>9. Ghosts'
    <2> SUFFICES ASSUME NEW e \in Sockets, sock'[e].at \in Live, e \in open' PROVE Seated(e)' \/ Owner(e) \in raced' \/ Closing(e)'
      BY DEF Ghosts
    <2>1. e # c /\ sock[e].at \in Live /\ e \in open
      BY <1>0, <1>1, <1>3 DEF Live
    <2>2. Closing(e) => Closing(e)'
      BY <1>0, <1>3, <1>8 DEF Closing
    <2> QED BY <1>0, <2>1, <2>2 DEF Inv, Ghosts, Seated
  <1>10. Shows'
    <2> SUFFICES ASSUME NEW e \in Sockets, Shown(e)', NEW q \in Players \ (raced' \cup stale' \cup {Owner(e)}) PROVE InStep(e, q)'
      BY DEF Shows
    <2>1. e # c /\ sock'[e] = sock[e] /\ Shown(e)
      BY <1>0, <1>1, <1>3 DEF Shown, Watching, Seated
    <2>2. InStep(e, q)
      BY <1>0, <2>1 DEF Inv, Shows
    <2>3. online'[q] = online[q] /\ (online[q] # Nobody => sock'[online[q]] = sock[online[q]])
      BY <1>0, <1>3, <1>4 DEF Inv, Typed, Seating
    <2>4. Going(q, sock[e].room) => Going(q, sock[e].room)'
      <3> SUFFICES ASSUME NEW d \in Sockets, Owner(d) = q, sock[d].at = "replace", sock[sock[d].prev].room = sock[e].room
                   PROVE  sock'[d].at = "replace" /\ sock'[sock'[d].prev].room = sock'[e].room
        BY <2>1 DEF Going
      <3>1. sock[d].prev \in Sockets \ {c} /\ d # c
        BY <1>0 DEF Inv, Seats
      <3> QED BY <1>3, <2>1, <3>1
    <2> QED BY <2>1, <2>2, <2>3, <2>4 DEF InStep, Here
  <1> QED BY <1>5, <1>6, <1>7, <1>9, <1>10 DEF Inv

\* The newcomer takes the seat, at once or after it has taken out whoever had it, and its room is told.
Takes(c) ==
  /\ sock' \in [Sockets -> HandlerType] /\ online' \in Seating
  /\ \A q \in Players : online'[q] = IF q = Owner(c) THEN c ELSE online[q]
  /\ \A e \in Sockets : /\ sock'[e].at = (IF e = c THEN "loop" ELSE sock[e].at)
                        /\ sock'[e].room = sock[e].room /\ sock'[e].prev = sock[e].prev
                        /\ sock'[e].cred = sock[e].cred /\ sock'[e].knows = sock[e].knows
                        /\ sock'[e].shows = IF sock[e].knows /\ online'[Owner(e)] = e /\ sock[e].room = Base /\ Owner(e) # Owner(c)
                                            THEN sock[e].shows \cup {Owner(c)} ELSE sock[e].shows


\* The same as the handler writes it.
TakesAsWritten(c) ==
  LET on == [online EXCEPT ![Owner(c)] = c] IN online' = on /\ sock' = Joined(on, At(c, "loop"), Owner(c), Base)

LEMMA SeatFields == ASSUME Typed, NEW c \in Sockets, TakesAsWritten(c) PROVE Takes(c)
  <1> DEFINE on == [online EXCEPT ![Owner(c)] = c]
             so == At(c, "loop")
  <1>0. Owner(c) \in Players /\ c # Nobody
    BY OwnerType
  <1>1. so \in [Sockets -> HandlerType] /\ (\A e \in Sockets : so[e].at = IF e = c THEN "loop" ELSE sock[e].at)
        /\ \A e \in Sockets : /\ so[e].room = sock[e].room /\ so[e].prev = sock[e].prev /\ so[e].cred = sock[e].cred
                              /\ so[e].knows = sock[e].knows /\ so[e].shows = sock[e].shows
    BY DEF At, Typed, HandlerType, Live
  <1>2. on \in Seating /\ \A q \in Players : on[q] = IF q = Owner(c) THEN c ELSE online[q]
    BY <1>0 DEF Typed, Seating
  <1>3. online' = on
    BY DEF TakesAsWritten
  <1>4. sock' = Joined(on, so, Owner(c), Base)
    BY DEF TakesAsWritten
  <1> HIDE DEF on, so
  <1>5. so \in [Sockets -> HandlerType] /\ on \in Seating
    BY <1>1, <1>2
  <1>6. /\ Keeps(so, sock')
        /\ \A e \in Sockets : sock'[e].shows = IF so[e].knows /\ on[Owner(e)] = e /\ so[e].room = Base /\ Owner(e) # Owner(c)
                                               THEN so[e].shows \cup {Owner(c)} ELSE so[e].shows
    BY <1>0, <1>4, <1>5, JoinedFields
  <1>7. sock' \in [Sockets -> HandlerType]
        /\ \A e \in Sockets : /\ sock'[e].at = so[e].at /\ sock'[e].room = so[e].room /\ sock'[e].prev = so[e].prev
                              /\ sock'[e].cred = so[e].cred /\ sock'[e].knows = so[e].knows
    BY <1>6 DEF Keeps
  <1>8. \A e \in Sockets :
           sock'[e].shows = IF sock[e].knows /\ online'[Owner(e)] = e /\ sock[e].room = Base /\ Owner(e) # Owner(c)
                            THEN sock[e].shows \cup {Owner(c)} ELSE sock[e].shows
    BY <1>1, <1>3, <1>6
  <1>9. online' \in Seating /\ \A q \in Players : online'[q] = IF q = Owner(c) THEN c ELSE online[q]
    BY <1>2, <1>3
  <1> QED BY <1>1, <1>7, <1>8, <1>9 DEF Takes

LEMMA SeatPreserves ==
  ASSUME Inv, NEW c \in Sockets, sock[c].at \in {"hello", "replaced"}, Takes(c),
         UNCHANGED <<open, token, stale>>, raced \subseteq raced',
         Owner(c) \notin raced' => /\ online[Owner(c)] = Nobody
                                   /\ \A d \in Sockets : Owner(d) = Owner(c) /\ sock[d].at \in Waiting => d = c
  PROVE  Inv'
  <1> DEFINE p == Owner(c)
  <1>0. p \in Players /\ c # Nobody
    BY OwnerType
  <1>2. online' \in Seating /\ \A q \in Players : online'[q] = IF q = p THEN c ELSE online[q]
    BY DEF Takes
  <1>4. /\ sock' \in [Sockets -> HandlerType]
        /\ \A e \in Sockets : /\ sock'[e].at = (IF e = c THEN "loop" ELSE sock[e].at)
                              /\ sock'[e].room = sock[e].room /\ sock'[e].prev = sock[e].prev
                              /\ sock'[e].cred = sock[e].cred /\ sock'[e].knows = sock[e].knows
    BY DEF Takes
  <1>11. sock[c].room = Base /\ ~sock[c].knows /\ sock[c].prev = Nobody /\ \A q \in Players : online[q] # c
    <2>1. sock[c].at \notin Live
      BY DEF Live
    <2>2. \A q \in Players : online[q] # c
      BY <1>0, <2>1 DEF Inv, Seats
    <2>3. sock[c].at \in {"hello"} \cup Waiting /\ sock[c].at # "replace"
      BY DEF Waiting
    <2> QED BY <2>1, <2>2, <2>3 DEF Inv, Seats
  <1>5. Typed'
    BY <1>2, <1>4 DEF Inv, Typed
  <1>6. Seats'
    <2>1. \A q \in Players : online'[q] # Nobody => sock'[online'[q]].at \in Live
      BY <1>2, <1>4 DEF Inv, Seats, Typed, Seating, Live
    <2>2. ASSUME NEW e \in Sockets
          PROVE  /\ sock'[e].at \notin Live => ~sock'[e].knows
                 /\ sock'[e].at \in {"hello"} \cup Waiting => sock'[e].room = Base
                 /\ IF sock'[e].at = "replace" THEN sock'[e].prev \in Sockets /\ Owner(sock'[e].prev) = Owner(e)
                                              ELSE sock'[e].prev = Nobody
                 /\ sock'[e].at \in Waiting => sock[e].at = sock'[e].at /\ e # c
      <3>1. CASE e = c
        BY <1>4, <1>11, <3>1 DEF Live, Waiting
      <3>2. CASE e # c
        <4>1. sock'[e].at = sock[e].at /\ sock'[e].room = sock[e].room /\ sock'[e].prev = sock[e].prev /\ sock'[e].knows = sock[e].knows
          BY <1>4, <3>2
        <4> QED BY <3>2, <4>1 DEF Inv, Seats
      <3> QED BY <3>1, <3>2
    <2>3. ASSUME NEW e \in Sockets, sock'[e].at \in Waiting, Owner(e) \notin raced'
          PROVE  online'[Owner(e)] = Nobody /\ \A d \in Sockets : Owner(d) = Owner(e) /\ sock'[d].at \in Waiting => d = e
      <3>1. Owner(e) # p /\ Owner(e) \notin raced
        BY <2>2, <2>3
      <3> QED BY <1>2, <2>2, <2>3, <3>1, OwnerType DEF Inv, Seats
    <2> QED BY <2>1, <2>2, <2>3 DEF Seats
  <1>7. Tokens'
    BY <1>4 DEF Inv, Tokens
  <1>8. \A d \in Sockets : sock'[d].at = "replace" <=> sock[d].at = "replace"
    BY <1>4
  <1>9. Ghosts'
    <2> SUFFICES ASSUME NEW e \in Sockets, sock'[e].at \in Live, e \in open' PROVE Seated(e)' \/ Owner(e) \in raced' \/ Closing(e)'
      BY DEF Ghosts
    <2>1. CASE e = c
      BY <1>0, <1>2, <2>1 DEF Seated
    <2>2. CASE e # c
      <3>1. sock[e].at \in Live /\ e \in open /\ (Closing(e) => Closing(e)')
        BY <1>4, <1>8, <2>2 DEF Closing
      <3>2. Seated(e) => Seated(e)' \/ Owner(e) \in raced'
        BY <1>2, OwnerType DEF Seated
      <3> QED BY <3>1, <3>2 DEF Inv, Ghosts
    <2> QED BY <2>1, <2>2
  <1>10. Shows'
    <2> SUFFICES ASSUME NEW e \in Sockets, Shown(e)', NEW q \in Players \ (raced' \cup stale' \cup {Owner(e)}) PROVE InStep(e, q)'
      BY DEF Shows
    <2>1. e # c /\ Owner(e) # p /\ online'[Owner(e)] = e /\ Shown(e) /\ sock[e].knows
      <3>1. online'[Owner(e)] = e /\ sock[e].knows /\ sock'[e].at \in {"loop", "checks"}
        BY <1>4 DEF Shown, Watching, Seated
      <3>2. e # c /\ Owner(e) # p
        BY <1>2, <1>11, <3>1, OwnerType
      <3>3. online[Owner(e)] = e /\ sock[e].at \in {"loop", "checks"}
        BY <1>2, <1>4, <3>1, <3>2, OwnerType
      <3> QED BY <3>1, <3>2, <3>3 DEF Shown, Watching, Seated
    <2>2. InStep(e, q)
      BY <2>1 DEF Inv, Shows
    <2>3. Going(q, sock[e].room) => Going(q, sock[e].room)'
      <3> SUFFICES ASSUME NEW d \in Sockets, Owner(d) = q, sock[d].at = "replace", sock[sock[d].prev].room = sock[e].room
                   PROVE  sock'[d].at = "replace" /\ sock'[sock'[d].prev].room = sock'[e].room
        BY <1>4 DEF Going
      <3>1. sock[d].prev \in Sockets
        BY DEF Inv, Seats
      <3> QED BY <1>4, <1>8, <3>1
    <2>4. sock'[e].shows = IF sock[e].room = Base THEN sock[e].shows \cup {p} ELSE sock[e].shows
      <3>1. sock'[e].shows = IF sock[e].knows /\ online'[Owner(e)] = e /\ sock[e].room = Base /\ Owner(e) # p
                             THEN sock[e].shows \cup {p} ELSE sock[e].shows
        BY DEF Takes
      <3> QED BY <2>1, <3>1
    <2>5. CASE q = p
      <3>1. online'[q] = c /\ online[q] = Nobody /\ sock'[c].room = Base /\ sock'[e].room = sock[e].room
        BY <1>2, <1>4, <1>11, <2>5
      <3>2. Here(q, sock[e].room)' <=> sock[e].room = Base
        BY <1>0, <3>1 DEF Here
      <3> QED BY <2>2, <2>3, <2>4, <2>5, <3>1, <3>2 DEF InStep, Here
    <2>6. CASE q # p
      <3>1. online'[q] = online[q] /\ (online[q] # Nobody => online[q] \in Sockets /\ online[q] # c)
        BY <1>2, <1>11, <2>6 DEF Inv, Typed, Seating
      <3>2. online[q] # Nobody => sock'[online[q]].room = sock[online[q]].room /\ sock'[online[q]].at = sock[online[q]].at
        BY <1>4, <3>1
      <3>3. (q \in sock'[e].shows <=> q \in sock[e].shows) /\ sock'[e].room = sock[e].room
        BY <1>4, <2>4, <2>6
      <3> QED BY <2>2, <2>3, <3>1, <3>2, <3>3 DEF InStep, Here
    <2> QED BY <2>5, <2>6
  <1> QED BY <1>5, <1>6, <1>7, <1>9, <1>10 DEF Inv

LEMMA TakeSeatPreserves == ASSUME Inv, NEW c \in Sockets, TakeSeat(c) PROVE Inv'
  <1>1. sock[c].at = "replaced" /\ TakesAsWritten(c) /\ UNCHANGED <<open, token, stale>> /\ raced' = raced
    BY DEF TakeSeat, TakesAsWritten
  <1>2. Takes(c)
    BY <1>1, SeatFields DEF Inv
  <1>3. Owner(c) \notin raced => /\ online[Owner(c)] = Nobody
                                 /\ \A d \in Sockets : Owner(d) = Owner(c) /\ sock[d].at \in Waiting => d = c
    BY <1>1 DEF Inv, Seats, Waiting
  <1> QED BY <1>1, <1>2, <1>3, SeatPreserves

\* The other half of join: the old socket is out of the hub and the newcomer waits for its close.
LEMMA OustPreserves ==
  ASSUME Inv, NEW c \in Sockets, sock[c].at = "hello", online[Owner(c)] # Nobody,
         raced' = raced \cup {q \in {Owner(c)} : \E d \in Sockets : Owner(d) = Owner(c) /\ sock[d].at \in Waiting},
         online' = [online EXCEPT ![Owner(c)] = Nobody],
         sock' = [sock EXCEPT ![c].at = "replace", ![c].prev = online[Owner(c)]],
         UNCHANGED <<open, token, stale>>
  PROVE  Inv'
  <1> DEFINE p == Owner(c)
  <1>0. p \in Players /\ c # Nobody
    BY OwnerType
  <1>1. online[p] \in Sockets /\ Owner(online[p]) = p /\ online[p] # c /\ sock[online[p]].at \in Live
    BY <1>0 DEF Inv, Typed, Seating, Seats, Live
  <1>2. /\ sock' \in [Sockets -> HandlerType]
        /\ \A e \in Sockets : /\ sock'[e].at = (IF e = c THEN "replace" ELSE sock[e].at)
                              /\ sock'[e].prev = (IF e = c THEN online[p] ELSE sock[e].prev)
                              /\ sock'[e].room = sock[e].room /\ sock'[e].cred = sock[e].cred
                              /\ sock'[e].knows = sock[e].knows /\ sock'[e].shows = sock[e].shows
    <2>1. sock \in [Sockets -> HandlerType] /\ sock[c] \in HandlerType
      BY DEF Inv, Typed
    <2>2. sock'[c] = [sock[c] EXCEPT !.at = "replace", !.prev = online[p]] /\ \A e \in Sockets \ {c} : sock'[e] = sock[e]
      BY <2>1
    <2>3. sock'[c] \in HandlerType /\ sock'[c].at = "replace" /\ sock'[c].prev = online[p]
          /\ sock'[c].room = sock[c].room /\ sock'[c].cred = sock[c].cred
          /\ sock'[c].knows = sock[c].knows /\ sock'[c].shows = sock[c].shows
      BY <1>1, <2>1, <2>2 DEF HandlerType, Waiting
    <2>4. sock' \in [Sockets -> HandlerType]
      BY <2>1, <2>2, <2>3
    <2> QED BY <2>2, <2>3, <2>4
  <1>3. online' \in Seating /\ \A q \in Players : online'[q] = IF q = p THEN Nobody ELSE online[q]
    BY <1>0 DEF Inv, Typed, Seating
  <1>4. raced \subseteq raced' /\ (p \notin raced' => \A d \in Sockets : Owner(d) = p => sock[d].at \notin Waiting)
    OBVIOUS
  <1>5. ~sock[c].knows /\ sock[c].room = Base
    BY DEF Inv, Seats, Live
  <1>6. Seats'
    <2>1. \A q \in Players : online'[q] # Nobody => sock'[online'[q]].at \in Live
      BY <1>2, <1>3 DEF Inv, Seats, Typed, Seating, Live
    <2>2. ASSUME NEW e \in Sockets
          PROVE  /\ sock'[e].at \notin Live => ~sock'[e].knows
                 /\ sock'[e].at \in {"hello"} \cup Waiting => sock'[e].room = Base
                 /\ IF sock'[e].at = "replace" THEN sock'[e].prev \in Sockets /\ Owner(sock'[e].prev) = Owner(e)
                                              ELSE sock'[e].prev = Nobody
      <3>1. CASE e = c
        BY <1>1, <1>2, <1>5, <3>1
      <3>2. CASE e # c
        BY <1>2, <3>2 DEF Inv, Seats
      <3> QED BY <3>1, <3>2
    <2>3. ASSUME NEW e \in Sockets, sock'[e].at \in Waiting, Owner(e) \notin raced'
          PROVE  online'[Owner(e)] = Nobody /\ \A d \in Sockets : Owner(d) = Owner(e) /\ sock'[d].at \in Waiting => d = e
      <3>1. CASE Owner(e) = p
        BY <1>0, <1>2, <1>3, <1>4, <2>3, <3>1
      <3>2. CASE Owner(e) # p
        BY <1>2, <1>3, <1>4, <2>3, <3>2, OwnerType DEF Inv, Seats
      <3> QED BY <3>1, <3>2
    <2> QED BY <2>1, <2>2, <2>3 DEF Seats
  <1>7. Tokens'
    BY <1>2 DEF Inv, Tokens
  <1>8. Ghosts'
    <2> SUFFICES ASSUME NEW e \in Sockets, sock'[e].at \in Live, e \in open' PROVE Seated(e)' \/ Owner(e) \in raced' \/ Closing(e)'
      BY DEF Ghosts
    <2>1. e # c /\ sock[e].at \in Live /\ e \in open
      BY <1>2 DEF Live
    <2>2. CASE e = online[p]
      <3>1. sock'[c].at = "replace" /\ sock'[c].prev = e
        BY <1>2, <2>2
      <3> QED BY <3>1 DEF Closing
    <2>3. CASE e # online[p]
      <3>1. Seated(e) => Seated(e)'
        BY <1>3, <2>3, OwnerType DEF Seated
      <3>2. Closing(e) => Closing(e)'
        BY <1>2 DEF Closing
      <3> QED BY <1>4, <2>1, <3>1, <3>2 DEF Inv, Ghosts
    <2> QED BY <2>2, <2>3
  <1>9. Shows'
    <2> SUFFICES ASSUME NEW e \in Sockets, Shown(e)', NEW q \in Players \ (raced' \cup stale' \cup {Owner(e)}) PROVE InStep(e, q)'
      BY DEF Shows
    <2>1. e # c /\ Shown(e) /\ sock'[e].room = sock[e].room /\ sock'[e].shows = sock[e].shows
      <3>1. online'[Owner(e)] = e /\ sock[e].knows /\ e # c /\ sock[e].at \in {"loop", "checks"}
        BY <1>2, <1>5 DEF Shown, Watching, Seated
      <3>2. online[Owner(e)] = e
        BY <1>3, <3>1, OwnerType
      <3> QED BY <1>2, <3>1, <3>2 DEF Shown, Watching, Seated
    <2>2. InStep(e, q)
      BY <1>4, <2>1 DEF Inv, Shows
    <2>3. Going(q, sock[e].room) => Going(q, sock[e].room)'
      <3> SUFFICES ASSUME NEW d \in Sockets, Owner(d) = q, sock[d].at = "replace", sock[sock[d].prev].room = sock[e].room
                   PROVE  sock'[d].at = "replace" /\ sock'[sock'[d].prev].room = sock[e].room
        BY <2>1 DEF Going
      <3>1. sock[d].prev \in Sockets /\ d # c
        BY DEF Inv, Seats
      <3> QED BY <1>2, <3>1
    <2>4. CASE q = p
      <3>1. ~Here(q, sock[e].room)'
        BY <1>3, <2>4 DEF Here
      <3>2. Here(q, sock[e].room) => Going(q, sock[e].room)'
        <4>1. sock'[c].at = "replace" /\ sock'[c].prev = online[p] /\ sock'[online[p]].room = sock[online[p]].room
          BY <1>1, <1>2
        <4> QED BY <2>1, <2>4, <4>1 DEF Here, Going
      <3> QED BY <2>1, <2>2, <2>3, <3>1, <3>2 DEF InStep
    <2>5. CASE q # p
      <3>1. online'[q] = online[q] /\ (online[q] # Nobody => online[q] \in Sockets /\ online[q] # c)
        BY <1>0, <1>3, <2>5 DEF Inv, Typed, Seating
      <3>2. online[q] # Nobody => sock'[online[q]].room = sock[online[q]].room /\ sock'[online[q]].at = sock[online[q]].at
        BY <1>2, <3>1
      <3> QED BY <2>1, <2>2, <2>3, <3>1, <3>2 DEF InStep, Here
    <2> QED BY <2>4, <2>5
  <1> QED BY <1>2, <1>3, <1>6, <1>7, <1>8, <1>9 DEF Inv, Typed

LEMMA JoinPreserves == ASSUME Inv, NEW c \in Sockets, Join(c) PROVE Inv'
  <1> DEFINE p == Owner(c)
  <1>1. /\ sock[c].at = "hello" /\ UNCHANGED <<open, token, stale>>
        /\ raced' = raced \cup {q \in {p} : \E d \in Sockets : Owner(d) = p /\ sock[d].at \in Waiting}
    BY DEF Join, Waiting
  <1>2. CASE online[p] = Nobody
    <2>1. TakesAsWritten(c)
      BY <1>2 DEF Join, TakesAsWritten
    <2>2. Takes(c)
      BY <2>1, SeatFields DEF Inv
    <2>3. raced \subseteq raced'
      BY <1>1
    <2>4. p \notin raced' => \A d \in Sockets : Owner(d) = p /\ sock[d].at \in Waiting => d = c
      BY <1>1
    <2> QED BY <1>1, <1>2, <2>2, <2>3, <2>4, SeatPreserves
  <1>3. CASE online[p] # Nobody
    <2>1. online' = [online EXCEPT ![p] = Nobody] /\ sock' = [sock EXCEPT ![c].at = "replace", ![c].prev = online[p]]
      BY <1>3 DEF Join
    <2> QED BY <1>1, <1>3, <2>1, OustPreserves
  <1> QED BY <1>2, <1>3

\* The room of the ousted is told, and the newcomer goes on to take the seat.
LEMMA ReplacePreserves == ASSUME Inv, NEW c \in Sockets, Replace(c) PROVE Inv'
  <1> DEFINE p == Owner(c)
             old == sock[c].prev
             so == [sock EXCEPT ![c].at = "replaced", ![c].prev = Nobody]
  <1>0. /\ p \in Players /\ sock[c].at = "replace" /\ open' = open \ {old} /\ old \in Sockets /\ Owner(old) = p
        /\ UNCHANGED <<online, token, raced, stale>> /\ online \in Seating
    BY OwnerType DEF Replace, Inv, Seats, Typed
  <1>1. sock' = Left(online, so, p, sock[old].room)
    BY DEF Replace
  <1>2. /\ so \in [Sockets -> HandlerType]
        /\ \A e \in Sockets : /\ so[e].at = (IF e = c THEN "replaced" ELSE sock[e].at)
                              /\ so[e].prev = (IF e = c THEN Nobody ELSE sock[e].prev)
                              /\ so[e].room = sock[e].room /\ so[e].cred = sock[e].cred
                              /\ so[e].knows = sock[e].knows /\ so[e].shows = sock[e].shows
    <2>1. sock \in [Sockets -> HandlerType] /\ sock[c] \in HandlerType
      BY DEF Inv, Typed
    <2>2. so[c] = [sock[c] EXCEPT !.at = "replaced", !.prev = Nobody] /\ \A e \in Sockets \ {c} : so[e] = sock[e]
      BY <2>1
    <2>3. so[c] \in HandlerType /\ so[c].at = "replaced" /\ so[c].prev = Nobody
          /\ so[c].room = sock[c].room /\ so[c].cred = sock[c].cred
          /\ so[c].knows = sock[c].knows /\ so[c].shows = sock[c].shows
      BY <2>1, <2>2 DEF HandlerType, Waiting
    <2>4. so \in [Sockets -> HandlerType]
      BY <2>1, <2>2, <2>3
    <2> QED BY <2>2, <2>3, <2>4
  <1> HIDE DEF so
  <1>3. /\ Keeps(so, sock')
        /\ \A e \in Sockets : sock'[e].shows = IF so[e].knows /\ online[Owner(e)] = e /\ so[e].room = sock[old].room
                                               THEN so[e].shows \ {p} ELSE so[e].shows
    <2>1. so \in [Sockets -> HandlerType]
      BY <1>2
    <2> QED BY <1>0, <1>1, <2>1, LeftFields
  <1>4. /\ sock' \in [Sockets -> HandlerType]
        /\ \A e \in Sockets : /\ sock'[e].at = (IF e = c THEN "replaced" ELSE sock[e].at)
                              /\ sock'[e].prev = (IF e = c THEN Nobody ELSE sock[e].prev)
                              /\ sock'[e].room = sock[e].room /\ sock'[e].cred = sock[e].cred
                              /\ sock'[e].knows = sock[e].knows
    <2>1. \A e \in Sockets : /\ sock'[e].at = so[e].at /\ sock'[e].room = so[e].room /\ sock'[e].prev = so[e].prev
                             /\ sock'[e].cred = so[e].cred /\ sock'[e].knows = so[e].knows
      BY <1>3 DEF Keeps
    <2>2. sock' \in [Sockets -> HandlerType]
      BY <1>3 DEF Keeps
    <2> QED BY <1>2, <2>1, <2>2
  <1>5. \A e \in Sockets : sock'[e].at \in Waiting <=> sock[e].at \in Waiting
    BY <1>0, <1>4 DEF Waiting
  <1>6. Seats'
    <2>1. \A q \in Players : online'[q] # Nobody => sock'[online'[q]].at \in Live
      BY <1>0, <1>4 DEF Inv, Seats, Typed, Seating, Live
    <2>2. ASSUME NEW e \in Sockets
          PROVE  /\ sock'[e].at \notin Live => ~sock'[e].knows
                 /\ sock'[e].at \in {"hello"} \cup Waiting => sock'[e].room = Base
                 /\ IF sock'[e].at = "replace" THEN sock'[e].prev \in Sockets /\ Owner(sock'[e].prev) = Owner(e)
                                              ELSE sock'[e].prev = Nobody
      <3>1. CASE e = c
        BY <1>0, <1>4, <3>1 DEF Inv, Seats, Live, Waiting
      <3>2. CASE e # c
        BY <1>4, <3>2 DEF Inv, Seats
      <3> QED BY <3>1, <3>2
    <2>3. ASSUME NEW e \in Sockets, sock'[e].at \in Waiting, Owner(e) \notin raced'
          PROVE  online'[Owner(e)] = Nobody /\ \A d \in Sockets : Owner(d) = Owner(e) /\ sock'[d].at \in Waiting => d = e
      BY <1>0, <1>5, <2>3 DEF Inv, Seats
    <2> QED BY <2>1, <2>2, <2>3 DEF Seats
  <1>7. Tokens'
    BY <1>0, <1>4 DEF Inv, Tokens
  <1>8. Ghosts'
    <2> SUFFICES ASSUME NEW e \in Sockets, sock'[e].at \in Live, e \in open' PROVE Seated(e)' \/ Owner(e) \in raced' \/ Closing(e)'
      BY DEF Ghosts
    <2>1. e # c /\ sock[e].at \in Live /\ e \in open /\ e # old
      BY <1>0, <1>4 DEF Live
    <2>2. Closing(e) => Closing(e)'
      BY <1>4, <2>1 DEF Closing
    <2> QED BY <1>0, <2>1, <2>2 DEF Inv, Ghosts, Seated
  <1>9. Shows'
    <2> SUFFICES ASSUME NEW e \in Sockets, Shown(e)', NEW q \in Players \ (raced' \cup stale' \cup {Owner(e)}) PROVE InStep(e, q)'
      BY DEF Shows
    <2>1. Shown(e) /\ online[Owner(e)] = e /\ sock'[e].room = sock[e].room
          /\ (sock'[e].shows = IF sock[e].room = sock[old].room THEN sock[e].shows \ {p} ELSE sock[e].shows)
      <3>1. sock[e].knows /\ online[Owner(e)] = e /\ sock[e].at \in {"loop", "checks"}
        BY <1>0, <1>4 DEF Shown, Watching, Seated
      <3>2. sock'[e].shows = IF so[e].knows /\ online[Owner(e)] = e /\ so[e].room = sock[old].room
                             THEN so[e].shows \ {p} ELSE so[e].shows
        BY <1>3
      <3>3. so[e].knows = sock[e].knows /\ so[e].room = sock[e].room /\ so[e].shows = sock[e].shows /\ sock'[e].room = sock[e].room
        BY <1>2, <1>4
      <3>4. sock'[e].shows = IF sock[e].room = sock[old].room THEN sock[e].shows \ {p} ELSE sock[e].shows
        BY <3>1, <3>2, <3>3
      <3> QED BY <3>1, <3>3, <3>4 DEF Shown, Watching, Seated
    <2>2. InStep(e, q)
      BY <1>0, <2>1 DEF Inv, Shows
    <2>3. ASSUME NEW d \in Sockets \ {c}, Owner(d) = q, sock[d].at = "replace", sock[sock[d].prev].room = sock[e].room
          PROVE  Going(q, sock[e].room)'
      <3>1. sock[d].prev \in Sockets
        BY <2>3 DEF Inv, Seats
      <3>2. sock'[d].at = "replace" /\ sock'[d].prev = sock[d].prev /\ sock'[sock[d].prev].room = sock[sock[d].prev].room
        BY <1>4, <2>3, <3>1
      <3> QED BY <2>1, <2>3, <3>2 DEF Going
    <2>4. CASE q = p
      <3>1. online[p] = Nobody /\ \A d \in Sockets : Owner(d) = p /\ sock[d].at = "replace" => d = c
        BY <1>0, <2>4 DEF Inv, Seats, Waiting
      <3>2. ~Here(q, sock[e].room)' /\ ~Here(q, sock[e].room)
        BY <1>0, <2>4, <3>1 DEF Here
      <3>3. Going(q, sock[e].room) => sock[e].room = sock[old].room
        BY <2>4, <3>1 DEF Going
      <3>4. q \notin sock'[e].shows
        BY <2>1, <2>2, <2>4, <3>2, <3>3 DEF InStep
      <3> QED BY <2>1, <3>2, <3>4 DEF InStep
    <2>5. CASE q # p
      <3>1. Going(q, sock[e].room) => Going(q, sock[e].room)'
        BY <2>3, <2>5 DEF Going
      <3>2. online[q] # Nobody => online[q] \in Sockets /\ online[q] # c
        BY <1>0, <2>5 DEF Seating
      <3>3. online[q] # Nobody => sock'[online[q]].room = sock[online[q]].room /\ sock'[online[q]].at = sock[online[q]].at
        BY <1>4, <3>2
      <3>4. q \in sock'[e].shows <=> q \in sock[e].shows
        BY <2>1, <2>5
      <3> QED BY <1>0, <2>1, <2>2, <3>1, <3>3, <3>4 DEF InStep, Here
    <2> QED BY <2>4, <2>5
  <1> QED BY <1>0, <1>4, <1>6, <1>7, <1>8, <1>9 DEF Inv, Typed

-----------------------------------------------------------------------------
(* Walking about. *)

\* A handler that stays where it is, and may stop listening for a moment.
Stays(c, at2) ==
  /\ sock[c].at \in {"loop", "checks"} /\ sock' \in [Sockets -> HandlerType]
  /\ \A e \in Sockets : /\ sock'[e].at = (IF e = c THEN at2 ELSE sock[e].at)
                        /\ sock'[e].room = sock[e].room /\ sock'[e].prev = sock[e].prev /\ sock'[e].cred = sock[e].cred
                        /\ sock'[e].knows = sock[e].knows /\ sock'[e].shows = sock[e].shows

LEMMA StayPreserves ==
  ASSUME Inv, NEW c \in Sockets, NEW at2 \in {"loop", "checks", "walked"}, Stays(c, at2),
         UNCHANGED <<online, open, token, raced, stale>>
  PROVE  Inv'
  <1>1. /\ sock[c].at \in {"loop", "checks"} /\ sock' \in [Sockets -> HandlerType]
        /\ \A e \in Sockets : /\ sock'[e].at = (IF e = c THEN at2 ELSE sock[e].at)
                              /\ sock'[e].room = sock[e].room /\ sock'[e].prev = sock[e].prev /\ sock'[e].cred = sock[e].cred
                              /\ sock'[e].knows = sock[e].knows /\ sock'[e].shows = sock[e].shows
    BY DEF Stays
  <1>2. \A e \in Sockets : /\ sock'[e].at \in Live <=> sock[e].at \in Live
                           /\ sock'[e].at \in {"loop", "checks"} => sock[e].at \in {"loop", "checks"}
                           /\ sock'[e].at \notin Live => sock'[e].at = sock[e].at
                           /\ sock'[e].at = "walks" <=> sock[e].at = "walks"
    BY <1>1 DEF Live
  <1>3. \A e \in Sockets : /\ sock'[e].at \in Waiting <=> sock[e].at \in Waiting
                           /\ sock'[e].at \in {"hello"} \cup Waiting <=> sock[e].at \in {"hello"} \cup Waiting
                           /\ sock'[e].at = "replace" <=> sock[e].at = "replace"
    BY <1>1 DEF Waiting
  <1>4. \A q \in Players : online[q] # Nobody => online[q] \in Sockets
    BY DEF Inv, Typed, Seating
  <1>5. Seats'
    BY <1>1, <1>2, <1>3, <1>4 DEF Inv, Seats
  <1>6. Tokens'
    BY <1>1 DEF Inv, Tokens
  <1>7. Ghosts'
    BY <1>1, <1>2, <1>3 DEF Inv, Ghosts, Closing, Seated
  <1>8. Shows'
    <2> SUFFICES ASSUME NEW e \in Sockets, Shown(e)', NEW q \in Players \ (raced' \cup stale' \cup {Owner(e)}) PROVE InStep(e, q)'
      BY DEF Shows
    <2>1. Shown(e)
      BY <1>1, <1>2 DEF Shown, Watching, Seated
    <2>2. InStep(e, q)
      BY <2>1 DEF Inv, Shows
    <2>3. Going(q, sock[e].room) => Going(q, sock[e].room)'
      <3> SUFFICES ASSUME NEW d \in Sockets, Owner(d) = q, sock[d].at = "replace", sock[sock[d].prev].room = sock[e].room
                   PROVE  sock'[d].at = "replace" /\ sock'[sock'[d].prev].room = sock[e].room
        BY <1>1 DEF Going
      <3>1. sock[d].prev \in Sockets
        BY DEF Inv, Seats
      <3> QED BY <1>1, <1>3, <3>1
    <2>4. online[q] # Nobody => sock'[online[q]].room = sock[online[q]].room /\ (sock'[online[q]].at = "walks" <=> sock[online[q]].at = "walks")
      BY <1>1, <1>2, <1>4
    <2> QED BY <1>1, <2>2, <2>3, <2>4 DEF InStep, Here
  <1> QED BY <1>1, <1>5, <1>6, <1>7, <1>8 DEF Inv, Typed

LEMMA EnterPreserves == ASSUME Inv, NEW c \in Sockets, NEW place \in Places, Enter(c, place) PROVE Inv'
  <1>1. sock[c].at = "loop" /\ sock' = [sock EXCEPT ![c].at = "checks", ![c].goal = place] /\ UNCHANGED <<online, open, token, raced, stale>>
    BY DEF Enter
  <1>2. sock \in [Sockets -> HandlerType] /\ sock[c] \in HandlerType
    BY DEF Inv, Typed
  <1>3. sock'[c] = [sock[c] EXCEPT !.at = "checks", !.goal = place] /\ \A e \in Sockets \ {c} : sock'[e] = sock[e]
    BY <1>1, <1>2
  <1>4. sock'[c] \in HandlerType /\ sock'[c].at = "checks" /\ sock'[c].room = sock[c].room /\ sock'[c].prev = sock[c].prev
        /\ sock'[c].cred = sock[c].cred /\ sock'[c].knows = sock[c].knows /\ sock'[c].shows = sock[c].shows
    BY <1>2, <1>3 DEF HandlerType, Live
  <1>5. sock' \in [Sockets -> HandlerType]
    BY <1>1, <1>2, <1>3, <1>4
  <1>6. Stays(c, "checks")
    BY <1>1, <1>3, <1>4, <1>5 DEF Stays
  <1> QED BY <1>1, <1>6, StayPreserves

LEMMA RefusePreserves == ASSUME Inv, NEW c \in Sockets, Refuse(c) PROVE Inv'
  <1>1. sock[c].at = "checks" /\ sock' = [sock EXCEPT ![c].at = "loop", ![c].goal = Base] /\ UNCHANGED <<online, open, token, raced, stale>>
    BY DEF Refuse
  <1>2. sock \in [Sockets -> HandlerType] /\ sock[c] \in HandlerType
    BY DEF Inv, Typed
  <1>3. sock'[c] = [sock[c] EXCEPT !.at = "loop", !.goal = Base] /\ \A e \in Sockets \ {c} : sock'[e] = sock[e]
    BY <1>1, <1>2
  <1>4. sock'[c] \in HandlerType /\ sock'[c].at = "loop" /\ sock'[c].room = sock[c].room /\ sock'[c].prev = sock[c].prev
        /\ sock'[c].cred = sock[c].cred /\ sock'[c].knows = sock[c].knows /\ sock'[c].shows = sock[c].shows
    BY <1>2, <1>3, PresenceAssumption DEF HandlerType, Live
  <1>5. sock' \in [Sockets -> HandlerType]
    BY <1>1, <1>2, <1>3, <1>4
  <1>6. Stays(c, "loop")
    BY <1>1, <1>3, <1>4, <1>5 DEF Stays
  <1> QED BY <1>1, <1>6, StayPreserves

\* A handler on its way between two places, after a broadcast to one of them.  Whoever has lost the seat
\* is counted among the stale; so what somebody else shows of p is about p's only socket.
WalksOn(c) ==
  /\ sock' \in [Sockets -> HandlerType] /\ sock[c].at \in {"checks", "walks"} /\ sock'[c].at \in {"walks", "walked"}
  /\ sock'[c].prev = Nobody /\ sock'[c].cred = sock[c].cred /\ sock'[c].knows = sock[c].knows
  /\ \A e \in Sockets \ {c} : /\ sock'[e].at = sock[e].at /\ sock'[e].room = sock[e].room /\ sock'[e].prev = sock[e].prev
                              /\ sock'[e].cred = sock[e].cred /\ sock'[e].knows = sock[e].knows
                              /\ sock'[e].shows \ {Owner(c)} = sock[e].shows \ {Owner(c)}
  /\ UNCHANGED <<online, open, token, raced>> /\ stale \subseteq stale'
  /\ ~Seated(c) => Owner(c) \in stale'

\* What the broadcast has to see to: the watchers of a place show c's player as long as c is there.
WalkIsTold(c) ==
  \A e \in Sockets \ {c} : Shown(e) /\ Seated(c) /\ Owner(e) # Owner(c) =>
    /\ Here(Owner(c), sock[e].room)' /\ sock'[c].at # "walks" => Owner(c) \in sock'[e].shows
    /\ Owner(c) \in sock'[e].shows => Here(Owner(c), sock[e].room)' \/ (Owner(c) \in sock[e].shows /\ ~Here(Owner(c), sock[e].room))

LEMMA WalksOnPreserves == ASSUME Inv, NEW c \in Sockets, WalksOn(c), WalkIsTold(c) PROVE Inv'
  <1> DEFINE p == Owner(c)
  <1>0. p \in Players
    BY OwnerType
  <1>1. /\ sock' \in [Sockets -> HandlerType] /\ sock[c].at \in {"checks", "walks"} /\ sock'[c].at \in {"walks", "walked"}
        /\ sock'[c].prev = Nobody /\ sock'[c].cred = sock[c].cred /\ sock'[c].knows = sock[c].knows
    BY DEF WalksOn
  <1>2. \A e \in Sockets \ {c} : /\ sock'[e].at = sock[e].at /\ sock'[e].room = sock[e].room /\ sock'[e].prev = sock[e].prev
                                 /\ sock'[e].cred = sock[e].cred /\ sock'[e].knows = sock[e].knows
    BY DEF WalksOn
  <1>3. UNCHANGED <<online, open, token, raced>> /\ stale \subseteq stale' /\ (~Seated(c) => p \in stale')
    BY DEF WalksOn
  <1>4. \A e \in Sockets : /\ sock'[e].at \in Live <=> sock[e].at \in Live
                           /\ sock'[e].at \notin Live => e # c
                           /\ sock'[e].cred = sock[e].cred
    BY <1>1, <1>2 DEF Live
  <1>5. \A e \in Sockets : /\ sock'[e].at \in Waiting <=> sock[e].at \in Waiting
                           /\ sock'[e].at \in {"hello"} \cup Waiting => e # c
                           /\ sock'[e].at = "replace" <=> sock[e].at = "replace"
                           /\ sock'[e].at = "replace" => e # c
    BY <1>1, <1>2 DEF Waiting
  <1>6. \A q \in Players : online[q] # Nobody => online[q] \in Sockets /\ Owner(online[q]) = q
    BY DEF Inv, Typed, Seating
  <1>7. Seats'
    <2>1. \A q \in Players : online'[q] # Nobody => sock'[online'[q]].at \in Live
      BY <1>3, <1>4, <1>6 DEF Inv, Seats
    <2>2. ASSUME NEW e \in Sockets
          PROVE  /\ sock'[e].at \notin Live => ~sock'[e].knows
                 /\ sock'[e].at \in {"hello"} \cup Waiting => sock'[e].room = Base
                 /\ IF sock'[e].at = "replace" THEN sock'[e].prev \in Sockets /\ Owner(sock'[e].prev) = Owner(e)
                                              ELSE sock'[e].prev = Nobody
      <3>1. CASE e = c
        BY <1>1, <1>4, <1>5, <3>1
      <3>2. CASE e # c
        <4>1. sock'[e].at = sock[e].at /\ sock'[e].room = sock[e].room /\ sock'[e].prev = sock[e].prev /\ sock'[e].knows = sock[e].knows
          BY <1>2, <3>2
        <4> QED BY <4>1 DEF Inv, Seats
      <3> QED BY <3>1, <3>2
    <2>3. ASSUME NEW e \in Sockets, sock'[e].at \in Waiting, Owner(e) \notin raced'
          PROVE  online'[Owner(e)] = Nobody /\ \A d \in Sockets : Owner(d) = Owner(e) /\ sock'[d].at \in Waiting => d = e
      BY <1>3, <1>5, <2>3 DEF Inv, Seats
    <2> QED BY <2>1, <2>2, <2>3 DEF Seats
  <1>8. Tokens'
    BY <1>3, <1>4 DEF Inv, Tokens
  <1>9. Ghosts'
    <2> SUFFICES ASSUME NEW e \in Sockets, sock'[e].at \in Live, e \in open' PROVE Seated(e)' \/ Owner(e) \in raced' \/ Closing(e)'
      BY DEF Ghosts
    <2>1. Closing(e) => Closing(e)'
      BY <1>2, <1>5 DEF Closing
    <2> QED BY <1>3, <1>4, <2>1 DEF Inv, Ghosts, Seated
  <1>10. Shows'
    <2> SUFFICES ASSUME NEW e \in Sockets, Shown(e)', NEW q \in Players \ (raced' \cup stale' \cup {Owner(e)}) PROVE InStep(e, q)'
      BY DEF Shows
    <2>1. e # c /\ Shown(e) /\ sock'[e].room = sock[e].room
      BY <1>1, <1>2, <1>3 DEF Shown, Watching, Seated
    <2>2. InStep(e, q)
      BY <1>3, <2>1 DEF Inv, Shows
    <2>3. CASE q = p
      <3>1. Seated(c) /\ online[p] # Nobody
        BY <1>0, <1>3, <2>3, OwnerType DEF Seated
      <3>2. ~Going(q, sock[e].room)
        BY <1>3, <2>3, <3>1 DEF Going, Inv, Seats, Waiting
      <3>3. /\ Here(p, sock[e].room)' /\ sock'[c].at # "walks" => p \in sock'[e].shows
            /\ p \in sock'[e].shows => Here(p, sock[e].room)' \/ (p \in sock[e].shows /\ ~Here(p, sock[e].room))
        BY <2>1, <2>3, <3>1 DEF WalkIsTold
      <3>4. p \in sock[e].shows => Here(p, sock[e].room)
        BY <2>2, <2>3, <3>2 DEF InStep
      <3>5. online'[p] = c
        BY <1>3, <3>1 DEF Seated
      <3> QED BY <2>1, <2>3, <3>3, <3>4, <3>5 DEF InStep
    <2>4. CASE q # p
      <3>1. Going(q, sock[e].room) => Going(q, sock[e].room)'
        <4> SUFFICES ASSUME NEW d \in Sockets, Owner(d) = q, sock[d].at = "replace", sock[sock[d].prev].room = sock[e].room
                     PROVE  sock'[d].at = "replace" /\ sock'[sock'[d].prev].room = sock[e].room
          BY <2>1 DEF Going
        <4>1. sock[d].prev \in Sockets \ {c} /\ d # c
          BY <1>5, <2>4 DEF Inv, Seats
        <4> QED BY <1>2, <4>1
      <3>2. online[q] # Nobody => online[q] \in Sockets \ {c}
        BY <1>6, <2>4
      <3>3. online[q] # Nobody => sock'[online[q]].room = sock[online[q]].room /\ sock'[online[q]].at = sock[online[q]].at
        BY <1>2, <3>2
      <3>4. q \in sock'[e].shows <=> q \in sock[e].shows
        <4>1. sock'[e].shows \ {p} = sock[e].shows \ {p}
          BY <2>1 DEF WalksOn
        <4> QED BY <2>4, <4>1
      <3> QED BY <1>3, <2>1, <2>2, <3>1, <3>3, <3>4 DEF InStep, Here
    <2> QED BY <2>3, <2>4
  <1> QED BY <1>1, <1>3, <1>7, <1>8, <1>9, <1>10 DEF Inv, Typed

LEMMA WalkPreserves == ASSUME Inv, NEW c \in Sockets, Walk(c) PROVE Inv'
  <1> DEFINE p == Owner(c)
             so == [sock EXCEPT ![c].room = sock[c].goal, ![c].goal = Base, ![c].at = "walks"]
  <1>0. /\ p \in Players /\ c # Nobody /\ sock[c].at = "checks" /\ UNCHANGED <<online, open, token, raced>>
        /\ sock \in [Sockets -> HandlerType] /\ sock[c] \in HandlerType /\ online \in Seating
    BY OwnerType DEF Walk, Inv, Typed
  <1>1. CASE sock[c].goal = sock[c].room
    <2>1. sock' = [sock EXCEPT ![c].room = sock[c].goal, ![c].goal = Base, ![c].at = "walked"] /\ stale' = stale
      BY <1>1 DEF Walk
    <2>2. sock'[c] = [sock[c] EXCEPT !.room = sock[c].goal, !.goal = Base, !.at = "walked"] /\ \A e \in Sockets \ {c} : sock'[e] = sock[e]
      BY <1>0, <2>1
    <2>3. sock'[c] \in HandlerType /\ sock'[c].at = "walked" /\ sock'[c].room = sock[c].room /\ sock'[c].prev = sock[c].prev
          /\ sock'[c].cred = sock[c].cred /\ sock'[c].knows = sock[c].knows /\ sock'[c].shows = sock[c].shows
      BY <1>0, <1>1, <2>2, PresenceAssumption DEF HandlerType, Live
    <2>4. sock' \in [Sockets -> HandlerType]
      BY <1>0, <2>1, <2>2, <2>3
    <2>5. Stays(c, "walked")
      BY <1>0, <2>2, <2>3, <2>4 DEF Stays
    <2> QED BY <1>0, <2>1, <2>5, StayPreserves
  <1>2. CASE sock[c].goal # sock[c].room
    <2>1. sock' = Left(online, so, p, sock[c].room)
      BY <1>2 DEF Walk
    <2>2. stale \subseteq stale' /\ (~Seated(c) => p \in stale')
      BY <1>2 DEF Walk, GoneOn
    <2>3. so[c] = [sock[c] EXCEPT !.room = sock[c].goal, !.goal = Base, !.at = "walks"] /\ \A e \in Sockets \ {c} : so[e] = sock[e]
      BY <1>0
    <2>4. so[c] \in HandlerType /\ so[c].at = "walks" /\ so[c].room = sock[c].goal /\ so[c].prev = sock[c].prev
          /\ so[c].cred = sock[c].cred /\ so[c].knows = sock[c].knows
      BY <1>0, <2>3, PresenceAssumption DEF HandlerType, Live
    <2>5. so \in [Sockets -> HandlerType]
      BY <1>0, <2>3, <2>4
    <2> HIDE DEF so
    <2>6. /\ Keeps(so, sock')
          /\ \A e \in Sockets : sock'[e].shows = IF so[e].knows /\ online[Owner(e)] = e /\ so[e].room = sock[c].room
                                                 THEN so[e].shows \ {p} ELSE so[e].shows
      BY <1>0, <2>1, <2>5, LeftFields
    <2>7. /\ sock' \in [Sockets -> HandlerType] /\ sock'[c].at = "walks" /\ sock'[c].room = sock[c].goal
          /\ sock'[c].prev = sock[c].prev /\ sock'[c].cred = sock[c].cred /\ sock'[c].knows = sock[c].knows
          /\ \A e \in Sockets \ {c} : /\ sock'[e].at = sock[e].at /\ sock'[e].room = sock[e].room /\ sock'[e].prev = sock[e].prev
                                      /\ sock'[e].cred = sock[e].cred /\ sock'[e].knows = sock[e].knows
      <3>1. Keeps(so, sock')
        BY <2>6
      <3>2. sock' \in [Sockets -> HandlerType]
        BY <3>1 DEF Keeps
      <3>3. \A e \in Sockets : /\ sock'[e].at = so[e].at /\ sock'[e].room = so[e].room /\ sock'[e].prev = so[e].prev
                               /\ sock'[e].cred = so[e].cred /\ sock'[e].knows = so[e].knows
        BY <3>1 DEF Keeps
      <3>4. \A e \in Sockets \ {c} : /\ sock'[e].at = sock[e].at /\ sock'[e].room = sock[e].room /\ sock'[e].prev = sock[e].prev
                                     /\ sock'[e].cred = sock[e].cred /\ sock'[e].knows = sock[e].knows
        BY <2>3, <3>3
      <3>5. /\ sock'[c].at = so[c].at /\ sock'[c].room = so[c].room /\ sock'[c].prev = so[c].prev
           /\ sock'[c].cred = so[c].cred /\ sock'[c].knows = so[c].knows
        BY <3>3
      <3> QED BY <2>4, <3>2, <3>4, <3>5
    <2>8. \A e \in Sockets \ {c} : sock'[e].shows = IF sock[e].knows /\ online[Owner(e)] = e /\ sock[e].room = sock[c].room
                                                    THEN sock[e].shows \ {p} ELSE sock[e].shows
      BY <2>3, <2>6
    <2>9. sock[c].prev = Nobody
      BY <1>0 DEF Inv, Seats
    <2>10. WalksOn(c)
      BY <1>0, <2>2, <2>7, <2>8, <2>9 DEF WalksOn
    <2>11. WalkIsTold(c)
      <3> SUFFICES ASSUME NEW e \in Sockets \ {c}, Shown(e), Seated(c), Owner(e) # p, p \in sock'[e].shows
                   PROVE  p \in sock[e].shows /\ ~Here(p, sock[e].room)
        BY <2>7 DEF WalkIsTold
      <3>1. sock[e].knows /\ online[Owner(e)] = e /\ online[p] = c
        BY DEF Shown, Watching, Seated
      <3>2. sock[e].room # sock[c].room /\ sock'[e].shows = sock[e].shows
        BY <2>8, <3>1
      <3> QED BY <3>1, <3>2 DEF Here
    <2> QED BY <2>10, <2>11, WalksOnPreserves
  <1> QED BY <1>1, <1>2

LEMMA AppearPreserves == ASSUME Inv, NEW c \in Sockets, Appear(c) PROVE Inv'
  <1> DEFINE p == Owner(c)
             so == At(c, "walked")
  <1>0. /\ p \in Players /\ c # Nobody /\ sock[c].at = "walks" /\ UNCHANGED <<online, open, token, raced>>
        /\ sock \in [Sockets -> HandlerType] /\ sock[c] \in HandlerType /\ online \in Seating
    BY OwnerType DEF Appear, Inv, Typed
  <1>1. sock' = Joined(online, so, p, sock[c].room)
    BY DEF Appear
  <1>2. stale \subseteq stale' /\ (~Seated(c) => p \in stale')
    BY DEF Appear, GoneOn
  <1>3. so[c] = [sock[c] EXCEPT !.at = "walked"] /\ \A e \in Sockets \ {c} : so[e] = sock[e]
    BY <1>0 DEF At
  <1>4. so[c] \in HandlerType /\ so[c].at = "walked" /\ so[c].room = sock[c].room /\ so[c].prev = sock[c].prev
        /\ so[c].cred = sock[c].cred /\ so[c].knows = sock[c].knows
    BY <1>0, <1>3 DEF HandlerType, Live
  <1>5. so \in [Sockets -> HandlerType]
    BY <1>0, <1>3, <1>4 DEF At
  <1> HIDE DEF so
  <1>6. /\ Keeps(so, sock')
        /\ \A e \in Sockets : sock'[e].shows = IF so[e].knows /\ online[Owner(e)] = e /\ so[e].room = sock[c].room /\ Owner(e) # p
                                               THEN so[e].shows \cup {p} ELSE so[e].shows
    BY <1>0, <1>1, <1>5, JoinedFields
  <1>7. /\ sock' \in [Sockets -> HandlerType] /\ sock'[c].at = "walked" /\ sock'[c].room = sock[c].room
        /\ sock'[c].prev = sock[c].prev /\ sock'[c].cred = sock[c].cred /\ sock'[c].knows = sock[c].knows
        /\ \A e \in Sockets \ {c} : /\ sock'[e].at = sock[e].at /\ sock'[e].room = sock[e].room /\ sock'[e].prev = sock[e].prev
                                    /\ sock'[e].cred = sock[e].cred /\ sock'[e].knows = sock[e].knows
    <2>1. Keeps(so, sock')
      BY <1>6
    <2>2. sock' \in [Sockets -> HandlerType]
      BY <2>1 DEF Keeps
    <2>3. \A e \in Sockets : /\ sock'[e].at = so[e].at /\ sock'[e].room = so[e].room /\ sock'[e].prev = so[e].prev
                             /\ sock'[e].cred = so[e].cred /\ sock'[e].knows = so[e].knows
      BY <2>1 DEF Keeps
    <2>4. \A e \in Sockets \ {c} : /\ sock'[e].at = sock[e].at /\ sock'[e].room = sock[e].room /\ sock'[e].prev = sock[e].prev
                                   /\ sock'[e].cred = sock[e].cred /\ sock'[e].knows = sock[e].knows
      BY <1>3, <2>3
    <2>5. /\ sock'[c].at = so[c].at /\ sock'[c].room = so[c].room /\ sock'[c].prev = so[c].prev
         /\ sock'[c].cred = so[c].cred /\ sock'[c].knows = so[c].knows
      BY <2>3
    <2> QED BY <1>4, <2>2, <2>4, <2>5
  <1>8. \A e \in Sockets \ {c} : sock'[e].shows = IF sock[e].knows /\ online[Owner(e)] = e /\ sock[e].room = sock[c].room /\ Owner(e) # p
                                                  THEN sock[e].shows \cup {p} ELSE sock[e].shows
    BY <1>3, <1>6
  <1>9. sock[c].prev = Nobody
    BY <1>0 DEF Inv, Seats
  <1>10. WalksOn(c)
    BY <1>0, <1>2, <1>7, <1>8, <1>9 DEF WalksOn
  <1>11. WalkIsTold(c)
    <2> SUFFICES ASSUME NEW e \in Sockets \ {c}, Shown(e), Seated(c), Owner(e) # p
                 PROVE  /\ Here(p, sock[e].room)' => p \in sock'[e].shows
                        /\ p \in sock'[e].shows => Here(p, sock[e].room)' \/ (p \in sock[e].shows /\ ~Here(p, sock[e].room))
      BY DEF WalkIsTold
    <2>1. sock[e].knows /\ online[Owner(e)] = e /\ online[p] = c /\ online'[p] = c
      BY <1>0 DEF Shown, Watching, Seated
    <2>2. sock'[e].shows = IF sock[e].room = sock[c].room THEN sock[e].shows \cup {p} ELSE sock[e].shows
      BY <1>8, <2>1
    <2>3. /\ Here(p, sock[e].room)' <=> sock[e].room = sock[c].room
          /\ Here(p, sock[e].room) <=> sock[e].room = sock[c].room
      BY <1>0, <1>7, <2>1 DEF Here
    <2> QED BY <2>2, <2>3
  <1> QED BY <1>10, <1>11, WalksOnPreserves

LEMMA EnteredPreserves == ASSUME Inv, NEW c \in Sockets, Entered(c) PROVE Inv'
  <1> DEFINE there == Present(online, sock, sock[c].room) \ {Owner(c)}
  <1>0. sock[c].at = "walked" /\ UNCHANGED <<online, open, token, raced, stale>>
        /\ sock \in [Sockets -> HandlerType] /\ sock[c] \in HandlerType /\ there \subseteq Players
    BY DEF Entered, Inv, Typed, Present
  <1>1. sock'[c] = [sock[c] EXCEPT !.at = "loop", !.knows = TRUE, !.shows = there]
        /\ \A e \in Sockets \ {c} : sock'[e] = sock[e]
    BY <1>0 DEF Entered
  <1>2. \A q \in Players : q \in there <=> q # Owner(c) /\ Here(q, sock[c].room)
    BY DEF Present, Here
  <1> HIDE DEF there
  <1>3. sock'[c] \in HandlerType /\ sock'[c].at = "loop" /\ sock'[c].room = sock[c].room /\ sock'[c].prev = sock[c].prev
        /\ sock'[c].cred = sock[c].cred /\ sock'[c].knows = TRUE /\ sock'[c].shows = there
    BY <1>0, <1>1 DEF HandlerType, Live
  <1>4. sock' \in [Sockets -> HandlerType]
    BY <1>0, <1>1, <1>3 DEF Entered
  <1>5. \A e \in Sockets : /\ sock'[e].at = (IF e = c THEN "loop" ELSE sock[e].at)
                           /\ sock'[e].room = sock[e].room /\ sock'[e].prev = sock[e].prev /\ sock'[e].cred = sock[e].cred
    BY <1>1, <1>3
  <1>6. \A q \in Players : online[q] # Nobody => online[q] \in Sockets
    BY DEF Inv, Typed, Seating
  <1>7. \A e \in Sockets : /\ sock'[e].at \in Live <=> sock[e].at \in Live
                           /\ sock'[e].at = "replace" <=> sock[e].at = "replace"
                           /\ sock'[e].at \in Waiting <=> sock[e].at \in Waiting
    BY <1>0, <1>5 DEF Live, Waiting
  <1>8. Seats'
    <2>1. \A q \in Players : online'[q] # Nobody => sock'[online'[q]].at \in Live
      BY <1>0, <1>6, <1>7 DEF Inv, Seats
    <2>2. ASSUME NEW e \in Sockets
          PROVE  /\ sock'[e].at \notin Live => ~sock'[e].knows
                 /\ sock'[e].at \in {"hello"} \cup Waiting => sock'[e].room = Base
                 /\ IF sock'[e].at = "replace" THEN sock'[e].prev \in Sockets /\ Owner(sock'[e].prev) = Owner(e)
                                              ELSE sock'[e].prev = Nobody
      <3>1. CASE e = c
        BY <1>0, <1>3, <3>1 DEF Inv, Seats, Live, Waiting
      <3>2. CASE e # c
        BY <1>1, <3>2 DEF Inv, Seats
      <3> QED BY <3>1, <3>2
    <2>3. ASSUME NEW e \in Sockets, sock'[e].at \in Waiting, Owner(e) \notin raced'
          PROVE  online'[Owner(e)] = Nobody /\ \A d \in Sockets : Owner(d) = Owner(e) /\ sock'[d].at \in Waiting => d = e
      BY <1>0, <1>7, <2>3 DEF Inv, Seats
    <2> QED BY <2>1, <2>2, <2>3 DEF Seats
  <1>9. Tokens'
    BY <1>0, <1>5 DEF Inv, Tokens
  <1>10. Ghosts'
    <2> SUFFICES ASSUME NEW e \in Sockets, sock'[e].at \in Live, e \in open' PROVE Seated(e)' \/ Owner(e) \in raced' \/ Closing(e)'
      BY DEF Ghosts
    <2>1. Closing(e) => Closing(e)'
      BY <1>5, <1>7 DEF Closing
    <2> QED BY <1>0, <1>7, <2>1 DEF Inv, Ghosts, Seated
  <1>11. Shows'
    <2> SUFFICES ASSUME NEW e \in Sockets, Shown(e)', NEW q \in Players \ (raced' \cup stale' \cup {Owner(e)}) PROVE InStep(e, q)'
      BY DEF Shows
    <2>1. Going(q, sock[e].room) => Going(q, sock[e].room)'
      <3> SUFFICES ASSUME NEW d \in Sockets, Owner(d) = q, sock[d].at = "replace", sock[sock[d].prev].room = sock[e].room
                   PROVE  sock'[d].at = "replace" /\ sock'[sock'[d].prev].room = sock[e].room
        BY <1>5 DEF Going
      <3>1. sock[d].prev \in Sockets
        BY DEF Inv, Seats
      <3> QED BY <1>5, <1>7, <3>1
    <2>2. Here(q, sock[e].room)' <=> Here(q, sock[e].room)
      BY <1>0, <1>5, <1>6 DEF Here
    <2>3. CASE e = c
      BY <1>2, <1>3, <2>2, <2>3 DEF InStep
    <2>4. CASE e # c
      <3>1. Shown(e) /\ sock'[e] = sock[e]
        BY <1>0, <1>1, <2>4 DEF Shown, Watching, Seated
      <3>2. InStep(e, q)
        BY <1>0, <3>1 DEF Inv, Shows
      <3>3. online[q] # Nobody /\ sock'[online[q]].at # "walks" => sock[online[q]].at # "walks"
        BY <1>0, <1>5, <1>6
      <3> QED BY <1>0, <2>1, <2>2, <3>1, <3>2, <3>3 DEF InStep, Here
    <2> QED BY <2>3, <2>4
  <1> QED BY <1>0, <1>4, <1>8, <1>9, <1>10, <1>11 DEF Inv, Typed

-----------------------------------------------------------------------------
(* Tokens, and the sockets that close by themselves. *)

\* Nobody moves; sockets may be closed, and the tokens stay in order.
LEMMA StillPreserves ==
  ASSUME Inv, UNCHANGED <<online, sock, raced, stale>>, open' \subseteq open, Typed', Tokens'
  PROVE  Inv'
  <1>1. Seats' /\ Shows'
    BY DEF Inv, Seats, Shows, Shown, Watching, Seated, InStep, Here, Going
  <1>2. Ghosts'
    BY DEF Inv, Ghosts, Closing, Seated
  <1> QED BY <1>1, <1>2 DEF Inv

\* The token of one player changes; the sockets opened so far have older ones.
LEMMA TokenStep ==
  ASSUME Inv, NEW p \in Players, NEW t \in TokenType,
         token' = [token EXCEPT ![p] = t], sock' = sock, online' = online,
         t.held <= t.db, t.at # "no" => t.held < t.db, token[p].held <= t.held
  PROVE  Typed' /\ Tokens'
  <1>1. token' \in [Players -> TokenType]
        /\ \A q \in Players : token'[q] = IF q = p THEN t ELSE token[q]
    BY DEF Inv, Typed
  <1>2. Typed'
    BY <1>1 DEF Inv, Typed
  <1>3. \A q \in Players : token'[q].held <= token'[q].db /\ (token'[q].at # "no" => token'[q].held < token'[q].db)
    BY <1>1 DEF Inv, Tokens
  <1>4. ASSUME NEW c \in Sockets PROVE sock'[c].cred <= token'[Owner(c)].held
    <2>1. sock[c].cred \in Nat /\ token[Owner(c)].held \in Nat /\ token'[Owner(c)].held \in Nat
          /\ sock[c].cred <= token[Owner(c)].held
      BY <1>1, OwnerType DEF Inv, Typed, HandlerType, Tokens, TokenType
    <2>2. token[Owner(c)].held <= token'[Owner(c)].held
      BY <1>1, <2>1, OwnerType
    <2> QED BY <2>1, <2>2
  <1> QED BY <1>2, <1>3, <1>4 DEF Tokens

LEMMA TokenHandlersPreserve == ASSUME Inv, NEW p \in Players, Rotate(p) \/ QueueKick(p) \/ Answer(p) PROVE Inv'
  <1>0. /\ UNCHANGED <<online, sock, open, raced, stale>> /\ token[p] \in TokenType
        /\ token[p].held <= token[p].db /\ (token[p].at # "no" => token[p].held < token[p].db)
    BY DEF Rotate, QueueKick, Answer, Inv, Typed, Tokens
  <1>1. CASE Rotate(p)
    <2> DEFINE t == [token[p] EXCEPT !.db = @ + 1, !.at = "committed"]
    <2>1. token[p].db \in Nat /\ token[p].held \in Nat /\ token[p].db + 1 \in Nat
      BY <1>0 DEF TokenType
    <2>2. t \in TokenType /\ t.held = token[p].held /\ t.db = token[p].db + 1
      BY <1>0, <2>1 DEF TokenType
    <2>3. t \in TokenType /\ t.held <= t.db /\ t.held < t.db /\ token[p].held <= t.held
      BY <1>0, <2>1, <2>2
    <2>4. token' = [token EXCEPT ![p] = t]
      BY <1>1 DEF Rotate, Inv, Typed
    <2> HIDE DEF t
    <2>5. Typed' /\ Tokens'
      BY <1>0, <2>3, <2>4, TokenStep
    <2> QED BY <1>0, <2>5, StillPreserves
  <1>2. CASE QueueKick(p)
    <2> DEFINE t == [token[p] EXCEPT !.at = IF online[p] # Nobody THEN "kick" ELSE "answer"]
    <2>1. t \in TokenType /\ t.held <= t.db /\ t.held < t.db /\ token[p].held <= t.held
      BY <1>0, <1>2 DEF QueueKick, TokenType
    <2>2. token' = [token EXCEPT ![p] = t]
      BY <1>2 DEF QueueKick, Inv, Typed
    <2> HIDE DEF t
    <2>3. Typed' /\ Tokens'
      BY <1>0, <2>1, <2>2, TokenStep
    <2> QED BY <1>0, <2>3, StillPreserves
  <1>3. CASE Answer(p)
    <2> DEFINE t == [token[p] EXCEPT !.held = token[p].db, !.at = "no"]
    <2>1. token[p].db \in Nat /\ token[p].held \in Nat
      BY <1>0 DEF TokenType
    <2>2. t \in TokenType /\ t.held = token[p].db /\ t.db = token[p].db /\ t.at = "no"
      BY <1>0, <2>1 DEF TokenType
    <2>3. t \in TokenType /\ t.held <= t.db /\ t.at = "no" /\ token[p].held <= t.held
      BY <1>0, <2>1, <2>2
    <2>4. token' = [token EXCEPT ![p] = t]
      BY <1>3 DEF Answer, Inv, Typed
    <2> HIDE DEF t
    <2>5. Typed' /\ Tokens'
      BY <1>0, <2>3, <2>4, TokenStep
    <2> QED BY <1>0, <2>5, StillPreserves
  <1> QED BY <1>1, <1>2, <1>3

LEMMA KickPreserves == ASSUME Inv, NEW p \in Players, Kick(p) PROVE Inv'
  <1> DEFINE c == online[p]
             t == [token[p] EXCEPT !.at = IF token[p].held = token[p].db THEN "no" ELSE "answer"]
  <1>0. /\ token[p] \in TokenType /\ token[p].at = "kick"
        /\ token[p].held < token[p].db /\ UNCHANGED <<raced, stale>>
    BY DEF Kick, Inv, Typed, Tokens
  <1>1. t \in TokenType /\ t.held = token[p].held /\ t.db = token[p].db
    BY <1>0 DEF TokenType
  <1>2. token' = [token EXCEPT ![p] = t]
    BY DEF Kick, Inv, Typed
  <1> HIDE DEF t
  <1>3. /\ token' \in [Players -> TokenType]
        /\ \A q \in Players : /\ token'[q].held = token[q].held /\ token'[q].db = token[q].db
                              /\ token'[q].held \in Nat /\ token'[q].db \in Nat /\ token'[q].held <= token'[q].db
                              /\ token'[q].at # "no" => token'[q].held < token'[q].db
    BY <1>0, <1>1, <1>2 DEF Inv, Typed, Tokens, TokenType
  <1>4. CASE c = Nobody
    <2>1. UNCHANGED <<online, sock, open>>
      BY <1>4 DEF Kick
    <2>2. Typed' /\ Tokens'
      BY <1>3, <2>1, OwnerType DEF Inv, Typed, Tokens
    <2> QED BY <1>0, <2>1, <2>2, StillPreserves
  <1>5. CASE c # Nobody
    <2>1. c \in Sockets /\ open' = open \ {c} /\ Leave(c, sock) /\ LeavesAs(c, sock)
      BY <1>5 DEF Kick, LeavesAs, Inv, Typed, Seating, HandlerType
    <2>2. online' \in Seating /\ sock' \in [Sockets -> HandlerType] /\ Seats' /\ Ghosts' /\ Shows' /\ \A e \in Sockets : sock'[e].cred <= sock[e].cred
      BY <1>0, <2>1, LeavePreserves
    <2>3. \A e \in Sockets : sock'[e].cred \in Nat /\ sock[e].cred \in Nat
      BY <2>2 DEF Inv, Typed, HandlerType
    <2>4. Tokens'
      BY <1>3, <2>2, <2>3, OwnerType DEF Inv, Tokens
    <2> QED BY <1>3, <2>2, <2>4 DEF Inv, Typed
  <1> QED BY <1>4, <1>5

-----------------------------------------------------------------------------
(* The theorems. *)

LEMMA InitInv == Init => Inv
  <1> SUFFICES ASSUME Init PROVE Inv
    OBVIOUS
  <1>1. /\ \A c \in Sockets : sock[c] = NewSocket
        /\ \A p \in Players : online[p] = Nobody
        /\ online \in Seating /\ sock \in [Sockets -> HandlerType]
    BY NewSocketType DEF Init, Seating
  <1>2. token \in [Players -> TokenType]
        /\ \A p \in Players : token[p].held = 0 /\ token[p].db = 0 /\ token[p].at = "no"
    BY DEF Init, TokenType
  <1>3. Typed
    BY <1>1, <1>2 DEF Typed
  <1>4. Seats
    BY <1>1, NewSocketType DEF Seats, Live, Waiting
  <1>5. Tokens
    BY <1>1, <1>2, NewSocketType, OwnerType DEF Tokens
  <1>6. Ghosts
    BY <1>1, NewSocketType DEF Ghosts, Live
  <1>7. Shows
    BY <1>1, OwnerType DEF Shows, Shown, Watching, Seated
  <1> QED BY <1>3, <1>4, <1>5, <1>6, <1>7 DEF Inv

LEMMA NextInv == Inv /\ [Next]_vars => Inv'
  <1> SUFFICES ASSUME Inv, [Next]_vars PROVE Inv'
    OBVIOUS
  <1>1. ASSUME NEW c \in Sockets, Hello(c) PROVE Inv'
    BY <1>1, HelloPreserves
  <1>2. ASSUME NEW c \in Sockets, Handler(c) PROVE Inv'
    BY <1>2, JoinPreserves, ReplacePreserves, TakeSeatPreserves, RefusePreserves, WalkPreserves, AppearPreserves,
       EnteredPreserves, FinishPreserves, DropPreserves DEF Handler
  <1>3. ASSUME NEW c \in Sockets, NEW place \in Places, Enter(c, place) PROVE Inv'
    BY <1>3, EnterPreserves
  <1>4. ASSUME NEW c \in Sockets, Stall(c) \/ Hangup(c) PROVE Inv'
    <2>1. UNCHANGED <<online, sock, token, raced, stale>> /\ open' \subseteq open
      BY <1>4 DEF Stall, Hangup
    <2>2. Typed' /\ Tokens'
      BY <2>1 DEF Inv, Typed, Tokens
    <2> QED BY <2>1, <2>2, StillPreserves
  <1>5. ASSUME NEW p \in Players, Rotate(p) \/ QueueKick(p) \/ Answer(p) PROVE Inv'
    BY <1>5, TokenHandlersPreserve
  <1>6. ASSUME NEW p \in Players, Kick(p) PROVE Inv'
    BY <1>6, KickPreserves
  <1>7. CASE UNCHANGED vars
    <2>1. UNCHANGED <<online, sock, token, raced, stale>> /\ open' \subseteq open
      BY <1>7 DEF vars
    <2>2. Typed' /\ Tokens'
      BY <2>1 DEF Inv, Typed, Tokens
    <2> QED BY <2>1, <2>2, StillPreserves
  <1> QED BY <1>1, <1>2, <1>3, <1>4, <1>5, <1>6, <1>7 DEF Next

\* Hub.join, Hub.leave, move_room and the drop of a broadcast always leave everybody where the properties
\* need them, however the handlers of the sockets interleave.
THEOREM HubInvariant == Spec => []Inv
  BY InitInv, NextInv, PTL DEF Spec

LEMMA QuietShows == Inv => ShowsTheRoom
  <1> SUFFICES ASSUME Inv, Quiet, NEW c \in Sockets, Watching(c), NEW p \in Players \ (raced \cup stale \cup {Owner(c)})
               PROVE  p \in sock[c].shows <=> p \in Present(online, sock, sock[c].room)
    BY DEF ShowsTheRoom
  <1>1. \A e \in Sockets : sock[e].at \in {"new", "loop"}
    BY DEF Quiet
  <1>2. \A q \in Players : online[q] # Nobody => online[q] \in Sockets /\ sock[online[q]].at # "walks"
    BY <1>1 DEF Inv, Typed, Seating
  <1>3. \A place : ~Going(p, place)
    BY <1>1 DEF Going
  <1>4. Shown(c)
    BY <1>1 DEF Shown, Watching, Inv, Seats, Live
  <1>5. InStep(c, p)
    BY <1>4 DEF Inv, Shows
  <1> QED BY <1>2, <1>3, <1>5 DEF InStep, Here, Present

LEMMA QuietSeats == Inv => NoGhostSocket
  <1> SUFFICES ASSUME Inv, Quiet, NEW c \in Sockets, sock[c].at = "loop" PROVE Seated(c) \/ Owner(c) \in raced
    BY DEF NoGhostSocket
  <1>1. c \in open /\ ~Closing(c)
    BY DEF Quiet, Closing
  <1> QED BY <1>1 DEF Inv, Ghosts, Live

LEMMA KickStep == Inv => KickSparesTheNew
  <1> SUFFICES ASSUME Inv, NEW p \in Players, token[p].at = "kick", online[p] # Nobody
               PROVE  sock[online[p]].cred # token[p].db
    BY DEF KickSparesTheNew
  <1>1. online[p] \in Sockets /\ Owner(online[p]) = p
    BY DEF Inv, Typed, Seating
  <1>2. sock[online[p]].cred <= token[p].held /\ token[p].held < token[p].db
    BY <1>1 DEF Inv, Tokens
  <1>3. sock[online[p]].cred \in Nat /\ token[p].held \in Nat /\ token[p].db \in Nat
    BY <1>1 DEF Inv, Typed, HandlerType, TokenType
  <1> QED BY <1>2, <1>3

\* Once everything is quiet, what a client shows of its room is who the hub has there.
THEOREM RoomsAreShown == Spec => []ShowsTheRoom
  BY HubInvariant, QuietShows, PTL

\* kick_threadsafe and the drops close the socket they are about: no session is left running outside the
\* hub, and no kick ends a session opened with the token it announces.
THEOREM SeatsAreKept == Spec => SeatsAreRight
  <1>1. Inv /\ Inv' /\ [Next]_vars => [KickSparesTheNew /\ NoGhostSocket']_vars
    <2>1. Inv' => NoGhostSocket'
      BY QuietSeats, PTL
    <2> QED BY <2>1, KickStep
  <1> QED BY <1>1, HubInvariant, PTL DEF Spec, SeatsAreRight
=============================================================================
