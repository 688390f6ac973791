----------------------------- MODULE TrainViews ------------------------------
(***************************************************************************)
(* Who is told what of a running game: the role projections of             *)
(* server/app/train/views.py and the messages game.py sends to the sockets *)
(* of train/ws.py.  The rules are TrainEngine's; here every call of the    *)
(* engine is followed by what the handler around it sends.  Two secrets    *)
(* matter: what the hunters have ordered, which the fugitive has to pay a  *)
(* ping for, and where the fugitive walked, which is the admin's.          *)
(*                                                                         *)
(* A message is what it tells: whose order of this round, the fugitive's   *)
(* path, the AI fugitive's reasoning ("plan").  send_each builds every     *)
(* message before it sends the first, and a socket that stalls is closed,  *)
(* so a push is one step.  An order to wait and no order of the fugitive   *)
(* are one, as in TrainEngine; the resolution that follows the last order  *)
(* (TrainSession) is a step of its own.                                    *)
(***************************************************************************)
EXTENDS TrainEngine

CONSTANT Strangers  \* those with a socket who do not ride

VARIABLES
  admin,        \* admin_id
  fugitiveAi,   \* policy.fugitive_ai: an AI plays the fugitive
  bots,         \* the AI hunters of the crew
  reveal,       \* policy.reveal_path
  reasons,      \* the AI hunters with a reason of this round in bot_reasons
  known,        \* whose order of this round the fugitive's view has shown
  told          \* viewer -> what else it was told, of {"path", "plan"}

roleVars == <<admin, fugitiveAi, bots>>
viewVars == <<engineVars, roleVars, reveal, reasons, known, told>>

Humans == Hunters \ bots
Viewers == Humans \cup Strangers

-----------------------------------------------------------------------------
(* The projections. *)

\* role_of: the admin has the fugitive's view, unless an AI plays the fugitive
\* and the admin rides as a hunter.
RoleOf(v) ==
  IF v = admin /\ ~(fugitiveAi /\ v \in Hunters) THEN "fugitive"
  ELSE IF v \in Hunters THEN "hunter" ELSE "spectator"
FugitiveWatches == \E v \in Viewers : RoleOf(v) = "fugitive"
Learn(orders) == IF FugitiveWatches THEN orders ELSE {}

\* (for a mutant: only the position history stays with the admin)
PathLeftIn(rep) == rep
\* public_report takes the path out of the playback.
PublicReport(rep) == [f \in DOMAIN rep \ {"path"} |-> rep[f]]
Tells(rep) == {"path"} \cap DOMAIN rep

\* fugitive_payload: the hunters' orders once he has pinged, the AI hunters'
\* reasons, which name the order, at once.
OrdersShown == {h \in Hunters : horder[h] # NoOrder /\ pinged = round}
FugitivePayload == OrdersShown \cup reasons

\* _base: the last report and, once the chase is over and the admin says so,
\* the route; _payload: the reasoning of every AI once the chase is over.
Route == IF status = "CAPTURED" /\ reveal THEN {"path"} ELSE {}
AiLog == IF status = "CAPTURED" /\ fugitiveAi THEN {"plan"} ELSE {}
PayloadFor(v) ==
  Route \cup AiLog \cup
    IF RoleOf(v) = "fugitive" THEN Tells(report) \cup {"plan"} ELSE Tells(PublicReport(report))

-----------------------------------------------------------------------------
(* What a handler sends. *)

\* _push_state: everybody's own payload.
PushState ==
  /\ known' = Learn(known \cup FugitivePayload')
  /\ told' = [v \in Viewers |-> told[v] \cup PayloadFor(v)']

\* _push_submitted: the order to all but the fugitive, who gets it after a ping.
Submitted(h) == IF pinged = round THEN Learn(known \cup {h}) ELSE known

HunterSubmits(h, type, target) ==
  /\ h \in Humans /\ SubmitHunterOrder(h, type, target)
  /\ known' = Submitted(h)
  /\ UNCHANGED <<roleVars, reveal, reasons, told>>

CancelHunterOrder(h) ==
  /\ status = "ROUND_OPEN" /\ h \in Humans
  /\ horder' = [horder EXCEPT ![h] = NoOrder]
  /\ known' = known \ {h}
  /\ UNCHANGED <<config, status, round, hroom, dazed, fugVars, fieldVars, history, report,
                 roleVars, reveal, reasons, told>>

\* _run_bot_turn: an AI hunter without an order decides, its reason goes to the
\* fugitive's view, and then the order as everybody's does.
BotSubmits(h, type, target) ==
  /\ h \in bots /\ horder[h] = NoOrder /\ SubmitHunterOrder(h, type, target)
  /\ reasons' = reasons \cup {h}
  /\ known' = Learn(known \cup {h})
  /\ UNCHANGED <<roleVars, reveal, told>>

\* fugitive_order, _run_fugitive_turn: the others learn only that he ordered;
\* the AI's reason goes to the fugitive's view.
FugitiveSubmits(move, hack, target) ==
  /\ fugitiveAi => forder = Wait
  /\ SubmitFugitiveOrder(move, hack, target)
  /\ told' = [v \in Viewers |->
                told[v] \cup IF fugitiveAi /\ RoleOf(v) = "fugitive" THEN {"plan"} ELSE {}]
  /\ UNCHANGED <<roleVars, reveal, reasons, known>>

CancelFugitiveOrder ==
  /\ status = "ROUND_OPEN" /\ ~fugitiveAi /\ forder # Wait
  /\ forder' = Wait
  /\ UNCHANGED <<config, status, round, crewVars, room, ram, trace, hidden, frozen, tracedAt,
                 pinged, fieldVars, history, report, roleVars, reveal, reasons, known, told>>

\* ping answers with every order given so far.
Ping ==
  /\ ~fugitiveAi /\ CastPing
  /\ known' = Learn(known \cup {h \in Hunters : horder[h] # NoOrder})
  /\ UNCHANGED <<roleVars, reveal, reasons, told>>

\* _resolve: the report and the log entry to the fugitive's view, the public
\* report to the others, to each with the state after it.
Resolve ==
  /\ ResolveRound
  /\ UNCHANGED <<roleVars, reveal>>
  /\ reasons' = IF status' = "CAPTURED" THEN reasons ELSE {}
  /\ known' = Learn(IF status' = "CAPTURED" THEN Hunters ELSE FugitivePayload')
  /\ told' = [v \in Viewers |->
                told[v] \cup PayloadFor(v)' \cup
                  Tells(IF RoleOf(v) = "fugitive" THEN report' ELSE PublicReport(report'))]

\* resolve_round raises before anything is sent.
ResolveFails == ResolveRaises /\ UNCHANGED <<roleVars, reveal, reasons, known, told>>

SetConfig(c) == SetEngineConfig(c) /\ UNCHANGED <<roleVars, reveal, reasons>> /\ PushState

SetReveal(on) ==
  /\ status = "CAPTURED" /\ reveal # on /\ reveal' = on
  /\ UNCHANGED <<engineVars, roleVars, reasons>>
  /\ PushState

\* state_for: a client that connects, or asks again, gets its own payload.
AsksForState(v) ==
  /\ known' = IF RoleOf(v) = "fugitive" THEN known \cup FugitivePayload ELSE known
  /\ told' = [told EXCEPT ![v] = @ \cup PayloadFor(v)]
  /\ UNCHANGED <<engineVars, roleVars, reveal, reasons>>

\* The admin of a game an AI does not flee in is not one of its hunters.
ViewsInit ==
  /\ EngineInit
  /\ fugitiveAi \in BOOLEAN /\ bots \in SUBSET Hunters
  /\ admin \in Strangers \cup (IF fugitiveAi THEN Humans ELSE {})
  /\ reveal = FALSE /\ reasons = {} /\ known = {} /\ told = [v \in Viewers |-> {}]

ViewsNext ==
  \/ \E h \in Hunters, type \in OrderTypes, target \in HunterTargets :
       HunterSubmits(h, type, target) \/ BotSubmits(h, type, target)
  \/ \E h \in Hunters : CancelHunterOrder(h)
  \/ \E move \in HunterTargets, hack \in HackTypes \cup {"none"} :
       \E target \in TargetsOf(hack) : FugitiveSubmits(move, hack, target)
  \/ CancelFugitiveOrder
  \/ Ping
  \/ Resolve
  \/ ResolveFails
  \/ \E c \in Configs : SetConfig(c)
  \/ \E on \in BOOLEAN : SetReveal(on)
  \/ \E v \in Viewers : AsksForState(v)

ViewsSpec == ViewsInit /\ [][ViewsNext]_viewVars

-----------------------------------------------------------------------------
(* Properties. *)

\* The secrets keep: until a round is reported the fugitive's view has shown a
\* human hunter's order only if the ping of this round was paid, and whoever
\* has not the fugitive's view is told nothing of his path before the capture,
\* and then only while the reveal is on; an AI's plan only after the capture.
SecretsKeep ==
  [][/\ status' # "CAPTURED" /\ known' \ bots # {} => pinged' = round'
     /\ \A v \in Viewers : RoleOf(v) # "fugitive" =>
          /\ "path" \in told'[v] \ told[v] => status' = "CAPTURED" /\ reveal'
          /\ "plan" \in told'[v] \ told[v] => status' = "CAPTURED" /\ fugitiveAi]_viewVars
=============================================================================
