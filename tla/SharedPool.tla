----------------------------- MODULE SharedPool -----------------------------
(***************************************************************************)
(* The shared pool of the room game and everything that moves its money:   *)
(* income fetched from the members' sheet (sheet.py), furniture bought,    *)
(* moved and sold (routers/room.py), catches credited and handed in        *)
(* (fish.py, mine.py, deliver.py), guests (guests.py), the restoration     *)
(* stages that read all of it (progress.py, restore.py), and the passes    *)
(* over the stored rows when the server starts (reconcile.py, seed.py).    *)
(*                                                                         *)
(* Handlers run in a thread pool and each does its work in one BEGIN       *)
(* IMMEDIATE transaction, which is one step here.  A fetch is two steps:   *)
(* the sheet is read outside any lock, and its answer is written later.    *)
(*                                                                         *)
(* Where an item stands is abstracted to its room and what it rests on: a  *)
(* placement that the geometry refuses is a step that is not taken.        *)
(***************************************************************************)
EXTENDS Integers, FiniteSets, Sequences, FiniteSetsExt, Functions

CONSTANTS
  Members,      \* nicknames the sheet may hold
  Founders,     \* those it holds from the start
  Players,      \* people who catch things
  Handlers,     \* request threads that may wait for the sheet at one time
  NoAnswer,     \* a fetcher that is not fetching
  Overlap,      \* whether two fetches may be under way at one time
  Kinds, Price, \* the catalog and its prices
  ForSale,      \* kinds the shop sells
  Fixed,        \* kinds tagged `fixed`
  Ruined,       \* kinds tagged `ruined`
  Papers,       \* the wallpaper layer, priced per column
  Small,        \* surface items, which must rest on something
  RestsOn,      \* the kinds an item of each kind may rest on
  GuestNote,    \* the kind guests leave behind
  MaxNotes,     \* MAX_GUEST_NOTES
  Rooms, Seeds, \* the rooms, and the seeded items in catalog order
  Stages,       \* the restoration stages of each room
  Loot, Value,  \* what can be caught, and what it is worth
  NightPay,     \* what guests may pay for a night
  Restarts,     \* what a restart may bring: "layout" and "seeds" are changed data files
  MaxSpan,      \* bound: columns of a wallpaper
  MaxUid,       \* bound: uids
  MaxEarned,    \* bound: what a member earns
  MaxCatches,   \* bound: catches worth money
  MaxGuestPay   \* bound: what guests pay in all

Spans == 1..MaxSpan
Uids == 1..MaxUid
Background == "background"
Fetchers == Handlers \cup {Background}
StageCount(r) == Len(Stages[r])

\* A need counts what is in `of` (items or loot) up to `want`; `ruined_zero` and `pool` count no kind.
Needs == [type : {"ruined_zero", "placed", "deliver", "pool"}, of : SUBSET (Kinds \cup Loot), want : Nat]

ASSUME PoolAssumption ==
  /\ Founders \subseteq Members /\ IsFiniteSet(Founders) /\ Background \notin Handlers
  /\ Overlap \in BOOLEAN /\ Restarts \subseteq {"layout", "seeds"}
  /\ Price \in [Kinds -> Nat] /\ Value \in [Loot -> Nat \ {0}]
  /\ ForSale \subseteq Kinds /\ Fixed \subseteq Kinds /\ Ruined \subseteq Kinds /\ ForSale \cap Ruined = {}
  /\ Papers \subseteq Kinds /\ Small \subseteq Kinds /\ GuestNote \in Small
  /\ RestsOn \in [Kinds -> SUBSET Kinds]
  /\ \A k \in Kinds : \A b \in RestsOn[k] : RestsOn[b] = {}
  /\ MaxNotes \in Nat \ {0}
  /\ Seeds \in Seq([room : Rooms, kind : Kinds \ Small])
  /\ Stages \in [Rooms -> Seq([need : SUBSET Needs, unlock : SUBSET Rooms])]
  /\ \A r \in Rooms : \A i \in 1..StageCount(r) : IsFiniteSet(Stages[r][i].need)
  /\ NightPay \subseteq Nat \ {0}
  /\ MaxSpan \in Nat \ {0} /\ MaxUid \in Nat /\ Len(Seeds) <= MaxUid /\ MaxEarned \in Nat /\ MaxCatches \in Nat /\ MaxGuestPay \in Nat

VARIABLES
  sheet,      \* what the members' sheet holds
  answers,    \* what each fetcher has read from it and not yet written
  fresh,      \* _last_fetch is recent
  snap,       \* sheet_snapshot
  items,      \* the items table
  nuid,       \* its next uid
  bought,     \* uids with a `place` row in the ledger for the price they were placed at
  paid,       \* per item: the sum of its ledger rows
  catches,    \* the `fish` and `mine` rows of the ledger
  deliveries, \* the deliveries table: the stage each delivered catch went to
  guestPay,   \* what the `guest` rows of the ledger brought in
  stage,      \* room_meta stage:<room>: stages done
  logged,     \* history: the amounts in the events table, and the first incomes, which are not logged
  up,         \* the server runs
  illegal,    \* rows that the deployed data files make illegal
  reseed      \* rooms whose stored seed hash differs from the deployed seed list

sheetVars == <<sheet, answers, fresh, snap>>
itemVars == <<items, nuid, bought, paid>>
lootVars == <<catches, deliveries, guestPay>>
processVars == <<up, illegal, reseed>>
vars == <<sheetVars, itemVars, lootVars, stage, logged, processVars>>

-----------------------------------------------------------------------------
(* Money. *)

PriceOf(it) == Price[it.kind] * it.span

\* A catch that was handed in is reversed by its `deliver` row.
Kept(s) == IF s \in DOMAIN deliveries THEN 0 ELSE Value[catches[s].loot]

Balance ==
  SumFunction(snap) - SumFunction(paid) + SumFunction([s \in DOMAIN catches |-> Kept(s)]) + guestPay

\* (for a mutant: it is enough that the pool is not empty)
CanPaySomething(price) == Balance > 0
CanPay(price) == Balance >= price

-----------------------------------------------------------------------------
(* Restoration. *)

Here(r) == {u \in DOMAIN items : items[u].room = r}
Delivered(r, i) == {s \in DOMAIN deliveries : deliveries[s] = [room |-> r, stage_idx |-> i]}

NeedMet(n, r, i) ==
  CASE n.type = "ruined_zero" -> \A u \in Here(r) : items[u].kind \notin Ruined
    [] n.type = "placed" -> Cardinality({u \in Here(r) : items[u].by = "player" /\ items[u].kind \in n.of}) >= n.want
    [] n.type = "deliver" -> Cardinality({s \in Delivered(r, i) : catches[s].loot \in n.of}) >= n.want
    [] n.type = "pool" -> Balance >= n.want

StageMet(r, i) == \A n \in Stages[r][i + 1].need : NeedMet(n, r, i)

\* The end of a transaction: each room moves on to its first stage that is not met.
AdvanceRooms ==
  \E f \in [Rooms -> 0..Max({StageCount(r) : r \in Rooms})] :
    /\ \A r \in Rooms : /\ stage[r] <= f[r] /\ f[r] <= StageCount(r)
                        /\ \A i \in stage[r]..(f[r] - 1) : StageMet(r, i)'
                        /\ f[r] < StageCount(r) => ~StageMet(r, f[r])'
    /\ stage' = f

Locked == {p \in Rooms : \E r \in Rooms : \E i \in 1..StageCount(r) : p \in Stages[r][i].unlock /\ stage[r] < i}

\* (for a mutant: a need that is met still takes deliveries)
OpenDeliverNeedsOrMet(l) ==
  {r \in Rooms : stage[r] < StageCount(r) /\ \E n \in Stages[r][stage[r] + 1].need : n.type = "deliver" /\ l \in n.of}

\* Rooms whose current stage still wants this loot.
OpenDeliverNeeds(l) ==
  {r \in Rooms : /\ stage[r] < StageCount(r)
                 /\ \E n \in Stages[r][stage[r] + 1].need :
                      n.type = "deliver" /\ l \in n.of /\ ~NeedMet(n, r, stage[r])}

-----------------------------------------------------------------------------
(* A first start on an empty database: no room has been seeded. *)

Init ==
  /\ sheet = [m \in Founders |-> 0] /\ snap = << >>
  /\ answers = [f \in Fetchers |-> NoAnswer] /\ fresh = FALSE
  /\ items = << >> /\ nuid = 1 /\ bought = {} /\ paid = [u \in Uids |-> 0]
  /\ catches = << >> /\ deliveries = << >> /\ guestPay = 0
  /\ stage = [r \in Rooms |-> 0]
  /\ logged = 0
  /\ up = FALSE /\ illegal = {} /\ reseed = Rooms

-----------------------------------------------------------------------------
(* Income: sheet.py. *)

Earn(m) ==
  /\ m \in DOMAIN sheet /\ sheet[m] < MaxEarned
  /\ sheet' = [sheet EXCEPT ![m] = @ + 1]
  /\ UNCHANGED <<answers, fresh, snap, itemVars, lootVars, stage, logged, processVars>>

CacheExpires ==
  /\ fresh /\ fresh' = FALSE
  /\ UNCHANGED <<sheet, answers, snap, itemVars, lootVars, stage, logged, processVars>>

Idle(f) == answers[f] = NoAnswer /\ (Overlap \/ \A e \in Fetchers : answers[e] = NoAnswer)

\* refresh without force: a stale snapshot is served, and one background thread fetches a new one.
Refreshed ==
  answers' = IF ~fresh /\ snap # << >> /\ Idle(Background)
               THEN [answers EXCEPT ![Background] = sheet] ELSE answers

Refresh ==
  /\ up /\ Refreshed
  /\ UNCHANGED <<sheet, fresh, snap, itemVars, lootVars, stage, logged, processVars>>

\* The first fetch and manual_sync: the request waits for the sheet.
WaitForSheet(h) ==
  /\ up /\ Idle(h)
  /\ answers' = [answers EXCEPT ![h] = sheet]
  /\ UNCHANGED <<sheet, fresh, snap, itemVars, lootVars, stage, logged, processVars>>

\* register: the sheet takes the nickname in, the cache is dropped, and the request waits for the sheet.
Register(h, m) ==
  /\ up /\ Idle(h) /\ m \in Members \ DOMAIN sheet
  /\ sheet' = [x \in DOMAIN sheet \cup {m} |-> IF x = m THEN 0 ELSE sheet[x]]
  /\ fresh' = FALSE /\ answers' = [answers EXCEPT ![h] = sheet']
  /\ UNCHANGED <<snap, itemVars, lootVars, stage, logged, processVars>>

\* The `earn` events of a new snapshot; a member it knew nothing of is not logged.
IncomeLogged(answer) ==
  SumFunction([m \in DOMAIN answer |->
    IF m \in DOMAIN snap THEN Max({answer[m] - snap[m], 0}) ELSE answer[m]])

\* (for a mutant: on_snapshot is not set)
AnswerLandsOnly(f) ==
  /\ up /\ answers[f] # NoAnswer
  /\ snap' = answers[f]
  /\ logged' = logged + IncomeLogged(answers[f])
  /\ fresh' = TRUE /\ answers' = [answers EXCEPT ![f] = NoAnswer]
  /\ UNCHANGED <<sheet, itemVars, lootVars, stage, processVars>>

\* _fetch_into: the answer replaces the snapshot, whichever answer that is.
AnswerLands(f) ==
  /\ up /\ answers[f] # NoAnswer
  /\ snap' = answers[f]
  /\ logged' = logged + IncomeLogged(answers[f])
  /\ fresh' = TRUE /\ answers' = [answers EXCEPT ![f] = NoAnswer]
  /\ UNCHANGED <<sheet, itemVars, lootVars, processVars>>
  /\ AdvanceRooms

FetchFails(f) ==
  /\ up /\ answers[f] # NoAnswer
  /\ answers' = [answers EXCEPT ![f] = NoAnswer]
  /\ UNCHANGED <<sheet, fresh, snap, itemVars, lootVars, stage, logged, processVars>>

-----------------------------------------------------------------------------
(* Rooms: routers/room.py. *)

Without(u) == [v \in DOMAIN items \ {u} |-> items[v]]
With(u, it) == [v \in DOMAIN items \cup {u} |-> IF v = u THEN it ELSE items[v]]
Charge(u, amount) == [paid EXCEPT ![u] = @ + amount]

\* What an item may rest on in a room, item u aside; 0 is the room itself.
Places(k, r, u) ==
  (IF k \in Small THEN {} ELSE {0}) \cup {p \in Here(r) \ {u} : items[p].kind \in RestsOn[k]}

SpansOf(k) == IF k \in Papers THEN Spans ELSE {1}

\* (for a mutant: a guest's note does not count)
HasChildrenOfPlayers(u) == \E v \in DOMAIN items : items[v].parent = u /\ items[v].by = "player"
HasChildren(u) == \E v \in DOMAIN items : items[v].parent = u

Place(r, k, span) ==
  /\ up /\ nuid <= MaxUid
  /\ r \notin Locked /\ k \in ForSale /\ span \in SpansOf(k)
  /\ \E p \in Places(k, r, nuid) :
       LET it == [kind |-> k, room |-> r, span |-> span, by |-> "player", parent |-> p]
       IN  /\ CanPay(PriceOf(it))
           /\ items' = With(nuid, it)
           /\ paid' = Charge(nuid, PriceOf(it))
           /\ logged' = logged - PriceOf(it)
  /\ nuid' = nuid + 1 /\ bought' = bought \cup {nuid}
  /\ Refreshed
  /\ UNCHANGED <<sheet, fresh, snap, lootVars, processVars>>
  /\ AdvanceRooms

\* Moving a wallpaper may resize it: the price difference is charged or refunded.
Move(u, span) ==
  /\ up /\ items[u].kind \notin Fixed /\ items[u].room \notin Locked /\ ~HasChildren(u)
  /\ span \in SpansOf(items[u].kind)
  /\ \E p \in Places(items[u].kind, items[u].room, u) :
       LET it == [items[u] EXCEPT !.span = span, !.parent = p]
           diff == PriceOf(it) - PriceOf(items[u])
       IN  /\ diff > 0 => CanPay(diff)
           /\ items' = With(u, it)
           /\ paid' = Charge(u, diff)
           /\ logged' = logged - diff
  /\ UNCHANGED <<sheetVars, nuid, bought, lootVars, processVars>>
  /\ AdvanceRooms

\* Selling: seeded junk was never paid for and pays out, a guest's note is worth nothing.
Remove(u) ==
  /\ up /\ items[u].kind \notin Fixed /\ ~HasChildren(u)
  /\ LET price == IF items[u].by = "$guest" THEN 0 ELSE PriceOf(items[u])
     IN  paid' = Charge(u, -price) /\ logged' = logged + price
  /\ items' = Without(u)
  /\ UNCHANGED <<sheetVars, nuid, bought, lootVars, processVars>>
  /\ AdvanceRooms

-----------------------------------------------------------------------------
(* Catches: routers/fish.py, routers/mine.py, routers/deliver.py. *)

\* A landed fish or a broken ore is credited at once.
Catch(p, l) ==
  /\ up /\ Len(catches) < MaxCatches
  /\ catches' = Append(catches, [by |-> p, loot |-> l, late |-> FALSE])
  /\ logged' = logged + Value[l]
  /\ UNCHANGED <<sheetVars, itemVars, deliveries, guestPay, processVars>>
  /\ AdvanceRooms

\* DELIVER_WINDOW_S passes.
WindowCloses(s) ==
  /\ ~catches[s].late
  /\ catches' = [catches EXCEPT ![s].late = TRUE]
  /\ UNCHANGED <<sheetVars, itemVars, deliveries, guestPay, stage, logged, processVars>>

\* Handing a catch in takes its money back; r is the room asked for, or the first that wants it.
Deliver(p, s, r) ==
  /\ up /\ catches[s].by = p /\ ~catches[s].late /\ s \notin DOMAIN deliveries
  /\ r \in OpenDeliverNeeds(catches[s].loot)
  /\ deliveries' = [t \in DOMAIN deliveries \cup {s} |->
                      IF t = s THEN [room |-> r, stage_idx |-> stage[r]] ELSE deliveries[t]]
  /\ logged' = logged - Value[catches[s].loot]
  /\ UNCHANGED <<sheetVars, itemVars, catches, guestPay, processVars>>
  /\ AdvanceRooms

-----------------------------------------------------------------------------
(* Guests: guests.py. *)

Notes(r) == {u \in Here(r) : items[u].by = "$guest"}

\* The room after a guest left a note on p: the oldest notes make way for it.
NoteLeft(r, p) ==
  LET stay == {u \in Notes(r) : Cardinality({v \in Notes(r) : v >= u}) < MaxNotes}
  IN  [v \in (DOMAIN items \ (Notes(r) \ stay)) \cup {nuid} |->
         IF v = nuid THEN [kind |-> GuestNote, room |-> r, span |-> 1, by |-> "$guest", parent |-> p] ELSE items[v]]

\* A settled night in an open room: money, and a note if there is a free place for one.
GuestNight(r, pay) ==
  /\ up /\ r \notin Locked /\ guestPay + pay <= MaxGuestPay
  /\ guestPay' = guestPay + pay /\ logged' = logged + pay
  /\ \/ UNCHANGED <<items, nuid>>
     \/ /\ nuid <= MaxUid /\ nuid' = nuid + 1
        /\ \E p \in Places(GuestNote, r, nuid) : items' = NoteLeft(r, p)
  /\ UNCHANGED <<sheetVars, bought, paid, catches, deliveries, processVars>>
  /\ AdvanceRooms

-----------------------------------------------------------------------------
(* Restarts: reconcile.py, seed.py, main.py. *)

\* The process stops and is started again, possibly with data files that make rows illegal or change a seed list.
Restart ==
  /\ up /\ up' = FALSE
  /\ illegal' \in IF "layout" \in Restarts THEN SUBSET DOMAIN items ELSE {{}}
  /\ \/ reseed' = reseed
     \/ "seeds" \in Restarts /\ nuid + Len(Seeds) - 1 <= MaxUid /\ reseed' \in {R \in SUBSET Rooms : reseed \subseteq R}
  /\ fresh' = FALSE /\ answers' = [f \in Fetchers |-> NoAnswer]
  /\ UNCHANGED <<sheet, snap, itemVars, lootVars, stage, logged>>

\* Seeded rows of the rooms to seed anew, and what rests on them, once the illegal rows are gone.
Cleared ==
  LET seeds == {u \in DOMAIN items \ illegal : items[u].by = "$seed" /\ items[u].room \in reseed}
  IN  seeds \cup {u \in DOMAIN items \ illegal : items[u].parent \in seeds}

SeedRows == {nuid + i - 1 : i \in {j \in 1..Len(Seeds) : Seeds[j].room \in reseed}}

SeedItem(u) ==
  [kind |-> Seeds[u - nuid + 1].kind, room |-> Seeds[u - nuid + 1].room, span |-> 1, by |-> "$seed", parent |-> 0]

\* (for a mutant: what stood on a cleared table is not refunded)
RefundedIllegal(gone) ==
  [u \in Uids |-> IF u \in illegal /\ items[u].by = "player" THEN paid[u] - PriceOf(items[u]) ELSE paid[u]]

\* What the ledger says of each item once those gone are refunded; nobody paid for a seed or a note.
Refunded(gone) ==
  [u \in Uids |-> IF u \in gone /\ items[u].by = "player" THEN paid[u] - PriceOf(items[u]) ELSE paid[u]]

\* The start-up transaction.  An illegal row that something rests on cannot be deleted (items.parent_uid
\* is a foreign key), and the start fails.
Boot ==
  /\ ~up /\ up' = TRUE
  /\ \A u \in illegal : ~HasChildren(u)
  /\ LET gone == illegal \cup Cleared
     IN  /\ items' = [u \in (DOMAIN items \ gone) \cup SeedRows |-> IF u \in SeedRows THEN SeedItem(u) ELSE items[u]]
         /\ paid' = Refunded(gone)
  /\ nuid' = IF reseed = {} THEN nuid ELSE nuid + Len(Seeds)
  /\ illegal' = {} /\ reseed' = {}
  /\ UNCHANGED <<sheetVars, bought, lootVars, logged>>
  /\ AdvanceRooms

-----------------------------------------------------------------------------
Next ==
  \/ \E m \in Members : Earn(m)
  \/ CacheExpires
  \/ Refresh
  \/ \E h \in Handlers : WaitForSheet(h)
  \/ \E h \in Handlers, m \in Members : Register(h, m)
  \/ \E f \in Fetchers : AnswerLands(f)
  \/ \E f \in Fetchers : FetchFails(f)
  \/ \E r \in Rooms, k \in Kinds, span \in 0..MaxSpan : Place(r, k, span)
  \/ \E u \in DOMAIN items, span \in 0..MaxSpan : Move(u, span)
  \/ \E u \in DOMAIN items : Remove(u)
  \/ \E p \in Players, l \in Loot : Catch(p, l)
  \/ \E s \in DOMAIN catches : WindowCloses(s)
  \/ \E p \in Players, s \in DOMAIN catches, r \in Rooms : Deliver(p, s, r)
  \/ \E r \in Rooms, pay \in NightPay : GuestNight(r, pay)
  \/ Restart
  \/ Boot

Spec == Init /\ [][Next]_vars

-----------------------------------------------------------------------------
(* Properties. *)

\* Nobody gains or loses money by buying, resizing and selling: what the ledger charged for a bought item is
\* what selling it would refund, and nothing once it is gone, however it went (sold by anyone, dropped by
\* reconcile_items, cleared from a seeded table).
PaidIsWorth ==
  \A u \in bought : paid[u] = IF u \in DOMAIN items THEN PriceOf(items[u]) ELSE 0

\* Nothing floats: an item that rests on another has it in its room, and of a kind that carries it, whatever
\* was moved, sold, dropped or seeded since.
NothingFloats ==
  \A u \in DOMAIN items : items[u].parent # 0 =>
    /\ items[u].parent \in DOMAIN items
    /\ items[items[u].parent].room = items[u].room
    /\ items[items[u].parent].kind \in RestsOn[items[u].kind]

\* No stage waits with all its needs met: whichever transaction met the last need also completed the stage.
StagesSettled ==
  up => \A r \in Rooms : stage[r] < StageCount(r) => ~StageMet(r, stage[r])

\* A catch is taken back only for a stage that still needs it: no stage ever takes more than it asks for.
NoCatchWasted ==
  \A r \in Rooms : \A i \in 1..StageCount(r) :
    Cardinality(Delivered(r, i - 1)) <=
      MapThenSumSet(LAMBDA n : n.want, {n \in Stages[r][i].need : n.type = "deliver"})

\* The pool is in debt only by what was handed in after its money had been spent: no two purchases spend the
\* same money, in whatever order requests, refunds and fetches commit.
DebtIsDelivered == Balance + SumFunction([s \in DOMAIN deliveries |-> Value[catches[s].loot]]) >= 0

\* Every change of the pool is in the activity log: its amounts add up to the balance, but for the income a
\* member already had when the snapshot first knew of them.
EventsAddUp == Balance = logged

\* The ledger, the log and the pool agree, and no money is spent twice.
MoneyAddsUp == EventsAddUp /\ DebtIsDelivered
=============================================================================
