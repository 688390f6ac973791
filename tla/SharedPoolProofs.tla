-------------------------- MODULE SharedPoolProofs --------------------------
(***************************************************************************)
(* Proofs about SharedPool, for every catalog, every set of rooms, seeds   *)
(* and stages, and every deploy of data files: what was paid for an item   *)
(* is what it is worth, nothing floats, no finished stage waits, the log   *)
(* adds up to the balance, and no stage takes more catches than it wants.  *)
(*                                                                         *)
(* The first two rest on Tables, Owned and Deployed: a refund at the       *)
(* start is right only if the rows to be refunded are exactly the bought   *)
(* ones, a new uid must not have been used before, and data files change   *)
(* only while the server is down.  The money needs, besides the sums over  *)
(* items and rooms (Sums), what an answer that is still to land may say    *)
(* (Snapshots) and what was logged so far (Counted, Accounted).            *)
(***************************************************************************)
EXTENDS SharedPool, Sums, TLAPS

Item == [kind : Kinds, room : Rooms, span : Spans, by : {"player", "$seed", "$guest"}, parent : Nat]

\* Uids count up and are never used again.
Tables ==
  /\ nuid \in Nat \ {0} /\ nuid - 1 <= MaxUid
  /\ DOMAIN items \subseteq 1..(nuid - 1) /\ bought \subseteq 1..(nuid - 1)
  /\ \A u \in DOMAIN items : items[u] \in Item
  /\ paid \in [Uids -> Int] /\ \A u \in Uids : u >= nuid => paid[u] = 0

\* Whoever placed an item decides whether it was paid for.
Owned ==
  \A u \in DOMAIN items :
    /\ items[u].by = "player" <=> u \in bought
    /\ items[u].by = "$guest" => items[u].kind = GuestNote

\* What the deployed files change waits for the start.
Deployed ==
  /\ illegal \subseteq DOMAIN items
  /\ up => illegal = {} /\ reseed = {}
  /\ reseed # {} => nuid + Len(Seeds) - 1 <= MaxUid

PoolInv == Tables /\ Owned /\ Deployed /\ PaidIsWorth /\ NothingFloats

-----------------------------------------------------------------------------
(* The catalog. *)

LEMMA PriceIsANumber ==
  ASSUME NEW it \in Item
  PROVE  PriceOf(it) \in Int /\ PriceOf(it) \in Nat
<1>1. Price[it.kind] \in Nat BY PoolAssumption DEF Item
<1>2. it.span \in Nat BY PoolAssumption DEF Item, Spans
<1> QED BY <1>1, <1>2 DEF PriceOf

\* Whatever bears something rests on nothing: furniture stands in two storeys at most.
LEMMA TwoStoreys ==
  ASSUME PoolInv, NEW u \in DOMAIN items, items[u].parent # 0, NEW k \in Kinds
  PROVE  items[u].kind \notin RestsOn[k]
<1>1. items[u].kind \in Kinds BY DEF PoolInv, Tables, Item
<1>2. items[items[u].parent].kind \in RestsOn[items[u].kind] BY DEF PoolInv, NothingFloats
<1> QED BY <1>1, <1>2, PoolAssumption

\* Where an item may be put: in the room itself, or on something in the room that bears it.
LEMMA PlacesBear ==
  ASSUME PoolInv, NEW k \in Kinds, NEW r \in Rooms, NEW u, NEW p \in Places(k, r, u)
  PROVE  /\ p \in Nat
         /\ p # 0 => p \in DOMAIN items /\ p # u /\ items[p].room = r /\ items[p].kind \in RestsOn[k]
<1>1. DOMAIN items \subseteq Nat BY DEF PoolInv, Tables
<1>2. p = 0 \/ p \in {q \in Here(r) \ {u} : items[q].kind \in RestsOn[k]} BY DEF Places
<1> QED BY <1>1, <1>2 DEF Here

-----------------------------------------------------------------------------
(* The steps. *)

LEMMA InvInit == Init => PoolInv
<1> SUFFICES ASSUME Init PROVE PoolInv OBVIOUS
<1>1. DOMAIN items = {} BY DEF Init
<1>2. Len(Seeds) \in Nat /\ Len(Seeds) <= MaxUid /\ MaxUid \in Nat BY PoolAssumption
<1>3. Tables BY <1>1, <1>2 DEF Init, Tables
<1>4. Deployed BY <1>1, <1>2 DEF Init, Deployed
<1>5. PaidIsWorth BY DEF Init, PaidIsWorth
<1> QED BY <1>1, <1>3, <1>4, <1>5 DEF PoolInv, Owned, NothingFloats

\* Money and time that touch no item.
LEMMA KeepStep ==
  ASSUME PoolInv, UNCHANGED <<itemVars, processVars>>
  PROVE  PoolInv'
BY DEF PoolInv, itemVars, processVars, Tables, Owned, Deployed, PaidIsWorth, NothingFloats

\* Placing: a new row, its uid and its price.
LEMMA PlaceStep ==
  ASSUME PoolInv, NEW r \in Rooms, NEW k \in Kinds, NEW span \in 0..MaxSpan, Place(r, k, span)
  PROVE  PoolInv'
<1>1. PICK p \in Places(k, r, nuid) :
        /\ items' = With(nuid, [kind |-> k, room |-> r, span |-> span, by |-> "player", parent |-> p])
        /\ paid' = Charge(nuid, PriceOf([kind |-> k, room |-> r, span |-> span, by |-> "player", parent |-> p]))
  BY DEF Place
<1> DEFINE it == [kind |-> k, room |-> r, span |-> span, by |-> "player", parent |-> p]
<1>2. nuid \in Uids /\ nuid' = nuid + 1 /\ bought' = bought \cup {nuid} /\ UNCHANGED processVars
  BY DEF Place, PoolInv, Tables, Uids
<1>3. p \in Nat /\ (p # 0 => p \in DOMAIN items /\ p # nuid /\ items[p].room = r /\ items[p].kind \in RestsOn[k])
  BY PlacesBear
<1>4. it \in Item
  <2>1. span \in Spans BY PoolAssumption DEF Place, SpansOf, Spans
  <2> QED BY <1>3, <2>1 DEF Item
<1>5. DOMAIN items' = DOMAIN items \cup {nuid} /\ nuid \notin DOMAIN items /\ nuid \notin bought
  BY <1>1 DEF With, PoolInv, Tables
<1>6. items'[nuid] = it /\ \A u \in DOMAIN items : items'[u] = items[u]
  BY <1>1, <1>5 DEF With
<1>7. PriceOf(it) \in Int BY <1>4, PriceIsANumber
<1>8. paid' = [paid EXCEPT ![nuid] = @ + PriceOf(it)] BY <1>1 DEF Charge
<1> HIDE DEF it
<1>9. Tables'
  <2>1. nuid' \in Nat \ {0} /\ nuid' - 1 <= MaxUid BY <1>2, PoolAssumption DEF Uids
  <2>2. DOMAIN items' \subseteq 1..(nuid' - 1) /\ bought' \subseteq 1..(nuid' - 1)
    BY <1>2, <1>5 DEF PoolInv, Tables
  <2>3. \A u \in DOMAIN items' : items'[u] \in Item BY <1>4, <1>5, <1>6 DEF PoolInv, Tables
  <2>4. paid' \in [Uids -> Int] /\ \A u \in Uids : u >= nuid' => paid'[u] = 0
    BY <1>2, <1>7, <1>8 DEF PoolInv, Tables, Uids
  <2> QED BY <2>1, <2>2, <2>3, <2>4 DEF Tables
<1>10. Owned' BY <1>2, <1>5, <1>6 DEF PoolInv, Owned, it
<1>11. Deployed' BY <1>2, <1>5 DEF PoolInv, Deployed, processVars, Place
<1>12. PaidIsWorth'
  <2>1. \A u \in bought : paid'[u] = paid[u] BY <1>5, <1>8 DEF PoolInv, Tables, Uids
  <2>2. paid'[nuid] = PriceOf(it) BY <1>2, <1>7, <1>8 DEF PoolInv, Tables
  <2> QED BY <1>2, <1>5, <1>6, <1>7, <2>1, <2>2 DEF PoolInv, PaidIsWorth
<1>13. NothingFloats' BY <1>3, <1>5, <1>6 DEF PoolInv, NothingFloats, it
<1> QED BY <1>9, <1>10, <1>11, <1>12, <1>13 DEF PoolInv

\* Moving keeps the row, and charges or refunds the difference of its price.
LEMMA MoveStep ==
  ASSUME PoolInv, NEW u \in DOMAIN items, NEW span \in 0..MaxSpan, Move(u, span)
  PROVE  PoolInv'
<1>1. PICK p \in Places(items[u].kind, items[u].room, u) :
        /\ items' = With(u, [items[u] EXCEPT !.span = span, !.parent = p])
        /\ paid' = Charge(u, PriceOf([items[u] EXCEPT !.span = span, !.parent = p]) - PriceOf(items[u]))
  BY DEF Move
<1> DEFINE it == [items[u] EXCEPT !.span = span, !.parent = p]
<1>2. UNCHANGED <<nuid, bought, processVars>> BY DEF Move
<1>3. items[u] \in Item /\ items[u].kind \in Kinds /\ items[u].room \in Rooms /\ u \in Uids
  BY PoolAssumption DEF PoolInv, Tables, Item, Uids
<1>4. p \in Nat /\ (p # 0 => p \in DOMAIN items /\ p # u /\ items[p].room = items[u].room
                               /\ items[p].kind \in RestsOn[items[u].kind])
  BY <1>3, PlacesBear
<1>5. /\ it \in Item /\ it.by = items[u].by /\ it.kind = items[u].kind /\ it.room = items[u].room /\ it.parent = p
  <2>1. span \in Spans BY PoolAssumption DEF Move, SpansOf, Spans
  <2> QED BY <1>3, <1>4, <2>1 DEF Item
<1>6. DOMAIN items' = DOMAIN items /\ items'[u] = it /\ \A v \in DOMAIN items \ {u} : items'[v] = items[v]
  BY <1>1 DEF With
<1>7. PriceOf(it) \in Int /\ PriceOf(items[u]) \in Int BY <1>3, <1>5, PriceIsANumber
<1>8. paid' = [paid EXCEPT ![u] = @ + (PriceOf(it) - PriceOf(items[u]))] BY <1>1 DEF Charge
<1>9. \A v \in DOMAIN items : items[v].parent # u BY DEF Move, HasChildren
<1> HIDE DEF it
<1>10. Tables'
  <2>1. paid' \in [Uids -> Int] /\ \A v \in Uids : v >= nuid => paid'[v] = 0
    BY <1>3, <1>7, <1>8 DEF PoolInv, Tables, Uids
  <2> QED BY <1>2, <1>5, <1>6, <2>1 DEF PoolInv, Tables
<1>11. Owned' BY <1>2, <1>5, <1>6 DEF PoolInv, Owned
<1>12. Deployed' BY <1>2, <1>6 DEF PoolInv, Deployed, processVars
<1>13. PaidIsWorth'
  <2>1. \A v \in bought \ {u} : paid'[v] = paid[v] BY <1>8 DEF PoolInv, Tables, Uids
  <2>2. paid'[u] = paid[u] + (PriceOf(it) - PriceOf(items[u])) /\ paid[u] \in Int
    BY <1>3, <1>8 DEF PoolInv, Tables
  <2> QED BY <1>2, <1>6, <1>7, <2>1, <2>2 DEF PoolInv, PaidIsWorth
<1>14. NothingFloats' BY <1>4, <1>5, <1>6, <1>9 DEF PoolInv, NothingFloats
<1> QED BY <1>10, <1>11, <1>12, <1>13, <1>14 DEF PoolInv

\* Selling: nothing rests on what goes, and a bought item pays back its price.
LEMMA RemoveStep ==
  ASSUME PoolInv, NEW u \in DOMAIN items, Remove(u)
  PROVE  PoolInv'
<1> DEFINE price == IF items[u].by = "$guest" THEN 0 ELSE PriceOf(items[u])
<1>1. UNCHANGED <<nuid, bought, processVars>> /\ ~HasChildren(u) /\ up BY DEF Remove
<1>2. DOMAIN items' = DOMAIN items \ {u} /\ \A v \in DOMAIN items' : items'[v] = items[v]
  BY DEF Remove, Without
<1>3. items[u] \in Item /\ u \in Uids BY PoolAssumption DEF PoolInv, Tables, Uids
<1>4. price \in Int BY <1>3, PriceIsANumber
<1>5. paid' = [paid EXCEPT ![u] = @ + -price] BY DEF Remove, Charge
<1>6. u \in bought => price = PriceOf(items[u]) BY DEF PoolInv, Owned
<1> HIDE DEF price
<1>7. Tables'
  <2>1. paid' \in [Uids -> Int] /\ \A v \in Uids : v >= nuid => paid'[v] = 0
    BY <1>3, <1>4, <1>5 DEF PoolInv, Tables, Uids
  <2> QED BY <1>1, <1>2, <2>1 DEF PoolInv, Tables
<1>8. Owned' BY <1>1, <1>2 DEF PoolInv, Owned
<1>9. Deployed' BY <1>1, <1>2 DEF PoolInv, Deployed, processVars
<1>10. PaidIsWorth'
  <2>1. \A v \in bought \ {u} : paid'[v] = paid[v] BY <1>5 DEF PoolInv, Tables, Uids
  <2>2. paid'[u] = paid[u] + -price /\ paid[u] \in Int BY <1>3, <1>5 DEF PoolInv, Tables
  <2> QED BY <1>1, <1>2, <1>4, <1>6, <2>1, <2>2 DEF PoolInv, PaidIsWorth
<1>11. NothingFloats' BY <1>1, <1>2 DEF PoolInv, NothingFloats, HasChildren
<1> QED BY <1>7, <1>8, <1>9, <1>10, <1>11 DEF PoolInv

\* A guest's note on p: what it rests on is no note, nothing rests on the notes that go, and nobody paid for either.
LEMMA NoteStep ==
  ASSUME PoolInv, NEW r \in Rooms, NEW p \in Places(GuestNote, r, nuid),
         nuid <= MaxUid, nuid' = nuid + 1, items' = NoteLeft(r, p),
         UNCHANGED <<bought, paid, processVars>>, up
  PROVE  PoolInv'
<1> DEFINE note == [kind |-> GuestNote, room |-> r, span |-> 1, by |-> "$guest", parent |-> p]
<1>1. PICK gone \in SUBSET Notes(r) :
        items' = [v \in (DOMAIN items \ gone) \cup {nuid} |-> IF v = nuid THEN note ELSE items[v]]
  BY DEF NoteLeft
<1>2. GuestNote \in Kinds /\ GuestNote \in Small BY PoolAssumption
<1>3. p \in DOMAIN items /\ p # 0 /\ p # nuid /\ items[p].room = r /\ items[p].kind \in RestsOn[GuestNote]
  <2>1. DOMAIN items \subseteq 1..(nuid - 1) BY DEF PoolInv, Tables
  <2>2. p \in {q \in Here(r) \ {nuid} : items[q].kind \in RestsOn[GuestNote]} BY <1>2 DEF Places
  <2> QED BY <2>1, <2>2 DEF Here
<1>4. \A k \in Kinds : GuestNote \notin RestsOn[k] BY <1>2, <1>3, PoolAssumption
<1>5. \A u \in gone : u \in DOMAIN items /\ items[u].by = "$guest" /\ items[u].kind = GuestNote
  BY <1>1 DEF Notes, Here, PoolInv, Owned
<1>6. \A v \in DOMAIN items : items[v].parent # 0 => items[v].parent \notin gone
  <2> SUFFICES ASSUME NEW v \in DOMAIN items, items[v].parent # 0, items[v].parent \in gone PROVE FALSE OBVIOUS
  <2>1. items[v].kind \in Kinds BY DEF PoolInv, Tables, Item
  <2>2. items[items[v].parent].kind \in RestsOn[items[v].kind] BY DEF PoolInv, NothingFloats
  <2> QED BY <1>4, <1>5, <2>1, <2>2
<1>7. p \notin gone BY <1>2, <1>3, <1>4, <1>5
<1>8. DOMAIN items' = (DOMAIN items \ gone) \cup {nuid} /\ nuid \notin DOMAIN items /\ nuid \notin bought
  BY <1>1 DEF PoolInv, Tables
<1>9. items'[nuid] = note /\ \A v \in DOMAIN items \ gone : items'[v] = items[v] BY <1>1, <1>8
<1>10. note \in Item
  <2>1. p \in Nat BY <1>3 DEF PoolInv, Tables
  <2>2. 1 \in Spans BY PoolAssumption DEF Spans
  <2> QED BY <1>2, <2>1, <2>2 DEF Item
<1>11. Tables'
  <2>1. nuid' \in Nat \ {0} /\ nuid' - 1 <= MaxUid BY PoolAssumption DEF PoolInv, Tables
  <2>2. DOMAIN items' \subseteq 1..(nuid' - 1) /\ bought' \subseteq 1..(nuid' - 1)
    BY <1>8 DEF PoolInv, Tables
  <2>3. \A u \in DOMAIN items' : items'[u] \in Item BY <1>8, <1>9, <1>10 DEF PoolInv, Tables
  <2>4. paid' \in [Uids -> Int] /\ \A u \in Uids : u >= nuid' => paid'[u] = 0
    BY DEF PoolInv, Tables, Uids
  <2> QED BY <2>1, <2>2, <2>3, <2>4 DEF Tables
<1>12. Owned' BY <1>8, <1>9 DEF PoolInv, Owned
<1>13. Deployed' BY <1>8 DEF PoolInv, Deployed, processVars
<1>14. PaidIsWorth'
  <2>1. \A u \in bought : u \in DOMAIN items => u \notin gone BY <1>5 DEF PoolInv, Owned
  <2> QED BY <1>8, <1>9, <2>1 DEF PoolInv, PaidIsWorth
<1>15. NothingFloats' BY <1>3, <1>6, <1>7, <1>8, <1>9 DEF PoolInv, NothingFloats
<1> QED BY <1>11, <1>12, <1>13, <1>14, <1>15 DEF PoolInv

LEMMA GuestStep ==
  ASSUME PoolInv, NEW r \in Rooms, NEW pay \in NightPay, GuestNight(r, pay)
  PROVE  PoolInv'
<1>1. CASE UNCHANGED <<items, nuid>> BY <1>1, KeepStep DEF GuestNight, itemVars
<1>2. CASE nuid <= MaxUid /\ nuid' = nuid + 1 /\ \E p \in Places(GuestNote, r, nuid) : items' = NoteLeft(r, p)
  BY <1>2, NoteStep DEF GuestNight
<1> QED BY <1>1, <1>2 DEF GuestNight

LEMMA RestartStep ==
  ASSUME PoolInv, Restart
  PROVE  PoolInv'
<1>1. UNCHANGED itemVars /\ up /\ ~up' BY DEF Restart
<1>2. illegal' \subseteq DOMAIN items BY DEF Restart
<1>3. reseed' # {} => nuid + Len(Seeds) - 1 <= MaxUid BY <1>1 DEF Restart, PoolInv, Deployed
<1> QED BY <1>1, <1>2, <1>3 DEF PoolInv, itemVars, Tables, Owned, Deployed, PaidIsWorth, NothingFloats

-----------------------------------------------------------------------------
(* The start. *)

\* What is cleared leaves nothing in the air: whatever rests on a row that goes, goes.
LEMMA NothingRestsOnTheGone ==
  ASSUME PoolInv, \A u \in illegal : ~HasChildren(u),
         NEW v \in DOMAIN items \ (illegal \cup Cleared), items[v].parent # 0
  PROVE  items[v].parent \notin illegal \cup Cleared
<1> DEFINE seeds == {u \in DOMAIN items \ illegal : items[u].by = "$seed" /\ items[u].room \in reseed}
<1>1. Cleared = seeds \cup {u \in DOMAIN items \ illegal : items[u].parent \in seeds} BY DEF Cleared
<1>2. items[v].parent \notin illegal BY DEF HasChildren
<1>3. items[v].parent \notin seeds BY <1>1
<1>4. ASSUME items[v].parent \in DOMAIN items, items[items[v].parent].parent \in seeds PROVE FALSE
  <2>1. items[items[v].parent].parent # 0 BY <1>4 DEF PoolInv, Tables
  <2>2. items[v].kind \in Kinds BY DEF PoolInv, Tables, Item
  <2>3. items[items[v].parent].kind \notin RestsOn[items[v].kind] BY <1>4, <2>1, <2>2, TwoStoreys
  <2> QED BY <2>3 DEF PoolInv, NothingFloats
<1> QED BY <1>1, <1>2, <1>3, <1>4

\* The seeds are sown under uids nobody has had.
LEMMA SownAnew ==
  ASSUME PoolInv, NEW u \in SeedRows
  PROVE  u \in Nat /\ nuid <= u /\ u < nuid + Len(Seeds) /\ SeedItem(u) \in Item /\ reseed # {}
<1>1. PICK j \in 1..Len(Seeds) : Seeds[j].room \in reseed /\ u = nuid + j - 1 BY DEF SeedRows
<1>2. nuid \in Nat /\ Len(Seeds) \in Nat BY PoolAssumption DEF PoolInv, Tables
<1>3. u - nuid + 1 = j BY <1>1, <1>2
<1>4. Seeds[j].room \in Rooms /\ Seeds[j].kind \in Kinds
  <2> DEFINE Sown == [room : Rooms, kind : Kinds \ Small]
  <2>1. Seeds \in Seq(Sown) BY PoolAssumption
  <2>2. Seeds[j] \in Sown
    <3> HIDE DEF Sown
    <3> QED BY <2>1
  <2> QED BY <2>2
<1>5. 1 \in Spans BY PoolAssumption DEF Spans
<1> QED BY <1>1, <1>2, <1>3, <1>4, <1>5 DEF SeedItem, Item

LEMMA BootStep ==
  ASSUME PoolInv, Boot
  PROVE  PoolInv'
<1> DEFINE gone == illegal \cup Cleared
<1>1. /\ items' = [u \in (DOMAIN items \ gone) \cup SeedRows |-> IF u \in SeedRows THEN SeedItem(u) ELSE items[u]]
      /\ paid' = Refunded(gone) /\ bought' = bought /\ illegal' = {} /\ reseed' = {}
      /\ nuid' = (IF reseed = {} THEN nuid ELSE nuid + Len(Seeds)) /\ \A u \in illegal : ~HasChildren(u)
  BY DEF Boot
<1>2. gone \subseteq DOMAIN items BY DEF Cleared, PoolInv, Deployed
<1>3. \A v \in DOMAIN items \ gone : items[v].parent # 0 => items[v].parent \notin gone
  BY <1>1, NothingRestsOnTheGone
<1> HIDE DEF gone
<1>4. \A u \in SeedRows : u \in Nat /\ nuid <= u /\ u < nuid' /\ SeedItem(u) \in Item
  BY <1>1, SownAnew
<1>5. \A u \in SeedRows : u \notin DOMAIN items /\ u \notin bought BY <1>4 DEF PoolInv, Tables
<1>6. DOMAIN items' = (DOMAIN items \ gone) \cup SeedRows BY <1>1
<1>7. (\A u \in SeedRows : items'[u] = SeedItem(u)) /\ (\A u \in DOMAIN items \ gone : items'[u] = items[u])
  BY <1>1, <1>5
<1>8. ASSUME NEW u \in SeedRows PROVE items'[u].by = "$seed" /\ items'[u].parent = 0
  <2>1. SeedItem(u).by = "$seed" /\ SeedItem(u).parent = 0 BY DEF SeedItem
  <2>2. items'[u] = SeedItem(u) BY <1>7
  <2> QED BY <2>1, <2>2
<1>9. nuid' \in Nat \ {0} /\ nuid <= nuid' /\ nuid' - 1 <= MaxUid
  BY <1>1, PoolAssumption DEF PoolInv, Tables, Deployed
<1>10. \A u \in Uids : paid'[u] = IF u \in gone /\ items[u].by = "player" THEN paid[u] - PriceOf(items[u]) ELSE paid[u]
  BY <1>1 DEF Refunded
<1>11. paid' \in [Uids -> Int]
  <2>1. \A u \in gone : PriceOf(items[u]) \in Int BY <1>2, PriceIsANumber DEF PoolInv, Tables
  <2> QED BY <1>1, <2>1 DEF PoolInv, Tables, Refunded
<1>12. Tables'
  <2>1. DOMAIN items' \subseteq 1..(nuid' - 1) /\ bought' \subseteq 1..(nuid' - 1)
    BY <1>1, <1>4, <1>6, <1>9 DEF PoolInv, Tables
  <2>2. \A u \in DOMAIN items' : items'[u] \in Item BY <1>4, <1>6, <1>7 DEF PoolInv, Tables
  <2>3. \A u \in Uids : u >= nuid' => paid'[u] = 0
    BY <1>2, <1>9, <1>10 DEF PoolInv, Tables, Uids
  <2> QED BY <1>9, <1>11, <2>1, <2>2, <2>3 DEF Tables
<1>13. Owned' BY <1>1, <1>5, <1>6, <1>7, <1>8 DEF PoolInv, Owned
<1>14. Deployed' BY <1>1 DEF Deployed
<1>15. PaidIsWorth'
  <2> SUFFICES ASSUME NEW u \in bought
               PROVE  paid'[u] = IF u \in DOMAIN items' THEN PriceOf(items'[u]) ELSE 0
    BY <1>1 DEF PaidIsWorth
  <2>1. u \in Uids /\ u \notin SeedRows /\ paid[u] \in Int BY <1>5, PoolAssumption DEF PoolInv, Tables, Uids
  <2>2. paid[u] = IF u \in DOMAIN items THEN PriceOf(items[u]) ELSE 0 BY DEF PoolInv, PaidIsWorth
  <2>3. u \in DOMAIN items => items[u].by = "player" BY DEF PoolInv, Owned
  <2>4. CASE u \in gone BY <1>2, <1>6, <1>10, <2>1, <2>2, <2>3, <2>4
  <2>5. CASE u \notin gone BY <1>6, <1>7, <1>10, <2>1, <2>2, <2>5
  <2> QED BY <2>4, <2>5
<1>16. NothingFloats' BY <1>3, <1>6, <1>7, <1>8 DEF PoolInv, NothingFloats
<1> QED BY <1>12, <1>13, <1>14, <1>15, <1>16 DEF PoolInv

-----------------------------------------------------------------------------
LEMMA InvStep ==
  ASSUME PoolInv, [Next]_vars
  PROVE  PoolInv'
<1>1. ASSUME NEW m \in Members, Earn(m) PROVE PoolInv' BY <1>1, KeepStep DEF Earn
<1>2. CASE CacheExpires BY <1>2, KeepStep DEF CacheExpires
<1>3. CASE Refresh BY <1>3, KeepStep DEF Refresh
<1>4. ASSUME NEW h \in Handlers, WaitForSheet(h) PROVE PoolInv' BY <1>4, KeepStep DEF WaitForSheet
<1>5. ASSUME NEW h \in Handlers, NEW m \in Members, Register(h, m) PROVE PoolInv' BY <1>5, KeepStep DEF Register
<1>6. ASSUME NEW f \in Fetchers, AnswerLands(f) PROVE PoolInv' BY <1>6, KeepStep DEF AnswerLands
<1>7. ASSUME NEW f \in Fetchers, FetchFails(f) PROVE PoolInv' BY <1>7, KeepStep DEF FetchFails
<1>8. ASSUME NEW p \in Players, NEW l \in Loot, Catch(p, l) PROVE PoolInv' BY <1>8, KeepStep DEF Catch
<1>9. ASSUME NEW s \in DOMAIN catches, WindowCloses(s) PROVE PoolInv' BY <1>9, KeepStep DEF WindowCloses
<1>10. ASSUME NEW p \in Players, NEW s \in DOMAIN catches, NEW r \in Rooms, Deliver(p, s, r) PROVE PoolInv'
  BY <1>10, KeepStep DEF Deliver
<1>11. CASE UNCHANGED vars BY <1>11, KeepStep DEF vars
<1> QED BY <1>1, <1>2, <1>3, <1>4, <1>5, <1>6, <1>7, <1>8, <1>9, <1>10, <1>11,
          PlaceStep, MoveStep, RemoveStep, GuestStep, RestartStep, BootStep DEF Next

LEMMA InvAlways == Spec => []PoolInv
BY InvInit, InvStep, PTL DEF Spec

\* Buying, resizing and selling is never a gain or a loss, in any catalog and through any deploy.
THEOREM EveryItemPaysBack == Spec => []PaidIsWorth
<1>1. PoolInv => PaidIsWorth BY DEF PoolInv
<1> QED BY <1>1, InvAlways, PTL

\* Nothing is left in the air by a sale, a move, a guest's note or a start that clears rows.
THEOREM NothingEverFloats == Spec => []NothingFloats
<1>1. PoolInv => NothingFloats BY DEF PoolInv
<1> QED BY <1>1, InvAlways, PTL
-----------------------------------------------------------------------------
(* The books of the catches. *)

CatchRow == [by : Players, loot : Loot, late : BOOLEAN]

\* The ledger of catches only grows, and what was handed in is in it.
Books ==
  /\ catches \in Seq(CatchRow) /\ guestPay \in Nat
  /\ DOMAIN deliveries \subseteq DOMAIN catches

LEMMA CatchIsBooked ==
  ASSUME Books, NEW p \in Players, NEW l \in Loot, Catch(p, l)
  PROVE  /\ Books' /\ catches' \in Seq(CatchRow) /\ Len(catches') = Len(catches) + 1
         /\ \A s \in DOMAIN catches : catches'[s] = catches[s]
         /\ catches'[Len(catches) + 1].loot = l
<1> DEFINE row == [by |-> p, loot |-> l, late |-> FALSE]
<1>1. row \in CatchRow BY DEF CatchRow
<1>2. row.loot = l OBVIOUS
<1>3. catches' = Append(catches, row) /\ catches \in Seq(CatchRow) /\ UNCHANGED <<deliveries, guestPay>>
  BY DEF Catch, Books
<1> HIDE DEF row
<1>4. catches' \in Seq(CatchRow) BY <1>1, <1>3
<1>5. Len(catches') = Len(catches) + 1 /\ catches'[Len(catches) + 1] = row BY <1>1, <1>3
<1>6. \A s \in DOMAIN catches : catches'[s] = catches[s] /\ s \in DOMAIN catches' BY <1>1, <1>3
<1> QED BY <1>2, <1>3, <1>4, <1>5, <1>6 DEF Books

LEMMA WindowIsBooked ==
  ASSUME Books, NEW s \in DOMAIN catches, WindowCloses(s)
  PROVE  /\ Books' /\ DOMAIN catches' = DOMAIN catches /\ deliveries' = deliveries
         /\ \A t \in DOMAIN catches : catches'[t].loot = catches[t].loot
<1>1. catches' = [catches EXCEPT ![s].late = TRUE] /\ UNCHANGED <<deliveries, guestPay>> BY DEF WindowCloses
<1>2. catches \in Seq(CatchRow) /\ catches[s] \in CatchRow BY DEF Books
<1> DEFINE row == [catches[s] EXCEPT !.late = TRUE]
<1>3. row \in CatchRow /\ row.loot = catches[s].loot BY <1>2 DEF CatchRow
<1>4. catches' = [catches EXCEPT ![s] = row] BY <1>1
<1> HIDE DEF row
<1>5. catches' \in Seq(CatchRow) BY <1>2, <1>3, <1>4
<1>6. DOMAIN catches' = DOMAIN catches BY <1>4
<1>7. \A t \in DOMAIN catches : catches'[t].loot = catches[t].loot BY <1>3, <1>4
<1> QED BY <1>1, <1>5, <1>6, <1>7 DEF Books

LEMMA BooksStep ==
  ASSUME Books, [Next]_vars
  PROVE  Books'
<1>1. CASE UNCHANGED lootVars BY <1>1 DEF Books, lootVars
<1>2. ASSUME NEW p \in Players, NEW s \in DOMAIN catches, NEW r \in Rooms, Deliver(p, s, r) PROVE Books'
  BY <1>2 DEF Books, Deliver
<1>3. ASSUME NEW r \in Rooms, NEW pay \in NightPay, GuestNight(r, pay) PROVE Books'
  BY <1>3, PoolAssumption DEF Books, GuestNight
<1> QED BY <1>1, <1>2, <1>3, CatchIsBooked, WindowIsBooked
        DEF Next, Earn, CacheExpires, Refresh, WaitForSheet, Register, AnswerLands, FetchFails, Place, Move, Remove,
            Restart, Boot, vars

LEMMA BooksAlways == Spec => []Books
<1>1. Init => Books BY DEF Init, Books, CatchRow
<1> QED BY <1>1, BooksStep, PTL DEF Spec

-----------------------------------------------------------------------------
(* Stages. *)

\* A transaction that ends with AdvanceRooms leaves no stage waiting.
LEMMA RoomsAdvanced == ASSUME AdvanceRooms PROVE StagesSettled'
<1>1. PICK f : stage' = f /\ \A r \in Rooms : f[r] < StageCount(r) => ~StageMet(r, f[r])'
  BY DEF AdvanceRooms
<1>2. ASSUME NEW r \in Rooms, stage'[r] < StageCount(r) PROVE ~StageMet(r, stage[r])'
  BY <1>1, <1>2 DEF StageMet
<1> QED BY <1>2 DEF StagesSettled, StageCount

\* What a stage needs is read from the snapshot, the items and the catches, and from nothing else.
LEMMA RoomsStay ==
  ASSUME StagesSettled, up' = up, stage' = stage, UNCHANGED <<snap, itemVars, lootVars>>
  PROVE  StagesSettled'
<1>1. Balance' = Balance BY DEF Balance, Kept, itemVars, lootVars
<1>2. ASSUME NEW r \in Rooms, StageMet(r, stage[r])' PROVE StageMet(r, stage[r])
  BY <1>1, <1>2 DEF StageMet, NeedMet, Here, Delivered, itemVars, lootVars
<1> QED BY <1>2 DEF StagesSettled, StageCount

\* What is kept of each catch.
KeptOf == [s \in DOMAIN catches |-> Kept(s)]

LEMMA WindowIsWorth ==
  ASSUME Books, NEW s \in DOMAIN catches, WindowCloses(s)
  PROVE  KeptOf' = KeptOf /\ Balance' = Balance
<1>1. \A t \in DOMAIN catches : Kept(t)' = Kept(t)
  BY WindowIsBooked DEF Kept
<1>2. KeptOf' = KeptOf BY <1>1, WindowIsBooked DEF KeptOf
<1> QED BY <1>2 DEF Balance, KeptOf, WindowCloses, itemVars, sheetVars

\* A catch that can no longer be handed in is worth what it was.
LEMMA WindowSettles ==
  ASSUME StagesSettled, Books, NEW s \in DOMAIN catches, WindowCloses(s)
  PROVE  StagesSettled'
<1>1. Balance' = Balance BY WindowIsWorth
<1>2. DOMAIN deliveries \subseteq DOMAIN catches BY DEF Books
<1>3. \A t \in DOMAIN deliveries : catches'[t].loot = catches[t].loot BY <1>2, WindowIsBooked
<1>4. UNCHANGED <<items, deliveries, stage, up>> BY DEF WindowCloses, itemVars, processVars
<1>5. ASSUME NEW r \in Rooms, StageMet(r, stage[r])' PROVE StageMet(r, stage[r])
  BY <1>1, <1>3, <1>4, <1>5 DEF StageMet, NeedMet, Here, Delivered
<1> QED BY <1>4, <1>5 DEF StagesSettled, StageCount

LEMMA SettledStep ==
  ASSUME StagesSettled, Books, [Next]_vars
  PROVE  StagesSettled'
<1>1. ASSUME NEW m \in Members, Earn(m) PROVE StagesSettled' BY <1>1, RoomsStay DEF Earn, processVars
<1>2. CASE CacheExpires BY <1>2, RoomsStay DEF CacheExpires, processVars
<1>3. CASE Refresh BY <1>3, RoomsStay DEF Refresh, processVars
<1>4. ASSUME NEW h \in Handlers, WaitForSheet(h) PROVE StagesSettled'
  BY <1>4, RoomsStay DEF WaitForSheet, processVars
<1>5. ASSUME NEW h \in Handlers, NEW m \in Members, Register(h, m) PROVE StagesSettled'
  BY <1>5, RoomsStay DEF Register, processVars
<1>6. ASSUME NEW f \in Fetchers, AnswerLands(f) PROVE StagesSettled' BY <1>6, RoomsAdvanced DEF AnswerLands
<1>7. ASSUME NEW f \in Fetchers, FetchFails(f) PROVE StagesSettled' BY <1>7, RoomsStay DEF FetchFails, processVars
<1>8. ASSUME NEW r \in Rooms, NEW k \in Kinds, NEW span \in 0..MaxSpan, Place(r, k, span) PROVE StagesSettled'
  BY <1>8, RoomsAdvanced DEF Place
<1>9. ASSUME NEW u \in DOMAIN items, NEW span \in 0..MaxSpan, Move(u, span) PROVE StagesSettled'
  BY <1>9, RoomsAdvanced DEF Move
<1>10. ASSUME NEW u \in DOMAIN items, Remove(u) PROVE StagesSettled' BY <1>10, RoomsAdvanced DEF Remove
<1>11. ASSUME NEW p \in Players, NEW l \in Loot, Catch(p, l) PROVE StagesSettled' BY <1>11, RoomsAdvanced DEF Catch
<1>12. ASSUME NEW p \in Players, NEW s \in DOMAIN catches, NEW r \in Rooms, Deliver(p, s, r) PROVE StagesSettled'
  BY <1>12, RoomsAdvanced DEF Deliver
<1>13. ASSUME NEW r \in Rooms, NEW pay \in NightPay, GuestNight(r, pay) PROVE StagesSettled'
  BY <1>13, RoomsAdvanced DEF GuestNight
<1>14. CASE Restart BY <1>14 DEF Restart, StagesSettled
<1>15. CASE Boot BY <1>15, RoomsAdvanced DEF Boot
<1>16. CASE UNCHANGED vars BY <1>16, RoomsStay DEF vars, processVars, sheetVars
<1> QED BY <1>1, <1>2, <1>3, <1>4, <1>5, <1>6, <1>7, <1>8, <1>9, <1>10, <1>11, <1>12, <1>13, <1>14, <1>15, <1>16,
          WindowSettles DEF Next

\* No stage waits with its needs met, whichever of the transactions met the last one, for every list of stages.
THEOREM StagesNeverWait == Spec => []StagesSettled
<1>1. Init => StagesSettled BY DEF Init, StagesSettled
<1> QED BY <1>1, SettledStep, BooksAlways, PTL DEF Spec

-----------------------------------------------------------------------------
(* Money: the sums. *)

LEMMA TablesAreFinite ==
  /\ IsFiniteSet(Uids)
  /\ Books => IsFiniteSet(DOMAIN catches) /\ IsFiniteSet(DOMAIN deliveries)
<1>1. IsFiniteSet(Uids)
  <2>1. MaxUid \in Nat BY PoolAssumption
  <2> QED BY <2>1, FS_Interval DEF Uids
<1>2. ASSUME Books PROVE IsFiniteSet(DOMAIN catches) /\ IsFiniteSet(DOMAIN deliveries)
  <2>1. DOMAIN catches = 1..Len(catches) /\ Len(catches) \in Nat BY <1>2 DEF Books
  <2>2. IsFiniteSet(DOMAIN catches) BY <2>1, FS_Interval
  <2> QED BY <1>2, <2>2, FS_Subset DEF Books
<1> QED BY <1>1, <1>2

\* What was taken back for the stages.
Handed == [s \in DOMAIN deliveries |-> Value[catches[s].loot]]

LEMMA CatchesAreWorth ==
  ASSUME Books
  PROVE  /\ \A s \in DOMAIN catches : Value[catches[s].loot] \in Nat
         /\ KeptOf \in [DOMAIN catches -> Nat] /\ Handed \in [DOMAIN deliveries -> Nat]
<1>1. ASSUME NEW s \in DOMAIN catches PROVE Value[catches[s].loot] \in Nat
  <2>1. catches[s] \in CatchRow BY DEF Books
  <2>2. catches[s].loot \in Loot BY <2>1 DEF CatchRow
  <2> QED BY <2>2, PoolAssumption
<1>2. KeptOf \in [DOMAIN catches -> Nat] BY <1>1 DEF KeptOf, Kept
<1>3. Handed \in [DOMAIN deliveries -> Nat] BY <1>1 DEF Handed, Books
<1> QED BY <1>1, <1>2, <1>3

\* A charge or a refund adds what it is to what was spent.
LEMMA ChargeAdds ==
  ASSUME Tables, NEW u \in Uids, NEW amount \in Int, paid' = Charge(u, amount)
  PROVE  SumFunction(paid') = SumFunction(paid) + amount /\ SumFunction(paid) \in Int
<1>1. paid \in [Uids -> Int] BY DEF Tables
<1>2. paid' \in [Uids -> Int] /\ paid'[u] = paid[u] + amount /\ \A v \in Uids \ {u} : paid'[v] = paid[v]
  BY <1>1 DEF Charge
<1>3. SumFunction(paid') = SumFunction(paid) - paid[u] + paid'[u]
  BY <1>1, <1>2, TablesAreFinite, SumChanges
<1>4. SumFunction(paid) \in Int BY <1>1, TablesAreFinite, SumType
<1>5. paid[u] \in Int BY <1>1
<1> QED BY <1>2, <1>3, <1>4, <1>5

\* A new catch adds its worth, and takes nothing back.
LEMMA CatchAdds ==
  ASSUME Books, NEW p \in Players, NEW l \in Loot, Catch(p, l)
  PROVE  SumFunction(KeptOf') = SumFunction(KeptOf) + Value[l] /\ Handed' = Handed
<1>0. PICK n : n = Len(catches) + 1 OBVIOUS
<1>1. DOMAIN catches = 1..Len(catches) /\ DOMAIN catches' = 1..n /\ Len(catches) \in Nat
  BY <1>0, CatchIsBooked DEF Books
<1>2. DOMAIN catches' = DOMAIN catches \cup {n} /\ n \notin DOMAIN catches BY <1>0, <1>1
<1>3. deliveries' = deliveries /\ DOMAIN deliveries \subseteq DOMAIN catches BY DEF Catch, Books
<1>4. catches'[n].loot = l /\ \A s \in DOMAIN catches : catches'[s] = catches[s] BY <1>0, CatchIsBooked
<1>5. Kept(n)' = Value[l]
  <2>1. n \notin DOMAIN deliveries' BY <1>2, <1>3
  <2> QED BY <1>4, <2>1 DEF Kept
<1>6. \A s \in DOMAIN catches : Kept(s)' = Kept(s) BY <1>3, <1>4 DEF Kept
<1>7. \A s \in DOMAIN catches : KeptOf'[s] = KeptOf[s] BY <1>2, <1>6 DEF KeptOf
<1>8. KeptOf'[n] = Value[l] BY <1>2, <1>5 DEF KeptOf
<1>9. KeptOf \in [DOMAIN catches -> Int] /\ KeptOf' \in [DOMAIN catches \cup {n} -> Int]
  <2>1. KeptOf \in [DOMAIN catches -> Nat] BY CatchesAreWorth
  <2>2. Value[l] \in Nat BY PoolAssumption
  <2>3. DOMAIN KeptOf' = DOMAIN catches \cup {n} /\ KeptOf' = [s \in DOMAIN KeptOf' |-> KeptOf'[s]]
    BY <1>2 DEF KeptOf
  <2>4. \A s \in DOMAIN catches \cup {n} : KeptOf'[s] \in Int BY <1>7, <1>8, <2>1, <2>2
  <2> QED BY <2>1, <2>3, <2>4
<1>10. SumFunction(KeptOf') = SumFunction(KeptOf) + KeptOf'[n]
  BY <1>2, <1>7, <1>9, TablesAreFinite, SumExtends
<1>11. Handed' = Handed BY <1>3, <1>4 DEF Handed
<1> QED BY <1>8, <1>10, <1>11

\* Handing a catch in takes its worth out of what is kept, and puts it with what was handed in.
LEMMA DeliverMoves ==
  ASSUME Books, NEW p \in Players, NEW s \in DOMAIN catches, NEW r \in Rooms, Deliver(p, s, r)
  PROVE  /\ SumFunction(KeptOf') = SumFunction(KeptOf) - Value[catches[s].loot]
         /\ SumFunction(Handed') = SumFunction(Handed) + Value[catches[s].loot]
<1>1. catches' = catches /\ s \notin DOMAIN deliveries /\ DOMAIN deliveries' = DOMAIN deliveries \cup {s}
  BY DEF Deliver
<1>2. DOMAIN deliveries \subseteq DOMAIN catches BY DEF Books
<1>3. \A t \in DOMAIN catches : Value[catches[t].loot] \in Int BY CatchesAreWorth
<1>4. /\ KeptOf \in [DOMAIN catches -> Int] /\ KeptOf' \in [DOMAIN catches -> Int]
      /\ KeptOf[s] = Value[catches[s].loot] /\ KeptOf'[s] = 0 /\ \A t \in DOMAIN catches \ {s} : KeptOf'[t] = KeptOf[t]
  BY <1>1, <1>3 DEF KeptOf, Kept
<1>5. SumFunction(KeptOf') = SumFunction(KeptOf) - KeptOf[s] + KeptOf'[s]
  BY <1>4, TablesAreFinite, SumChanges
<1>6. /\ Handed \in [DOMAIN deliveries -> Int] /\ Handed' \in [DOMAIN deliveries \cup {s} -> Int]
      /\ Handed'[s] = Value[catches[s].loot] /\ \A t \in DOMAIN deliveries : Handed'[t] = Handed[t]
  <2>1. Handed' = [t \in DOMAIN deliveries \cup {s} |-> Value[catches[t].loot]] BY <1>1 DEF Handed
  <2>2. \A t \in DOMAIN deliveries \cup {s} : Value[catches[t].loot] \in Int BY <1>2, <1>3
  <2> QED BY <2>1, <2>2 DEF Handed
<1>7. SumFunction(Handed') = SumFunction(Handed) + Handed'[s]
  <2>1. IsFiniteSet(DOMAIN deliveries) /\ s \notin DOMAIN deliveries BY <1>1, TablesAreFinite
  <2>2. PICK D, f, g : D = DOMAIN deliveries /\ f = Handed /\ g = Handed' OBVIOUS
  <2>3. IsFiniteSet(D) /\ s \notin D BY <2>1, <2>2
  <2>4. f \in [D -> Int] /\ g \in [D \cup {s} -> Int] /\ \A t \in D : g[t] = f[t] BY <1>6, <2>2
  <2>5. SumFunction(g) = SumFunction(f) + g[s] BY <2>3, <2>4, SumExtends
  <2> QED BY <2>2, <2>5
<1>8. SumFunction(KeptOf) \in Int BY <1>4, TablesAreFinite, SumType
<1> QED BY <1>3, <1>4, <1>5, <1>6, <1>7, <1>8


\* The refunds of a start only give back.
LEMMA RefundsGiveBack ==
  ASSUME PoolInv, Boot
  PROVE  SumFunction(paid) - SumFunction(paid') \in Nat
<1> DEFINE gone == illegal \cup Cleared
           back == [u \in Uids |-> paid[u] - paid'[u]]
<1>1. paid \in [Uids -> Int] BY DEF PoolInv, Tables
<1>2. gone \subseteq DOMAIN items BY DEF Cleared, PoolInv, Deployed
<1>3. paid' = [u \in Uids |-> IF u \in gone /\ items[u].by = "player" THEN paid[u] - PriceOf(items[u]) ELSE paid[u]]
  BY DEF Boot, Refunded
<1> HIDE DEF gone
<1>4. \A u \in gone : PriceOf(items[u]) \in Nat BY <1>2, PriceIsANumber DEF PoolInv, Tables
<1>5. paid' \in [Uids -> Int] /\ back \in [Uids -> Nat] BY <1>1, <1>3, <1>4
<1>6. back \in [Uids -> Int] /\ \A u \in Uids : back[u] = paid[u] - paid'[u] BY <1>5
<1> HIDE DEF back
<1>7. SumFunction(back) = SumFunction(paid) - SumFunction(paid')
  BY <1>1, <1>5, <1>6, TablesAreFinite, SumMinus
<1>8. SumFunction(back) \in Nat BY <1>5, TablesAreFinite, SumOfNaturals
<1> QED BY <1>7, <1>8

-----------------------------------------------------------------------------
(* Money: the sheet, one fetch at a time. *)

Reading(a) == a = [m \in DOMAIN a |-> a[m]] /\ IsFiniteSet(DOMAIN a) /\ \A m \in DOMAIN a : a[m] \in Nat
Below(a, b) == DOMAIN a \subseteq DOMAIN b /\ \A m \in DOMAIN a : a[m] <= b[m]

\* The sheet only grows, and the one answer on its way is at least the snapshot it will replace.
Snapshots ==
  /\ Reading(sheet) /\ Reading(snap) /\ Below(snap, sheet)
  /\ DOMAIN answers = Fetchers
  /\ \A f \in Fetchers : answers[f] # NoAnswer =>
       /\ Reading(answers[f]) /\ Below(snap, answers[f]) /\ Below(answers[f], sheet)
       /\ \A g \in Fetchers \ {f} : answers[g] = NoAnswer

LEMMA Below3 == ASSUME NEW a, NEW b, NEW c, Reading(a), Reading(b), Reading(c), Below(a, b), Below(b, c) PROVE Below(a, c)
<1> SUFFICES ASSUME NEW m \in DOMAIN a PROVE m \in DOMAIN c /\ a[m] <= c[m] BY DEF Below
<1>1. m \in DOMAIN b /\ m \in DOMAIN c /\ a[m] <= b[m] /\ b[m] <= c[m] BY DEF Below
<1>2. a[m] \in Nat /\ b[m] \in Nat /\ c[m] \in Nat BY <1>1 DEF Reading
<1> QED BY <1>1, <1>2

\* What an answer brings in is what it has more than the snapshot, member by member.
LEMMA IncomeIsLogged ==
  ASSUME Reading(snap), NEW a, Reading(a), Below(snap, a)
  PROVE  /\ SumFunction(a) = SumFunction(snap) + IncomeLogged(a) /\ IncomeLogged(a) \in Nat
         /\ SumFunction(snap) \in Nat
<1> DEFINE M == DOMAIN a
           had == [m \in M |-> IF m \in DOMAIN snap THEN snap[m] ELSE 0]
           more == [m \in M |-> IF m \in DOMAIN snap THEN Max({a[m] - snap[m], 0}) ELSE a[m]]
<1>1. a \in [M -> Int] /\ \A m \in M : a[m] \in Nat BY DEF Reading
<1>2. snap \in [DOMAIN snap -> Nat] /\ snap \in [DOMAIN snap -> Int] /\ DOMAIN snap \in SUBSET M
  BY DEF Reading, Below
<1>3. had \in [M -> Int] /\ \A m \in M : had[m] = IF m \in DOMAIN snap THEN snap[m] ELSE 0
  BY <1>2
<1>4. ASSUME NEW m \in M PROVE more[m] = a[m] - had[m] /\ more[m] \in Nat
  <2>1. CASE m \in DOMAIN snap
    <3>1. a[m] - snap[m] \in Nat BY <1>1, <1>2, <2>1 DEF Below
    <3>2. Max({a[m] - snap[m], 0}) = a[m] - snap[m]
      <4>1. PICK d : d = a[m] - snap[m] OBVIOUS
      <4>2. d \in Nat BY <3>1, <4>1
      <4>3. \A x : (x \in {d, 0} /\ \A y \in {d, 0} : x >= y) <=> x = d BY <4>2
      <4>4. Max({d, 0}) = d BY <4>3 DEF Max
      <4> QED BY <4>1, <4>4
    <3> QED BY <1>3, <2>1, <3>1, <3>2
  <2>2. CASE m \notin DOMAIN snap BY <1>1, <1>3, <2>2
  <2> QED BY <2>1, <2>2
<1>5. more \in [M -> Nat] /\ more \in [M -> Int]
  <2>1. more = [m \in M |-> more[m]] OBVIOUS
  <2> HIDE DEF more
  <2> QED BY <1>4, <2>1
<1>6. IncomeLogged(a) = SumFunction(more) BY DEF IncomeLogged
<1>7. IsFiniteSet(M) /\ IsFiniteSet(DOMAIN snap) BY DEF Reading
<1> HIDE DEF M, had, more
<1>8. SumFunction(had) = SumFunction(snap) BY <1>2, <1>3, <1>7, SumPads
<1>9. SumFunction(more) = SumFunction(a) - SumFunction(had) BY <1>1, <1>3, <1>4, <1>5, <1>7, SumMinus
<1>10. SumFunction(more) \in Nat /\ SumFunction(snap) \in Nat BY <1>2, <1>5, <1>7, SumOfNaturals
<1>11. SumFunction(a) \in Int BY <1>1, <1>7, SumType
<1> QED BY <1>6, <1>8, <1>9, <1>10, <1>11

\* The answers on their way, when one more fetch has started.
LEMMA FetchStarts ==
  ASSUME Snapshots, NEW f \in Fetchers, \A g \in Fetchers : answers[g] = NoAnswer, answers' = [answers EXCEPT ![f] = sheet'],
         snap' = snap, Reading(sheet'), Below(sheet, sheet')
  PROVE  Snapshots'
<1>1. DOMAIN answers' = Fetchers /\ answers'[f] = sheet' /\ \A g \in Fetchers \ {f} : answers'[g] = NoAnswer
  BY DEF Snapshots
<1>2. Below(snap, sheet') BY Below3 DEF Snapshots
<1>3. Below(sheet', sheet') BY DEF Below, Reading
<1>4. Reading(snap') /\ Below(snap', sheet') BY <1>2 DEF Snapshots
<1>5. ASSUME NEW g \in Fetchers, answers'[g] # NoAnswer
      PROVE  /\ Reading(answers'[g]) /\ Below(snap', answers'[g]) /\ Below(answers'[g], sheet')
             /\ \A e \in Fetchers \ {g} : answers'[e] = NoAnswer
  <2>1. g = f /\ answers'[g] = sheet' BY <1>1, <1>5
  <2> QED BY <1>1, <1>3, <1>4, <2>1
<1> QED BY <1>1, <1>4, <1>5 DEF Snapshots

LEMMA RefreshStarts ==
  ASSUME ~Overlap, Snapshots, Refreshed, UNCHANGED <<sheet, snap>>
  PROVE  Snapshots'
<1>1. CASE answers' = answers BY <1>1 DEF Snapshots
<1>2. CASE Idle(Background) /\ answers' = [answers EXCEPT ![Background] = sheet']
  <2>1. Background \in Fetchers /\ \A g \in Fetchers : answers[g] = NoAnswer BY <1>2 DEF Idle, Fetchers
  <2>2. Reading(sheet') /\ Below(sheet, sheet') BY DEF Snapshots, Below, Reading
  <2> QED BY <1>2, <2>1, <2>2, FetchStarts
<1> QED BY <1>1, <1>2 DEF Refreshed

LEMMA EarnGrows ==
  ASSUME Snapshots, NEW m \in Members, Earn(m)
  PROVE  Snapshots'
<1>1. sheet' = [sheet EXCEPT ![m] = @ + 1] /\ m \in DOMAIN sheet /\ UNCHANGED <<answers, snap>> BY DEF Earn
<1>2. Reading(sheet) BY DEF Snapshots
<1>3. DOMAIN sheet' = DOMAIN sheet /\ \A n \in DOMAIN sheet : sheet'[n] \in Nat /\ sheet[n] <= sheet'[n]
  BY <1>1, <1>2 DEF Reading
<1>4. sheet' = [n \in DOMAIN sheet' |-> sheet'[n]] BY <1>1
<1>5. Reading(sheet') /\ Below(sheet, sheet') BY <1>2, <1>3, <1>4 DEF Reading, Below
<1>6. ASSUME NEW a, Reading(a), Below(a, sheet) PROVE Below(a, sheet') BY <1>2, <1>5, <1>6, Below3
<1> QED BY <1>1, <1>5, <1>6 DEF Snapshots

LEMMA RegisterGrows ==
  ASSUME ~Overlap, Snapshots, NEW h \in Handlers, NEW m \in Members, Register(h, m)
  PROVE  Snapshots'
<1>1. /\ sheet' = [x \in DOMAIN sheet \cup {m} |-> IF x = m THEN 0 ELSE sheet[x]] /\ m \notin DOMAIN sheet
      /\ answers' = [answers EXCEPT ![h] = sheet'] /\ snap' = snap
  BY DEF Register
<1>2. Reading(sheet) BY DEF Snapshots
<1>3. DOMAIN sheet' = DOMAIN sheet \cup {m} /\ \A x \in DOMAIN sheet' : sheet'[x] = IF x = m THEN 0 ELSE sheet[x]
  BY <1>1
<1>4. sheet' = [x \in DOMAIN sheet' |-> sheet'[x]] BY <1>1
<1>5. IsFiniteSet(DOMAIN sheet') BY <1>2, <1>3, FS_AddElement DEF Reading
<1>6. Reading(sheet') /\ Below(sheet, sheet') BY <1>1, <1>2, <1>3, <1>4, <1>5 DEF Reading, Below
<1>7. h \in Fetchers /\ \A g \in Fetchers : answers[g] = NoAnswer BY DEF Register, Idle, Fetchers
<1> QED BY <1>1, <1>6, <1>7, FetchStarts

LEMMA AnswerIsTaken ==
  ASSUME Snapshots, NEW f \in Fetchers, AnswerLands(f)
  PROVE  Snapshots'
<1>1. /\ answers[f] # NoAnswer /\ snap' = answers[f] /\ answers' = [answers EXCEPT ![f] = NoAnswer] /\ sheet' = sheet
  BY DEF AnswerLands
<1>2. DOMAIN answers' = Fetchers /\ \A g \in Fetchers : answers'[g] = NoAnswer BY <1>1 DEF Snapshots
<1>3. Reading(snap') /\ Below(snap', sheet') BY <1>1 DEF Snapshots
<1> QED BY <1>1, <1>2, <1>3 DEF Snapshots

LEMMA SnapshotsStep ==
  ASSUME ~Overlap, Snapshots, [Next]_vars
  PROVE  Snapshots'
<1>1. CASE UNCHANGED <<sheet, answers, snap>> BY <1>1 DEF Snapshots
<1>2. ASSUME Refreshed, UNCHANGED <<sheet, snap>> PROVE Snapshots' BY <1>2, RefreshStarts
<1>3. ASSUME NEW h \in Handlers, WaitForSheet(h) PROVE Snapshots'
  <2>1. h \in Fetchers /\ \A g \in Fetchers : answers[g] = NoAnswer BY <1>3 DEF WaitForSheet, Idle, Fetchers
  <2>2. answers' = [answers EXCEPT ![h] = sheet'] /\ UNCHANGED <<snap, sheet>> BY <1>3 DEF WaitForSheet
  <2>3. Reading(sheet') /\ Below(sheet, sheet') BY <2>2 DEF Snapshots, Below, Reading
  <2> QED BY <2>1, <2>2, <2>3, FetchStarts
<1>4. ASSUME NEW f \in Fetchers, FetchFails(f) PROVE Snapshots' BY <1>4 DEF FetchFails, Snapshots
<1>5. CASE Restart BY <1>5 DEF Restart, Snapshots
<1> QED BY <1>1, <1>2, <1>3, <1>4, <1>5, EarnGrows, RegisterGrows, AnswerIsTaken
        DEF Next, CacheExpires, Refresh, Place, Move, Remove, Catch, WindowCloses, Deliver, GuestNight, Boot, vars, sheetVars

LEMMA SnapshotsAlways == ASSUME ~Overlap PROVE Spec => []Snapshots
<1>1. ASSUME Init PROVE Snapshots
  <2>1. Reading(sheet) BY <1>1, PoolAssumption DEF Init, Reading
  <2>2. Reading(snap) /\ DOMAIN snap = {} BY <1>1, FS_EmptySet DEF Init, Reading
  <2> QED BY <1>1, <2>1, <2>2 DEF Init, Snapshots, Below
<1> QED BY <1>1, SnapshotsStep, PTL DEF Spec

-----------------------------------------------------------------------------
(* Money: every step. *)

Counted == PoolInv /\ Books /\ Snapshots

LEMMA BalanceIsASum ==
  ASSUME Counted
  PROVE  /\ Balance = SumFunction(snap) - SumFunction(paid) + SumFunction(KeptOf) + guestPay
         /\ SumFunction(snap) \in Int /\ SumFunction(paid) \in Int /\ SumFunction(KeptOf) \in Int /\ guestPay \in Nat
         /\ Balance \in Int /\ SumFunction(Handed) \in Nat
         /\ DebtIsDelivered <=> Balance + SumFunction(Handed) >= 0
<1>1. SumFunction(snap) \in Int
  <2>1. IsFiniteSet(DOMAIN snap) /\ snap \in [DOMAIN snap -> Int] BY DEF Counted, Snapshots, Reading
  <2> QED BY <2>1, SumType
<1>2. SumFunction(paid) \in Int
  <2>1. paid \in [Uids -> Int] BY DEF Counted, PoolInv, Tables
  <2> QED BY <2>1, TablesAreFinite, SumType
<1>3. SumFunction(KeptOf) \in Nat /\ SumFunction(Handed) \in Nat
  BY TablesAreFinite, CatchesAreWorth, SumOfNaturals DEF Counted
<1>4. guestPay \in Nat BY DEF Counted, Books
<1>5. Balance = SumFunction(snap) - SumFunction(paid) + SumFunction(KeptOf) + guestPay BY DEF Balance, KeptOf
<1> QED BY <1>1, <1>2, <1>3, <1>4, <1>5 DEF DebtIsDelivered, Handed

\* A step that moves d into the pool writes d into the log, and spends no more than there is, but for what it hands in.
Accounted ==
  \E d \in Int, b \in Nat :
    /\ Balance' = Balance + d /\ logged' = logged + d
    /\ SumFunction(Handed') = SumFunction(Handed) + b
    /\ d + b >= 0 \/ Balance + d >= 0

LEMMA NothingMoves ==
  ASSUME Counted, UNCHANGED <<snap, paid, lootVars, logged>>, logged \in Int
  PROVE  Accounted
<1>1. Balance' = Balance /\ Handed' = Handed BY DEF Balance, Kept, Handed, lootVars
<1>2. Balance' = Balance + 0 /\ logged' = logged + 0 /\ SumFunction(Handed') = SumFunction(Handed) + 0
  BY <1>1, BalanceIsASum
<1> QED BY <1>2 DEF Accounted

\* A charge: what the ledger takes is what the log takes.
LEMMA ChargeIsAccounted ==
  ASSUME Counted, NEW u \in Uids, NEW amount \in Int, paid' = Charge(u, amount), logged' = logged - amount, logged \in Int,
         UNCHANGED <<snap, lootVars>>, amount > 0 => CanPay(amount)
  PROVE  Accounted
<1>1. SumFunction(paid') = SumFunction(paid) + amount BY ChargeAdds DEF Counted, PoolInv
<1>2. Handed' = Handed /\ KeptOf' = KeptOf BY DEF Handed, KeptOf, Kept, lootVars
<1>3. Balance' = SumFunction(snap) - (SumFunction(paid) + amount) + SumFunction(KeptOf) + guestPay
  BY <1>1, <1>2 DEF Balance, KeptOf, lootVars
<1>4. Balance' = Balance + (-amount) BY <1>3, BalanceIsASum
<1>5. -amount >= 0 \/ Balance + (-amount) >= 0 BY BalanceIsASum DEF CanPay
<1>6. SumFunction(Handed') = SumFunction(Handed) + 0 BY <1>2, BalanceIsASum
<1>7. logged' = logged + (-amount) /\ -amount \in Int OBVIOUS
<1> QED BY <1>4, <1>5, <1>6, <1>7 DEF Accounted

LEMMA PlaceIsAccounted ==
  ASSUME Counted, logged \in Int, NEW r \in Rooms, NEW k \in Kinds, NEW span \in 0..MaxSpan, Place(r, k, span)
  PROVE  Accounted
<1>1. PICK p, it :
        /\ p \in Places(k, r, nuid) /\ it = [kind |-> k, room |-> r, span |-> span, by |-> "player", parent |-> p]
        /\ CanPay(PriceOf(it)) /\ paid' = Charge(nuid, PriceOf(it)) /\ logged' = logged - PriceOf(it)
  BY DEF Place
<1>2. UNCHANGED <<snap, lootVars>> /\ nuid \in Uids BY DEF Place, Counted, PoolInv, Tables, Uids
<1>3. PriceOf(it) \in Int
  <2>1. span \in Spans BY PoolAssumption DEF Place, SpansOf, Spans
  <2>2. p \in Nat BY <1>1, PlacesBear DEF Counted
  <2>3. it \in Item BY <1>1, <2>1, <2>2 DEF Item
  <2> QED BY <2>3, PriceIsANumber
<1> QED BY <1>1, <1>2, <1>3, ChargeIsAccounted

LEMMA MoveIsAccounted ==
  ASSUME Counted, logged \in Int, NEW u \in DOMAIN items, NEW span \in 0..MaxSpan, Move(u, span)
  PROVE  Accounted
<1>1. PICK p, it, diff :
        /\ p \in Places(items[u].kind, items[u].room, u) /\ it = [items[u] EXCEPT !.span = span, !.parent = p]
        /\ diff = PriceOf(it) - PriceOf(items[u])
        /\ diff > 0 => CanPay(diff)
        /\ paid' = Charge(u, diff) /\ logged' = logged - diff
  BY DEF Move
<1>2. UNCHANGED <<snap, lootVars>> BY DEF Move, sheetVars
<1>3. items[u] \in Item /\ items[u].kind \in Kinds /\ items[u].room \in Rooms /\ u \in Uids
  BY PoolAssumption DEF Counted, PoolInv, Tables, Item, Uids
<1>4. diff \in Int
  <2>1. span \in Spans BY PoolAssumption DEF Move, SpansOf, Spans
  <2>2. p \in Nat BY <1>1, <1>3, PlacesBear DEF Counted
  <2>3. it \in Item BY <1>1, <1>3, <2>1, <2>2 DEF Item
  <2> QED BY <1>1, <1>3, <2>3, PriceIsANumber
<1> QED BY <1>1, <1>2, <1>3, <1>4, ChargeIsAccounted

LEMMA RemoveIsAccounted ==
  ASSUME Counted, logged \in Int, NEW u \in DOMAIN items, Remove(u)
  PROVE  Accounted
<1>1. PICK price : /\ price = IF items[u].by = "$guest" THEN 0 ELSE PriceOf(items[u])
                   /\ paid' = Charge(u, -price) /\ logged' = logged + price
  BY DEF Remove
<1>2. items[u] \in Item /\ u \in Uids BY PoolAssumption DEF Counted, PoolInv, Tables, Uids
<1>3. price \in Nat BY <1>1, <1>2, PriceIsANumber
<1>4. PICK amount : amount = -price OBVIOUS
<1>5. amount \in Int /\ ~(amount > 0) /\ logged + price = logged - amount BY <1>3, <1>4
<1>6. UNCHANGED <<snap, lootVars>> BY DEF Remove, sheetVars
<1> QED BY <1>1, <1>2, <1>4, <1>5, <1>6, ChargeIsAccounted

\* What comes in.
LEMMA GainIsAccounted ==
  ASSUME Counted, logged \in Int, NEW d \in Nat, Balance' = Balance + d, logged' = logged + d,
         SumFunction(Handed') = SumFunction(Handed)
  PROVE  Accounted
<1>1. d \in Int /\ d + 0 >= 0 /\ SumFunction(Handed') = SumFunction(Handed) + 0 BY BalanceIsASum
<1> QED BY <1>1 DEF Accounted

LEMMA AnswerIsAccounted ==
  ASSUME Counted, logged \in Int, NEW f \in Fetchers, AnswerLands(f)
  PROVE  Accounted
<1>1. /\ snap' = answers[f] /\ logged' = logged + IncomeLogged(answers[f])
      /\ UNCHANGED <<paid, lootVars>> /\ answers[f] # NoAnswer
  BY DEF AnswerLands, itemVars
<1>2. Reading(snap) /\ Reading(answers[f]) /\ Below(snap, answers[f]) BY <1>1 DEF Counted, Snapshots
<1>3. SumFunction(snap') = SumFunction(snap) + IncomeLogged(answers[f]) /\ IncomeLogged(answers[f]) \in Nat
  BY <1>1, <1>2, IncomeIsLogged
<1>4. Handed' = Handed /\ KeptOf' = KeptOf BY <1>1 DEF Handed, KeptOf, Kept, lootVars
<1>5. Balance' = (SumFunction(snap) + IncomeLogged(answers[f])) - SumFunction(paid) + SumFunction(KeptOf) + guestPay
  <2>1. Balance' = SumFunction(snap') - SumFunction(paid') + SumFunction(KeptOf') + guestPay' BY DEF Balance, KeptOf
  <2>2. paid' = paid /\ guestPay' = guestPay BY <1>1 DEF lootVars
  <2> QED BY <1>3, <1>4, <2>1, <2>2
<1>6. Balance' = Balance + IncomeLogged(answers[f]) BY <1>3, <1>5, BalanceIsASum
<1> QED BY <1>1, <1>3, <1>4, <1>6, GainIsAccounted

LEMMA CatchIsAccounted ==
  ASSUME Counted, logged \in Int, NEW p \in Players, NEW l \in Loot, Catch(p, l)
  PROVE  Accounted
<1>1. SumFunction(KeptOf') = SumFunction(KeptOf) + Value[l] /\ Handed' = Handed BY CatchAdds DEF Counted
<1>2. UNCHANGED <<snap, paid, guestPay>> /\ logged' = logged + Value[l] BY DEF Catch, sheetVars, itemVars
<1>3. Balance' = SumFunction(snap) - SumFunction(paid) + (SumFunction(KeptOf) + Value[l]) + guestPay
  BY <1>1, <1>2 DEF Balance, KeptOf
<1>4. Value[l] \in Nat BY PoolAssumption
<1>5. Balance' = Balance + Value[l] BY <1>3, <1>4, BalanceIsASum
<1> QED BY <1>1, <1>2, <1>4, <1>5, GainIsAccounted

LEMMA GuestIsAccounted ==
  ASSUME Counted, logged \in Int, NEW r \in Rooms, NEW pay \in NightPay, GuestNight(r, pay)
  PROVE  Accounted
<1>1. /\ UNCHANGED <<snap, paid, catches, deliveries>> /\ guestPay' = guestPay + pay /\ logged' = logged + pay
  BY DEF GuestNight, sheetVars
<1>2. Handed' = Handed /\ KeptOf' = KeptOf BY <1>1 DEF Handed, KeptOf, Kept
<1>3. Balance' = SumFunction(snap) - SumFunction(paid) + SumFunction(KeptOf) + (guestPay + pay)
  BY <1>1, <1>2 DEF Balance, KeptOf
<1>4. pay \in Nat BY PoolAssumption
<1>5. Balance' = Balance + pay BY <1>3, <1>4, BalanceIsASum
<1> QED BY <1>1, <1>2, <1>4, <1>5, GainIsAccounted

LEMMA DeliverIsAccounted ==
  ASSUME Counted, logged \in Int, NEW p \in Players, NEW s \in DOMAIN catches, NEW r \in Rooms, Deliver(p, s, r)
  PROVE  Accounted
<1>1. PICK v : v = Value[catches[s].loot] OBVIOUS
<1>2. v \in Nat BY <1>1, CatchesAreWorth DEF Counted
<1>3. SumFunction(KeptOf') = SumFunction(KeptOf) - v /\ SumFunction(Handed') = SumFunction(Handed) + v
  BY <1>1, DeliverMoves DEF Counted
<1>4. UNCHANGED <<snap, paid, guestPay>> /\ logged' = logged - v BY <1>1 DEF Deliver, sheetVars, itemVars
<1>5. Balance' = SumFunction(snap) - SumFunction(paid) + (SumFunction(KeptOf) - v) + guestPay
  BY <1>3, <1>4 DEF Balance, KeptOf
<1>6. Balance' = Balance + (-v) /\ logged' = logged + (-v) /\ -v \in Int /\ -v + v >= 0
  BY <1>2, <1>4, <1>5, BalanceIsASum
<1> QED BY <1>2, <1>3, <1>6 DEF Accounted

LEMMA WindowIsAccounted ==
  ASSUME Counted, logged \in Int, NEW s \in DOMAIN catches, WindowCloses(s)
  PROVE  Accounted
<1>1. Balance' = Balance /\ logged' = logged BY WindowIsWorth DEF Counted, WindowCloses
<1>2. Handed' = Handed BY WindowIsBooked DEF Counted, Books, Handed
<1> QED BY <1>1, <1>2, BalanceIsASum, GainIsAccounted

\* Every step but a start, whose refunds are not in the log.
LEMMA StepIsAccounted ==
  ASSUME Counted, logged \in Int, [Next]_vars, ~(Boot /\ paid' # paid)
  PROVE  Accounted
<1>1. CASE UNCHANGED <<snap, paid, lootVars, logged>> BY <1>1, NothingMoves
<1> QED BY <1>1, PlaceIsAccounted, MoveIsAccounted, RemoveIsAccounted, AnswerIsAccounted, CatchIsAccounted,
          GuestIsAccounted, DeliverIsAccounted, WindowIsAccounted
        DEF Next, Earn, CacheExpires, Refresh, WaitForSheet, Register, FetchFails, Restart, Boot, vars, sheetVars, itemVars


-----------------------------------------------------------------------------
(* Money: the theorems. *)

\* The refunds of a start pay into the pool, and are not logged.
LEMMA BootRefunds ==
  ASSUME Counted, Boot
  PROVE  \E d \in Nat : Balance' = Balance + d /\ Handed' = Handed /\ logged' = logged
<1>1. UNCHANGED <<snap, lootVars, logged>> BY DEF Boot, sheetVars
<1>2. Handed' = Handed /\ KeptOf' = KeptOf BY <1>1 DEF Handed, KeptOf, Kept, lootVars
<1>3. SumFunction(paid) - SumFunction(paid') \in Nat BY RefundsGiveBack DEF Counted
<1>4. SumFunction(paid') \in Int
  <2>1. PoolInv' BY BootStep DEF Counted
  <2>2. paid' \in [Uids -> Int] BY <2>1 DEF PoolInv, Tables, Uids
  <2> QED BY <2>2, TablesAreFinite, SumType
<1>5. Balance' = SumFunction(snap) - SumFunction(paid') + SumFunction(KeptOf) + guestPay
  BY <1>1, <1>2 DEF Balance, KeptOf, lootVars
<1>6. PICK d \in Nat : SumFunction(paid) - SumFunction(paid') = d BY <1>3
<1>7. Balance' = Balance + d BY <1>4, <1>5, <1>6, BalanceIsASum
<1> QED BY <1>1, <1>2, <1>7

LEMMA CountedAlways == ASSUME ~Overlap PROVE Spec => []Counted
<1>1. PoolInv /\ Books /\ Snapshots <=> Counted BY DEF Counted
<1> QED BY <1>1, InvAlways, BooksAlways, SnapshotsAlways, PTL

LEMMA InitIsEmpty == ASSUME Init PROVE Balance = 0 /\ logged = 0 /\ SumFunction(Handed) = 0
<1>1. Counted
  <2>1. Reading(sheet) BY PoolAssumption DEF Init, Reading
  <2>2. Reading(snap) /\ DOMAIN snap = {} BY FS_EmptySet DEF Init, Reading
  <2>3. Snapshots BY <2>1, <2>2 DEF Init, Snapshots, Below
  <2>4. Books BY DEF Init, Books, CatchRow
  <2> QED BY <2>3, <2>4, InvInit DEF Counted
<1>2. SumFunction(snap) = 0 /\ SumFunction(KeptOf) = 0 /\ SumFunction(Handed) = 0
  <2>1. DOMAIN snap = {} /\ DOMAIN catches = {} /\ DOMAIN deliveries = {} BY DEF Init
  <2>2. snap \in [{} -> Int] /\ KeptOf \in [{} -> Int] /\ Handed \in [{} -> Int]
    BY <2>1 DEF Init, KeptOf, Handed
  <2> QED BY <2>2, SumOfZeros, FS_EmptySet
<1>3. SumFunction(paid) = 0 BY TablesAreFinite, SumOfZeros DEF Init
<1> QED BY <1>1, <1>2, <1>3, BalanceIsASum DEF Init

\* The pool owes no more than was handed in, and the log holds a number.
LEMMA DebtStep ==
  ASSUME Counted, logged \in Int, DebtIsDelivered, [Next]_vars, Counted'
  PROVE  logged' \in Int /\ DebtIsDelivered'
<1> DEFINE back == SumFunction(Handed)
<1>1. Balance \in Int /\ back \in Nat /\ Balance + back >= 0 BY BalanceIsASum
<1>2. DebtIsDelivered' <=> Balance' + back' >= 0 BY DEF DebtIsDelivered, Handed
<1>3. CASE Accounted
  <2>1. PICK d \in Int, b \in Nat :
          /\ Balance' = Balance + d /\ logged' = logged + d /\ back' = back + b
          /\ d + b >= 0 \/ Balance + d >= 0
    BY <1>3 DEF Accounted
  <2> HIDE DEF back
  <2>2. Balance' + back' >= 0 BY <1>1, <2>1
  <2> QED BY <1>2, <2>1, <2>2
<1>4. CASE Boot /\ paid' # paid
  <2>1. PICK d \in Nat : Balance' = Balance + d /\ back' = back /\ logged' = logged BY <1>4, BootRefunds
  <2> HIDE DEF back
  <2>2. Balance' + back' >= 0 BY <1>1, <2>1
  <2> QED BY <1>2, <2>1, <2>2
<1> QED BY <1>3, <1>4, StepIsAccounted

\* Whatever is bought, sold, refunded, caught and handed in, and in whatever order it commits: no money is spent
\* twice, as long as one fetch is under way at a time.
THEOREM NoMoneySpentTwice == ASSUME ~Overlap PROVE Spec => []DebtIsDelivered
<1> DEFINE Owes == logged \in Int /\ DebtIsDelivered
<1>1. ASSUME Init PROVE Owes
  <2>1. Balance = 0 /\ logged = 0 /\ SumFunction(Handed) = 0 BY <1>1, InitIsEmpty
  <2> QED BY <2>1 DEF DebtIsDelivered, Handed
<1>2. ASSUME Owes, Counted, Counted', [Next]_vars PROVE Owes' BY <1>2, DebtStep
<1>3. Owes => DebtIsDelivered OBVIOUS
<1> HIDE DEF Owes
<1> QED BY <1>1, <1>2, <1>3, CountedAlways, PTL DEF Spec

\* A start that refunds nothing: reconcile_items and _clear_seed_rows write no event for what they refund.
StartsRefundNothing == ~up /\ up' => paid' = paid

LEMMA LogStep ==
  ASSUME Counted, EventsAddUp, [Next]_vars, [StartsRefundNothing]_vars
  PROVE  EventsAddUp'
<1>1. Balance \in Int /\ logged = Balance BY BalanceIsASum DEF EventsAddUp
<1>2. ~(Boot /\ paid' # paid) BY DEF Boot, StartsRefundNothing, vars, itemVars
<1>3. Accounted BY <1>1, <1>2, StepIsAccounted
<1>4. PICK d \in Int : Balance' = Balance + d /\ logged' = logged + d BY <1>3 DEF Accounted
<1> QED BY <1>1, <1>4 DEF EventsAddUp

\* The activity log adds up to the pool, and no money is spent twice, for any catalog, stages and members: with one
\* fetch under way at a time, and starts that refund nothing.
THEOREM MoneyIsKept == ASSUME ~Overlap PROVE Spec /\ [][StartsRefundNothing]_vars => []MoneyAddsUp
<1>1. ASSUME Init PROVE EventsAddUp BY <1>1, InitIsEmpty DEF EventsAddUp
<1>2. Spec /\ [][StartsRefundNothing]_vars => []EventsAddUp
  BY <1>1, LogStep, CountedAlways, PTL DEF Spec
<1>3. EventsAddUp /\ DebtIsDelivered => MoneyAddsUp BY DEF MoneyAddsUp
<1> QED BY <1>2, <1>3, NoMoneySpentTwice, PTL
-----------------------------------------------------------------------------
(* Deliveries. *)

Delivers(n, l) == n.type = "deliver" /\ l \in n.of

\* Every delivery can be put down to a need of its stage that it meets, and no need gets more than it wants.  (The
\* needs of one stage may overlap: the count of what meets a need does not show who filled it.)
PutDown(a) ==
  \A r \in Rooms : \A i \in 1..StageCount(r) :
    /\ \A s \in Delivered(r, i - 1) : a[s] \in Stages[r][i].need /\ Delivers(a[s], catches[s].loot)
    /\ \A n \in Stages[r][i].need : Cardinality({s \in Delivered(r, i - 1) : a[s] = n}) <= n.want

Served == stage \in [Rooms -> Nat] /\ \E a : PutDown(a)

LEMMA NeedsAreNeeds ==
  ASSUME NEW r \in Rooms, NEW i \in 1..StageCount(r)
  PROVE  IsFiniteSet(Stages[r][i].need) /\ \A n \in Stages[r][i].need : n.want \in Nat
<1> DEFINE Row == [need : SUBSET Needs, unlock : SUBSET Rooms]
<1>1. Stages[r] \in Seq(Row) BY PoolAssumption
<1>2. Stages[r][i] \in Row
  <2> HIDE DEF Row
  <2> QED BY <1>1 DEF StageCount
<1>3. \A n \in Stages[r][i].need : n \in Needs BY <1>2
<1>4. IsFiniteSet(Stages[r][i].need) BY PoolAssumption
<1> QED BY <1>3, <1>4 DEF Needs

\* What a stage asks for in all.
LEMMA WantsAreSummed ==
  ASSUME NEW S
  PROVE  MapThenSumSet(LAMBDA n : n.want, S) = SumFunction([n \in S |-> n.want])
<1> DEFINE f == [n \in S |-> n.want]
           A(g) == [s \in SUBSET S |-> IF s = {} THEN 0
                                       ELSE (CHOOSE x \in s : TRUE).want + g[s \ {CHOOSE x \in s : TRUE}]]
           B(g) == [s \in SUBSET S |-> IF s = {} THEN 0
                                       ELSE f[CHOOSE x \in s : TRUE] + g[s \ {CHOOSE x \in s : TRUE}]]
<1>1. MapThenSumSet(LAMBDA n : n.want, S) = (CHOOSE g : g = A(g))[S]
  BY DEF MapThenSumSet, MapThenFoldSet
<1>2. SumFunction(f) = (CHOOSE g : g = B(g))[S]
  BY DEF SumFunction, SumFunctionOnSet, FoldFunctionOnSet, MapThenFoldSet
<1>3. ASSUME NEW g PROVE A(g) = B(g)
  <2>1. ASSUME NEW s \in SUBSET S, s # {} PROVE f[CHOOSE x \in s : TRUE] = (CHOOSE x \in s : TRUE).want
    <3>1. PICK y : y = CHOOSE x \in s : TRUE OBVIOUS
    <3>2. y \in s BY <2>1, <3>1
    <3> QED BY <3>1, <3>2
  <2> HIDE DEF f
  <2> QED BY <2>1
<1> HIDE DEF A, B
<1>4. (CHOOSE g : g = A(g)) = (CHOOSE g : g = B(g)) BY <1>3
<1> QED BY <1>1, <1>2, <1>4

LEMMA ServedWastesNothing == ASSUME Books, Served PROVE NoCatchWasted
<1>1. PICK a : PutDown(a) BY DEF Served
<1> SUFFICES ASSUME NEW r \in Rooms, NEW i \in 1..StageCount(r)
             PROVE  Cardinality(Delivered(r, i - 1)) <=
                      MapThenSumSet(LAMBDA n : n.want, {n \in Stages[r][i].need : n.type = "deliver"})
  BY DEF NoCatchWasted
<1> DEFINE D == {n \in Stages[r][i].need : n.type = "deliver"}
           X == Delivered(r, i - 1)
           f == [n \in D |-> n.want]
<1>2. IsFiniteSet(D) /\ \A n \in D : n.want \in Nat BY NeedsAreNeeds, FS_Subset
<1>3. IsFiniteSet(X) BY TablesAreFinite, FS_Subset DEF Delivered
<1>4. f \in [D -> Nat] /\ \A n \in D : f[n] = n.want BY <1>2
<1>5. \A s \in X : a[s] \in D BY <1>1 DEF PutDown, Delivers
<1>6. \A n \in D : Cardinality({s \in X : a[s] = n}) <= n.want BY <1>1 DEF PutDown
<1>7. MapThenSumSet(LAMBDA n : n.want, D) = SumFunction(f) BY WantsAreSummed
<1> HIDE DEF D, X, f
<1>8. {s \in X : a[s] \in D} = X BY <1>5
<1>9. Cardinality({s \in X : a[s] \in D}) <= SumFunction(f) BY <1>2, <1>3, <1>4, <1>6, CountedBySum
<1>10. Cardinality(X) <= MapThenSumSet(LAMBDA n : n.want, D) BY <1>7, <1>8, <1>9
<1> QED BY <1>10 DEF D, X

LEMMA StageCounts == ASSUME AdvanceRooms, stage \in [Rooms -> Nat] PROVE stage' \in [Rooms -> Nat]
<1>1. PICK f \in [Rooms -> 0..Max({StageCount(r) : r \in Rooms})] : stage' = f BY DEF AdvanceRooms
<1>2. ASSUME NEW r \in Rooms PROVE f[r] \in Nat
  <2>1. PICK m : m = Max({StageCount(q) : q \in Rooms}) OBVIOUS
  <2>2. f[r] \in 0..m BY <1>1, <2>1
  <2> QED BY <2>2
<1> QED BY <1>1, <1>2

\* As long as nothing is handed in, what was handed in stays where it was put down.
LEMMA ServedStays ==
  ASSUME Books, Served, deliveries' = deliveries, stage' \in [Rooms -> Nat],
         \A s \in DOMAIN catches : catches'[s].loot = catches[s].loot
  PROVE  Served'
<1>1. PICK a : PutDown(a) BY DEF Served
<1>2. \A s \in DOMAIN deliveries : catches'[s].loot = catches[s].loot BY DEF Books
<1>3. PutDown(a)' BY <1>1, <1>2 DEF PutDown, Delivered, Delivers, StageCount
<1> QED BY <1>3 DEF Served

\* A delivery goes to a need that is not met, and that has not had its share then.
LEMMA DeliverServes ==
  ASSUME Books, Served, NEW p \in Players, NEW s \in DOMAIN catches, NEW q \in Rooms, Deliver(p, s, q)
  PROVE  Served'
<1>1. PICK a : PutDown(a) BY DEF Served
<1>2. PICK k : k = stage[q] + 1 OBVIOUS
<1>3. k \in 1..StageCount(q) /\ k - 1 = stage[q]
  <2>1. stage[q] \in Nat /\ stage[q] < StageCount(q) BY DEF Served, Deliver, OpenDeliverNeeds
  <2>2. StageCount(q) \in Nat
    <3> DEFINE Row == [need : SUBSET Needs, unlock : SUBSET Rooms]
    <3>1. Stages[q] \in Seq(Row) BY PoolAssumption
    <3> HIDE DEF Row
    <3> QED BY <3>1 DEF StageCount
  <2> QED BY <1>2, <2>1, <2>2
<1>4. PICK n \in Stages[q][k].need : Delivers(n, catches[s].loot) /\ ~NeedMet(n, q, stage[q])
  BY <1>2 DEF Deliver, OpenDeliverNeeds, Delivers
<1>5. /\ catches' = catches /\ s \notin DOMAIN deliveries
      /\ deliveries' = [t \in DOMAIN deliveries \cup {s} |->
                          IF t = s THEN [room |-> q, stage_idx |-> stage[q]] ELSE deliveries[t]]
  BY DEF Deliver
<1>6. PICK b : b[s] = n /\ \A t \in DOMAIN deliveries : b[t] = a[t]
  <2> DEFINE c == [t \in DOMAIN deliveries \cup {s} |-> IF t = s THEN n ELSE a[t]]
  <2>1. c[s] = n /\ \A t \in DOMAIN deliveries : c[t] = a[t] BY <1>5
  <2> HIDE DEF c
  <2> QED BY <2>1
<1>7. ASSUME NEW r \in Rooms, NEW i \in 1..StageCount(r)
      PROVE  Delivered(r, i - 1)' = IF r = q /\ i = k THEN Delivered(r, i - 1) \cup {s} ELSE Delivered(r, i - 1)
  <2>1. PICK j : j = i - 1 OBVIOUS
  <2>2. [room |-> q, stage_idx |-> stage[q]] = [room |-> r, stage_idx |-> j] <=> r = q /\ i = k
    BY <1>3, <2>1
  <2>3. Delivered(r, j)' = IF r = q /\ i = k THEN Delivered(r, j) \cup {s} ELSE Delivered(r, j)
    BY <1>5, <2>2 DEF Delivered
  <2> QED BY <2>1, <2>3
<1>8. ASSUME NEW r \in Rooms, NEW i \in 1..StageCount(r), NEW t \in Delivered(r, i - 1)'
      PROVE  b[t] \in Stages[r][i].need /\ Delivers(b[t], catches'[t].loot)
  <2>1. CASE t = s
    <3>1. s \notin Delivered(r, i - 1) BY <1>5 DEF Delivered
    <3>2. r = q /\ i = k BY <1>7, <1>8, <2>1, <3>1
    <3> QED BY <1>4, <1>5, <1>6, <2>1, <3>2
  <2>2. CASE t # s
    <3>1. t \in Delivered(r, i - 1) /\ t \in DOMAIN deliveries BY <1>7, <1>8, <2>2 DEF Delivered
    <3> QED BY <1>1, <1>5, <1>6, <3>1 DEF PutDown
  <2> QED BY <2>1, <2>2
<1>9. ASSUME NEW r \in Rooms, NEW i \in 1..StageCount(r), NEW m \in Stages[r][i].need
      PROVE  Cardinality({t \in Delivered(r, i - 1)' : b[t] = m}) <= m.want
  <2> DEFINE Had == {t \in Delivered(r, i - 1) : a[t] = m}
             Has == {t \in Delivered(r, i - 1)' : b[t] = m}
  <2>1. Cardinality(Had) <= m.want BY <1>1 DEF PutDown
  <2>2. Delivered(r, i - 1) \subseteq DOMAIN deliveries BY DEF Delivered
  <2>3. CASE r = q /\ i = k /\ m = n
    <3>1. Has = Had \cup {s} BY <1>5, <1>6, <1>7, <2>2, <2>3
    <3>2. IsFiniteSet(Had) /\ s \notin Had BY <1>5, <2>2, TablesAreFinite, FS_Subset
    <3>3. Cardinality(Has) = Cardinality(Had) + 1
      <4> HIDE DEF Had, Has
      <4> QED BY <3>1, <3>2, FS_AddElement
    <3>4. Cardinality(Had) < m.want
      <4> DEFINE Of == {t \in Delivered(q, stage[q]) : catches[t].loot \in n.of}
      <4>1. n.type = "deliver" /\ ~(Cardinality(Of) >= n.want) BY <1>4 DEF Delivers, NeedMet
      <4>2. Had \subseteq Of BY <1>1, <1>3, <2>3 DEF PutDown, Delivers
      <4>3. IsFiniteSet(Of) BY TablesAreFinite, FS_Subset DEF Delivered
      <4> HIDE DEF Had, Of
      <4>4. Cardinality(Had) <= Cardinality(Of) /\ Cardinality(Had) \in Nat /\ Cardinality(Of) \in Nat
        BY <3>2, <4>2, <4>3, FS_Subset, FS_CardinalityType
      <4>5. n.want \in Nat BY <1>3, NeedsAreNeeds
      <4> QED BY <2>3, <4>1, <4>4, <4>5
    <3>5. Cardinality(Had) \in Nat /\ m.want \in Nat BY <3>2, FS_CardinalityType, NeedsAreNeeds
    <3> HIDE DEF Had, Has
    <3>6. Cardinality(Has) <= m.want BY <3>3, <3>4, <3>5
    <3> QED BY <3>6 DEF Has
  <2>4. CASE ~(r = q /\ i = k /\ m = n)
    <3>1. Has = Had BY <1>5, <1>6, <1>7, <2>2, <2>4
    <3> QED BY <2>1, <3>1
  <2> QED BY <2>3, <2>4
<1>10. PutDown(b)' BY <1>8, <1>9 DEF PutDown, StageCount, Delivers
<1>11. stage' \in [Rooms -> Nat] BY StageCounts DEF Deliver, Served
<1> QED BY <1>10, <1>11 DEF Served

LEMMA ServedStep ==
  ASSUME Books, Served, [Next]_vars
  PROVE  Served'
<1>1. stage' \in [Rooms -> Nat]
  <2>1. CASE stage' = stage BY <2>1 DEF Served
  <2>2. CASE AdvanceRooms BY <2>2, StageCounts DEF Served
  <2> QED BY <2>1, <2>2
          DEF Next, Earn, CacheExpires, Refresh, WaitForSheet, Register, AnswerLands, FetchFails, Place, Move, Remove,
              Catch, WindowCloses, Deliver, GuestNight, Restart, Boot, vars
<1>2. CASE UNCHANGED <<catches, deliveries>> BY <1>1, <1>2, ServedStays
<1>3. ASSUME NEW p \in Players, NEW l \in Loot, Catch(p, l) PROVE Served'
  BY <1>1, <1>3, ServedStays, CatchIsBooked DEF Catch
<1>4. ASSUME NEW s \in DOMAIN catches, WindowCloses(s) PROVE Served'
  BY <1>1, <1>4, ServedStays, WindowIsBooked
<1> QED BY <1>2, <1>3, <1>4, DeliverServes
        DEF Next, Earn, CacheExpires, Refresh, WaitForSheet, Register, AnswerLands, FetchFails, Place, Move, Remove,
            GuestNight, Restart, Boot, vars, lootVars

\* No stage takes more catches than it asks for, however its needs overlap.
THEOREM NoStageTakesMore == Spec => []NoCatchWasted
<1>1. ASSUME Init PROVE Served
  <2>1. DOMAIN deliveries = {} BY <1>1 DEF Init
  <2>2. \A r \in Rooms : \A i \in 1..StageCount(r) : Delivered(r, i - 1) = {} BY <2>1 DEF Delivered
  <2>3. ASSUME NEW a PROVE PutDown(a)
    <3> SUFFICES ASSUME NEW r \in Rooms, NEW i \in 1..StageCount(r), NEW n \in Stages[r][i].need
                 PROVE  Cardinality({s \in Delivered(r, i - 1) : a[s] = n}) <= n.want
      BY <2>2 DEF PutDown
    <3>1. {s \in Delivered(r, i - 1) : a[s] = n} = {} BY <2>2
    <3>2. Cardinality({s \in Delivered(r, i - 1) : a[s] = n}) = 0 BY <3>1, FS_EmptySet
    <3>3. n.want \in Nat BY NeedsAreNeeds
    <3> QED BY <3>2, <3>3
  <2> QED BY <1>1, <2>3 DEF Init, Served
<1>2. Books /\ Served => NoCatchWasted BY ServedWastesNothing
<1> QED BY <1>1, <1>2, ServedStep, BooksAlways, PTL DEF Spec
=============================================================================
