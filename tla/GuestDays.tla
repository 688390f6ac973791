----------------------------- MODULE GuestDays -----------------------------
(***************************************************************************)
(* The guests' days: server/app/guests.py as settle_guests of main.py runs *)
(* it, at the start and then every minute.                                 *)
(*                                                                         *)
(* A guest day ends at checkout.  A pass settles, in one transaction, all  *)
(* the days a unit is behind, with what stands in the unit now; then the   *)
(* unit may be booked, and once a month the dog lover books the comfiest   *)
(* one.  Several days may end before a pass: the server was down.          *)
(*                                                                         *)
(* A unit holds at most one of each ware here, placed by a player; what it *)
(* is worth comes from Comfort, without the cat.  Chance is a choice:      *)
(* whether a guest asks, for what and for when, and whether a note finds   *)
(* a free cell.  The dog lover's day of a month is fixed, as in the code.  *)
(***************************************************************************)
EXTENDS Comfort

CONSTANTS
  NUnits,             \* the units are numbered in the order of the catalogue
  SpecialAfter,       \* the unit whose opening lets guests ask for things (special_after)
  Tables, DogWares,   \* items a note can lie on, items a dog likes
  Requestable,        \* items for sale, of a set layer and not cheap
  MaxCatchup, LeadMin, LeadMax, ReserveMult, DogMult, DogFallback,
  MonthDays, DogDay,  \* the length of a month; month -> the dog lover's day
  MaxGuestNotes,
  NoPromise,
  Stocked, Movable,       \* bounds: unit -> what was put there before the first day, and what is moved later
  LastGuestDay, MaxMoves  \* bounds: the last day, how often players change a unit

Units == 1 .. NUnits
GuestDay == 1 .. LastGuestDay
Month(d) == (d - 1) \div MonthDays + 1
ASSUME GuestAssumption ==
  /\ {NUnits, MaxCatchup, LeadMin, MonthDays, MaxGuestNotes, LastGuestDay} \subseteq Nat \ {0}
  /\ {LeadMax, ReserveMult, DogMult} \subseteq Nat /\ LeadMin <= LeadMax
  /\ SpecialAfter \in Units /\ Requestable \cup Tables \cup DogWares \subseteq Wares
  /\ Stocked \in [Units -> SUBSET Wares] /\ Movable \in [Units -> SUBSET Wares]
  /\ \A d \in GuestDay : DogDay[Month(d)] \in Nat /\ Month(DogDay[Month(d)]) = Month(d)

VARIABLES
  today,        \* day_key of the clock
  settledTo,    \* unit -> room_meta guest_day, 0 when there is none
  noGuestsDay,  \* unit -> room_meta no_guests_day
  pending,      \* the reservations still pending
  dogMonth,     \* room_meta dog_month
  inside,       \* unit -> what players have put there
  notes,        \* unit -> how many guests' notes lie there
  openedOn,     \* unit -> the day its room was opened, 0 while it is locked
  moves,        \* how often players have changed something
  nights,       \* unit -> day -> how the night went
  missedOn,     \* unit -> the days on which a request was not met
  promise,      \* unit -> what the panel promised for the night, just before checkout
  takings       \* unit -> what the last pass brought

guestVars == <<today, settledTo, noGuestsDay, pending, dogMonth, inside, notes, openedOn, moves,
               nights, missedOn, promise, takings>>

-----------------------------------------------------------------------------
IsOpen(u) == openedOn[u] # 0
Behind(u) == IsOpen(u) /\ settledTo[u] \in 1 .. today - 1

Placed(wares) == SetToSeq({[item |-> w, by |-> "player"] : w \in wares})
ScoreOf == [wares \in SUBSET Wares |-> Score(Placed(wares), 0)]
BedsOf == [wares \in SUBSET Wares |-> BedCount(Placed(wares))]
Earns(u) == NightlyPay(ScoreOf[inside[u]], BedsOf[inside[u]])

\* A reservation is kept with a bed and what was asked for; a dog also sleeps in a very comfortable unit.
Ready(u, r) ==
  /\ BedsOf[inside[u]] > 0
  /\ \/ r.kind = "item" /\ r.item \in inside[u]
     \/ r.kind = "dog" /\ (inside[u] \cap DogWares # {} \/ ScoreOf[inside[u]] >= DogFallback)
Extra(u, r) == PayPerGuest(ScoreOf[inside[u]]) * (IF r.kind = "dog" THEN DogMult ELSE ReserveMult)
Of(u, reservations) == {r \in reservations : r.unit = u}

-----------------------------------------------------------------------------
(* The pass: guests.settle. *)

\* _settle_day.  The flag is read first, a miss sets it for the next day.
NextSkip(d) == d + 1
\* (for a mutant: a request is due on one day only)
DueOn(r, d) == r.due = d
DueBy(r, d) == r.due <= d
Night(u, s, d) ==
  LET due == {r \in s.pending : DueBy(r, d)}
      met == {r \in due : Ready(u, r)}
      missed == {r \in due \ met : r.kind = "item"}
      guests == s.skip # d /\ GuestCount(ScoreOf[inside[u]], BedsOf[inside[u]]) > 0
      pay == (IF guests THEN Earns(u) ELSE 0) + SumFunction([r \in met |-> Extra(u, r)])
  IN [pending |-> s.pending \ due,
      skip |-> IF missed # {} THEN NextSkip(d) ELSE s.skip,
      pay |-> s.pay + pay, paid |-> s.paid + (IF pay > 0 THEN 1 ELSE 0),
      full |-> s.full \cup {e \in {d} : guests}, missed |-> s.missed \cup {e \in {d} : missed # {}}]

FirstDay(u) == Max({settledTo[u] + 1, today - MaxCatchup + 1})
Settled(u) ==
  LET before == FirstDay(u) - 1
      night[d \in before .. today] ==
        IF d = before
        THEN [pending |-> Of(u, pending), skip |-> noGuestsDay[u], pay |-> 0, paid |-> 0, full |-> {}, missed |-> {}]
        ELSE LET s == night[d - 1] IN Night(u, s, d)
  IN night[today]

\* leave_note: on a table, when a cell is free; the oldest notes go first.
NotesAfter(n) == Min({n + 1, MaxGuestNotes})
NotesLeft(u, paid) ==
  LET left[k \in 0 .. paid] == IF k = 0 THEN notes[u] ELSE LET n == left[k - 1] IN NotesAfter(n)
  IN IF inside[u] \cap Tables # {} THEN left[paid] ELSE notes[u]

\* _maybe_reserve: a unit with a bed that was settled now and has no reservation pending.
MayAsk(u, left) == IsOpen(SpecialAfter) /\ BedsOf[inside[u]] > 0 /\ left = {}
Requests(u, left) ==
  {{}} \cup {{[unit |-> u, kind |-> "item", item |-> w, due |-> today + lead]} :
             w \in {w \in Requestable \ inside[u] : MayAsk(u, left)}, lead \in LeadMin .. LeadMax}

\* _maybe_dog: decided once a month, for the first of the comfiest open units.
DogDecided == dogMonth = Month(today)
Comfiest ==
  LET key(u) == IF BedsOf[inside[u]] > 0 THEN ScoreOf[inside[u]] ELSE -1
      open == {u \in Units : IsOpen(u)}
  IN Min({u \in open : \A v \in open : key(u) >= key(v)})
DogBooks == IsOpen(SpecialAfter) /\ ~DogDecided
DogAsks ==
  IF DogBooks /\ DogDay[Month(today)] > today
  THEN {[unit |-> Comfiest, kind |-> "dog", item |-> "", due |-> DogDay[Month(today)]]} ELSE {}

Went(u, s, d) ==
  IF d < FirstDay(u) THEN nights[u][d]
  ELSE IF nights[u][d] # "none" THEN "twice"
  ELSE IF d \in s.full THEN "guests" ELSE "empty"
NightsAfter(u, s) == [d \in GuestDay |-> IF d <= today THEN Went(u, s, d) ELSE "none"]

\* What a pass may make of a unit.  One that has never been settled only starts
\* counting, one that is locked or up to date stays as it is.
Starts(u) == IsOpen(u) /\ settledTo[u] = 0
AsItIs(u) ==
  [pending |-> Of(u, pending), skip |-> noGuestsDay[u], to |-> IF Starts(u) THEN today ELSE settledTo[u],
   notes |-> notes[u], nights |-> nights[u], missed |-> {}, takings |-> takings[u]]
AfterPass(u, s) ==
  {[pending |-> s.pending \cup asked, skip |-> s.skip, to |-> today, notes |-> n,
    nights |-> NightsAfter(u, s), missed |-> s.missed, takings |-> s.pay] :
   asked \in Requests(u, s.pending), n \in {notes[u], NotesLeft(u, s.paid)}}
Outcomes(u) == IF Behind(u) THEN AfterPass(u, Settled(u)) ELSE {AsItIs(u)}
WithUnit(passes, u) == {Append(x[1], x[2]) : x \in passes \X Outcomes(u)}
Passes ==
  LET upTo[u \in 0 .. NUnits] == IF u = 0 THEN {<<>>} ELSE WithUnit(upTo[u - 1], u)
  IN upTo[NUnits]

Settle ==
  /\ \E after \in Passes :
       /\ pending' = (UNION {after[u].pending : u \in Units}) \cup DogAsks
       /\ settledTo' = [u \in Units |-> after[u].to] /\ noGuestsDay' = [u \in Units |-> after[u].skip]
       /\ notes' = [u \in Units |-> after[u].notes] /\ nights' = [u \in Units |-> after[u].nights]
       /\ missedOn' = [u \in Units |-> missedOn[u] \cup after[u].missed]
       /\ takings' = [u \in Units |-> after[u].takings]
  /\ dogMonth' = IF DogBooks THEN Month(today) ELSE dogMonth
  /\ UNCHANGED <<today, inside, openedOn, moves, promise>>

-----------------------------------------------------------------------------
(* The panel, the players and the clock. *)

\* (for a mutant: the panel is off by a day)
SkipsToday(u) == noGuestsDay[u] = today
\* unit_view: tonight's guests, and the reservation that is due first with whether it is ready.
Skips(u) == noGuestsDay[u] = today + 1
PanelPay(u) ==
  LET first == {r \in Of(u, pending) : \A s \in Of(u, pending) : r.due <= s.due}
      kept == {r \in first : r.due = today + 1 /\ Ready(u, r)}
  IN (IF Skips(u) THEN 0 ELSE Earns(u)) + IF kept = {} THEN 0 ELSE Min({Extra(u, r) : r \in kept})

Checkout(n) ==
  /\ today + n <= LastGuestDay /\ today' = today + n
  /\ promise' = [u \in Units |-> IF n = 1 /\ settledTo[u] = today THEN PanelPay(u) ELSE NoPromise]
  /\ UNCHANGED <<settledTo, noGuestsDay, pending, dogMonth, inside, notes, openedOn, moves, nights, missedOn, takings>>

\* A player places or takes away an item, or opens a room by finishing a stage.
Change(u, wares) ==
  /\ IsOpen(u) /\ inside' = [inside EXCEPT ![u] = wares] /\ promise' = [promise EXCEPT ![u] = NoPromise]
  /\ UNCHANGED <<today, settledTo, noGuestsDay, pending, dogMonth, notes, openedOn, nights, missedOn, takings>>
OpenRoom(u) ==
  /\ ~IsOpen(u) /\ openedOn' = [openedOn EXCEPT ![u] = today]
  /\ UNCHANGED <<today, settledTo, noGuestsDay, pending, dogMonth, inside, notes, nights, missedOn, promise, takings>>

\* A player clears a note away, or lays it on a table of another unit.
TakeNote(u) ==
  /\ notes[u] > 0 /\ \E v \in Units \cup {0} : notes' = [w \in Units |-> notes[w] + (IF w = v THEN 1 ELSE 0) - (IF w = u THEN 1 ELSE 0)]
  /\ UNCHANGED <<today, settledTo, noGuestsDay, pending, dogMonth, inside, openedOn, nights, missedOn, promise, takings>>

GuestInit ==
  /\ today = 1 /\ settledTo = [u \in Units |-> 0] /\ noGuestsDay = [u \in Units |-> 0] /\ pending = {} /\ dogMonth = 0
  /\ inside = Stocked /\ notes = [u \in Units |-> 0] /\ moves = 0
  /\ openedOn = [u \in Units |-> IF u = 1 THEN 1 ELSE 0]
  /\ nights = [u \in Units |-> [d \in GuestDay |-> "none"]] /\ missedOn = [u \in Units |-> {}]
  /\ promise = [u \in Units |-> NoPromise] /\ takings = [u \in Units |-> 0]

GuestNext ==
  \/ Settle
  \/ \E n \in 1 .. MaxCatchup + 1 : Checkout(n)
  \/ /\ moves < MaxMoves /\ moves' = moves + 1
     /\ \E u \in Units :
          \/ \E w \in Movable[u] : Change(u, inside[u] \cup {w}) \/ Change(u, inside[u] \ {w})
          \/ OpenRoom(u) \/ TakeNote(u)

GuestSpec == GuestInit /\ [][GuestNext]_guestVars

-----------------------------------------------------------------------------
(* Properties. *)

\* However often the pass runs, and however long the server slept, a night is
\* settled at most once, never before its unit was open, and never before its day.
NightsAreSettledOnce ==
  \A u \in Units, d \in GuestDay :
    nights[u][d] # "none" => nights[u][d] # "twice" /\ openedOn[u] # 0 /\ d \in openedOn[u] + 1 .. today

\* A night is lost only when the server slept longer than it makes up for: the
\* lost ones are followed by max_catchup_days nights that were settled.
OnlySleepLosesNights ==
  \A u \in Units, d \in GuestDay :
    /\ d < settledTo[u] /\ nights[u][d] = "none" /\ nights[u][d + 1] # "none"
    /\ \E e \in 1 .. d : nights[u][e] # "none"
    => \A e \in d + 1 .. d + MaxCatchup : e <= settledTo[u] /\ nights[u][e] # "none"

\* No reservation is forgotten: once its day is settled, or was slept through, it is not pending any more.
NothingOverdue == \A r \in pending : r.due > settledTo[r.unit]

\* A unit never owes two requests at once, and the dog lover books once a month.
OneRequestAtATime ==
  /\ \A u \in Units : Cardinality({r \in Of(u, pending) : r.kind = "item"}) <= 1
  /\ \A r, s \in pending : r.kind = "dog" /\ s.kind = "dog" /\ Month(r.due) = Month(s.due) => r = s

\* A request that was not met costs the ordinary guests of the next night, also
\* when both nights are settled in one pass, and of no other.
AMissCostsOneNight ==
  \A u \in Units, d \in GuestDay :
    /\ d - 1 \in missedOn[u] => nights[u][d] # "guests"
    /\ noGuestsDay[u] # 0 => noGuestsDay[u] - 1 \in missedOn[u]

\* The nights of a unit add up, whatever the clock does between two passes: none
\* is settled twice or lost but by sleeping too long, no reservation outlives its
\* day, nobody books a second time, and a request that was missed is paid for once
\* (four dates in room_meta say how far it is).
BooksAreHonest ==
  /\ NightsAreSettledOnce /\ OnlySleepLosesNights
  /\ NothingOverdue /\ OneRequestAtATime /\ AMissCostsOneNight

\* The panel keeps its word: if nothing was moved since, the night brings at
\* least what unit_view showed before checkout (two functions compute it, a
\* day apart; a second reservation that was due brings more than was shown).
PanelKeepsItsWord ==
  \A u \in Units : promise[u] # NoPromise /\ settledTo[u] = today => takings[u] >= promise[u]
=============================================================================
