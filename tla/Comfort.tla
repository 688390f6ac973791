------------------------------ MODULE Comfort ------------------------------
(***************************************************************************)
(* What a guest unit is worth: server/app/comfort.py, and the inn cat of   *)
(* server/app/cat.py, whose affection is part of the score.                *)
(*                                                                         *)
(* The code computes with floating point numbers; here the same formula    *)
(* runs on fractions, rounded half to even like Python's round().  A unit  *)
(* is its rows in the order of their uid; a row is its item and whether a  *)
(* player placed it.  Spans (wallpaper, carpets) are left out: an item     *)
(* has one price.                                                          *)
(***************************************************************************)
EXTENDS Integers, Sequences, FiniteSets, SequencesExt

CONSTANTS
  Wares, WarePrice,         \* the items of the shop and their prices
  WareSet, NoSet,           \* item -> its set, or none; only furniture and surface items have one here
  BedWares, RuinedWares,    \* the items tagged bed, and ruined
  K,                        \* cells x k_per_cell
  DecayNum, DecayDen,       \* dup_decay
  BonusNum, BonusDen,       \* set_bonus_max
  SetMinItems, RuinedPenalty, AffectionBonus,
  MinComfort, Band, MaxGuests,
  PayBaseNum, PayPerComfortNum, PayDen,   \* pay_base and pay_per_comfort over one denominator
  TapsPerLevel, MaxTapsPerCall, MaxAffection,
  MaxRows, MaxTaps          \* bounds: rows in the unit, taps of the cat

ASSUME ComfortAssumption ==
  /\ {K, DecayDen, BonusDen, PayDen, SetMinItems, Band, MaxGuests, TapsPerLevel, MaxTapsPerCall} \subseteq Nat \ {0}
  /\ MaxAffection \in Nat
  /\ DecayNum \in 0 .. DecayDen /\ {BonusNum, RuinedPenalty, AffectionBonus, PayBaseNum, PayPerComfortNum} \subseteq Nat
  /\ MinComfort \in 0 .. 100 /\ IsFiniteSet(Wares) /\ \A w \in Wares : WarePrice[w] \in Nat

\* A power, counted up: what the prover knows of ^ is its name.
Power(b, n) == LET power[i \in 0 .. n] == IF i = 0 THEN 1 ELSE b * power[i - 1] IN power[n]

\* round(): to the nearest integer, a half to the even one.
Round(n, d) ==
  LET q == n \div d
      twice == 2 * (n % d)
  IN IF twice > d \/ (twice = d /\ q % 2 = 1) THEN q + 1 ELSE q

-----------------------------------------------------------------------------
\* (for a mutant: ruined rows count)
CountsRuined(row) == row.by = "player"
Counts(row) == row.by = "player" /\ row.item \notin RuinedWares
RowsThat(rows, test(_)) == {i \in DOMAIN rows : test(rows[i])}
BedCount(rows) == LET bed(r) == r.item \in BedWares \ RuinedWares IN Cardinality(RowsThat(rows, bed))
RuinedCount(rows) == LET ruined(r) == r.item \in RuinedWares IN Cardinality(RowsThat(rows, ruined))

\* The worth of row i, which is less for every copy before it, in units of DecayDen^-Len(rows).
Worth(rows, i) ==
  LET copies == Cardinality({j \in RowsThat(rows, Counts) : j < i /\ rows[j].item = rows[i].item})
  IN WarePrice[rows[i].item] * Power(DecayNum, copies) * Power(DecayDen, Len(rows) - copies)
SumWorth(rows, some) == SumFunction([i \in some |-> Worth(rows, i)])

SetRows(rows, s) == {i \in RowsThat(rows, Counts) : WareSet[rows[i].item] = s}
Sets == {WareSet[w] : w \in Wares} \ {NoSet}

\* The multiplier of the one set that is more than half of the furniture: a fraction.
Mult(furniture, worths) ==
  LET top == {w \in worths : 2 * w > furniture}
      over == 2 * (CHOOSE w \in top : TRUE) - furniture
  IN IF top = {} THEN <<1, 1>> ELSE <<BonusDen * furniture + BonusNum * over, BonusDen * furniture>>
SetMult(rows) ==
  Mult(SumWorth(rows, RowsThat(rows, Counts)),
       {SumWorth(rows, SetRows(rows, s)) : s \in {s \in Sets : Cardinality(SetRows(rows, s)) >= SetMinItems}})

Percent(n) == IF n < 0 THEN 0 ELSE IF n > 100 THEN 100 ELSE n
Points(raw, size, mult, points) ==
  LET den == (raw + K * Power(DecayDen, size)) * mult[2] IN Percent(Round(100 * raw * mult[1] + points * den, den))
Score(rows, affection) ==
  Points(SumWorth(rows, RowsThat(rows, Counts)), Len(rows), SetMult(rows),
         AffectionBonus * affection - RuinedPenalty * RuinedCount(rows))

GuestCount(score, beds) ==
  IF beds = 0 \/ score < MinComfort THEN 0 ELSE Min({beds, MaxGuests, score \div Band + 1})
PayPerGuest(score) == Round(PayBaseNum + PayPerComfortNum * score, PayDen)
NightlyPay(score, beds) == GuestCount(score, beds) * PayPerGuest(score)

-----------------------------------------------------------------------------
VARIABLES
  furnished,  \* the rows of one unit of the cat's room
  taps        \* all the taps the cat has had

comfortVars == <<furnished, taps>>

AffectionOf(n) == Min({MaxAffection, n \div TapsPerLevel})

Furnish(w, by) ==
  /\ Len(furnished) < MaxRows /\ furnished' = Append(furnished, [item |-> w, by |-> by])
  /\ UNCHANGED taps

TakeAway(i) == furnished' = RemoveAt(furnished, i) /\ UNCHANGED taps

\* POST /api/cat/pet: at most so many taps a call.  (A level of affection reached is logged.)
Clamped(n) == Max({1, Min({MaxTapsPerCall, n})})
Pet(n) ==
  /\ taps + Clamped(n) <= MaxTaps /\ taps' = taps + Clamped(n) /\ UNCHANGED furnished

ComfortInit == furnished = <<>> /\ taps = 0
ComfortNext ==
  \/ \E w \in Wares, by \in {"player", "system"} : Furnish(w, by)
  \/ \E i \in DOMAIN furnished : TakeAway(i)
  \/ furnished = <<>> /\ \E n \in 1 .. 2 * TapsPerLevel : Pet(n)  \* bound: petted before the unit is furnished
ComfortSpec == ComfortInit /\ [][ComfortNext]_comfortVars

-----------------------------------------------------------------------------
(* Properties. *)

ScoreNow == Score(furnished, AffectionOf(taps))
PayNow == NightlyPay(ScoreNow, BedCount(furnished))

\* Cleaning up is never a loss, whatever else stands in the unit.  Without a
\* ruined item it is worth no less and the night pays no less (comfort.py skips
\* ruined rows before it counts beds, prices and copies); and what the room came
\* with is worth nothing and spoils nothing: taking away a seeded item or a guest's
\* note changes neither the copies nor the set share of the players' own items.
CleaningNeverHurts ==
  [][\A i \in DOMAIN furnished : furnished' = RemoveAt(furnished, i) =>
       /\ furnished[i].item \in RuinedWares => ScoreNow' >= ScoreNow /\ PayNow' >= PayNow
       /\ furnished[i].by = "system" /\ furnished[i].item \notin RuinedWares => ScoreNow' = ScoreNow]_comfortVars
=============================================================================
