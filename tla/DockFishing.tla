---------------------------- MODULE DockFishing ----------------------------
(***************************************************************************)
(* Fishing off the dock: server/app/fishing.py and routers/fish.py.        *)
(*                                                                         *)
(* Requests run in worker threads.  start and finish each hold the lock of *)
(* Fishing from beginning to end; the catch is paid in a transaction of    *)
(* its own after finish has let the lock go.  A player may fish in several *)
(* tabs.  The clock is the monotonic one, in steps; SharedPool has the     *)
(* money.  Left out: the rate limit, which only refuses, and the loot,     *)
(* which is drawn at the start and only decides the amount.                *)
(***************************************************************************)
EXTENDS Integers, Sequences, FiniteSets, SequencesExt

CONSTANTS
  Bites, Gap, Window, Hold,  \* how many bites, and the values their gaps, windows and holds may have
  CatchPct,                  \* pulls -> the chance of a catch in percent (at index pulls + 1)
  Slack, Cooldown, Ttl,      \* slack_ms, cooldown_s, SESSION_TTL_S
  Anglers,
  NoCast,
  MaxPresses, LongestPress,  \* bounds: the presses a client reports, and how long one is
  MaxCasts, MaxClock         \* bounds: how many casts there are, how long the dock is watched

ASSUME FishingAssumption ==
  /\ {Bites, Ttl} \subseteq Nat \ {0} /\ {Slack, Cooldown, MaxCasts, MaxClock, MaxPresses, LongestPress} \subseteq Nat
  /\ Gap \cup Window \cup Hold \subseteq Nat /\ Len(CatchPct) = Bites + 1
\* No press starts in the windows of two bites (fishing.json: 900 ms and 1000 ms, with a slack of 250 ms).
ASSUME WindowsAreApart == \A g \in Gap, h \in Hold : g + h > 2 * Slack

-----------------------------------------------------------------------------
(* The schedule and the verdict. *)

\* start: every bite begins a gap after the one before can be over.
Schedules ==
  LET after(s) == IF s = <<>> THEN 0 ELSE Last(s).at + Last(s).window + Last(s).hold
      upTo[n \in 0 .. Bites] ==
        IF n = 0 THEN {<<>>}
        ELSE LET before == upTo[n - 1]
             IN {Append(s, [at |-> after(s) + g, window |-> w, hold |-> h]) : s \in before, g \in Gap, w \in Window, h \in Hold}
  IN upTo[Bites]

\* The bite a press tries: the first one open at its start that was not tried yet, or 0.
OpenAt(s, start) == {i \in DOMAIN s : s[i].at - Slack <= start /\ start <= s[i].at + s[i].window + Slack}
\* (for a mutant: which bites were tried is forgotten)
Forgetful(open, tried) == open
Untried(open, tried) == open \ tried
Tried(s, tried, press) ==
  LET i == Untried(OpenAt(s, press.start), tried) IN IF i = {} THEN 0 ELSE Min(i)
Earlier(holds, i, j) == holds[i].start < holds[j].start \/ (holds[i].start = holds[j].start /\ i < j)
InOrder(holds) ==
  [n \in DOMAIN holds |-> CHOOSE i \in DOMAIN holds : Cardinality({j \in DOMAIN holds : Earlier(holds, j, i)}) = n - 1]

\* judge: the presses in order, until one scares the fish away.
Judge(s, holds) ==
  LET order == InOrder(holds)
      verdict[n \in 0 .. Len(holds)] ==
        IF n = 0 THEN [pulls |-> 0, escaped |-> FALSE, tried |-> {}]
        ELSE LET v == verdict[n - 1]
                 press == holds[order[n]]
                 i == Tried(s, v.tried, press)
             IN IF v.escaped THEN v
                ELSE IF i = 0 THEN [v EXCEPT !.escaped = TRUE]
                ELSE [v EXCEPT !.tried = @ \cup {i}, !.pulls = @ + (IF press.end - press.start >= s[i].hold - Slack THEN 1 ELSE 0)]
  IN verdict[Len(holds)]

\* The cast is over when the last window has closed and the last press has ended.
DoneAt(s, holds) == Max({Last(s).at + Last(s).window} \cup {holds[i].end : i \in DOMAIN holds})

-----------------------------------------------------------------------------
(* The sessions. *)

VARIABLES
  cast,        \* one cast and the presses a client reports for it, for Judge
  clock,
  casts,       \* how many sessions were handed out
  sessions,    \* Fishing.sessions
  lastFinish,  \* Fishing.last_finish, -Ttl for never
  holding,     \* angler -> the session the newest of his tabs has, or NoCast
  owed,        \* the sessions whose catch is about to be paid
  caught       \* the catches paid: the session and the moment finish was called

fishVars == <<cast, clock, casts, sessions, lastFinish, holding, owed, caught>>

\* A client may report any presses at all.
HoldIn == [start : 0 .. Last(CHOOSE s \in Schedules : TRUE).at + 2, long : 0 .. LongestPress]
PressLists == UNION {[1 .. n -> {[start |-> p.start, end |-> p.start + p.long] : p \in HoldIn}] : n \in 0 .. MaxPresses}
ReportPresses ==
  /\ cast = NoCast /\ casts = 0 /\ clock = 0
  /\ \E s \in Schedules, holds \in PressLists : cast' = [bites |-> s, holds |-> holds]
  /\ UNCHANGED <<clock, casts, sessions, lastFinish, holding, owed, caught>>

\* (for a mutant: sessions live half as long)
FreshOfDoubled == {s \in sessions : 2 * (clock - s.t0) <= Ttl}
\* POST /start: old sessions go, a new cast abandons the player's previous one.
Fresh == {s \in sessions : clock - s.t0 <= Ttl}
Abandoned(p) == {s \in sessions : s.player = p}
StartCast(p) ==
  /\ cast = NoCast /\ casts < MaxCasts /\ clock - lastFinish[p] >= Cooldown /\ casts' = casts + 1
  /\ \E b \in Schedules :
       LET s == [id |-> casts', player |-> p, t0 |-> clock, bites |-> b] IN
       sessions' = (Fresh \ Abandoned(p)) \cup {s} /\ holding' = [holding EXCEPT ![p] = s]
  /\ UNCHANGED <<cast, clock, lastFinish, owed, caught>>

\* The session is used up whatever comes of it.
Consumed(s) == {s}
TooEarly(s, holds) == clock - s.t0 < DoneAt(s.bites, holds) - Slack

\* POST /finish: once, by its player, at any time the session is still there.  The
\* presses are a perfect round (JudgeIsFair is about all the others), or none.
PerfectRound(b) == [i \in DOMAIN b |-> [start |-> b[i].at, end |-> b[i].at + b[i].hold]]
Reports(s) == {<<>>, PerfectRound(s.bites)}
FinishCast(s, holds, gaveUp) ==
  LET v == Judge(s.bites, holds)
      escaped == v.escaped \/ gaveUp \/ TooEarly(s, holds)
      chances == {ok \in BOOLEAN : /\ ok => ~escaped /\ CatchPct[v.pulls + 1] > 0
                                   /\ ~ok => escaped \/ CatchPct[v.pulls + 1] < 100}
  IN /\ s \in sessions
     /\ lastFinish' = [lastFinish EXCEPT ![s.player] = clock]
     /\ sessions' = sessions \ Consumed(s)
     /\ holding' = [holding EXCEPT ![s.player] = IF @ = s THEN NoCast ELSE @]
     /\ \E ok \in chances : owed' = IF ok THEN owed \cup {[session |-> s, at |-> clock]} ELSE owed
     /\ UNCHANGED <<cast, clock, casts, caught>>

\* The transaction of the catch, or its failure: then the session is used up all the same.
PayCatch(o) ==
  /\ o \in owed /\ owed' = owed \ {o} /\ caught' = Append(caught, o)
  /\ UNCHANGED <<cast, clock, casts, sessions, lastFinish, holding>>
LoseCatch(o) ==
  /\ o \in owed /\ owed' = owed \ {o} /\ UNCHANGED <<cast, clock, casts, sessions, lastFinish, holding, caught>>

\* The process restarts: all of Fishing was in memory.
DockRestart ==
  /\ casts > 0 /\ sessions' = {} /\ owed' = {} /\ lastFinish' = [p \in Anglers |-> -Ttl]
  /\ holding' = [p \in Anglers |-> NoCast]
  /\ UNCHANGED <<cast, clock, casts, caught>>

DockWaits ==
  /\ cast = NoCast /\ casts > 0 /\ clock < MaxClock /\ clock' = clock + 1
  /\ UNCHANGED <<cast, casts, sessions, lastFinish, holding, owed, caught>>

FishInit ==
  /\ cast = NoCast /\ clock = 0 /\ casts = 0 /\ sessions = {} /\ owed = {} /\ caught = <<>>
  /\ lastFinish = [p \in Anglers |-> -Ttl] /\ holding = [p \in Anglers |-> NoCast]

FishNext ==
  \/ ReportPresses \/ DockRestart \/ DockWaits
  \/ \E p \in Anglers : StartCast(p)
  \/ \E s \in sessions : \E holds \in Reports(s), gaveUp \in BOOLEAN : FinishCast(s, holds, gaveUp)
  \/ \E o \in owed : PayCatch(o) \/ LoseCatch(o)

FishSpec == FishInit /\ [][FishNext]_fishVars

-----------------------------------------------------------------------------
(* Properties. *)

\* The verdict is the one the rules promise, for every list of presses a client
\* may send: each press is judged, the earlier ones first; it counts for the bite
\* in whose window it starts and pulls it up if it lasts; the first press outside
\* of every window, or the second on one bite, scares the fish, and nothing after
\* it counts.
JudgeIsFair ==
  cast # NoCast =>
    LET s == cast.bites
        order == InOrder(cast.holds)
        press(n) == cast.holds[order[n]]
        bite(n) == OpenAt(s, press(n).start)
        scares(n) == bite(n) = {} \/ \E m \in 1 .. n - 1 : bite(m) = bite(n)
        calm == {n \in DOMAIN order : \A m \in 1 .. n : ~scares(m)}
        v == Judge(s, cast.holds)
    IN /\ \A i \in DOMAIN cast.holds : \E n \in DOMAIN order : order[n] = i
       /\ \A m, n \in DOMAIN order : m < n => press(m).start <= press(n).start
       /\ v.escaped <=> calm # DOMAIN order
       /\ v.pulls = Cardinality({n \in calm : \E i \in bite(n) : press(n).end - press(n).start >= s[i].hold - Slack})

\* Who plays a cast to its end within its lifetime can finish it: whatever the
\* other players do, the newest session of a player is there for Ttl.
NoCastVanishes ==
  \A p \in Anglers : holding[p] # NoCast /\ clock - holding[p].t0 <= Ttl => holding[p] \in sessions

\* "An early finish can never pay out": a catch was fished for as long as its
\* schedule takes, and one player's catches were fished one after the other, in
\* however many tabs and across restarts; a cast pays once.
CatchesTakeTheirTime ==
  \A i, j \in DOMAIN caught :
    LET c == caught[i]
        d == caught[j]
    IN /\ c.at - c.session.t0 >= Last(c.session.bites).at + Last(c.session.bites).window - Slack
       /\ i # j /\ c.session.player = d.session.player => c.at <= d.session.t0 \/ d.at <= c.session.t0

\* A cast is there for its player as long as it may take, and pays no sooner.
CastsAreHonest == NoCastVanishes /\ CatchesTakeTheirTime
=============================================================================
