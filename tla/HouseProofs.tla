------------------------------ MODULE HouseProofs ------------------------------
(***************************************************************************)
(* Proofs about the parts of the house beside the pool, each for every     *)
(* value of its constants: the view a client has of a room (RoomView),     *)
(* the floors of the mine (MineLayout), the miners' days on them           *)
(* (MineFloors), the casts at the dock (DockFishing), and the guests'      *)
(* days in the units (GuestDays).                                          *)
(***************************************************************************)
EXTENDS MineFloors, DockFishing, RoomView, GuestDays, Sums, FiniteSetTheorems, TLAPS

-----------------------------------------------------------------------------
(* What a client sees of a room. *)

In(v, q) == \E i \in DOMAIN q : q[i] = v

\* A request carries the etag of what is shown, and reads the version before the items: what it brings is no older
\* than what is shown, and its items are no older than its version.
Views ==
  /\ version \in Nat /\ items = version
  /\ announcing \subseteq Nat /\ inbox \in Seq(Int)
  /\ {seen.version, seen.items} \subseteq Int /\ seen.version <= seen.items /\ seen.items <= version
  /\ request # NoRequest =>
       /\ request \in RequestStates /\ request.etag = seen.version
       /\ request.stage \in {"read", "answered"} => seen.version <= request.version /\ request.version <= version
       /\ request.stage = "answered" => request.version <= request.items /\ request.items <= version

\* The room's version is shown, or will be heard of, or is what the request under way brings.
Coming ==
  online = "entered" /\ ~lost /\ ~swallowed =>
    \/ seen.version = version
    \/ version \in announcing \/ In(version, inbox)
    \/ request # NoRequest /\ request.stage = "sent"
    \/ request # NoRequest /\ request.stage \in {"read", "answered"} /\ request.version = version

ViewInv == Views /\ Coming

LEMMA Queues ==
  ASSUME NEW q \in Seq(Int), NEW v \in Int, NEW w \in Int
  PROVE  /\ Append(q, v) \in Seq(Int) /\ In(v, Append(q, v)) /\ (In(w, q) => In(w, Append(q, v)))
         /\ q # << >> => Tail(q) \in Seq(Int) /\ Head(q) \in Int /\ (In(w, q) => w = Head(q) \/ In(w, Tail(q)))
         /\ ~In(v, << >>)
<1>1. Append(q, v) \in Seq(Int) /\ In(v, Append(q, v)) /\ (In(w, q) => In(w, Append(q, v)))
  <2>1. Append(q, v) \in Seq(Int) /\ Len(Append(q, v)) = Len(q) + 1 /\ Append(q, v)[Len(q) + 1] = v
    OBVIOUS
  <2>2. \A i \in 1..Len(q) : Append(q, v)[i] = q[i]
    OBVIOUS
  <2>3. DOMAIN q = 1..Len(q) /\ DOMAIN Append(q, v) = 1..(Len(q) + 1) /\ Len(q) \in Nat BY <2>1
  <2>4. In(v, Append(q, v)) BY <2>1, <2>3 DEF In
  <2>5. In(w, q) => In(w, Append(q, v)) BY <2>2, <2>3 DEF In
  <2> QED BY <2>1, <2>4, <2>5
<1>2. ASSUME q # << >> PROVE Tail(q) \in Seq(Int) /\ Head(q) \in Int
  BY <1>2
<1>3. ASSUME q # << >>, NEW i \in DOMAIN q, q[i] = w PROVE w = Head(q) \/ In(w, Tail(q))
  <2>1. CASE i = 1 BY <1>3, <2>1
  <2>2. CASE i # 1
    <3>1. i - 1 \in DOMAIN Tail(q) /\ Tail(q)[i - 1] = q[i] BY <1>3, <2>2
    <3> QED BY <1>3, <3>1 DEF In
  <2> QED BY <2>1, <2>2
<1> QED BY <1>1, <1>2, <1>3 DEF In

LEMMA ViewStep ==
  ASSUME ViewInv, [ViewNext]_viewVars
  PROVE  ViewInv'
<1> USE DEF ViewInv
<1>1. CASE WriteRoom
  <2>1. version' = version + 1 /\ items' = items + 1 /\ announcing' = announcing \cup {version'}
        /\ UNCHANGED <<online, inbox, request, seen, connects, swallowed, lost>>
    BY <1>1 DEF WriteRoom
  <2>2. Views' BY <2>1 DEF Views, RequestStates
  <2> QED BY <2>1, <2>2 DEF Coming
<1>2. ASSUME NEW v \in announcing, AnnounceRoom(v) PROVE ViewInv'
  <2>1. /\ announcing' = announcing \ {v} /\ inbox' = (IF online = "off" THEN inbox ELSE Append(inbox, v))
        /\ UNCHANGED <<version, items, online, request, seen, swallowed, lost>>
    BY <1>2 DEF AnnounceRoom
  <2>2. inbox \in Seq(Int) /\ v \in Int /\ version \in Int BY DEF Views
  <2>3. inbox' \in Seq(Int) /\ (In(version, inbox) => In(version, inbox')) /\ (online # "off" => In(v, inbox'))
    BY <2>1, <2>2, Queues
  <2> QED BY <2>1, <2>3 DEF Views, Coming
<1>3. CASE FirstRead
  <2>1. request # NoRequest /\ request.stage = "sent" /\ UNCHANGED <<version, items, announcing, online, inbox, seen, swallowed, lost>>
    BY <1>3 DEF FirstRead, Reading
  <2>2. CASE request.etag = version
    <3>1. request' = [request EXCEPT !.stage = "same"] BY <1>3, <2>2 DEF FirstRead
    <3>2. request \in RequestStates BY <2>1 DEF Views
    <3>3. request' \in RequestStates /\ request'.stage = "same" /\ request'.etag = request.etag
      BY <3>1, <3>2 DEF RequestStates
    <3> QED BY <2>1, <2>2, <3>3 DEF Views, Coming
  <2>3. CASE request.etag # version
    <3>1. request' = [[request EXCEPT !.version = version] EXCEPT !.stage = "read"]
      BY <1>3, <2>3 DEF FirstRead, ReadOrder, Read
    <3>2. request \in RequestStates /\ version \in Int BY <2>1 DEF Views
    <3>3. request' \in RequestStates /\ request'.stage = "read" /\ request'.etag = request.etag /\ request'.version = version
      BY <3>1, <3>2 DEF RequestStates
    <3>4. request' # NoRequest BY <3>3, ViewAssumption
    <3> QED BY <2>1, <3>3, <3>4 DEF Views, Coming
  <2> QED BY <2>2, <2>3
<1>4. CASE SecondRead
  <2>1. request # NoRequest /\ request.stage = "read" /\ UNCHANGED <<version, items, announcing, online, inbox, seen, swallowed, lost>>
    BY <1>4 DEF SecondRead, Reading
  <2>2. request' = [[request EXCEPT !.items = items] EXCEPT !.stage = "answered"]
    BY <1>4 DEF SecondRead, ReadOrder, Read
  <2>3. request \in RequestStates /\ items \in Int BY <2>1 DEF Views
  <2>4. /\ request' \in RequestStates /\ request'.stage = "answered" /\ request'.etag = request.etag
        /\ request'.version = request.version /\ request'.items = items
    BY <2>2, <2>3 DEF RequestStates
  <2>5. request' # NoRequest BY <2>4, ViewAssumption
  <2> QED BY <2>1, <2>4, <2>5 DEF Views, Coming
<1>5. CASE JoinHub BY <1>5 DEF JoinHub, Views, Coming
<1>6. CASE EnterRoom
  <2>1. inbox' = Append(inbox, version) /\ UNCHANGED <<version, items, announcing, request, seen, swallowed, lost>>
    BY <1>6 DEF EnterRoom
  <2>2. inbox' \in Seq(Int) /\ In(version, inbox') BY <2>1, Queues DEF Views
  <2> QED BY <2>1, <2>2 DEF Views, Coming
<1>7. ASSUME NEW cleans \in BOOLEAN, HouseRestart(cleans) PROVE ViewInv'
  <2>1. online' = "off" /\ inbox' = << >> /\ announcing' = {} /\ request' = NoRequest /\ seen' = seen
    BY <1>7 DEF HouseRestart
  <2>2. inbox' \in Seq(Int) BY <2>1
  <2>3. version' \in Nat /\ items' = version' /\ version <= version' BY <1>7 DEF HouseRestart, Views
  <2> QED BY <2>1, <2>2, <2>3 DEF Views, Coming
<1>8. CASE Hear
  <2>1. inbox # << >> /\ inbox' = Tail(inbox) /\ UNCHANGED <<version, items, announcing, online, seen, lost>>
    BY <1>8 DEF Hear
  <2>2. inbox' \in Seq(Int) /\ Head(inbox) \in Int /\ (In(version, inbox) => version = Head(inbox) \/ In(version, inbox'))
    <3>1. inbox \in Seq(Int) /\ version \in Int BY DEF Views
    <3> QED BY <2>1, <3>1, Queues
  <2>3. CASE Head(inbox) = seen.version
    <3>1. UNCHANGED <<request, swallowed>> BY <1>8, <2>3 DEF Hear
    <3> QED BY <2>1, <2>2, <2>3, <3>1 DEF Views, Coming
  <2>4. CASE Head(inbox) # seen.version /\ request = NoRequest
    <3>1. request' = [etag |-> seen.version, stage |-> "sent", version |-> 0, items |-> 0] /\ swallowed' = swallowed
      BY <1>8, <2>4 DEF Hear, Refresh
    <3>2. request' \in RequestStates /\ request'.stage = "sent" /\ request'.etag = seen.version
      BY <3>1 DEF Views, RequestStates
    <3>3. request' # NoRequest BY <3>2, ViewAssumption
    <3> QED BY <2>1, <2>2, <3>1, <3>2, <3>3 DEF Views, Coming
  <2>5. CASE Head(inbox) # seen.version /\ request # NoRequest
    <3>1. request' = request /\ swallowed' = TRUE BY <1>8, <2>5 DEF Hear, Refresh
    <3> QED BY <2>1, <2>2, <3>1 DEF Views, Coming
  <2> QED BY <2>3, <2>4, <2>5
<1>9. CASE Answered
  <2>1. request # NoRequest /\ request' = NoRequest /\ UNCHANGED <<version, items, announcing, online, inbox, swallowed, lost>>
    BY <1>9 DEF Answered, Reading
  <2>2. CASE request.stage = "same"
    <3>1. seen' = seen BY <1>9, <2>1, <2>2 DEF Answered, Reading
    <3> QED BY <2>1, <2>2, <3>1 DEF Views, Coming
  <2>3. CASE request.stage = "answered"
    <3>1. seen' = [version |-> request.version, items |-> request.items]
      BY <1>9, <2>1, <2>3 DEF Answered, Reading
    <3>2. seen'.version = request.version /\ seen'.items = request.items BY <3>1
    <3>3. request.version \in Int /\ request.items \in Int BY <2>1 DEF Views, RequestStates
    <3> QED BY <2>1, <2>3, <3>2, <3>3 DEF Views, Coming
  <2> QED BY <1>9, <2>2, <2>3 DEF Answered, Reading
<1>10. CASE AnswerLost BY <1>10 DEF AnswerLost, Views, Coming
<1>11. CASE Disconnect BY <1>11 DEF Disconnect, Views, Coming
<1>12. CASE UNCHANGED viewVars BY <1>12 DEF viewVars, Views, Coming
<1> QED BY <1>1, <1>2, <1>3, <1>4, <1>5, <1>6, <1>7, <1>8, <1>9, <1>10, <1>11, <1>12 DEF ViewNext

\* The client of a room is never left with an old view by an etag, nor, unless an answer was lost or a message was
\* swallowed by a refresh under way, by a change that falls between the messages and the answers.
THEOREM ViewStaysCurrent == ViewSpec => []ViewIsCurrent
<1>1. ASSUME ViewInit PROVE ViewInv BY <1>1 DEF ViewInit, ViewInv, Views, Coming
<1>2. ASSUME ViewInv PROVE ViewIsCurrent BY <1>2 DEF ViewInv, Views, Coming, ViewIsCurrent, EtagIsHonest, Quiet, In
<1> QED BY <1>1, <1>2, ViewStep, PTL DEF ViewSpec

-----------------------------------------------------------------------------
(* How a floor of the mine is laid out. *)

LEMMA DrawPuts ==
  ASSUME NEW f \in 1 .. Floors, NEW d, NEW e \in Draw(f, d)
  PROVE  \/ e = d
         \/ \E k \in Kinds : \E c \in (IF k \in InWall THEN d.wall ELSE d.floor) :
              e = [nodes |-> d.nodes \cup {Node(c, k)}, floor |-> d.floor \ {c}, wall |-> d.wall \ {c}]
<1>0. \A i \in DOMAIN Tier[f] : Tier[f][i] \in Kinds
  BY ConfigAssumption DEF ConfigOK
<1> DEFINE onFloor(k) == k \notin InWall
           ore(k) == IF k \in InWall /\ d.wall = {} THEN FirstOf(Tier[f], onFloor) ELSE {k}
           pool(k) == IF k \in InWall THEN d.wall ELSE d.floor
           put(k) == {[nodes |-> d.nodes \cup {Node(c, k)}, floor |-> d.floor \ {c}, wall |-> d.wall \ {c}] : c \in pool(k)}
           after(k) == IF k = {} \/ pool(CHOOSE o \in k : TRUE) = {} THEN {d} ELSE put(CHOOSE o \in k : TRUE)
<1>1. PICK i \in DOMAIN Tier[f] : e \in after(ore(Tier[f][i]))
  BY DEF Draw
<1>2. ore(Tier[f][i]) \subseteq Kinds
  BY <1>0 DEF FirstOf
<1>3. PICK k : k = ore(Tier[f][i]) OBVIOUS
<1>4. CASE k = {} \/ pool(CHOOSE o \in k : TRUE) = {}
  BY <1>1, <1>3, <1>4
<1>5. CASE ~(k = {} \/ pool(CHOOSE o \in k : TRUE) = {})
  <2>1. PICK o : o = CHOOSE z \in k : TRUE OBVIOUS
  <2>2. o \in k BY <1>5, <2>1
  <2>3. o \in Kinds BY <1>2, <1>3, <2>2
  <2>4. e \in put(o) BY <1>1, <1>3, <1>5, <2>1
  <2> QED BY <2>3, <2>4
<1> QED BY <1>4, <1>5

\* What has been drawn: every node on a cell of its pool, which has left the pools, and so on a cell of its own.
GoodDraw(rocks, d, n) ==
  /\ IsFiniteSet(d.floor) /\ Cardinality(d.floor) + n >= Cardinality(FloorPool(rocks))
  /\ d.floor \subseteq FloorPool(rocks) /\ d.wall \subseteq WallPool(rocks)
  /\ \A m \in d.nodes :
       /\ m = Node(m.at, m.kind) /\ m.kind \in Kinds
       /\ m.at \in IF m.kind \in InWall THEN WallPool(rocks) ELSE FloorPool(rocks)
       /\ m.at \notin d.floor \cup d.wall
  /\ \A m, k \in d.nodes : m.at = k.at => m = k

LEMMA FloorPoolIsFinite == ASSUME NEW rocks PROVE IsFiniteSet(FloorPool(rocks)) /\ Cardinality(FloorPool(rocks)) \in Nat
<1>1. Cols \in Nat /\ Rows \in Nat BY ConfigAssumption
<1>2. IsFiniteSet(0 .. Cols - 1) /\ IsFiniteSet(0 .. Rows - 1) BY <1>1, FS_Interval
<1>3. IsFiniteSet(Cell) BY <1>2, FS_Product DEF Cell
<1>4. FloorPool(rocks) \in SUBSET Cell BY DEF FloorPool, FreeCells
<1> QED BY <1>3, <1>4, FS_Subset, FS_CardinalityType

\* The two pools have no cell in common.
LEMMA PoolsAreApart == ASSUME NEW rocks, NEW c \in WallPool(rocks) PROVE c \notin FloorPool(rocks)
<1>1. c[2] = WallRows - 1 BY DEF WallPool, WallRow
<1>2. c \in FloorPool(rocks) => c[2] >= WallRows BY DEF FloorPool, FreeCells, OnFloor
<1>3. WallRows \in Nat BY ConfigAssumption
<1> QED BY <1>1, <1>2, <1>3

LEMMA DrawStaysGood ==
  ASSUME NEW f \in 1 .. Floors, NEW rocks, NEW n \in Nat, NEW d, GoodDraw(rocks, d, n), NEW e \in Draw(f, d)
  PROVE  GoodDraw(rocks, e, n + 1)
<1>1. CASE e = d
  <2>1. Cardinality(d.floor) \in Nat /\ Cardinality(FloorPool(rocks)) \in Nat
    BY FloorPoolIsFinite, FS_CardinalityType DEF GoodDraw
  <2> QED BY <1>1, <2>1 DEF GoodDraw
<1>2. ASSUME NEW k \in Kinds, NEW c \in (IF k \in InWall THEN d.wall ELSE d.floor),
             e = [nodes |-> d.nodes \cup {Node(c, k)}, floor |-> d.floor \ {c}, wall |-> d.wall \ {c}]
      PROVE  GoodDraw(rocks, e, n + 1)
  <2>1. e.nodes = d.nodes \cup {Node(c, k)} /\ e.floor = d.floor \ {c} /\ e.wall = d.wall \ {c} BY <1>2
  <2>2. PICK new : new = Node(c, k) OBVIOUS
  <2>3. new.at = c /\ new.kind = k /\ new = Node(new.at, new.kind) BY <2>2 DEF Node
  <2>4. IsFiniteSet(e.floor) /\ Cardinality(e.floor) + (n + 1) >= Cardinality(FloorPool(rocks))
    <3>1. IsFiniteSet(d.floor) /\ Cardinality(d.floor) + n >= Cardinality(FloorPool(rocks)) BY DEF GoodDraw
    <3>2. Cardinality(d.floor) \in Nat /\ Cardinality(FloorPool(rocks)) \in Nat
      BY <3>1, FloorPoolIsFinite, FS_CardinalityType
    <3>3. PICK E : E = d.floor \ {c} OBVIOUS
    <3>4. IsFiniteSet(E) /\ Cardinality(E) = IF c \in d.floor THEN Cardinality(d.floor) - 1 ELSE Cardinality(d.floor)
      BY <3>1, <3>3, FS_RemoveElement
    <3>5. Cardinality(E) + (n + 1) >= Cardinality(FloorPool(rocks)) BY <3>1, <3>2, <3>4
    <3> QED BY <2>1, <3>3, <3>4, <3>5
  <2>5. e.floor \subseteq FloorPool(rocks) /\ e.wall \subseteq WallPool(rocks) BY <2>1 DEF GoodDraw
  <2>6. /\ c \in IF k \in InWall THEN WallPool(rocks) ELSE FloorPool(rocks)
        /\ c \in d.floor \cup d.wall /\ c \notin e.floor \cup e.wall
    BY <1>2, <2>1 DEF GoodDraw
  <2>7. ASSUME NEW m \in d.nodes
        PROVE  /\ m = Node(m.at, m.kind) /\ m.kind \in Kinds
               /\ m.at \in IF m.kind \in InWall THEN WallPool(rocks) ELSE FloorPool(rocks)
               /\ m.at \notin d.floor \cup d.wall
    BY DEF GoodDraw
  <2>8. \A m \in e.nodes :
          /\ m = Node(m.at, m.kind) /\ m.kind \in Kinds
          /\ m.at \in IF m.kind \in InWall THEN WallPool(rocks) ELSE FloorPool(rocks)
          /\ m.at \notin e.floor \cup e.wall
    <3> SUFFICES ASSUME NEW m \in e.nodes
                 PROVE  /\ m = Node(m.at, m.kind) /\ m.kind \in Kinds
                        /\ m.at \in IF m.kind \in InWall THEN WallPool(rocks) ELSE FloorPool(rocks)
                        /\ m.at \notin e.floor \cup e.wall
      OBVIOUS
    <3>1. CASE m \in d.nodes BY <2>1, <2>7, <3>1
    <3>2. CASE m = new BY <2>3, <2>6, <3>2
    <3> QED BY <2>1, <2>2, <3>1, <3>2
  <2>9. \A m, j \in e.nodes : m.at = j.at => m = j
    <3>1. \A m \in d.nodes : m.at # new.at BY <2>3, <2>6, <2>7
    <3>2. \A m, j \in d.nodes : m.at = j.at => m = j BY DEF GoodDraw
    <3> QED BY <2>1, <2>2, <3>1, <3>2
  <2> QED BY <2>4, <2>5, <2>8, <2>9 DEF GoodDraw
<1> QED BY <1>1, <1>2, DrawPuts

\* The draws one after the other.
LEMMA DrawsAreGood ==
  ASSUME NEW f \in 1 .. Floors, NEW rocks, NEW d \in Draws(f, rocks)
  PROVE  GoodDraw(rocks, d, NodesPerFloor)
<1> DEFINE Start == [nodes |-> {}, floor |-> FloorPool(rocks), wall |-> WallPool(rocks)]
           Step(k, g) == [n \in 0 .. k |-> IF n = 0 THEN {Start} ELSE UNION {Draw(f, b) : b \in g[n - 1]}]
           drawn == CHOOSE g : g = Step(NodesPerFloor, g)
<1>0. NodesPerFloor \in Nat BY ConfigAssumption
<1>1. Draws(f, rocks) = drawn[NodesPerFloor] BY DEF Draws
<1>2. \E g : g = Step(NodesPerFloor, g)
  <2> DEFINE H == {k \in Nat : \E g : g = Step(k, g)}
  <2>1. 0 \in H
    <3>1. PICK g : g = [n \in 0 .. 0 |-> {Start}] OBVIOUS
    <3>2. g = Step(0, g) BY <3>1
    <3> QED BY <3>2
  <2>2. ASSUME NEW k \in Nat, k \in H PROVE k + 1 \in H
    <3>1. PICK g : g = Step(k, g) BY <2>2
    <3>1a. \A n \in 0 .. k : g[n] = IF n = 0 THEN {Start} ELSE UNION {Draw(f, b) : b \in g[n - 1]} BY ONLY <3>1
    <3> DEFINE More == UNION {Draw(f, b) : b \in g[k]}
    <3>2. PICK h : h = [n \in 0 .. k + 1 |-> IF n = k + 1 THEN More ELSE g[n]] OBVIOUS
    <3>3. \A n \in 0 .. k : h[n] = g[n] BY <3>2
    <3>4. ASSUME NEW n \in 0 .. k + 1
          PROVE  (IF n = k + 1 THEN More ELSE g[n]) = (IF n = 0 THEN {Start} ELSE UNION {Draw(f, b) : b \in h[n - 1]})
      <4>1. CASE n = k + 1
        <5>1. n # 0 /\ n - 1 = k /\ h[n - 1] = g[k] BY <3>3, <4>1
        <5> QED BY <4>1, <5>1
      <4>2. CASE n # k + 1
        <5>1. n \in 0 .. k BY <4>2
        <5>2. n # 0 => n - 1 \in 0 .. k BY <5>1
        <5> QED BY <3>1a, <3>3, <4>2, <5>1, <5>2
      <4> QED BY <4>1, <4>2
    <3> HIDE DEF More, Start
    <3>5. h = Step(k + 1, h) BY <3>2, <3>4
    <3> QED BY <3>5
  <2> HIDE DEF H
  <2>3. NodesPerFloor \in H BY <1>0, <2>1, <2>2, NatInduct
  <2> QED BY <2>3 DEF H
<1>3. drawn = Step(NodesPerFloor, drawn) BY <1>2
<1> HIDE DEF drawn
<1>4. \A n \in 0 .. NodesPerFloor : drawn[n] = IF n = 0 THEN {Start} ELSE UNION {Draw(f, b) : b \in drawn[n - 1]}
  BY <1>3
<1> DEFINE H == {n \in Nat : n <= NodesPerFloor => \A b \in drawn[n] : GoodDraw(rocks, b, n)}
<1>5. 0 \in H
  <2>1. GoodDraw(rocks, Start, 0)
    <3>1. IsFiniteSet(FloorPool(rocks)) /\ Cardinality(FloorPool(rocks)) + 0 >= Cardinality(FloorPool(rocks))
      BY FloorPoolIsFinite
    <3> QED BY <3>1 DEF GoodDraw
  <2>2. drawn[0] = {Start}
    <3>1. 0 \in 0 .. NodesPerFloor BY <1>0
    <3>2. drawn[0] = IF 0 = 0 THEN {Start} ELSE UNION {Draw(f, b) : b \in drawn[0 - 1]} BY <1>4, <3>1
    <3> QED BY <3>2
  <2> HIDE DEF Start
  <2> QED BY <2>1, <2>2
<1>6. ASSUME NEW n \in Nat, n \in H PROVE n + 1 \in H
  <2> SUFFICES ASSUME n + 1 <= NodesPerFloor, NEW b \in drawn[n + 1] PROVE GoodDraw(rocks, b, n + 1) OBVIOUS
  <2>1. n + 1 \in 0 .. NodesPerFloor /\ n + 1 # 0 /\ (n + 1) - 1 = n /\ n <= NodesPerFloor BY <1>0
  <2>2. drawn[n + 1] = UNION {Draw(f, a) : a \in drawn[n]} BY <1>4, <2>1
  <2>3. PICK a \in drawn[n] : b \in Draw(f, a) BY <2>2
  <2>4. GoodDraw(rocks, a, n) BY <1>6, <2>1
  <2> QED BY <2>3, <2>4, DrawStaysGood
<1> HIDE DEF H
<1>7. NodesPerFloor \in H BY <1>0, <1>5, <1>6, NatInduct
<1> QED BY <1>0, <1>1, <1>7 DEF H

\* The walk of `Reachable`, step by step.
Open(rocks) == {c \in Cell : OnFloor(c) /\ c \notin Blocked \cup Pits \cup rocks}
Walk(rocks, c, s) == LET d == <<c[1] + s[1], c[2] + s[2]>> IN IF d \in Open(rocks) THEN d ELSE c
From(rocks, cells) == {Walk(rocks, c, s) : c \in cells, s \in Steps4 \cup {<<0, 0>>}}
Walks(rocks, w) ==
  \A n \in 0 .. Cardinality(Cell) :
    w[n] = IF n = 0 THEN {Spawn} ELSE From(rocks, w[n - 1])

LEMMA CellsAreFinite == IsFiniteSet(Cell) /\ Cardinality(Cell) \in Nat
<1>1. Cols \in Nat /\ Rows \in Nat BY ConfigAssumption
<1>2. IsFiniteSet(0 .. Cols - 1) /\ IsFiniteSet(0 .. Rows - 1) BY <1>1, FS_Interval
<1>3. IsFiniteSet(Cell) BY <1>2, FS_Product DEF Cell
<1> QED BY <1>3, FS_CardinalityType

LEMMA ReachableWalks ==
  ASSUME NEW rocks
  PROVE  \E w : Walks(rocks, w) /\ Reachable(rocks) = w[Cardinality(Cell)]
<1> DEFINE Step(k, g) == [n \in 0 .. k |-> IF n = 0 THEN {Spawn} ELSE From(rocks, g[n - 1])]
           within == CHOOSE g : g = Step(Cardinality(Cell), g)
<1>0. Cardinality(Cell) \in Nat BY CellsAreFinite
<1>1. Reachable(rocks) = within[Cardinality(Cell)] BY DEF Reachable, From, Walk, Open
<1>2. \E g : g = Step(Cardinality(Cell), g)
  <2> DEFINE H == {k \in Nat : \E g : g = Step(k, g)}
  <2>1. 0 \in H
    <3>1. PICK g : g = [n \in 0 .. 0 |-> {Spawn}] OBVIOUS
    <3>2. g = Step(0, g) BY <3>1
    <3> QED BY <3>2
  <2>2. ASSUME NEW k \in Nat, k \in H PROVE k + 1 \in H
    <3>1. PICK g : g = Step(k, g) BY <2>2
    <3>2. \A n \in 0 .. k : g[n] = IF n = 0 THEN {Spawn} ELSE From(rocks, g[n - 1]) BY ONLY <3>1
    <3>3. PICK more : more = From(rocks, g[k]) OBVIOUS
    <3>4. PICK h : h = [n \in 0 .. k + 1 |-> IF n = k + 1 THEN more ELSE g[n]] OBVIOUS
    <3>5. \A n \in 0 .. k : h[n] = g[n] BY <3>4
    <3>6. ASSUME NEW n \in 0 .. k + 1
          PROVE  (IF n = k + 1 THEN more ELSE g[n]) = (IF n = 0 THEN {Spawn} ELSE From(rocks, h[n - 1]))
      <4>1. CASE n = k + 1
        <5>1. n # 0 /\ n - 1 = k /\ h[n - 1] = g[k] BY <3>5, <4>1
        <5> QED BY <3>3, <4>1, <5>1
      <4>2. CASE n # k + 1
        <5>1. n \in 0 .. k BY <4>2
        <5>2. n # 0 => n - 1 \in 0 .. k BY <5>1
        <5>3. n # 0 => h[n - 1] = g[n - 1] BY <3>5, <5>2
        <5> QED BY <3>2, <4>2, <5>1, <5>3
      <4> QED BY <4>1, <4>2
    <3>7. h = Step(k + 1, h) BY <3>4, <3>6
    <3> QED BY <3>7
  <2> HIDE DEF H
  <2>3. Cardinality(Cell) \in H BY <1>0, <2>1, <2>2, NatInduct
  <2> QED BY <2>3 DEF H
<1>3. within = Step(Cardinality(Cell), within) BY <1>2
<1> HIDE DEF within
<1>4. \A n \in 0 .. Cardinality(Cell) : within[n] = IF n = 0 THEN {Spawn} ELSE From(rocks, within[n - 1]) BY ONLY <1>3
<1> QED BY <1>1, <1>4 DEF Walks

\* Who walks stays in the room, and may stand still.
LEMMA WalksGrow ==
  ASSUME NEW rocks, NEW w, Walks(rocks, w), NEW n \in 0 .. Cardinality(Cell)
  PROVE  w[n] \subseteq w[Cardinality(Cell)] /\ w[n] \subseteq Cell
<1>0. Cardinality(Cell) \in Nat BY CellsAreFinite
<1>1. Spawn \in Cell BY ConfigAssumption DEF Cell
<1>2. ASSUME NEW c \in Cell, NEW s PROVE Walk(rocks, c, s) \in Cell
  BY DEF Walk, Open
<1>3. ASSUME NEW c \in Cell PROVE Walk(rocks, c, <<0, 0>>) = c
  <2>1. Cols \in Nat /\ Rows \in Nat BY ConfigAssumption
  <2>2. PICK x \in 0 .. Cols - 1, y \in 0 .. Rows - 1 : c = <<x, y>> BY DEF Cell
  <2>3. x \in Int /\ y \in Int BY <2>1
  <2>4. <<c[1] + <<0, 0>>[1], c[2] + <<0, 0>>[2]>> = c BY <2>2, <2>3
  <2> QED BY <2>4 DEF Walk
<1> DEFINE H == {m \in Nat : m <= Cardinality(Cell) => w[m] \subseteq Cell /\ \A k \in 0 .. m : w[k] \subseteq w[m]}
<1>4. 0 \in H
  <2>1. 0 \in 0 .. Cardinality(Cell) BY <1>0
  <2>2. w[0] = {Spawn} BY <2>1 DEF Walks
  <2> QED BY <1>1, <2>2
<1>5. ASSUME NEW m \in Nat, m \in H PROVE m + 1 \in H
  <2> SUFFICES ASSUME m + 1 <= Cardinality(Cell)
               PROVE  w[m + 1] \subseteq Cell /\ \A k \in 0 .. m + 1 : w[k] \subseteq w[m + 1]
    OBVIOUS
  <2>1. m + 1 \in 0 .. Cardinality(Cell) /\ m + 1 # 0 /\ (m + 1) - 1 = m /\ m <= Cardinality(Cell) BY <1>0
  <2>2. w[m + 1] = From(rocks, w[m]) BY <2>1 DEF Walks
  <2>3. w[m] \subseteq Cell /\ \A k \in 0 .. m : w[k] \subseteq w[m] BY <1>5, <2>1
  <2>4. w[m + 1] \subseteq Cell
    <3> SUFFICES ASSUME NEW c \in w[m + 1] PROVE c \in Cell OBVIOUS
    <3>1. PICK b \in w[m], s \in Steps4 \cup {<<0, 0>>} : c = Walk(rocks, b, s) BY <2>2 DEF From
    <3> QED BY <1>2, <2>3, <3>1
  <2>5. w[m] \subseteq w[m + 1]
    <3> SUFFICES ASSUME NEW c \in w[m] PROVE c \in From(rocks, w[m]) BY <2>2
    <3>1. c = Walk(rocks, c, <<0, 0>>) BY <1>3, <2>3
    <3>2. <<0, 0>> \in Steps4 \cup {<<0, 0>>} OBVIOUS
    <3> QED BY <3>1, <3>2 DEF From
  <2>6. ASSUME NEW k \in 0 .. m + 1 PROVE w[k] \subseteq w[m + 1]
    <3>1. k \in 0 .. m \/ k = m + 1 OBVIOUS
    <3> QED BY <2>3, <2>5, <3>1
  <2> QED BY <2>4, <2>6
<1> HIDE DEF H
<1>6. Cardinality(Cell) \in H BY <1>0, <1>4, <1>5, NatInduct
<1>7. n \in Nat /\ n <= Cardinality(Cell) BY <1>0
<1>8. n \in H BY <1>4, <1>5, <1>7, NatInduct
<1> QED BY <1>0, <1>6, <1>7, <1>8 DEF H

\* Filling the pockets shuts nobody off: what can be walked to stays so.
LEMMA SameCave ==
  ASSUME NEW rocks
  PROVE  Reachable(rocks \cup (FreeCells \ Reachable(rocks))) = Reachable(rocks)
<1>0. Cardinality(Cell) \in Nat BY CellsAreFinite
<1>1. PICK full : full = rocks \cup (FreeCells \ Reachable(rocks)) OBVIOUS
<1>2. PICK w : Walks(rocks, w) /\ Reachable(rocks) = w[Cardinality(Cell)] BY ReachableWalks
<1>3. PICK v : Walks(full, v) /\ Reachable(full) = v[Cardinality(Cell)] BY ReachableWalks
<1>4. Open(full) \subseteq Open(rocks) BY <1>1 DEF Open
<1>5. \A c \in Open(rocks) : c \in Reachable(rocks) => c \in Open(full) BY <1>1 DEF Open
<1> DEFINE H == {n \in Nat : n <= Cardinality(Cell) => v[n] = w[n]}
<1>6. 0 \in H
  <2>1. 0 \in 0 .. Cardinality(Cell) BY <1>0
  <2> QED BY <1>2, <1>3, <2>1 DEF Walks
<1>7. ASSUME NEW n \in Nat, n \in H PROVE n + 1 \in H
  <2> SUFFICES ASSUME n + 1 <= Cardinality(Cell) PROVE v[n + 1] = w[n + 1] OBVIOUS
  <2>1. n + 1 \in 0 .. Cardinality(Cell) /\ n + 1 # 0 /\ (n + 1) - 1 = n /\ n <= Cardinality(Cell) BY <1>0
  <2>2. v[n] = w[n] BY <1>7, <2>1
  <2>3. w[n + 1] = From(rocks, w[n]) BY <1>2, <2>1 DEF Walks
  <2>4. v[n + 1] = From(full, w[n]) BY <1>3, <2>1, <2>2 DEF Walks
  <2>5. w[n + 1] \subseteq Reachable(rocks) BY <1>2, <2>1, WalksGrow
  <2>6. ASSUME NEW c \in w[n], NEW s \in Steps4 \cup {<<0, 0>>} PROVE Walk(full, c, s) = Walk(rocks, c, s)
    <3>1. Walk(rocks, c, s) \in Reachable(rocks) BY <2>3, <2>5 DEF From
    <3>2. PICK d : d = <<c[1] + s[1], c[2] + s[2]>> OBVIOUS
    <3>3. Walk(rocks, c, s) = IF d \in Open(rocks) THEN d ELSE c BY <3>2 DEF Walk
    <3>4. Walk(full, c, s) = IF d \in Open(full) THEN d ELSE c BY <3>2 DEF Walk
    <3> QED BY <1>4, <1>5, <3>1, <3>3, <3>4
  <2> QED BY <2>3, <2>4, <2>6 DEF From
<1> HIDE DEF H
<1>8. Cardinality(Cell) \in H BY <1>0, <1>6, <1>7, NatInduct
<1> QED BY <1>1, <1>2, <1>3, <1>8, <1>0 DEF H

\* There is room for a stone of its own, and a stone to hide the ladder under: what the layout relies on
\* when no ore drawn can hide it.  Where it fails, the code hides none.
RoomLeft(l) == Cardinality(FloorPool(l.rocks)) > NodesPerFloor /\ Stone(l.floor) # {}

CanBeMined(l) ==
  /\ \A n \in l.nodes : \E c \in Reachable(l.rocks) : InReach(c, n.at)
  /\ \A n, m \in l.nodes : n.at = m.at => n = m
Hiding(l) == {n \in l.nodes : n.ladder}
HidesOne(l) ==
  \E h : /\ Hiding(l) = {h} /\ OreValue[h.kind] = 0
         /\ LadderCell(h) \in Reachable(l.rocks) \ l.rocks
         /\ \A m \in l.nodes \ {h} : m.at # LadderCell(h)

\* What the nodes of a layout are, whatever was drawn.
PlacedWell(l) ==
  /\ \A m \in l.nodes :
       /\ m \in [at : Int \X Int, kind : Kinds, ladder : BOOLEAN]
       /\ m.at \in IF m.kind \in InWall THEN WallPool(l.rocks) ELSE FloorPool(l.rocks)
  /\ \A n, m \in l.nodes : n.at = m.at => n = m

LEMMA PoolCells == ASSUME NEW rocks PROVE FloorPool(rocks) \subseteq Int \X Int /\ WallPool(rocks) \subseteq Int \X Int
<1>1. Cols \in Nat /\ Rows \in Nat /\ WallRows \in Nat BY ConfigAssumption
<1>2. FloorPool(rocks) \subseteq Cell BY DEF FloorPool, FreeCells
<1>3. Cell \subseteq Int \X Int BY <1>1 DEF Cell
<1>4. WallPool(rocks) \subseteq (1 .. Cols - 2) \X {WallRows - 1} BY DEF WallPool, WallRow
<1>5. (1 .. Cols - 2) \X {WallRows - 1} \subseteq Int \X Int BY <1>1
<1> QED BY <1>2, <1>3, <1>4, <1>5

\* The stones are ores of the floor without value.
LEMMA StonesAreDuds ==
  ASSUME NEW f \in 1 .. Floors, NEW k \in Stone(f)
  PROVE  k \in Kinds /\ OreValue[k] = 0 /\ k \notin InWall
<1>1. \A i \in DOMAIN Tier[f] : Tier[f][i] \in Kinds BY ConfigAssumption DEF ConfigOK
<1>2. \A i \in DOMAIN OreSeq : OreSeq[i] \in Kinds BY DEF Kinds
<1> QED BY <1>1, <1>2 DEF Stone, FirstOf

LEMMA LadderAboveGround ==
  ASSUME NEW rocks, NEW n, n.at \in IF n.kind \in InWall THEN WallPool(rocks) ELSE FloorPool(rocks)
  PROVE  LadderCell(n) \in Reachable(rocks) \ rocks
BY DEF LadderCell, WallPool, FloorPool

LEMMA HideHidesOne ==
  ASSUME NEW f \in 1 .. Floors, NEW rocks, NEW d, GoodDraw(rocks, d, NodesPerFloor), NEW nodes \in Hide(f, d),
         NEW l, l = [floor |-> f, rocks |-> rocks, nodes |-> nodes]
  PROVE  /\ PlacedWell(l)
         /\ f = Floors => Hiding(l) = {}
         /\ f # Floors /\ RoomLeft(l) => HidesOne(l)
<1>1. l.floor = f /\ l.rocks = rocks /\ l.nodes = nodes OBVIOUS
<1>2. ASSUME NEW m \in d.nodes
      PROVE  /\ m \in [at : Int \X Int, kind : Kinds, ladder : BOOLEAN] /\ ~m.ladder
             /\ m.at \in IF m.kind \in InWall THEN WallPool(rocks) ELSE FloorPool(rocks)
             /\ m.at \notin d.floor \cup d.wall
  <2>1. /\ m = Node(m.at, m.kind) /\ m.kind \in Kinds
        /\ m.at \in IF m.kind \in InWall THEN WallPool(rocks) ELSE FloorPool(rocks)
        /\ m.at \notin d.floor \cup d.wall
    BY DEF GoodDraw
  <2>2. m.at \in Int \X Int BY <2>1, PoolCells
  <2>3. PICK c, k : c = m.at /\ k = m.kind OBVIOUS
  <2>4. m = [at |-> c, kind |-> k, ladder |-> FALSE] BY <2>1, <2>3 DEF Node
  <2> QED BY <2>1, <2>2, <2>3, <2>4
<1>3. \A m, k \in d.nodes : m.at = k.at => m = k BY DEF GoodDraw
<1>4. CASE nodes = d.nodes
  <2>1. PlacedWell(l) BY <1>1, <1>2, <1>3, <1>4 DEF PlacedWell
  <2>2. Hiding(l) = {} BY <1>1, <1>2, <1>4 DEF Hiding
  <2>3. f # Floors => ~RoomLeft(l) \/ HidesOne(l)
    <3> SUFFICES ASSUME f # Floors, RoomLeft(l) PROVE FALSE OBVIOUS
    <3>1. d.floor # {}
      <4>1. IsFiniteSet(d.floor) /\ Cardinality(d.floor) + NodesPerFloor >= Cardinality(FloorPool(rocks)) BY DEF GoodDraw
      <4>2. Cardinality(FloorPool(rocks)) > NodesPerFloor BY <1>1 DEF RoomLeft
      <4>3. NodesPerFloor \in Nat /\ Cardinality(FloorPool(rocks)) \in Nat BY ConfigAssumption, FloorPoolIsFinite
      <4>4. PICK p : p = Cardinality(FloorPool(rocks)) OBVIOUS
      <4>5. PICK q : q = Cardinality(d.floor) OBVIOUS
      <4>6. d.floor = {} => q = 0 BY <4>5, FS_EmptySet
      <4>7. q # 0 BY <4>1, <4>2, <4>3, <4>4, <4>5
      <4> QED BY <4>6, <4>7
    <3>2. Stone(f) # {} BY <1>1 DEF RoomLeft
    <3>3. CASE Duds(d.nodes) # {}
      <4>1. PICK n \in Duds(d.nodes) : nodes = (d.nodes \ {n}) \cup {[n EXCEPT !.ladder = TRUE]} BY <3>3 DEF Hide
      <4>2. n \in d.nodes BY <4>1 DEF Duds
      <4>3. [n EXCEPT !.ladder = TRUE].ladder BY <1>2, <4>2
      <4> QED BY <1>2, <1>4, <4>1, <4>3
    <3>4. CASE Duds(d.nodes) = {}
      <4>1. PICK c \in d.floor, k \in Stone(f) : nodes = d.nodes \cup {[Node(c, k) EXCEPT !.ladder = TRUE]}
        BY <3>1, <3>2, <3>4 DEF Hide
      <4>2. [Node(c, k) EXCEPT !.ladder = TRUE].ladder BY DEF Node
      <4> QED BY <1>2, <1>4, <4>1, <4>2
    <3> QED BY <3>3, <3>4
  <2> QED BY <2>1, <2>2, <2>3
<1>5. ASSUME f # Floors, NEW n \in Duds(d.nodes), nodes = (d.nodes \ {n}) \cup {[n EXCEPT !.ladder = TRUE]}
      PROVE  PlacedWell(l) /\ HidesOne(l)
  <2>1. n \in d.nodes /\ OreValue[n.kind] = 0 /\ ~\E m \in d.nodes \ {n} : m.at = LadderCell(n) BY DEF Duds
  <2>2. PICK h : h = [n EXCEPT !.ladder = TRUE] OBVIOUS
  <2>3. /\ h \in [at : Int \X Int, kind : Kinds, ladder : BOOLEAN]
        /\ h.at = n.at /\ h.kind = n.kind /\ h.ladder
    BY <1>2, <2>1, <2>2
  <2>4. nodes = (d.nodes \ {n}) \cup {h} BY <1>5, <2>2
  <2>5. h.at \in IF h.kind \in InWall THEN WallPool(rocks) ELSE FloorPool(rocks) BY <1>2, <2>1, <2>3
  <2>6. PlacedWell(l)
    <3>1. ASSUME NEW m \in nodes
          PROVE  /\ m \in [at : Int \X Int, kind : Kinds, ladder : BOOLEAN]
                 /\ m.at \in IF m.kind \in InWall THEN WallPool(rocks) ELSE FloorPool(rocks)
      BY <1>2, <2>3, <2>4, <2>5
    <3>2. ASSUME NEW m \in nodes, NEW k \in nodes, m.at = k.at PROVE m = k
      BY <1>3, <2>1, <2>3, <2>4, <3>2
    <3> QED BY <1>1, <3>1, <3>2 DEF PlacedWell
  <2>7. Hiding(l) = {h} BY <1>1, <1>2, <2>3, <2>4 DEF Hiding
  <2>8. LadderCell(h) = LadderCell(n) BY <2>3 DEF LadderCell
  <2>9. LadderCell(h) \in Reachable(rocks) \ rocks BY <2>5, LadderAboveGround
  <2>10. \A m \in nodes \ {h} : m.at # LadderCell(h) BY <2>1, <2>4, <2>8
  <2> QED BY <1>1, <2>1, <2>3, <2>6, <2>7, <2>9, <2>10 DEF HidesOne
<1>6. ASSUME f # Floors, NEW c \in d.floor, NEW k \in Stone(f), nodes = d.nodes \cup {[Node(c, k) EXCEPT !.ladder = TRUE]}
      PROVE  PlacedWell(l) /\ HidesOne(l)
  <2>1. k \in Kinds /\ OreValue[k] = 0 /\ k \notin InWall BY StonesAreDuds
  <2>2. c \in FloorPool(rocks) BY DEF GoodDraw
  <2>3. PICK h : h = [Node(c, k) EXCEPT !.ladder = TRUE] OBVIOUS
  <2>4. h = [at |-> c, kind |-> k, ladder |-> TRUE] BY <2>3 DEF Node
  <2>5. c \in Int \X Int BY <2>2, PoolCells
  <2>6. /\ h \in [at : Int \X Int, kind : Kinds, ladder : BOOLEAN]
        /\ h.at = c /\ h.kind = k /\ h.ladder
    BY <2>1, <2>4, <2>5
  <2>7. nodes = d.nodes \cup {h} BY <1>6, <2>3
  <2>8. h.at \in IF h.kind \in InWall THEN WallPool(rocks) ELSE FloorPool(rocks) BY <2>1, <2>2, <2>6
  <2>9. \A m \in d.nodes : m.at # h.at BY <1>2, <2>6
  <2>10. PlacedWell(l)
    <3>1. ASSUME NEW m \in nodes
          PROVE  /\ m \in [at : Int \X Int, kind : Kinds, ladder : BOOLEAN]
                 /\ m.at \in IF m.kind \in InWall THEN WallPool(rocks) ELSE FloorPool(rocks)
      BY <1>2, <2>6, <2>7, <2>8
    <3>2. ASSUME NEW m \in nodes, NEW j \in nodes, m.at = j.at PROVE m = j
      BY <1>3, <2>7, <2>9, <3>2
    <3> QED BY <1>1, <3>1, <3>2 DEF PlacedWell
  <2>11. Hiding(l) = {h} BY <1>1, <1>2, <2>6, <2>7 DEF Hiding
  <2>12. LadderCell(h) = h.at BY <2>1, <2>6 DEF LadderCell
  <2>13. LadderCell(h) \in Reachable(rocks) \ rocks BY <2>8, LadderAboveGround
  <2>14. \A m \in nodes \ {h} : m.at # LadderCell(h) BY <2>7, <2>9, <2>12
  <2> QED BY <1>1, <2>1, <2>6, <2>10, <2>11, <2>13, <2>14 DEF HidesOne
<1>7. \/ nodes = d.nodes
      \/ f # Floors /\ \E n \in Duds(d.nodes) : nodes = (d.nodes \ {n}) \cup {[n EXCEPT !.ladder = TRUE]}
      \/ f # Floors /\ \E c \in d.floor, k \in Stone(f) : nodes = d.nodes \cup {[Node(c, k) EXCEPT !.ladder = TRUE]}
  BY DEF Hide
<1> QED BY <1>4, <1>5, <1>6, <1>7

\* What every layout the code can draw is like.
LEMMA LayoutsAreSound ==
  ASSUME NEW f \in 1 .. Floors, NEW l \in Layouts(f)
  PROVE  /\ l.floor = f /\ PlacedWell(l) /\ CanBeMined(l)
         /\ \E rocks \in Scatters : l.rocks = Filled(rocks)
         /\ f = Floors => Hiding(l) = {}
         /\ f # Floors /\ RoomLeft(l) => HidesOne(l)
<1>1. PICK r \in Scatters : \E d \in Draws(f, Filled(r)) : \E nodes \in Hide(f, d) :
        l = [floor |-> f, rocks |-> Filled(r), nodes |-> nodes]
  BY DEF Layouts
<1>2. PICK d \in Draws(f, Filled(r)) : \E nodes \in Hide(f, d) : l = [floor |-> f, rocks |-> Filled(r), nodes |-> nodes]
  BY <1>1
<1>3. PICK nodes \in Hide(f, d) : l = [floor |-> f, rocks |-> Filled(r), nodes |-> nodes] BY <1>2
<1>4. PICK rocks : rocks = Filled(r) OBVIOUS
<1>5. GoodDraw(rocks, d, NodesPerFloor) BY <1>2, <1>4, DrawsAreGood
<1>6. /\ PlacedWell(l)
      /\ f = Floors => Hiding(l) = {}
      /\ f # Floors /\ RoomLeft(l) => HidesOne(l)
  BY <1>3, <1>4, <1>5, HideHidesOne
<1>7. CanBeMined(l)
  <2>1. l.rocks = rocks BY <1>3, <1>4
  <2>2. ASSUME NEW n \in l.nodes PROVE \E c \in Reachable(l.rocks) : InReach(c, n.at)
    <3>1. /\ n \in [at : Int \X Int, kind : Kinds, ladder : BOOLEAN]
          /\ n.at \in IF n.kind \in InWall THEN WallPool(rocks) ELSE FloorPool(rocks)
      BY <1>6, <2>1 DEF PlacedWell
    <3>2. PICK x \in Int, y \in Int : n.at = <<x, y>> BY <3>1
    <3>3. Reach \in Nat /\ Reach >= 1 BY ConfigAssumption
    <3>4. CASE n.kind \in InWall
      <4>1. Below(n.at) \in Reachable(l.rocks) BY <2>1, <3>1, <3>4 DEF WallPool
      <4>2. Below(n.at) = <<x, y + 1>> BY <3>2 DEF Below
      <4>3. InReach(<<x, y + 1>>, <<x, y>>) BY <3>2, <3>3 DEF InReach, Distance
      <4> QED BY <3>2, <4>1, <4>2, <4>3
    <3>5. CASE n.kind \notin InWall
      <4>1. n.at \in Reachable(l.rocks) BY <2>1, <3>1, <3>5 DEF FloorPool
      <4>2. InReach(<<x, y>>, <<x, y>>) BY <3>2, <3>3 DEF InReach, Distance
      <4> QED BY <3>2, <4>1, <4>2
    <3> QED BY <3>4, <3>5
  <2> QED BY <1>6, <2>2 DEF CanBeMined, PlacedWell
<1> QED BY <1>3, <1>6, <1>7

\* Where there is room for a stone, every floor drawn can be played, whatever the random generator draws: all there is
\* can be mined, one node and no other hides the ladder (none on the last floor), and no pocket is shut off.
THEOREM EveryLayoutIsPlayable ==
  LayoutInit /\ [][LayoutNext]_layout /\ [](layout # NoLayout /\ layout.floor < Floors => RoomLeft(layout)) => []LayoutIsPlayable
<1> DEFINE Drawn1 == layout # NoLayout => \E f \in 1 .. Floors : layout \in Layouts(f)
           Room == layout # NoLayout /\ layout.floor < Floors => RoomLeft(layout)
<1>1. LayoutInit => Drawn1 BY DEF LayoutInit
<1>2. Drawn1 /\ [LayoutNext]_layout => Drawn1' BY DEF LayoutNext
<1>3. Drawn1 /\ Room => LayoutIsPlayable
  <2> SUFFICES ASSUME Drawn1, Room, layout # NoLayout PROVE EveryNodeCanBeMined /\ OneWayDown /\ OneCave
    BY DEF LayoutIsPlayable
  <2>1. PICK f \in 1 .. Floors : layout \in Layouts(f) OBVIOUS
  <2>2. /\ layout.floor = f /\ CanBeMined(layout)
        /\ \E rocks \in Scatters : layout.rocks = Filled(rocks)
        /\ f = Floors => Hiding(layout) = {}
        /\ f # Floors /\ RoomLeft(layout) => HidesOne(layout)
    BY <2>1, LayoutsAreSound
  <2>3. Floors \in Nat BY ConfigAssumption
  <2>4. EveryNodeCanBeMined BY <2>2 DEF CanBeMined, EveryNodeCanBeMined
  <2>5. OneWayDown
    <3>1. CASE f = Floors
      <4>1. Cardinality({}) = 0 BY FS_EmptySet
      <4> QED BY <2>2, <2>3, <3>1, <4>1 DEF OneWayDown, Hiding
    <3>2. CASE f # Floors
      <4>1. f < Floors BY <2>3, <3>2
      <4>2. HidesOne(layout) BY <2>2, <3>2, <4>1
      <4>3. PICK h : /\ Hiding(layout) = {h} /\ OreValue[h.kind] = 0
                     /\ LadderCell(h) \in Reachable(layout.rocks) \ layout.rocks
                     /\ \A m \in layout.nodes \ {h} : m.at # LadderCell(h)
        BY <4>2 DEF HidesOne
      <4>4. Cardinality({h}) = 1 BY FS_Singleton
      <4> QED BY <2>2, <4>1, <4>3, <4>4 DEF OneWayDown, Hiding
    <3> QED BY <3>1, <3>2
  <2>6. OneCave
    <3> SUFFICES ASSUME RockTarget > 0, NEW c \in FreeCells
                 PROVE  c \in layout.rocks \/ c \in Reachable(layout.rocks)
      BY DEF OneCave
    <3>1. PICK r \in Scatters : layout.rocks = Filled(r) BY <2>2
    <3>2. RockTarget # 0 BY ConfigAssumption
    <3>3. layout.rocks = r \cup (FreeCells \ Reachable(r)) BY <3>1, <3>2 DEF Filled
    <3>4. Reachable(layout.rocks) = Reachable(r) BY <3>3, SameCave
    <3> QED BY <3>3, <3>4
  <2> QED BY <2>4, <2>5, <2>6
<1> QED BY <1>1, <1>2, <1>3, PTL

-----------------------------------------------------------------------------
(* The mine through its days. *)

Presses == [day : Nat, floor : 1 .. Floors, at : Int \X Int]
MineTyped ==
  /\ day \in Nat /\ deepest \in Nat /\ stepped \subseteq 1 .. Floors
  /\ floors \in [1 .. Floors -> FloorStates \cup {NoFloor}]
  /\ at \in [Miners -> (1 .. Floors) \cup {Outside}]
  /\ press \in [Miners -> Presses \cup {NoPress}]

\* No two nodes of a floor share a cell, so a press hits the one node it names.
PaidSoFar(s) ==
  /\ \A n, m \in s.nodes : n.at = m.at => n = m
  /\ \A n \in s.nodes : n.paid = IF n.left = 0 THEN Pays(n) ELSE 0
AllPaid == \A f \in 1 .. Floors : floors[f] # NoFloor => PaidSoFar(floors[f])

\* A press of today is on a floor that has been laid out.
PressedToday ==
  \A p \in Miners : press[p] # NoPress =>
    /\ press[p] \in Presses /\ press[p].day <= day
    /\ press[p].day = day => floors[press[p].floor] # NoFloor

OreInv == MineTyped /\ AllPaid /\ PressedToday

\* A floor as it is laid out, and after a press has hit a node that still stood.
LEMMA NewFloorIsSound ==
  ASSUME NEW f \in 1 .. Floors, NEW l \in Drawn(f)
  PROVE  NewFloor(l) \in FloorStates /\ PaidSoFar(NewFloor(l))
<1>1. l \in Layouts(f) BY DrawnAssumption
<1>2. PlacedWell(l) BY <1>1, LayoutsAreSound
<1>3. PICK new : new = NewFloor(l) OBVIOUS
<1> DEFINE fresh(n) == [at |-> n.at, kind |-> n.kind, ladder |-> n.ladder, left |-> OreHits[n.kind], paid |-> 0]
<1>4. new.nodes = {fresh(n) : n \in l.nodes} /\ new.ladder = NoCell /\ new = [nodes |-> new.nodes, ladder |-> NoCell]
  BY <1>3 DEF NewFloor
<1>5. ASSUME NEW n \in l.nodes
      PROVE  /\ fresh(n) \in [at : Int \X Int, kind : Kinds, ladder : BOOLEAN, left : Nat, paid : Nat]
             /\ fresh(n).left # 0 /\ fresh(n).paid = 0 /\ fresh(n).at = n.at
  <2>1. n \in [at : Int \X Int, kind : Kinds, ladder : BOOLEAN] BY <1>2 DEF PlacedWell
  <2>2. OreHits[n.kind] \in Nat /\ OreHits[n.kind] # 0 BY <2>1, ConfigAssumption
  <2> QED BY <2>1, <2>2
<1>6. \A n, m \in l.nodes : n.at = m.at => n = m BY <1>2 DEF PlacedWell
<1>7. new \in FloorStates BY <1>4, <1>5 DEF FloorStates
<1>8. PaidSoFar(new) BY <1>4, <1>5, <1>6 DEF PaidSoFar
<1> QED BY <1>3, <1>7, <1>8

Hitting(f, n, c) == [nodes |-> (floors[f].nodes \ {n}) \cup {HitNode(n)}, ladder |-> c]

LEMMA HitNodeIsSound ==
  ASSUME NEW n \in [at : Int \X Int, kind : Kinds, ladder : BOOLEAN, left : Nat, paid : Nat], n.left > 0,
         n.paid = IF n.left = 0 THEN Pays(n) ELSE 0
  PROVE  /\ HitNode(n) \in [at : Int \X Int, kind : Kinds, ladder : BOOLEAN, left : Nat, paid : Nat]
         /\ HitNode(n).at = n.at /\ HitNode(n).kind = n.kind /\ HitNode(n).ladder = n.ladder
         /\ HitNode(n).left = n.left - 1
         /\ HitNode(n).paid = IF HitNode(n).left = 0 THEN Pays(HitNode(n)) ELSE 0
<1>1. PICK left : left = IF n.left > 1 THEN n.left - 1 ELSE 0 OBVIOUS
<1>2. n.left \in Nat /\ n.paid = 0 OBVIOUS
<1>3. left \in Nat /\ left = n.left - 1 BY <1>1, <1>2
<1>4. Pays(n) \in Nat BY DEF Pays
<1>5. PICK paid : paid = n.paid + (IF left = 0 THEN Pays(n) ELSE 0) OBVIOUS
<1>6. paid \in Nat /\ paid = IF left = 0 THEN Pays(n) ELSE 0 BY <1>2, <1>4, <1>5
<1>7. HitNode(n) = [n EXCEPT !.left = left, !.paid = paid] BY <1>1, <1>5 DEF HitNode
<1>8. HitNode(n) = [at |-> n.at, kind |-> n.kind, ladder |-> n.ladder, left |-> left, paid |-> paid] BY <1>7
<1>9. Pays(HitNode(n)) = Pays(n) BY <1>8 DEF Pays
<1> QED BY <1>3, <1>6, <1>8, <1>9

\* What a press does, if its node still stands.
LEMMA HitHits ==
  ASSUME OreInv, NEW p \in Miners, Hit(p)
  PROVE  \E f \in 1 .. Floors : \E n \in floors[f].nodes : \E c \in Opens(f, n) :
           /\ floors[f] # NoFloor /\ n.left > 0
           /\ floors' = [floors EXCEPT ![f] = Hitting(f, n, c)]
           /\ stepped' = stepped \cup {g \in {f} : c # NoCell}
           /\ Hitting(f, n, c) \in FloorStates /\ PaidSoFar(Hitting(f, n, c))
<1>1. PICK r : r = press[p] OBVIOUS
<1>2. r \in Presses /\ r.day = day /\ Standing(r) BY <1>1 DEF Hit, Standing, OreInv, PressedToday
<1>3. PICK f : f = r.floor OBVIOUS
<1>4. f \in 1 .. Floors /\ floors[f] # NoFloor
  BY <1>1, <1>2, <1>3 DEF Hit, OreInv, PressedToday, Presses
<1>5. floors[f] \in FloorStates /\ PaidSoFar(floors[f]) BY <1>4 DEF OreInv, MineTyped, AllPaid
<1>6a. PICK n \in Named(r) : \E c \in Opens(f, n) :
        /\ floors' = [floors EXCEPT ![f] = [nodes |-> (@.nodes \ {n}) \cup {HitNode(n)}, ladder |-> c]]
        /\ stepped' = stepped \cup {g \in {f} : c # NoCell}
  BY <1>1, <1>3 DEF Hit
<1>6. PICK c \in Opens(f, n) :
        /\ floors' = [floors EXCEPT ![f] = [nodes |-> (@.nodes \ {n}) \cup {HitNode(n)}, ladder |-> c]]
        /\ stepped' = stepped \cup {g \in {f} : c # NoCell}
  BY <1>6a
<1>7. n \in floors[f].nodes /\ n.at = r.at BY <1>3, <1>6 DEF Named
<1>8. PICK m \in Named(r) : m.left > 0 BY <1>2 DEF Standing
<1>9. m \in floors[f].nodes /\ m.at = r.at BY <1>3, <1>8 DEF Named
<1>10. m = n BY <1>5, <1>7, <1>9 DEF PaidSoFar
<1>11. n \in [at : Int \X Int, kind : Kinds, ladder : BOOLEAN, left : Nat, paid : Nat] BY <1>5, <1>7 DEF FloorStates
<1>12. PICK h : h = HitNode(n) OBVIOUS
<1>13. /\ h \in [at : Int \X Int, kind : Kinds, ladder : BOOLEAN, left : Nat, paid : Nat]
       /\ h.at = n.at /\ h.paid = IF h.left = 0 THEN Pays(h) ELSE 0
  BY <1>5, <1>7, <1>8, <1>10, <1>11, <1>12, HitNodeIsSound DEF PaidSoFar
<1>14. c \in (Int \X Int) \cup {NoCell}
  <2>1. LadderCell(n) \in Int \X Int
    <3>1. PICK x \in Int, y \in Int : n.at = <<x, y>> BY <1>11
    <3>2. Below(n.at) = <<x, y + 1>> BY <3>1 DEF Below
    <3> QED BY <3>1, <3>2 DEF LadderCell
  <2>2. floors[f].ladder \in (Int \X Int) \cup {NoCell} BY <1>5 DEF FloorStates
  <2> QED BY <1>6, <2>1, <2>2 DEF Opens
<1>15. PICK new : new = Hitting(f, n, c) OBVIOUS
<1>16. new.nodes = (floors[f].nodes \ {n}) \cup {h} /\ new.ladder = c /\ new = [nodes |-> new.nodes, ladder |-> c]
  BY <1>12, <1>15 DEF Hitting
<1>17. new \in FloorStates
  <2>1. floors[f].nodes \subseteq [at : Int \X Int, kind : Kinds, ladder : BOOLEAN, left : Nat, paid : Nat]
    BY <1>5 DEF FloorStates
  <2>2. new.nodes \subseteq [at : Int \X Int, kind : Kinds, ladder : BOOLEAN, left : Nat, paid : Nat] BY <1>13, <1>16, <2>1
  <2> QED BY <1>14, <1>16, <2>2 DEF FloorStates
<1>18. PaidSoFar(new) BY <1>5, <1>7, <1>13, <1>16 DEF PaidSoFar
<1>19. floors' = [floors EXCEPT ![f] = new] BY <1>6, <1>15 DEF Hitting
<1> QED BY <1>4, <1>6, <1>7, <1>8, <1>10, <1>15, <1>17, <1>18, <1>19

\* How the floors of today change: not, or one is laid out, or one is hit, or the day ends.
Laid(f) == floors[f] = NoFloor /\ \E l \in Drawn(f) : floors' = [floors EXCEPT ![f] = NewFloor(l)]
HitOne ==
  \E f \in 1 .. Floors : \E n \in floors[f].nodes : \E c \in Opens(f, n) :
    /\ floors[f] # NoFloor /\ n.left > 0
    /\ floors' = [floors EXCEPT ![f] = Hitting(f, n, c)]
    /\ stepped' = stepped \cup {g \in {f} : c # NoCell}
    /\ Hitting(f, n, c) \in FloorStates /\ PaidSoFar(Hitting(f, n, c))

LEMMA FloorsChange ==
  ASSUME OreInv, [MineNext]_mineVars
  PROVE  \/ floors' = floors /\ stepped' = stepped /\ day' = day
         \/ \E f \in 1 .. Floors : Laid(f) /\ (f = 1 \/ CanEnter(f)) /\ stepped' = stepped /\ day' = day
         \/ HitOne /\ day' = day
         \/ day' = day + 1 /\ floors' = [f \in 1 .. Floors |-> NoFloor] /\ stepped' = stepped
<1> DEFINE Kept == floors' = floors /\ stepped' = stepped /\ day' = day
           NewOne == \E f \in 1 .. Floors : Laid(f) /\ (f = 1 \/ CanEnter(f)) /\ stepped' = stepped /\ day' = day
<1>0. 1 \in 1 .. Floors BY ConfigAssumption
<1>1. ASSUME NEW p \in Miners, LeaveMine(p) PROVE Kept BY <1>1 DEF LeaveMine
<1>2. ASSUME NEW p \in Miners, Refused(p) PROVE Kept BY <1>2 DEF Refused
<1>3. ASSUME NEW p \in Miners, Hit(p) PROVE HitOne /\ day' = day
  <2>1. HitOne BY <1>3, HitHits DEF HitOne
  <2> QED BY <1>3, <2>1 DEF Hit
<1>4. ASSUME NEW f \in 1 .. Floors, GetFloor(f) PROVE Kept \/ NewOne
  BY <1>4 DEF GetFloor, Ensure, Laid
<1>5. ASSUME NEW f \in 1 .. Floors, NEW p \in Miners, EnterFloor(p, f) PROVE Kept BY <1>5 DEF EnterFloor
<1>6. ASSUME NEW p \in Miners, NEW f \in 1 .. Floors, NEW n \in floors[f].nodes, Press(p, f, n) PROVE Kept
  BY <1>6 DEF Press
<1>7. ASSUME Midnight PROVE day' = day + 1 /\ floors' = [f \in 1 .. Floors |-> NoFloor] /\ stepped' = stepped
  BY <1>7 DEF Midnight
<1>8. ASSUME SpawnMine PROVE Kept \/ NewOne BY <1>0, <1>8 DEF SpawnMine, Ensure, Laid
<1>9. ASSUME TellReset PROVE Kept BY <1>9 DEF TellReset
<1>10. ASSUME MineRestart PROVE Kept \/ NewOne BY <1>0, <1>10 DEF MineRestart, Ensure, Laid
<1>11. CASE UNCHANGED mineVars BY <1>11 DEF mineVars
<1> QED BY <1>1, <1>2, <1>3, <1>4, <1>5, <1>6, <1>7, <1>8, <1>9, <1>10, <1>11 DEF MineNext

LEMMA OreStep ==
  ASSUME OreInv, [MineNext]_mineVars
  PROVE  OreInv'
<1>0. Floors \in Nat /\ day \in Nat /\ 1 \in 1 .. Floors BY ConfigAssumption DEF OreInv, MineTyped
<1>1. floors' \in [1 .. Floors -> FloorStates \cup {NoFloor}] /\ AllPaid'
      /\ (day' = day => \A f \in 1 .. Floors : floors[f] # NoFloor => floors'[f] # NoFloor)
      /\ (day' = day \/ day' = day + 1)
  <2>1. CASE floors' = floors /\ day' = day BY <2>1 DEF OreInv, MineTyped, AllPaid, PaidSoFar, Pays
  <2>2. ASSUME NEW f \in 1 .. Floors, NEW s, s \in FloorStates, PaidSoFar(s), floors' = [floors EXCEPT ![f] = s], day' = day
        PROVE  floors' \in [1 .. Floors -> FloorStates \cup {NoFloor}] /\ AllPaid'
               /\ (day' = day => \A g \in 1 .. Floors : floors[g] # NoFloor => floors'[g] # NoFloor)
               /\ (day' = day \/ day' = day + 1)
    <3>1. floors \in [1 .. Floors -> FloorStates \cup {NoFloor}] BY DEF OreInv, MineTyped
    <3>2. floors' \in [1 .. Floors -> FloorStates \cup {NoFloor}] BY <2>2, <3>1
    <3>3. s # NoFloor BY <2>2, DrawnAssumption
    <3>4. \A g \in 1 .. Floors : floors'[g] = IF g = f THEN s ELSE floors[g] BY <2>2, <3>1
    <3>5. \A g \in 1 .. Floors : floors'[g] # NoFloor => PaidSoFar(floors'[g]) BY <2>2, <3>4 DEF OreInv, AllPaid
    <3>6. AllPaid' BY <3>5 DEF AllPaid, PaidSoFar, Pays
    <3> QED BY <2>2, <3>2, <3>3, <3>4, <3>6
  <2>3. ASSUME NEW f \in 1 .. Floors, Laid(f), day' = day
        PROVE  floors' \in [1 .. Floors -> FloorStates \cup {NoFloor}] /\ AllPaid'
               /\ (day' = day => \A g \in 1 .. Floors : floors[g] # NoFloor => floors'[g] # NoFloor)
               /\ (day' = day \/ day' = day + 1)
    <3>1. PICK l \in Drawn(f) : floors' = [floors EXCEPT ![f] = NewFloor(l)] BY <2>3 DEF Laid
    <3>2. PICK s : s = NewFloor(l) OBVIOUS
    <3>3. s \in FloorStates /\ PaidSoFar(s) BY <3>2, NewFloorIsSound
    <3> QED BY <2>2, <2>3, <3>1, <3>2, <3>3
  <2>4. ASSUME HitOne, day' = day
        PROVE  floors' \in [1 .. Floors -> FloorStates \cup {NoFloor}] /\ AllPaid'
               /\ (day' = day => \A g \in 1 .. Floors : floors[g] # NoFloor => floors'[g] # NoFloor)
               /\ (day' = day \/ day' = day + 1)
    BY <2>2, <2>4 DEF HitOne
  <2>5. ASSUME day' = day + 1, floors' = [f \in 1 .. Floors |-> NoFloor]
        PROVE  floors' \in [1 .. Floors -> FloorStates \cup {NoFloor}] /\ AllPaid'
               /\ (day' = day => \A g \in 1 .. Floors : floors[g] # NoFloor => floors'[g] # NoFloor)
               /\ (day' = day \/ day' = day + 1)
    BY <1>0, <2>5 DEF AllPaid
  <2> QED BY <2>1, <2>3, <2>4, <2>5, FloorsChange
<1>2. stepped' \subseteq 1 .. Floors
  <2>1. stepped \subseteq 1 .. Floors BY DEF OreInv, MineTyped
  <2> QED BY <2>1, FloorsChange DEF HitOne
<1>3. deepest' \in Nat /\ at' \in [Miners -> (1 .. Floors) \cup {Outside}]
  <2>1. deepest \in Nat /\ at \in [Miners -> (1 .. Floors) \cup {Outside}] BY DEF OreInv, MineTyped
  <2>2. ASSUME NEW p \in Miners PROVE LeaveMine(p) \/ Refused(p) \/ Hit(p) => deepest' \in Nat /\ at' \in [Miners -> (1 .. Floors) \cup {Outside}]
    BY <2>1 DEF LeaveMine, Refused, Hit
  <2>3. ASSUME NEW f \in 1 .. Floors, NEW p \in Miners
        PROVE  EnterFloor(p, f) => deepest' \in Nat /\ at' \in [Miners -> (1 .. Floors) \cup {Outside}]
    BY <1>0, <2>1 DEF EnterFloor, OpenFloor
  <2>4. \A f \in 1 .. Floors : GetFloor(f) => deepest' = deepest /\ at' = at BY DEF GetFloor
  <2>5. \A p, f, n : Press(p, f, n) => deepest' = deepest /\ at' = at BY DEF Press
  <2>6. Midnight \/ SpawnMine \/ TellReset \/ UNCHANGED mineVars => deepest' = deepest /\ at' = at
    BY DEF Midnight, SpawnMine, TellReset, mineVars
  <2>7. MineRestart => deepest' = deepest /\ at' \in [Miners -> (1 .. Floors) \cup {Outside}] BY DEF MineRestart
  <2> QED BY <2>1, <2>2, <2>3, <2>4, <2>5, <2>6, <2>7 DEF MineNext
<1>4. press' \in [Miners -> Presses \cup {NoPress}] /\ PressedToday'
  <2>1. press \in [Miners -> Presses \cup {NoPress}] BY DEF OreInv, MineTyped
  <2>2. \A p \in Miners : press[p] # NoPress =>
          /\ press[p] \in Presses /\ press[p].day <= day /\ (press[p].day = day => floors[press[p].floor] # NoFloor)
    BY DEF OreInv, PressedToday
  <2>3. ASSUME press' = press PROVE PressedToday'
    <3> SUFFICES ASSUME NEW p \in Miners, press[p] # NoPress
                 PROVE  press[p] \in Presses /\ press[p].day <= day' /\ (press[p].day = day' => floors'[press[p].floor] # NoFloor)
      BY <2>3 DEF PressedToday
    <3>1. press[p] \in Presses /\ press[p].day <= day /\ (press[p].day = day => floors[press[p].floor] # NoFloor) BY <2>2
    <3>2. press[p].day \in Nat /\ press[p].floor \in 1 .. Floors BY <3>1 DEF Presses
    <3> QED BY <1>0, <1>1, <3>1, <3>2
  <2>4. ASSUME NEW q \in Miners, PressAnswered(q) PROVE press' \in [Miners -> Presses \cup {NoPress}] /\ PressedToday'
    <3>1. \A p \in Miners : press'[p] = IF p = q THEN NoPress ELSE press[p] BY <2>1, <2>4 DEF PressAnswered
    <3>2. press' \in [Miners -> Presses \cup {NoPress}] BY <2>1, <2>4 DEF PressAnswered
    <3>3. ASSUME NEW p \in Miners, press'[p] # NoPress
          PROVE  press'[p] \in Presses /\ press'[p].day <= day' /\ (press'[p].day = day' => floors'[press'[p].floor] # NoFloor)
      <4>1. press'[p] = press[p] BY <3>1, <3>3
      <4>2. press[p] \in Presses /\ press[p].day <= day /\ (press[p].day = day => floors[press[p].floor] # NoFloor)
        BY <2>2, <3>3, <4>1
      <4>3. press[p].day \in Nat /\ press[p].floor \in 1 .. Floors BY <4>2 DEF Presses
      <4> QED BY <1>0, <1>1, <4>1, <4>2, <4>3
    <3> QED BY <3>2, <3>3 DEF PressedToday
  <2>5. ASSUME NEW q \in Miners, NEW f \in 1 .. Floors, floors[f] # NoFloor, NEW n \in floors[f].nodes, Press(q, f, n)
        PROVE  press' \in [Miners -> Presses \cup {NoPress}] /\ PressedToday'
    <3>1. floors[f] \in FloorStates BY <2>5 DEF OreInv, MineTyped
    <3>2. n.at \in Int \X Int BY <3>1 DEF FloorStates
    <3>3. PICK new : new = [day |-> day, floor |-> f, at |-> n.at] OBVIOUS
    <3>4. new \in Presses /\ new.day = day /\ new.floor = f BY <1>0, <3>2, <3>3 DEF Presses
    <3>5. press' = [press EXCEPT ![q] = new] /\ day' = day /\ floors' = floors BY <2>5, <3>3 DEF Press
    <3>6. press' \in [Miners -> Presses \cup {NoPress}] BY <2>1, <3>4, <3>5
    <3>7. \A p \in Miners : press'[p] = IF p = q THEN new ELSE press[p] BY <2>1, <3>5
    <3>8. ASSUME NEW p \in Miners, press'[p] # NoPress
          PROVE  press'[p] \in Presses /\ press'[p].day <= day' /\ (press'[p].day = day' => floors'[press'[p].floor] # NoFloor)
      <4>1. CASE p = q BY <1>0, <2>5, <3>4, <3>5, <3>7, <4>1
      <4>2. CASE p # q BY <2>2, <3>5, <3>7, <3>8, <4>2
      <4> QED BY <4>1, <4>2
    <3> QED BY <3>6, <3>8 DEF PressedToday
  <2>6. MineRestart => press' \in [Miners -> Presses \cup {NoPress}] /\ PressedToday' BY DEF MineRestart, PressedToday
  <2>7. ASSUME press' = press PROVE press' \in [Miners -> Presses \cup {NoPress}] /\ PressedToday'
    BY <2>1, <2>3, <2>7
  <2>8. \A p \in Miners : Refused(p) \/ Hit(p) => PressAnswered(p) BY DEF Refused, Hit
  <2>9. \A p \in Miners : LeaveMine(p) => press' = press BY DEF LeaveMine
  <2>10. \A f \in 1 .. Floors : GetFloor(f) \/ (\E p \in Miners : EnterFloor(p, f)) => press' = press
    BY DEF GetFloor, EnterFloor
  <2>11. Midnight \/ SpawnMine \/ TellReset \/ UNCHANGED mineVars => press' = press
    BY DEF Midnight, SpawnMine, TellReset, mineVars
  <2> QED BY <2>4, <2>5, <2>6, <2>7, <2>8, <2>9, <2>10, <2>11 DEF MineNext
<1>5. day' \in Nat BY <1>0, <1>1
<1> QED BY <1>1, <1>2, <1>3, <1>4, <1>5 DEF OreInv, MineTyped

LEMMA OreStart == MineInit => OreInv
<1> SUFFICES ASSUME MineInit PROVE OreInv OBVIOUS
<1>1. Floors \in Nat /\ 1 \in Nat BY ConfigAssumption
<1>2. MineTyped BY <1>1 DEF MineInit, MineTyped
<1>3. AllPaid BY DEF MineInit, AllPaid
<1>4. PressedToday BY DEF MineInit, PressedToday
<1> QED BY <1>2, <1>3, <1>4 DEF OreInv

\* However many people hit a node at once, repeat a request or press on after it broke, it pays once and only when it
\* breaks: the transaction reads the node again, and no two nodes of a floor share a cell.
THEOREM BrokenNodesPayOnce == MineSpec => []BrokenPaysOnce
<1>1. OreInv => BrokenPaysOnce BY DEF OreInv, AllPaid, PaidSoFar, BrokenPaysOnce
<1> QED BY <1>1, OreStart, OreStep, PTL DEF MineSpec

-----------------------------------------------------------------------------
(* The way down. *)

\* While the ladder of a floor is not open, a node without value that still stands hides it.
WaysDown ==
  \A f \in 1 .. Floors - 1 : floors[f] # NoFloor =>
    /\ \A n \in floors[f].nodes : n.ladder => OreValue[n.kind] = 0
    /\ floors[f].ladder # NoCell \/ \E n \in floors[f].nodes : n.ladder /\ n.left > 0

\* The floors whose ladder has been open are the first ones, and reach to above all that is laid out or entered.
Descended ==
  /\ \A f \in stepped : 1 .. f \subseteq stepped
  /\ \A f \in 1 .. Floors : floors[f] # NoFloor =>
       (f > 1 => f - 1 \in stepped) /\ (floors[f].ladder # NoCell => f \in stepped)
  /\ \A f \in 1 .. deepest - 1 : f \in stepped
  /\ \A p \in Miners : at[p] # Outside => at[p] <= deepest

LEMMA NewFloorHidesOne ==
  ASSUME NEW f \in 1 .. Floors, NEW l \in Drawn(f)
  PROVE  /\ NewFloor(l).ladder = NoCell
         /\ f # Floors /\ RoomLeft(l) =>
              /\ \A n \in NewFloor(l).nodes : n.ladder => OreValue[n.kind] = 0
              /\ \E n \in NewFloor(l).nodes : n.ladder /\ n.left > 0
<1>1. l \in Layouts(f) BY DrawnAssumption
<1>2. PlacedWell(l) /\ (f # Floors /\ RoomLeft(l) => HidesOne(l)) BY <1>1, LayoutsAreSound
<1> DEFINE fresh(n) == [at |-> n.at, kind |-> n.kind, ladder |-> n.ladder, left |-> OreHits[n.kind], paid |-> 0]
<1>3. NewFloor(l).nodes = {fresh(n) : n \in l.nodes} /\ NewFloor(l).ladder = NoCell BY DEF NewFloor
<1>4. ASSUME NEW n \in l.nodes PROVE fresh(n).ladder = n.ladder /\ fresh(n).kind = n.kind /\ fresh(n).left > 0
  <2>1. n \in [at : Int \X Int, kind : Kinds, ladder : BOOLEAN] BY <1>2 DEF PlacedWell
  <2>2. OreHits[n.kind] \in Nat \ {0} BY <2>1, ConfigAssumption
  <2>3. OreHits[n.kind] > 0 BY <2>2
  <2> QED BY <2>3
<1>5. ASSUME f # Floors, RoomLeft(l)
      PROVE  /\ \A n \in NewFloor(l).nodes : n.ladder => OreValue[n.kind] = 0
             /\ \E n \in NewFloor(l).nodes : n.ladder /\ n.left > 0
  <2>1. PICK h : Hiding(l) = {h} /\ OreValue[h.kind] = 0 BY <1>2, <1>5 DEF HidesOne
  <2>2. h \in l.nodes /\ h.ladder /\ \A n \in l.nodes : n.ladder => n = h BY <2>1 DEF Hiding
  <2>3. fresh(h) \in NewFloor(l).nodes /\ fresh(h).ladder /\ fresh(h).left > 0 BY <1>3, <1>4, <2>2
  <2>4. ASSUME NEW n \in NewFloor(l).nodes, n.ladder PROVE OreValue[n.kind] = 0
    <3>1. PICK m \in l.nodes : n = fresh(m) BY <1>3
    <3>2. n.ladder = m.ladder /\ n.kind = m.kind BY <1>4, <3>1
    <3> QED BY <2>1, <2>2, <2>4, <3>2
  <2> QED BY <2>3, <2>4
<1> QED BY <1>3, <1>5

LEMMA WaysStep ==
  ASSUME \A f \in 1 .. Floors - 1 : \A l \in Drawn(f) : RoomLeft(l), OreInv, WaysDown, [MineNext]_mineVars
  PROVE  WaysDown'
<1>0. Floors \in Nat BY ConfigAssumption
<1>1. floors \in [1 .. Floors -> FloorStates \cup {NoFloor}] BY DEF OreInv, MineTyped
<1> DEFINE Way(s) == /\ \A n \in s.nodes : n.ladder => OreValue[n.kind] = 0
                     /\ s.ladder # NoCell \/ \E n \in s.nodes : n.ladder /\ n.left > 0
<1>2. \A f \in 1 .. Floors - 1 : floors[f] # NoFloor => Way(floors[f]) BY DEF WaysDown
<1>3. CASE floors' = floors BY <1>3 DEF WaysDown
<1>4. ASSUME NEW f \in 1 .. Floors, NEW s, floors' = [floors EXCEPT ![f] = s], f # Floors => Way(s) PROVE WaysDown'
  <2>1. \A g \in 1 .. Floors : floors'[g] = IF g = f THEN s ELSE floors[g] BY <1>1, <1>4
  <2>2. ASSUME NEW g \in 1 .. Floors - 1, floors'[g] # NoFloor PROVE Way(floors'[g])
    <3>1. g \in 1 .. Floors /\ g # Floors BY <1>0
    <3>2. CASE g = f
      <4>1. floors'[g] = s BY <2>1, <3>1, <3>2
      <4>2. Way(s) BY <1>4, <3>1, <3>2
      <4> QED BY <4>1, <4>2
    <3>3. CASE g # f
      <4>1. floors'[g] = floors[g] BY <2>1, <3>1, <3>3
      <4> QED BY <1>2, <2>2, <4>1
    <3> QED BY <3>2, <3>3
  <2> QED BY <2>2 DEF WaysDown
<1>5. ASSUME NEW f \in 1 .. Floors, Laid(f) PROVE WaysDown'
  <2>1. PICK l \in Drawn(f) : floors' = [floors EXCEPT ![f] = NewFloor(l)] BY <1>5 DEF Laid
  <2>2. PICK s : s = NewFloor(l) OBVIOUS
  <2>3. ASSUME f # Floors PROVE Way(s)
    <3>1. f \in 1 .. Floors - 1 BY <1>0, <2>3
    <3>2. RoomLeft(l) BY <3>1
    <3> QED BY <2>2, <2>3, <3>2, NewFloorHidesOne
  <2> QED BY <1>4, <2>1, <2>2, <2>3
<1>6. ASSUME HitOne PROVE WaysDown'
  <2>1a. PICK f \in 1 .. Floors : \E n \in floors[f].nodes : \E c \in Opens(f, n) :
           floors[f] # NoFloor /\ n.left > 0 /\ floors' = [floors EXCEPT ![f] = Hitting(f, n, c)]
    BY <1>6 DEF HitOne
  <2>1. PICK n \in floors[f].nodes : \E c \in Opens(f, n) :
          floors[f] # NoFloor /\ n.left > 0 /\ floors' = [floors EXCEPT ![f] = Hitting(f, n, c)]
    BY <2>1a
  <2>2. PICK c \in Opens(f, n) : floors[f] # NoFloor /\ n.left > 0 /\ floors' = [floors EXCEPT ![f] = Hitting(f, n, c)]
    BY <2>1
  <2>3. PICK s : s = Hitting(f, n, c) OBVIOUS
  <2>4. s.nodes = (floors[f].nodes \ {n}) \cup {HitNode(n)} /\ s.ladder = c BY <2>3 DEF Hitting
  <2>5. floors[f] \in FloorStates BY <1>1, <2>2
  <2>6. n \in [at : Int \X Int, kind : Kinds, ladder : BOOLEAN, left : Nat, paid : Nat] BY <2>5 DEF FloorStates
  <2>7. HitNode(n).kind = n.kind /\ HitNode(n).ladder = n.ladder /\ HitNode(n).left = n.left - 1
    <3>1. PaidSoFar(floors[f]) BY <2>2 DEF OreInv, AllPaid
    <3>2. n.paid = IF n.left = 0 THEN Pays(n) ELSE 0 BY <3>1 DEF PaidSoFar
    <3> QED BY <2>2, <2>6, <3>2, HitNodeIsSound
  <2>8. ASSUME f # Floors PROVE Way(s)
    <3>1. f \in 1 .. Floors - 1 /\ f < Floors BY <1>0, <2>8
    <3>2. Way(floors[f]) BY <1>2, <2>2, <3>1
    <3>3. \A m \in s.nodes : m.ladder => OreValue[m.kind] = 0 BY <2>4, <2>7, <3>2
    <3>4. ASSUME c = NoCell PROVE \E m \in s.nodes : m.ladder /\ m.left > 0
      <4>1. LadderCell(n) # NoCell
        <5>1. PICK x \in Int, y \in Int : n.at = <<x, y>> BY <2>6
        <5>2. Below(n.at) = <<x, y + 1>> BY <5>1 DEF Below
        <5>3. LadderCell(n) \in Int \X Int BY <5>1, <5>2 DEF LadderCell
        <5> QED BY <5>3, DrawnAssumption
      <4>2. floors[f].ladder = NoCell /\ (n.ladder /\ n.left <= 1 => FALSE)
        <5>1. CASE MayOpen(f, n)
          <6>1. floors[f].ladder = NoCell BY <5>1 DEF MayOpen
          <6>2. c \in {LadderCell(n)} \cup {b \in {floors[f].ladder} : ~n.ladder} BY <2>2, <5>1 DEF Opens
          <6> QED BY <3>4, <4>1, <6>1, <6>2
        <5>2. CASE ~MayOpen(f, n)
          <6>1. floors[f].ladder = NoCell BY <2>2, <3>4, <5>2 DEF Opens
          <6>2. n.ladder => OreValue[n.kind] = 0 BY <3>2
          <6> QED BY <3>1, <5>2, <6>1, <6>2 DEF MayOpen
        <5> QED BY <5>1, <5>2
      <4>3. PICK h \in floors[f].nodes : h.ladder /\ h.left > 0 BY <3>2, <4>2
      <4>4. CASE h = n
        <5>1. n.left > 1 BY <2>6, <4>2, <4>3, <4>4
        <5>2. HitNode(n).ladder /\ HitNode(n).left > 0 BY <2>6, <2>7, <4>3, <4>4, <5>1
        <5> QED BY <2>4, <5>2
      <4>5. CASE h # n BY <2>4, <4>3, <4>5
      <4> QED BY <4>4, <4>5
    <3> QED BY <2>4, <3>3, <3>4
  <2> QED BY <1>4, <2>2, <2>3, <2>8
<1>7. ASSUME floors' = [f \in 1 .. Floors |-> NoFloor] PROVE WaysDown'
  <2>1. \A f \in 1 .. Floors - 1 : f \in 1 .. Floors BY <1>0
  <2> QED BY <1>7, <2>1 DEF WaysDown
<1> QED BY <1>3, <1>5, <1>6, <1>7, FloorsChange

LEMMA DescendedStep ==
  ASSUME OreInv, Descended, [MineNext]_mineVars
  PROVE  Descended'
<1>0. Floors \in Nat /\ deepest \in Nat /\ deepest' \in Nat /\ stepped \subseteq 1 .. Floors
  <2>1. OreInv' BY OreStep
  <2> QED BY <2>1, ConfigAssumption DEF OreInv, MineTyped
<1>1. floors \in [1 .. Floors -> FloorStates \cup {NoFloor}] BY DEF OreInv, MineTyped
<1> DEFINE Below1(st) == \A f \in st : 1 .. f \subseteq st
           Reached(s, f, st) == s # NoFloor => (f > 1 => f - 1 \in st) /\ (s.ladder # NoCell => f \in st)
<1>2. Below1(stepped) /\ \A f \in 1 .. Floors : Reached(floors[f], f, stepped) BY DEF Descended
<1>3. stepped \subseteq stepped' /\ Below1(stepped') /\ \A f \in 1 .. Floors : Reached(floors'[f], f, stepped')
  <2>1. CASE floors' = floors /\ stepped' = stepped BY <1>2, <2>1
  <2>2. ASSUME NEW f \in 1 .. Floors, Laid(f), f = 1 \/ CanEnter(f), stepped' = stepped
        PROVE  Below1(stepped') /\ \A g \in 1 .. Floors : Reached(floors'[g], g, stepped')
    <3>1. PICK l \in Drawn(f) : floors' = [floors EXCEPT ![f] = NewFloor(l)] BY <2>2 DEF Laid
    <3>2. NewFloor(l).ladder = NoCell BY NewFloorHidesOne
    <3>3. \A g \in 1 .. Floors : floors'[g] = IF g = f THEN NewFloor(l) ELSE floors[g] BY <1>1, <3>1
    <3>4. f > 1 => f - 1 \in stepped
      <4>1. ASSUME f > 1, f <= deepest PROVE f - 1 \in stepped
        <5>1. f - 1 \in 1 .. deepest - 1 BY <1>0, <4>1
        <5> QED BY <5>1 DEF Descended
      <4>2. ASSUME f > 1, LadderOpen(f - 1) PROVE f - 1 \in stepped
        BY <1>2, <4>2 DEF LadderOpen
      <4>3. f > 1 => CanEnter(f) BY <2>2
      <4> QED BY <4>1, <4>2, <4>3 DEF CanEnter
    <3> QED BY <1>2, <2>2, <3>2, <3>3, <3>4
  <2>3. ASSUME HitOne
        PROVE  stepped \subseteq stepped' /\ Below1(stepped') /\ \A g \in 1 .. Floors : Reached(floors'[g], g, stepped')
    <3>1a. PICK f \in 1 .. Floors : \E n \in floors[f].nodes : \E c \in Opens(f, n) :
             /\ floors[f] # NoFloor /\ floors' = [floors EXCEPT ![f] = Hitting(f, n, c)]
             /\ stepped' = stepped \cup {g \in {f} : c # NoCell}
      BY <2>3 DEF HitOne
    <3>1. PICK n \in floors[f].nodes : \E c \in Opens(f, n) :
            /\ floors[f] # NoFloor /\ floors' = [floors EXCEPT ![f] = Hitting(f, n, c)]
            /\ stepped' = stepped \cup {g \in {f} : c # NoCell}
      BY <3>1a
    <3>2. PICK c \in Opens(f, n) : /\ floors[f] # NoFloor /\ floors' = [floors EXCEPT ![f] = Hitting(f, n, c)]
                                   /\ stepped' = stepped \cup {g \in {f} : c # NoCell}
      BY <3>1
    <3>3. f > 1 => f - 1 \in stepped BY <1>2, <3>2
    <3>4. 1 .. f \subseteq stepped \cup {f}
      <4> SUFFICES ASSUME NEW g \in 1 .. f, g # f PROVE g \in stepped OBVIOUS
      <4>1. f > 1 /\ g \in 1 .. f - 1 BY <1>0
      <4> QED BY <1>2, <3>3, <4>1
    <3>5. Below1(stepped') BY <1>2, <3>2, <3>4
    <3>6. Hitting(f, n, c).ladder = c BY DEF Hitting
    <3>7. \A g \in 1 .. Floors : floors'[g] = IF g = f THEN Hitting(f, n, c) ELSE floors[g] BY <1>1, <3>2
    <3>8. ASSUME NEW g \in 1 .. Floors PROVE Reached(floors'[g], g, stepped')
      <4>1. CASE g = f BY <3>2, <3>3, <3>6, <3>7, <4>1
      <4>2. CASE g # f BY <1>2, <3>2, <3>7, <4>2
      <4> QED BY <4>1, <4>2
    <3> QED BY <3>2, <3>5, <3>8
  <2>4. ASSUME floors' = [f \in 1 .. Floors |-> NoFloor], stepped' = stepped
        PROVE  Below1(stepped') /\ \A f \in 1 .. Floors : Reached(floors'[f], f, stepped')
    BY <1>2, <2>4
  <2> QED BY <2>1, <2>2, <2>3, <2>4, FloorsChange
<1>4. (\A f \in 1 .. deepest' - 1 : f \in stepped') /\ (\A p \in Miners : at'[p] # Outside => at'[p] <= deepest')
  <2>1. (\A f \in 1 .. deepest - 1 : f \in stepped') /\ (\A p \in Miners : at[p] # Outside => at[p] <= deepest)
    BY <1>3 DEF Descended
  <2>2. at \in [Miners -> (1 .. Floors) \cup {Outside}] BY DEF OreInv, MineTyped
  <2>3. CASE deepest' = deepest /\ at' = at BY <2>1, <2>3
  <2>4. ASSUME NEW p \in Miners, LeaveMine(p)
        PROVE  (\A f \in 1 .. deepest' - 1 : f \in stepped') /\ (\A q \in Miners : at'[q] # Outside => at'[q] <= deepest')
    BY <2>1, <2>2, <2>4 DEF LeaveMine
  <2>5. ASSUME NEW f \in 1 .. Floors, NEW p \in Miners, EnterFloor(p, f)
        PROVE  (\A g \in 1 .. deepest' - 1 : g \in stepped') /\ (\A q \in Miners : at'[q] # Outside => at'[q] <= deepest')
    <3>1. deepest' = IF f > deepest THEN f ELSE deepest BY <2>5 DEF EnterFloor, OpenFloor
    <3>2. \A q \in Miners : at'[q] = IF q = p THEN f ELSE at[q] BY <2>2, <2>5 DEF EnterFloor
    <3>3. ASSUME NEW q \in Miners, at'[q] # Outside PROVE at'[q] <= deepest'
      <4>1. CASE q = p BY <1>0, <3>1, <3>2, <4>1
      <4>2. CASE q # p
        <5>1. at'[q] = at[q] /\ at[q] \in 1 .. Floors /\ at[q] <= deepest BY <2>1, <2>2, <3>2, <3>3, <4>2
        <5> QED BY <1>0, <3>1, <5>1
      <4> QED BY <4>1, <4>2
    <3>4. ASSUME NEW g \in 1 .. deepest' - 1 PROVE g \in stepped'
      <4>1. CASE f <= deepest
        <5>1. deepest' = deepest BY <1>0, <3>1, <4>1
        <5> QED BY <2>1, <3>4, <5>1
      <4>2. CASE f > deepest
        <5>1. deepest' = f BY <3>1, <4>2
        <5>2. LadderOpen(f - 1) BY <1>0, <2>5, <4>2 DEF EnterFloor, CanEnter
        <5>3. f - 1 \in stepped BY <1>2, <5>2 DEF LadderOpen
        <5>4. g \in 1 .. f - 1 BY <5>1
        <5>5. g \in stepped BY <1>2, <5>3, <5>4
        <5> QED BY <1>3, <5>5
      <4> QED BY <1>0, <4>1, <4>2
    <3> QED BY <3>3, <3>4
  <2>6. \A f \in 1 .. Floors : GetFloor(f) => deepest' = deepest /\ at' = at BY DEF GetFloor
  <2>7. \A p, f, n : Press(p, f, n) => deepest' = deepest /\ at' = at BY DEF Press
  <2>8. Midnight \/ SpawnMine \/ TellReset \/ UNCHANGED mineVars => deepest' = deepest /\ at' = at
    BY DEF Midnight, SpawnMine, TellReset, mineVars
  <2>9. \A p \in Miners : Refused(p) \/ Hit(p) => deepest' = deepest /\ at' = at BY DEF Refused, Hit
  <2>10. ASSUME MineRestart
         PROVE  (\A f \in 1 .. deepest' - 1 : f \in stepped') /\ (\A q \in Miners : at'[q] # Outside => at'[q] <= deepest')
    BY <2>1, <2>10 DEF MineRestart
  <2> QED BY <2>3, <2>4, <2>5, <2>6, <2>7, <2>8, <2>9, <2>10 DEF MineNext
<1> QED BY <1>3, <1>4 DEF Descended

LEMMA DescentStart == MineInit => WaysDown /\ Descended
<1> SUFFICES ASSUME MineInit PROVE WaysDown /\ Descended OBVIOUS
<1>0. Floors \in Nat BY ConfigAssumption
<1>1. \A f \in 1 .. Floors : floors[f] = NoFloor BY DEF MineInit
<1>2. WaysDown
  <2>1. \A f \in 1 .. Floors - 1 : f \in 1 .. Floors BY <1>0
  <2> QED BY <1>1, <2>1 DEF WaysDown
<1>3. Descended BY <1>1 DEF MineInit, Descended
<1> QED BY <1>2, <1>3

\* Nobody mines a floor into a dead end and no floor is skipped, through presses that cross midnight or another's press,
\* new layouts every day and restarts, where the layouts of the floors above the last have room for a stone.
THEOREM DescentStaysSound ==
  ASSUME \A f \in 1 .. Floors - 1 : \A l \in Drawn(f) : RoomLeft(l)
  PROVE  MineSpec => []DescentIsSound
<1> DEFINE Inv == OreInv /\ WaysDown /\ Descended
<1>1. MineInit => Inv BY OreStart, DescentStart
<1>2. Inv /\ [MineNext]_mineVars => Inv' BY OreStep, WaysStep, DescendedStep
<1>3. Inv => DescentIsSound
  <2> SUFFICES ASSUME Inv PROVE AlwaysAWayDown /\ FloorsAreEarned BY DEF DescentIsSound
  <2>1. AlwaysAWayDown BY DEF WaysDown, AlwaysAWayDown
  <2>2. \A f \in 2 .. Floors : f \in 1 .. Floors /\ f > 1 BY ConfigAssumption
  <2>3. FloorsAreEarned BY <2>2 DEF Descended, FloorsAreEarned
  <2> QED BY <2>1, <2>3
<1> QED BY <1>1, <1>2, <1>3, PTL DEF MineSpec

-----------------------------------------------------------------------------
(* Fishing off the dock. *)

BiteRecord == [at : Nat, window : Nat, hold : Nat]
After(s) == IF s = <<>> THEN 0 ELSE Last(s).at + Last(s).window + Last(s).hold
With(s, g, w, h) == Append(s, [at |-> After(s) + g, window |-> w, hold |-> h])
Longer(before) == {With(s, g, w, h) : s \in before, g \in Gap, w \in Window, h \in Hold}
FarApart(s) ==
  /\ \A i \in 1 .. Len(s) : s[i].hold \in Hold
  /\ \A i, j \in 1 .. Len(s) : i < j => s[i].at + s[i].window + 2 * Slack < s[j].at

\* A schedule has all its bites, at natural times, and no two of them within reach of one press.
LEMMA SchedulesAreRight ==
  ASSUME NEW b \in Schedules
  PROVE  b \in Seq(BiteRecord) /\ Len(b) = Bites /\ FarApart(b)
<1> DEFINE Step(k, g) == [n \in 0 .. k |-> IF n = 0 THEN {<<>>} ELSE Longer(g[n - 1])]
           upTo == CHOOSE g : g = Step(Bites, g)
<1>0. Bites \in Nat /\ Gap \subseteq Nat /\ Window \subseteq Nat /\ Hold \subseteq Nat /\ Slack \in Nat BY FishingAssumption
<1>1. Schedules = upTo[Bites] BY DEF Schedules, Longer, With, After
<1>2. \E g : g = Step(Bites, g)
  <2> DEFINE H == {k \in Nat : \E g : g = Step(k, g)}
  <2>1. 0 \in H
    <3>1. PICK g : g = [n \in 0 .. 0 |-> {<<>>}] OBVIOUS
    <3>2. g = Step(0, g) BY <3>1
    <3> QED BY <3>2
  <2>2. ASSUME NEW k \in Nat, k \in H PROVE k + 1 \in H
    <3>1. PICK g : g = Step(k, g) BY <2>2
    <3>2. \A n \in 0 .. k : g[n] = IF n = 0 THEN {<<>>} ELSE Longer(g[n - 1]) BY ONLY <3>1
    <3>3. PICK more : more = Longer(g[k]) OBVIOUS
    <3>4. PICK h : h = [n \in 0 .. k + 1 |-> IF n = k + 1 THEN more ELSE g[n]] OBVIOUS
    <3>5. \A n \in 0 .. k : h[n] = g[n] BY <3>4
    <3>6. ASSUME NEW n \in 0 .. k + 1
          PROVE  (IF n = k + 1 THEN more ELSE g[n]) = (IF n = 0 THEN {<<>>} ELSE Longer(h[n - 1]))
      <4>1. CASE n = k + 1
        <5>1. n # 0 /\ n - 1 = k /\ h[n - 1] = g[k] BY <3>5, <4>1
        <5> QED BY <3>3, <4>1, <5>1
      <4>2. CASE n # k + 1
        <5>1. n \in 0 .. k BY <4>2
        <5>2. n # 0 => n - 1 \in 0 .. k BY <5>1
        <5>3. n # 0 => h[n - 1] = g[n - 1] BY <3>5, <5>2
        <5> QED BY <3>2, <4>2, <5>1, <5>3
      <4> QED BY <4>1, <4>2
    <3>7. h = Step(k + 1, h) BY <3>4, <3>6
    <3> QED BY <3>7
  <2> HIDE DEF H
  <2>3. Bites \in H BY <1>0, <2>1, <2>2, NatInduct
  <2> QED BY <2>3 DEF H
<1>3. upTo = Step(Bites, upTo) BY <1>2
<1> HIDE DEF upTo
<1>4. \A n \in 0 .. Bites : upTo[n] = IF n = 0 THEN {<<>>} ELSE Longer(upTo[n - 1]) BY ONLY <1>3
<1> DEFINE H == {n \in Nat : n <= Bites => \A s \in upTo[n] : s \in Seq(BiteRecord) /\ Len(s) = n /\ FarApart(s)}
<1>5. 0 \in H
  <2>1. 0 \in 0 .. Bites BY <1>0
  <2>2. upTo[0] = {<<>>} BY <1>4, <2>1
  <2>3. <<>> \in Seq(BiteRecord) /\ Len(<<>>) = 0 OBVIOUS
  <2>4. FarApart(<<>>) BY <2>3 DEF FarApart
  <2>5. \A s \in upTo[0] : s \in Seq(BiteRecord) /\ Len(s) = 0 /\ FarApart(s) BY <2>2, <2>3, <2>4
  <2> QED BY <2>5
<1>6. ASSUME NEW n \in Nat, n \in H PROVE n + 1 \in H
  <2> SUFFICES ASSUME n + 1 <= Bites, NEW t \in upTo[n + 1] PROVE t \in Seq(BiteRecord) /\ Len(t) = n + 1 /\ FarApart(t) OBVIOUS
  <2>1. n + 1 \in 0 .. Bites /\ n + 1 # 0 /\ (n + 1) - 1 = n /\ n <= Bites BY <1>0
  <2>2. t \in Longer(upTo[n]) BY <1>4, <2>1
  <2>3. PICK s \in upTo[n], g \in Gap, w \in Window, h \in Hold : t = With(s, g, w, h) BY <2>2 DEF Longer
  <2>4. s \in Seq(BiteRecord) /\ Len(s) = n /\ FarApart(s) BY <1>6, <2>1
  <2>5. After(s) \in Nat
    <3>1. s # <<>> => s[Len(s)] \in BiteRecord BY <2>4
    <3> QED BY <3>1 DEF After, Last, BiteRecord
  <2>6. PICK bite : bite = [at |-> After(s) + g, window |-> w, hold |-> h] OBVIOUS
  <2>7. bite \in BiteRecord /\ bite.at = After(s) + g /\ bite.hold = h BY <1>0, <2>5, <2>6 DEF BiteRecord
  <2>8. t = Append(s, bite) BY <2>3, <2>6 DEF With
  <2>9. t \in Seq(BiteRecord) /\ Len(t) = n + 1 /\ t[n + 1] = bite /\ \A i \in 1 .. n : t[i] = s[i] /\ s[i] \in BiteRecord
    BY <2>4, <2>7, <2>8
  <2>10. ASSUME NEW i \in 1 .. n PROVE s[i].at + s[i].window + 2 * Slack < bite.at
    <3>1. s # <<>> /\ n \in 1 .. n /\ Last(s) = s[n] /\ s[n] \in BiteRecord BY <2>4, <2>9 DEF Last
    <3>2. After(s) = s[n].at + s[n].window + s[n].hold BY <3>1 DEF After
    <3>3. s[n].hold \in Hold /\ (i < n => s[i].at + s[i].window + 2 * Slack < s[n].at) BY <2>4, <3>1 DEF FarApart
    <3>4. g + s[n].hold > 2 * Slack BY <3>3, WindowsAreApart
    <3>5. s[n].at \in Nat /\ s[n].window \in Nat /\ s[n].hold \in Nat /\ s[i].at \in Nat /\ s[i].window \in Nat
      BY <2>9, <3>1 DEF BiteRecord
    <3>6. CASE i = n BY <1>0, <2>7, <3>2, <3>4, <3>5, <3>6
    <3>7. CASE i < n BY <1>0, <2>7, <3>2, <3>3, <3>5, <3>7
    <3> QED BY <3>6, <3>7
  <2>11. FarApart(t)
    <3>1. ASSUME NEW i \in 1 .. n + 1 PROVE t[i].hold \in Hold
      <4>1. CASE i = n + 1 BY <2>7, <2>9, <4>1
      <4>2. CASE i # n + 1
        <5>1. i \in 1 .. n BY <4>2
        <5> QED BY <2>4, <2>9, <5>1 DEF FarApart
      <4> QED BY <4>1, <4>2
    <3>2. ASSUME NEW i \in 1 .. n + 1, NEW j \in 1 .. n + 1, i < j PROVE t[i].at + t[i].window + 2 * Slack < t[j].at
      <4>1. i \in 1 .. n BY <3>2
      <4>2. CASE j = n + 1 BY <2>9, <2>10, <4>1, <4>2
      <4>3. CASE j # n + 1
        <5>1. j \in 1 .. n BY <4>3
        <5> QED BY <2>4, <2>9, <3>2, <4>1, <5>1 DEF FarApart
      <4> QED BY <4>2, <4>3
    <3> QED BY <2>9, <3>1, <3>2 DEF FarApart
  <2> QED BY <2>9, <2>11
<1> HIDE DEF H
<1>7. Bites \in H BY <1>0, <1>5, <1>6, NatInduct
<1> QED BY <1>0, <1>1, <1>7 DEF H

\* A press is never within reach of two bites.
LEMMA OneBite ==
  ASSUME NEW s \in Schedules, NEW t \in Int
  PROVE  OpenAt(s, t) \subseteq 1 .. Bites /\ \A i, j \in OpenAt(s, t) : i = j
<1>1. s \in Seq(BiteRecord) /\ Len(s) = Bites /\ FarApart(s) BY SchedulesAreRight
<1>2. DOMAIN s = 1 .. Bites /\ \A i \in 1 .. Bites : s[i] \in BiteRecord BY <1>1
<1>3. Slack \in Nat /\ Bites \in Nat BY FishingAssumption
<1>4. ASSUME NEW i \in OpenAt(s, t), NEW j \in OpenAt(s, t), i < j PROVE FALSE
  <2>1. i \in 1 .. Bites /\ j \in 1 .. Bites BY <1>2 DEF OpenAt
  <2>2. s[i].at + s[i].window + 2 * Slack < s[j].at BY <1>1, <1>4, <2>1 DEF FarApart
  <2>3. t <= s[i].at + s[i].window + Slack /\ s[j].at - Slack <= t BY DEF OpenAt
  <2>4. s[i].at \in Nat /\ s[i].window \in Nat /\ s[j].at \in Nat BY <1>2, <2>1 DEF BiteRecord
  <2> QED BY <1>3, <2>2, <2>3, <2>4
<1>5. OpenAt(s, t) \subseteq 1 .. Bites BY <1>2 DEF OpenAt
<1>6. ASSUME NEW i \in OpenAt(s, t), NEW j \in OpenAt(s, t) PROVE i = j
  <2>1. i \in Int /\ j \in Int BY <1>3, <1>5
  <2>2. ~(i < j) /\ ~(j < i) BY <1>4
  <2> QED BY <2>1, <2>2
<1> QED BY <1>5, <1>6

HoldSpan == [start : Int, end : Int]

\* Every press has its turn, the earlier ones first.
LEMMA PressesInOrder ==
  ASSUME NEW N \in Nat, NEW holds \in [1 .. N -> HoldSpan]
  PROVE  /\ InOrder(holds) \in [1 .. N -> 1 .. N]
         /\ \A i \in 1 .. N : \E n \in 1 .. N : InOrder(holds)[n] = i
         /\ \A m, n \in 1 .. N : m < n => holds[InOrder(holds)[m]].start <= holds[InOrder(holds)[n]].start
<1> DEFINE S == 1 .. N
           R == {p \in S \X S : Earlier(holds, p[1], p[2])}
<1>1. IsFiniteSet(S) /\ Cardinality(S) = N BY FS_Interval
<1>2. \A i, j \in S : <<i, j>> \in R <=> Earlier(holds, i, j) OBVIOUS
<1>3. \A i \in S : holds[i].start \in Int BY DEF HoldSpan
<1>4. Orders(R, S)
  <2>1. \A x \in S : ~Earlier(holds, x, x) BY <1>3 DEF Earlier
  <2>2. \A x, y \in S : x # y => Earlier(holds, x, y) \/ Earlier(holds, y, x) BY <1>3 DEF Earlier
  <2>3. \A x, y, z \in S : Earlier(holds, x, y) /\ Earlier(holds, y, z) => Earlier(holds, x, z) BY <1>3 DEF Earlier
  <2> HIDE DEF R, S
  <2> QED BY <1>2, <2>1, <2>2, <2>3 DEF Orders
<1> DEFINE rank(i) == Cardinality({j \in S : Earlier(holds, j, i)})
           nth(n) == CHOOSE i \in S : rank(i) = n - 1
<1>5. \A i \in S : {j \in S : Earlier(holds, j, i)} = Before(i, R, S) BY <1>2 DEF Before
<1>6. \A i \in S : rank(i) = Cardinality(Before(i, R, S)) BY <1>5
<1>7. DOMAIN holds = S OBVIOUS
<1>8. InOrder(holds) = [n \in S |-> nth(n)] BY <1>7 DEF InOrder
<1> HIDE DEF R, rank
<1>9. ASSUME NEW n \in S PROVE nth(n) \in S /\ rank(nth(n)) = n - 1
  <2>1. n - 1 \in Nat /\ n - 1 < Cardinality(S) BY <1>1
  <2>2. \E i \in S : Cardinality(Before(i, R, S)) = n - 1
    <3> HIDE DEF S
    <3> QED BY <1>1, <1>4, <2>1, PlacesInARow
  <2>3. \E i \in S : rank(i) = n - 1 BY <1>6, <2>2
  <2> QED BY <2>3
<1>10. ASSUME NEW i \in S, NEW j \in S, Earlier(holds, i, j) PROVE rank(i) < rank(j)
  <2>1. <<i, j>> \in R BY <1>2, <1>10
  <2>2. Cardinality(Before(i, R, S)) < Cardinality(Before(j, R, S))
    <3> HIDE DEF S
    <3> QED BY <1>1, <1>4, <2>1, PlacesAreOwn
  <2> QED BY <1>6, <2>2
<1>11. ASSUME NEW i \in S PROVE rank(i) \in Nat /\ rank(i) < N
  <2>1. Before(i, R, S) \in SUBSET S /\ i \notin Before(i, R, S)
    <3> HIDE DEF S
    <3> QED BY <1>4 DEF Before, Orders
  <2>2. IsFiniteSet(Before(i, R, S)) /\ Cardinality(Before(i, R, S)) <= N BY <1>1, <2>1, FS_Subset
  <2>3. Cardinality(Before(i, R, S)) = Cardinality(S) => Before(i, R, S) = S BY <1>1, <2>1, FS_Subset
  <2>4. Cardinality(Before(i, R, S)) \in Nat BY <2>2, FS_CardinalityType
  <2> QED BY <1>1, <1>6, <2>1, <2>2, <2>3, <2>4
<1>12. ASSUME NEW i \in S PROVE \E n \in S : nth(n) = i
  <2>1. PICK n \in S : n = rank(i) + 1 BY <1>11
  <2>2. nth(n) \in S /\ rank(nth(n)) = n - 1 BY <1>9
  <2>3. rank(nth(n)) = rank(i) BY <1>11, <2>1, <2>2
  <2>4. ~Earlier(holds, i, nth(n)) /\ ~Earlier(holds, nth(n), i) BY <1>10, <1>11, <2>2, <2>3
  <2>5. nth(n) = i BY <1>3, <2>2, <2>4 DEF Earlier
  <2> QED BY <2>5
<1>13. ASSUME NEW m \in S, NEW n \in S, m < n PROVE holds[nth(m)].start <= holds[nth(n)].start
  <2>1. nth(m) \in S /\ nth(n) \in S /\ rank(nth(m)) = m - 1 /\ rank(nth(n)) = n - 1 BY <1>9
  <2>2. ~(rank(nth(n)) < rank(nth(m))) BY <1>13, <2>1
  <2>3. ~Earlier(holds, nth(n), nth(m)) BY <1>10, <2>1, <2>2
  <2> QED BY <1>3, <2>1, <2>3 DEF Earlier
<1> HIDE DEF nth
<1> QED BY <1>8, <1>9, <1>12, <1>13

\* A finite set of integers that is not empty has a greatest element.
LEMMA MaxIsThere ==
  ASSUME NEW S \in SUBSET Int, IsFiniteSet(S), S # {}
  PROVE  Max(S) \in S /\ \A y \in S : Max(S) >= y
<1> DEFINE H == {T \in SUBSET S : T # {} => \E x \in T : \A y \in T : x >= y}
<1>1. {} \in H OBVIOUS
<1>2. ASSUME NEW T \in SUBSET S, NEW x \in S \ T, T \in H PROVE T \cup {x} \in H
  <2>1. CASE T = {} BY <2>1
  <2>2. CASE T # {}
    <3>1. PICK z \in T : \A y \in T : z >= y BY <1>2, <2>2
    <3>2. x \in Int /\ z \in Int /\ T \subseteq Int OBVIOUS
    <3>3. \E m \in T \cup {x} : \A y \in T \cup {x} : m >= y
      <4>1. CASE x >= z
        <5>1. \A y \in T \cup {x} : x >= y BY <3>1, <3>2, <4>1
        <5> QED BY <5>1
      <4>2. CASE ~(x >= z)
        <5>1. \A y \in T \cup {x} : z >= y BY <3>1, <3>2, <4>2
        <5> QED BY <5>1
      <4> QED BY <4>1, <4>2
    <3> QED BY <3>3
  <2> QED BY <2>1, <2>2
<1> HIDE DEF H
<1>3. S \in H BY <1>1, <1>2, SetInduct
<1>4. \E x \in S : \A y \in S : x >= y BY <1>3 DEF H
<1> QED BY <1>4 DEF Max

\* Whatever a client reports of those two, a cast is not over before its last window.
LEMMA DoneAtTheEnd ==
  ASSUME NEW s, s.bites \in Schedules, NEW holds \in Reports(s)
  PROVE  /\ Last(s.bites).at + Last(s.bites).window \in Nat /\ DoneAt(s.bites, holds) \in Int
         /\ DoneAt(s.bites, holds) >= Last(s.bites).at + Last(s.bites).window
<1>0. Bites \in Nat /\ Bites # 0 BY FishingAssumption
<1>1. PICK b : b = s.bites OBVIOUS
<1>2. b \in Seq(BiteRecord) /\ Len(b) = Bites BY <1>1, SchedulesAreRight
<1>3. DOMAIN b = 1 .. Bites /\ \A i \in DOMAIN b : b[i] \in BiteRecord BY <1>0, <1>2
<1>4. Last(b) \in BiteRecord BY <1>0, <1>2, <1>3 DEF Last
<1>5. PICK a : a = Last(b).at + Last(b).window OBVIOUS
<1>6. a \in Nat BY <1>4, <1>5 DEF BiteRecord
<1> DEFINE end(i) == holds[i].end
           ends == {end(i) : i \in DOMAIN holds}
<1>7. IsFiniteSet(DOMAIN holds) /\ \A i \in DOMAIN holds : end(i) \in Int
  <2>1. CASE holds = <<>>
    <3>1. DOMAIN holds = {} BY <2>1
    <3> QED BY <3>1, FS_EmptySet
  <2>2. CASE holds = PerfectRound(b)
    <3>1. DOMAIN holds = 1 .. Bites BY <1>3, <2>2 DEF PerfectRound
    <3>2. \A i \in DOMAIN holds : end(i) = b[i].at + b[i].hold BY <1>3, <2>2, <3>1 DEF PerfectRound
    <3>3. \A i \in DOMAIN holds : end(i) \in Int BY <1>3, <3>1, <3>2 DEF BiteRecord
    <3>4. IsFiniteSet(1 .. Bites) BY <1>0, FS_Interval
    <3> QED BY <3>1, <3>3, <3>4
  <2> QED BY <1>1, <2>1, <2>2 DEF Reports
<1>8. IsFiniteSet(ends)
  <2> DEFINE H == {T \in SUBSET DOMAIN holds : IsFiniteSet({end(i) : i \in T})}
  <2>1. {} \in H
    <3>1. {end(i) : i \in {}} = {} OBVIOUS
    <3> QED BY <3>1, FS_EmptySet
  <2>2. ASSUME NEW T \in SUBSET DOMAIN holds, NEW x \in DOMAIN holds \ T, T \in H PROVE T \cup {x} \in H
    <3>1. {end(i) : i \in T \cup {x}} = {end(i) : i \in T} \cup {end(x)} OBVIOUS
    <3>2. IsFiniteSet({end(i) : i \in T}) BY <2>2
    <3>3. IsFiniteSet({end(i) : i \in T} \cup {end(x)}) BY <3>2, FS_AddElement
    <3>4. T \cup {x} \in SUBSET DOMAIN holds OBVIOUS
    <3> QED BY <3>1, <3>3, <3>4
  <2> HIDE DEF H
  <2>3. DOMAIN holds \in H BY <1>7, <2>1, <2>2, SetInduct
  <2> QED BY <2>3 DEF H
<1>9. PICK S : S = {a} \cup ends OBVIOUS
<1>10. IsFiniteSet(S) /\ S \in SUBSET Int /\ a \in S
  <2>1. IsFiniteSet(ends \cup {a}) BY <1>8, FS_AddElement
  <2>2. ends \in SUBSET Int BY <1>7
  <2> HIDE DEF ends
  <2>3. S = ends \cup {a} BY <1>9
  <2>4. IsFiniteSet(S) BY <2>1, <2>3, Zenon
  <2>5. a \in Int BY <1>6
  <2>6. S \in SUBSET Int /\ a \in S BY <2>2, <2>3, <2>5
  <2> QED BY <2>4, <2>6
<1>11. Max(S) \in Int /\ Max(S) >= a BY <1>10, MaxIsThere
<1>12. DoneAt(b, holds) = Max(S) BY <1>5, <1>9 DEF DoneAt
<1> QED BY <1>1, <1>5, <1>6, <1>11, <1>12

Casts == [id : Nat, player : Anglers, t0 : Nat, bites : Schedules]
Catches == [session : Casts, at : Nat]
DockTyped ==
  /\ clock \in Nat /\ casts \in Nat
  /\ sessions \subseteq Casts /\ owed \subseteq Catches /\ caught \in Seq(Catches)
  /\ holding \in [Anglers -> Casts \cup {NoCast}]

\* A player has one session at a time, and the newest of his tabs has it until it is too old.
OneEach ==
  /\ \A s \in sessions : s.t0 <= clock
  /\ \A s, t \in sessions : s.player = t.player => s = t
  /\ \A p \in Anglers : holding[p] # NoCast =>
       holding[p].player = p /\ (clock - holding[p].t0 <= Ttl => holding[p] \in sessions)

\* A catch was fished for as long as it takes, before the session its player has now and apart from his other catches.
Fished(c) ==
  /\ c.at <= clock
  /\ c.at - c.session.t0 >= Last(c.session.bites).at + Last(c.session.bites).window - Slack
  /\ \A s \in sessions : s.player = c.session.player => c.at <= s.t0
Apart(c, d) == c.session.player = d.session.player => c.at <= d.session.t0 \/ d.at <= c.session.t0
InTurn ==
  /\ \A c \in owed : Fished(c)
  /\ \A i \in DOMAIN caught : Fished(caught[i])
  /\ \A c, d \in owed : c # d => Apart(c, d)
  /\ \A c \in owed : \A i \in DOMAIN caught : Apart(c, caught[i])
  /\ \A i, j \in DOMAIN caught : i # j => Apart(caught[i], caught[j])

DockInv == DockTyped /\ OneEach /\ InTurn

LEMMA StartCastStep == ASSUME DockInv, NEW p \in Anglers, StartCast(p) PROVE DockInv'
<1>0. Ttl \in Nat /\ clock \in Nat /\ casts \in Nat /\ sessions \subseteq Casts /\ holding \in [Anglers -> Casts \cup {NoCast}]
  BY FishingAssumption DEF DockInv, DockTyped
<1>1. PICK b \in Schedules : LET s == [id |-> casts', player |-> p, t0 |-> clock, bites |-> b] IN
        sessions' = (Fresh \ Abandoned(p)) \cup {s} /\ holding' = [holding EXCEPT ![p] = s]
  BY DEF StartCast
<1>2. PICK s : s = [id |-> casts', player |-> p, t0 |-> clock, bites |-> b] OBVIOUS
<1>3. sessions' = (Fresh \ Abandoned(p)) \cup {s} /\ holding' = [holding EXCEPT ![p] = s] BY <1>1, <1>2
<1>4. UNCHANGED <<clock, owed, caught>> /\ casts' = casts + 1 BY DEF StartCast
<1>5. s \in Casts /\ s.player = p /\ s.t0 = clock BY <1>0, <1>2, <1>4 DEF Casts
<1>6. \A t \in sessions' : t = s \/ (t \in sessions /\ t.player # p /\ clock - t.t0 <= Ttl) BY <1>3 DEF Fresh, Abandoned
<1>7. \A t \in sessions : t.player # p /\ clock - t.t0 <= Ttl => t \in sessions' BY <1>3 DEF Fresh, Abandoned
<1>8. DockTyped'
  <2>1. sessions' \subseteq Casts BY <1>0, <1>5, <1>6
  <2>2. holding' \in [Anglers -> Casts \cup {NoCast}] BY <1>0, <1>3, <1>5
  <2>3. casts' \in Nat BY <1>0, <1>4
  <2> QED BY <1>4, <2>1, <2>2, <2>3 DEF DockInv, DockTyped
<1>9. OneEach'
  <2>1. \A t \in sessions' : t.t0 <= clock' BY <1>0, <1>4, <1>5, <1>6 DEF DockInv, OneEach
  <2>2. \A t, u \in sessions' : t.player = u.player => t = u BY <1>5, <1>6 DEF DockInv, OneEach
  <2>3. ASSUME NEW q \in Anglers, holding'[q] # NoCast
        PROVE  holding'[q].player = q /\ (clock' - holding'[q].t0 <= Ttl => holding'[q] \in sessions')
    <3>1. CASE q = p
      <4>1. holding'[q] = s BY <1>0, <1>3, <3>1
      <4> QED BY <1>3, <1>5, <3>1, <4>1
    <3>2. CASE q # p
      <4>1. holding'[q] = holding[q] BY <1>0, <1>3, <3>2
      <4>2. holding[q].player = q /\ (clock - holding[q].t0 <= Ttl => holding[q] \in sessions)
        BY <2>3, <4>1 DEF DockInv, OneEach
      <4> QED BY <1>4, <1>7, <3>2, <4>1, <4>2
    <3> QED BY <3>1, <3>2
  <2> QED BY <2>1, <2>2, <2>3 DEF OneEach
<1>10. InTurn'
  <2>1. ASSUME NEW c, Fished(c) PROVE Fished(c)'
    BY <1>4, <1>5, <1>6, <2>1 DEF Fished
  <2>2. \A c \in owed : Fished(c)' BY <2>1 DEF DockInv, InTurn
  <2>3. \A i \in DOMAIN caught : Fished(caught[i]) BY DEF DockInv, InTurn
  <2>4. \A i \in DOMAIN caught' : Fished(caught[i])' 
    <3> SUFFICES ASSUME NEW i \in DOMAIN caught' PROVE Fished(caught[i])' OBVIOUS
    <3>1. PICK c : c = caught[i] OBVIOUS
    <3>2. caught'[i] = c BY <1>4, <3>1
    <3>3. Fished(c)' BY <1>4, <2>1, <2>3, <3>1
    <3> QED BY <3>2, <3>3 DEF Fished
  <2> QED BY <1>4, <2>2, <2>4 DEF DockInv, InTurn, Apart
<1> QED BY <1>8, <1>9, <1>10 DEF DockInv

LEMMA FinishCastStep ==
  ASSUME DockInv, NEW s \in sessions, NEW holds \in Reports(s), NEW gaveUp \in BOOLEAN, FinishCast(s, holds, gaveUp)
  PROVE  DockInv'
<1>0. /\ clock \in Nat /\ sessions \subseteq Casts /\ owed \subseteq Catches /\ caught \in Seq(Catches)
      /\ holding \in [Anglers -> Casts \cup {NoCast}] /\ Slack \in Nat
  BY FishingAssumption DEF DockInv, DockTyped
<1>1. /\ sessions' = sessions \ {s} /\ holding' = [holding EXCEPT ![s.player] = IF @ = s THEN NoCast ELSE @]
      /\ clock' = clock /\ casts' = casts /\ caught' = caught
  BY DEF FinishCast, Consumed
<1>2. PICK c : c = [session |-> s, at |-> clock] OBVIOUS
<1>3. owed' = owed \/ (owed' = owed \cup {c} /\ ~TooEarly(s, holds)) BY <1>2 DEF FinishCast
<1>4. s \in Casts /\ s.player \in Anglers /\ s.t0 \in Nat /\ s.t0 <= clock /\ s.bites \in Schedules
  BY <1>0 DEF Casts, DockInv, OneEach
<1>5. c \in Catches /\ c.session = s /\ c.at = clock BY <1>0, <1>2, <1>4 DEF Catches
<1>6. DockTyped'
  <2>1. sessions' \subseteq Casts /\ owed' \subseteq Catches BY <1>0, <1>1, <1>3, <1>5
  <2>2. holding' \in [Anglers -> Casts \cup {NoCast}] BY <1>0, <1>1, <1>4
  <2> QED BY <1>1, <2>1, <2>2 DEF DockInv, DockTyped
<1>7. OneEach'
  <2>1. ASSUME NEW q \in Anglers, holding'[q] # NoCast
        PROVE  holding'[q].player = q /\ (clock' - holding'[q].t0 <= Ttl => holding'[q] \in sessions')
    <3>1. holding'[q] = holding[q] /\ (q = s.player => holding[q] # s) BY <1>0, <1>1, <1>4, <2>1
    <3>2. holding[q].player = q /\ (clock - holding[q].t0 <= Ttl => holding[q] \in sessions)
      BY <2>1, <3>1 DEF DockInv, OneEach
    <3>3. holding[q] # s BY <3>1, <3>2
    <3> QED BY <1>1, <3>1, <3>2, <3>3
  <2> QED BY <1>1, <2>1 DEF DockInv, OneEach
<1>8. ASSUME NEW d, Fished(d) PROVE Fished(d)' BY <1>1, <1>8 DEF Fished
<1>9. ASSUME NEW d, Fished(d) PROVE Apart(c, d) /\ Apart(d, c) BY <1>5, <1>9 DEF Fished, Apart
<1>10. ~TooEarly(s, holds) => Fished(c)'
  <2> SUFFICES ASSUME ~TooEarly(s, holds) PROVE Fished(c)' OBVIOUS
  <2>1. PICK a : a = Last(s.bites).at + Last(s.bites).window OBVIOUS
  <2>2. PICK d : d = DoneAt(s.bites, holds) OBVIOUS
  <2>3. a \in Nat /\ d \in Int /\ d >= a BY <1>4, <2>1, <2>2, DoneAtTheEnd
  <2>4. clock - s.t0 >= d - Slack BY <1>0, <1>4, <2>2, <2>3 DEF TooEarly
  <2>5. clock - s.t0 >= a - Slack BY <1>0, <1>4, <2>3, <2>4
  <2>6. \A t \in sessions' : t.player # s.player BY <1>1 DEF DockInv, OneEach
  <2>7. c.at <= clock' BY <1>0, <1>1, <1>5
  <2>8. c.at - c.session.t0 >= (Last(c.session.bites).at + Last(c.session.bites).window) - Slack BY <1>5, <2>1, <2>5
  <2>9. c.at - c.session.t0 >= Last(c.session.bites).at + Last(c.session.bites).window - Slack
    <3>1. PICK x, y : x = Last(s.bites).at /\ y = Last(s.bites).window OBVIOUS
    <3>2. x \in Nat /\ y \in Nat
      <4>1. s.bites \in Seq(BiteRecord) /\ Len(s.bites) = Bites BY <1>4, SchedulesAreRight
      <4>2. Bites \in Nat /\ Bites # 0 BY FishingAssumption
      <4>3. s.bites[Len(s.bites)] \in BiteRecord BY <4>1, <4>2
      <4> QED BY <3>1, <4>3 DEF Last, BiteRecord
    <3>3. (x + y) - Slack = x + (y - Slack) BY <1>0, <3>2
    <3> QED BY <1>5, <2>8, <3>1, <3>3
  <2> QED BY <1>5, <2>6, <2>7, <2>9 DEF Fished
<1>11. InTurn'
  <2>1. ASSUME NEW d \in owed' PROVE Fished(d)' BY <1>3, <1>8, <1>10 DEF DockInv, InTurn
  <2>2. ASSUME NEW i \in DOMAIN caught' PROVE Fished(caught[i])'
    <3>1. PICK d : d = caught[i] OBVIOUS
    <3>2. Fished(d)' BY <1>1, <1>8, <3>1 DEF DockInv, InTurn
    <3>3. caught'[i] = d BY <1>1, <3>1
    <3> QED BY <3>2, <3>3 DEF Fished
  <2>3. ASSUME NEW d \in owed', NEW e \in owed', d # e PROVE Apart(d, e)
    <3>1. \A o \in owed : Fished(o) BY DEF DockInv, InTurn
    <3>2. CASE d \in owed /\ e \in owed BY <2>3, <3>2 DEF DockInv, InTurn
    <3>3. CASE d \in owed /\ e = c BY <1>9, <3>1, <3>3
    <3>4. CASE d = c /\ e \in owed BY <1>9, <3>1, <3>4
    <3> QED BY <1>3, <2>3, <3>2, <3>3, <3>4
  <2>4. ASSUME NEW d \in owed', NEW i \in DOMAIN caught PROVE Apart(d, caught[i])
    <3>1. CASE d \in owed BY <3>1 DEF DockInv, InTurn
    <3>2. CASE d = c BY <1>9, <3>2 DEF DockInv, InTurn
    <3> QED BY <1>3, <3>1, <3>2
  <2> QED BY <1>1, <2>1, <2>2, <2>3, <2>4 DEF DockInv, InTurn, Apart
<1> QED BY <1>6, <1>7, <1>11 DEF DockInv

LEMMA PayCatchStep == ASSUME DockInv, NEW o \in owed, PayCatch(o) PROVE DockInv'
<1>0. owed \subseteq Catches /\ caught \in Seq(Catches) BY DEF DockInv, DockTyped
<1>1. owed' = owed \ {o} /\ caught' = Append(caught, o) /\ UNCHANGED <<clock, casts, sessions, holding>> BY DEF PayCatch
<1>2. caught' \in Seq(Catches) /\ o \in Catches BY <1>0, <1>1
<1>3. DockTyped' BY <1>0, <1>1, <1>2 DEF DockInv, DockTyped
<1>4. OneEach' BY <1>1 DEF DockInv, OneEach
<1>5. PICK n \in Nat : n = Len(caught) BY <1>0
<1>6. DOMAIN caught = 1 .. n /\ DOMAIN caught' = 1 .. n + 1 /\ caught'[n + 1] = o /\ \A i \in 1 .. n : caught'[i] = caught[i]
  BY <1>0, <1>1, <1>2, <1>5
<1>7. ASSUME NEW d, Fished(d) PROVE Fished(d)' BY <1>1, <1>7 DEF Fished
<1>8. Fished(o) /\ \A i \in 1 .. n : Fished(caught[i]) /\ Apart(o, caught[i]) BY <1>6 DEF DockInv, InTurn
<1>9. \A i \in 1 .. n : Apart(caught[i], o) BY <1>8 DEF Apart
<1>10. ASSUME NEW i \in DOMAIN caught' PROVE Fished(caught[i])'
  <2>1. PICK d : d = caught'[i] OBVIOUS
  <2>2. i = n + 1 \/ i \in 1 .. n BY <1>6
  <2>3. Fished(d) BY <1>6, <1>8, <2>1, <2>2
  <2>4. Fished(d)' BY <1>7, <2>3
  <2> QED BY <2>1, <2>4 DEF Fished
<1>11. ASSUME NEW i \in DOMAIN caught', NEW j \in DOMAIN caught', i # j PROVE Apart(caught'[i], caught'[j])
  <2>1. (i = n + 1 \/ i \in 1 .. n) /\ (j = n + 1 \/ j \in 1 .. n) BY <1>6
  <2>2. CASE i \in 1 .. n /\ j \in 1 .. n BY <1>6, <1>11, <2>2 DEF DockInv, InTurn
  <2>3. CASE i = n + 1 /\ j \in 1 .. n BY <1>6, <1>8, <2>3
  <2>4. CASE i \in 1 .. n /\ j = n + 1 BY <1>6, <1>9, <2>4
  <2> QED BY <1>11, <2>1, <2>2, <2>3, <2>4
<1>12. ASSUME NEW c \in owed', NEW i \in DOMAIN caught' PROVE Apart(c, caught'[i])
  <2>1. c \in owed /\ c # o BY <1>1
  <2>2. i = n + 1 \/ i \in 1 .. n BY <1>6
  <2>3. CASE i = n + 1 BY <1>6, <2>1, <2>3 DEF DockInv, InTurn
  <2>4. CASE i \in 1 .. n BY <1>6, <2>1, <2>4 DEF DockInv, InTurn
  <2> QED BY <2>2, <2>3, <2>4
<1>13. \A c \in owed' : Fished(c)' BY <1>1, <1>7 DEF DockInv, InTurn
<1>14. \A c, d \in owed' : c # d => Apart(c, d) BY <1>1 DEF DockInv, InTurn
<1>15. InTurn' BY <1>10, <1>11, <1>12, <1>13, <1>14 DEF InTurn, Apart
<1> QED BY <1>3, <1>4, <1>15 DEF DockInv

LEMMA DockStep == ASSUME DockInv, [FishNext]_fishVars PROVE DockInv'
<1>0. Ttl \in Nat /\ clock \in Nat /\ sessions \subseteq Casts /\ holding \in [Anglers -> Casts \cup {NoCast}]
  BY FishingAssumption DEF DockInv, DockTyped
<1>1. ASSUME UNCHANGED <<clock, casts, sessions, owed, caught, holding>> PROVE DockInv'
  BY <1>1 DEF DockInv, DockTyped, OneEach, InTurn, Fished, Apart
<1>2. ASSUME NEW p \in Anglers, StartCast(p) PROVE DockInv' BY <1>2, StartCastStep
<1>3. ASSUME NEW s \in sessions, NEW holds \in Reports(s), NEW gaveUp \in BOOLEAN, FinishCast(s, holds, gaveUp) PROVE DockInv'
  BY <1>3, FinishCastStep
<1>4. ASSUME NEW o \in owed, PayCatch(o) PROVE DockInv' BY <1>4, PayCatchStep
<1>5. ASSUME NEW o \in owed, LoseCatch(o) PROVE DockInv'
  <2>1. owed' = owed \ {o} /\ UNCHANGED <<clock, casts, sessions, caught, holding>> BY <1>5 DEF LoseCatch
  <2> QED BY <2>1 DEF DockInv, DockTyped, OneEach, InTurn, Fished, Apart
<1>6. ASSUME DockRestart PROVE DockInv'
  <2>1. sessions' = {} /\ owed' = {} /\ holding' = [p \in Anglers |-> NoCast] /\ UNCHANGED <<clock, casts, caught>>
    BY <1>6 DEF DockRestart
  <2> QED BY <2>1 DEF DockInv, DockTyped, OneEach, InTurn, Fished, Apart
<1>7. ASSUME DockWaits PROVE DockInv'
  <2>1. clock' = clock + 1 /\ clock' \in Nat /\ UNCHANGED <<casts, sessions, owed, caught, holding>>
    BY <1>0, <1>7 DEF DockWaits
  <2>2. DockTyped' BY <2>1 DEF DockInv, DockTyped
  <2>3. \A s \in sessions : s.t0 \in Nat BY <1>0 DEF Casts
  <2>4. \A p \in Anglers : holding[p] # NoCast => holding[p].t0 \in Nat BY <1>0 DEF Casts
  <2>5. OneEach' BY <1>0, <2>1, <2>3, <2>4 DEF DockInv, OneEach
  <2>6. \A c \in Catches : c.at \in Nat BY DEF Catches
  <2>7. ASSUME NEW c \in Catches, Fished(c) PROVE Fished(c)' BY <1>0, <2>1, <2>6, <2>7 DEF Fished
  <2>8. owed \subseteq Catches /\ \A i \in DOMAIN caught : caught[i] \in Catches BY DEF DockInv, DockTyped
  <2>9. \A c \in owed : Fished(c)' BY <2>7, <2>8 DEF DockInv, InTurn
  <2>10. ASSUME NEW i \in DOMAIN caught PROVE Fished(caught[i])'
    <3>1. PICK c : c = caught[i] OBVIOUS
    <3>2. Fished(c)' BY <2>7, <2>8, <3>1 DEF DockInv, InTurn
    <3>3. caught'[i] = c BY <2>1, <3>1
    <3> QED BY <3>2, <3>3 DEF Fished
  <2>11. InTurn' BY <2>1, <2>9, <2>10 DEF DockInv, InTurn, Apart
  <2> QED BY <2>2, <2>5, <2>11 DEF DockInv
<1>8. ReportPresses => UNCHANGED <<clock, casts, sessions, owed, caught, holding>> BY DEF ReportPresses
<1>9. UNCHANGED fishVars => UNCHANGED <<clock, casts, sessions, owed, caught, holding>> BY DEF fishVars
<1> QED BY <1>1, <1>2, <1>3, <1>4, <1>5, <1>6, <1>7, <1>8, <1>9 DEF FishNext

\* Who plays a cast to its end can finish it, a catch takes as long as its schedule, and one player's catches are fished
\* one after the other, in however many tabs and across restarts: the sessions' lock lets a player have one at a time.
THEOREM DockIsHonest == FishSpec => []CastsAreHonest
<1>1. FishInit => DockInv
  <2> SUFFICES ASSUME FishInit PROVE DockInv OBVIOUS
  <2>1. DockTyped BY DEF FishInit, DockTyped
  <2>2. OneEach BY DEF FishInit, OneEach
  <2>3. InTurn BY DEF FishInit, InTurn
  <2> QED BY <2>1, <2>2, <2>3 DEF DockInv
<1>2. DockInv => CastsAreHonest
  BY DEF DockInv, OneEach, InTurn, Fished, Apart, CastsAreHonest, NoCastVanishes, CatchesTakeTheirTime
<1> QED BY <1>1, <1>2, DockStep, PTL DEF FishSpec

Verdicts == [pulls : Nat, escaped : BOOLEAN, tried : SUBSET (1 .. Bites)]
Unharmed == [pulls |-> 0, escaped |-> FALSE, tried |-> {}]
Judged(s, span, v) ==
  LET i == Tried(s, v.tried, span)
  IN IF v.escaped THEN v
     ELSE IF i = 0 THEN [v EXCEPT !.escaped = TRUE]
     ELSE [v EXCEPT !.tried = @ \cup {i}, !.pulls = @ + (IF span.end - span.start >= s[i].hold - Slack THEN 1 ELSE 0)]

\* The bite a press tries is the one it is within reach of, unless that was tried.
LEMMA TriedIsTheBite ==
  ASSUME NEW s \in Schedules, NEW span \in HoldSpan, NEW tried
  PROVE  /\ OpenAt(s, span.start) \subseteq tried => Tried(s, tried, span) = 0
         /\ \A i \in OpenAt(s, span.start) : i \notin tried => Tried(s, tried, span) = i
<1>1. span.start \in Int BY DEF HoldSpan
<1> DEFINE free == OpenAt(s, span.start) \ tried
<1>2. OpenAt(s, span.start) \subseteq 1 .. Bites /\ \A i, j \in OpenAt(s, span.start) : i = j BY <1>1, OneBite
<1>3. CASE OpenAt(s, span.start) \subseteq tried
  <2>1. free = {} BY <1>3
  <2> QED BY <1>3, <2>1 DEF Tried, Untried
<1>4. ASSUME NEW i \in OpenAt(s, span.start), i \notin tried PROVE Tried(s, tried, span) = i
  <2>1. i \in free /\ \A j \in free : j = i BY <1>2, <1>4
  <2>2. Tried(s, tried, span) = IF free = {} THEN 0 ELSE Min(free) BY DEF Tried, Untried
  <2>3. i \in Int BY <1>2, FishingAssumption
  <2> HIDE DEF free
  <2>4. \E x \in free : \A y \in free : x <= y BY <2>1, <2>3
  <2>5. Min(free) \in free BY <2>4 DEF Min
  <2> QED BY <2>1, <2>2, <2>5
<1> QED BY <1>3, <1>4

LEMMA JudgedIsAVerdict ==
  ASSUME NEW s \in Schedules, NEW span \in HoldSpan, NEW v \in Verdicts
  PROVE  Judged(s, span, v) \in Verdicts
<1>1. PICK i : i = Tried(s, v.tried, span) OBVIOUS
<1>2. span.start \in Int BY DEF HoldSpan
<1>3. i # 0 => i \in 1 .. Bites
  <2>1. CASE OpenAt(s, span.start) \subseteq v.tried BY <1>1, <2>1, TriedIsTheBite
  <2>2. CASE ~(OpenAt(s, span.start) \subseteq v.tried)
    <3>1. PICK j \in OpenAt(s, span.start) : j \notin v.tried BY <2>2
    <3>2. i = j BY <1>1, <3>1, TriedIsTheBite
    <3> QED BY <1>2, <3>2, OneBite
  <2> QED BY <2>1, <2>2
<1>4. PICK more \in {0, 1} : more = IF span.end - span.start >= s[i].hold - Slack THEN 1 ELSE 0 OBVIOUS
<1>5. Judged(s, span, v) = IF v.escaped THEN v
                            ELSE IF i = 0 THEN [v EXCEPT !.escaped = TRUE]
                            ELSE [v EXCEPT !.tried = @ \cup {i}, !.pulls = @ + more]
  BY <1>1, <1>4 DEF Judged
<1>6. v.pulls + more \in Nat /\ v.tried \in SUBSET (1 .. Bites) BY DEF Verdicts
<1>7. [v EXCEPT !.escaped = TRUE] \in Verdicts BY DEF Verdicts
<1>8. i # 0 => v.tried \cup {i} \in SUBSET (1 .. Bites) BY <1>3, <1>6
<1>9. i # 0 => [v EXCEPT !.tried = @ \cup {i}, !.pulls = @ + more] \in Verdicts BY <1>6, <1>8 DEF Verdicts
<1> QED BY <1>5, <1>7, <1>9

\* The verdict is made press by press.
LEMMA JudgePressByPress ==
  ASSUME NEW s \in Schedules, NEW N \in Nat, NEW holds \in [1 .. N -> HoldSpan]
  PROVE  \E f \in [0 .. N -> Verdicts] :
           /\ f[0] = Unharmed /\ \A n \in 1 .. N : f[n] = Judged(s, holds[InOrder(holds)[n]], f[n - 1])
           /\ Judge(s, holds) = f[N]
<1>1. Len(holds) = N
  <2>1. holds \in Seq(HoldSpan) OBVIOUS
  <2> QED BY <2>1
<1> DEFINE order == InOrder(holds)
           Step(f) == [n \in 0 .. N |-> IF n = 0 THEN Unharmed ELSE Judged(s, holds[order[n]], f[n - 1])]
           verdict == CHOOSE f : f = Step(f)
<1>2. Judge(s, holds) = verdict[N] BY <1>1 DEF Judge, Judged, Unharmed
<1>3. order \in [1 .. N -> 1 .. N] BY PressesInOrder
<1> HIDE DEF order
<1>4. \A n \in 1 .. N : holds[order[n]] \in HoldSpan BY <1>3
<1> DEFINE G == [x \in (1 .. N) \X Verdicts |-> Judged(s, holds[order[x[1]]], x[2])]
<1>5. G \in [(1 .. N) \X Verdicts -> Verdicts]
  <2>1. ASSUME NEW x \in (1 .. N) \X Verdicts PROVE Judged(s, holds[order[x[1]]], x[2]) \in Verdicts
    <3>1. x[1] \in 1 .. N /\ x[2] \in Verdicts OBVIOUS
    <3> QED BY <1>4, <3>1, JudgedIsAVerdict
  <2> QED BY <2>1
<1>6. \A n \in 1 .. N : \A v \in Verdicts : G[<<n, v>>] = Judged(s, holds[order[n]], v) OBVIOUS
<1>7. Unharmed \in Verdicts BY DEF Unharmed, Verdicts
<1>8. \E g : g = Step(g)
  <2> HIDE DEF G
  <2>1. Runs(N, Verdicts, Unharmed, G) # {} BY <1>5, <1>7, Recursion
  <2>2. PICK g \in [0 .. N -> Verdicts] : g[0] = Unharmed /\ \A i \in 1 .. N : g[i] = G[<<i, g[i - 1]>>] BY <2>1 DEF Runs
  <2>3. \A i \in 1 .. N : g[i - 1] \in Verdicts OBVIOUS
  <2>4. \A i \in 1 .. N : g[i] = Judged(s, holds[order[i]], g[i - 1]) BY <1>6, <2>2, <2>3
  <2>5. \A i \in 0 .. N : i = 0 \/ i \in 1 .. N OBVIOUS
  <2>6. \A i \in 0 .. N : g[i] = IF i = 0 THEN Unharmed ELSE Judged(s, holds[order[i]], g[i - 1]) BY <2>2, <2>4, <2>5
  <2>7. g = Step(g) BY <2>6
  <2> QED BY <2>7
<1>9. verdict = Step(verdict) BY <1>8
<1> HIDE DEF verdict, G
<1>10. PICK f : f = verdict OBVIOUS
<1>11. f = Step(f) BY <1>9, <1>10
<1>12. \A n \in 0 .. N : f[n] = IF n = 0 THEN Unharmed ELSE Judged(s, holds[order[n]], f[n - 1]) BY ONLY <1>11
<1>13. 0 \in 0 .. N /\ \A n \in 1 .. N : n \in 0 .. N /\ n # 0 OBVIOUS
<1>14. f[0] = Unharmed /\ \A n \in 1 .. N : f[n] = Judged(s, holds[order[n]], f[n - 1]) BY <1>12, <1>13
<1> DEFINE H == {n \in Nat : n <= N => f[n] \in Verdicts}
<1>15. 0 \in H BY <1>7, <1>14
<1>16. ASSUME NEW n \in Nat, n \in H PROVE n + 1 \in H
  <2> SUFFICES ASSUME n + 1 <= N PROVE f[n + 1] \in Verdicts OBVIOUS
  <2>1. n + 1 \in 1 .. N /\ (n + 1) - 1 = n /\ f[n] \in Verdicts BY <1>16
  <2>2. f[n + 1] = Judged(s, holds[order[n + 1]], f[n]) BY <1>14, <2>1
  <2>3. holds[order[n + 1]] \in HoldSpan BY <1>4, <2>1
  <2> QED BY <2>1, <2>2, <2>3, JudgedIsAVerdict
<1> HIDE DEF H
<1>17. Nat \subseteq H BY <1>15, <1>16, NatInduct
<1>18. \A n \in 0 .. N : f[n] \in Verdicts BY <1>17 DEF H
<1>19. f \in [0 .. N -> Verdicts]
  <2>1. DOMAIN f = 0 .. N BY ONLY <1>11
  <2>2. f = [n \in 0 .. N |-> f[n]] BY ONLY <1>11
  <2> QED BY <1>18, <2>2
<1> QED BY <1>2, <1>10, <1>14, <1>19 DEF order

\* One press more: what it does depends only on whether the bites before it were scared away or are used up.
LEMMA OnePressMore ==
  ASSUME NEW s \in Schedules, NEW span \in HoldSpan, NEW v \in Verdicts, ~v.escaped
  PROVE  LET bite == OpenAt(s, span.start)
             w == Judged(s, span, v)
         IN /\ bite \subseteq v.tried => w.escaped /\ w.pulls = v.pulls
            /\ \A i \in bite : i \notin v.tried =>
                 /\ ~w.escaped /\ w.tried = v.tried \cup {i}
                 /\ w.pulls = v.pulls + (IF span.end - span.start >= s[i].hold - Slack THEN 1 ELSE 0)
<1>1. span.start \in Int BY DEF HoldSpan
<1>2. CASE OpenAt(s, span.start) \subseteq v.tried
  <2>1. Tried(s, v.tried, span) = 0 BY <1>2, TriedIsTheBite
  <2>2. Judged(s, span, v) = [v EXCEPT !.escaped = TRUE] BY <2>1 DEF Judged
  <2> QED BY <1>2, <2>2 DEF Verdicts
<1>3. ASSUME NEW i \in OpenAt(s, span.start), i \notin v.tried
      PROVE  /\ ~Judged(s, span, v).escaped /\ Judged(s, span, v).tried = v.tried \cup {i}
             /\ Judged(s, span, v).pulls = v.pulls + (IF span.end - span.start >= s[i].hold - Slack THEN 1 ELSE 0)
  <2>1. Tried(s, v.tried, span) = i BY <1>3, TriedIsTheBite
  <2>2. i # 0
    <3>1. i \in 1 .. Bites BY <1>1, OneBite
    <3> QED BY <3>1, FishingAssumption
  <2>3. PICK more : more = IF span.end - span.start >= s[i].hold - Slack THEN 1 ELSE 0 OBVIOUS
  <2>4. Judged(s, span, v) = [v EXCEPT !.tried = @ \cup {i}, !.pulls = @ + more] BY <2>1, <2>2, <2>3 DEF Judged
  <2> QED BY <2>3, <2>4 DEF Verdicts
<1> QED BY <1>2, <1>3

\* What JudgeIsFair says of a list of presses.
KeepsTheRules(s, holds) ==
  LET order == InOrder(holds)
      span(n) == holds[order[n]]
      bite(n) == OpenAt(s, span(n).start)
      scares(n) == bite(n) = {} \/ \E m \in 1 .. n - 1 : bite(m) = bite(n)
      calm == {n \in DOMAIN order : \A m \in 1 .. n : ~scares(m)}
      v == Judge(s, holds)
  IN /\ \A i \in DOMAIN holds : \E n \in DOMAIN order : order[n] = i
     /\ \A m, n \in DOMAIN order : m < n => span(m).start <= span(n).start
     /\ v.escaped <=> calm # DOMAIN order
     /\ v.pulls = Cardinality({n \in calm : \E i \in bite(n) : span(n).end - span(n).start >= s[i].hold - Slack})

LEMMA JudgeKeepsTheRules ==
  ASSUME NEW s \in Schedules, NEW N \in Nat, NEW holds \in [1 .. N -> HoldSpan]
  PROVE  KeepsTheRules(s, holds)
<1>0. PICK order : order = InOrder(holds) OBVIOUS
<1> DEFINE span(n) == holds[order[n]]
           bite(n) == OpenAt(s, span(n).start)
           scares(n) == bite(n) = {} \/ \E m \in 1 .. n - 1 : bite(m) = bite(n)
           quiet(n) == \A m \in 1 .. n : ~scares(m)
           long(n) == \E i \in bite(n) : span(n).end - span(n).start >= s[i].hold - Slack
           pulled(k) == {n \in 1 .. k : quiet(n) /\ long(n)}
<1>1. PICK f \in [0 .. N -> Verdicts] :
        /\ f[0] = Unharmed /\ \A n \in 1 .. N : f[n] = Judged(s, holds[InOrder(holds)[n]], f[n - 1])
        /\ Judge(s, holds) = f[N]
  BY JudgePressByPress
<1>2. /\ order \in [1 .. N -> 1 .. N]
      /\ \A i \in 1 .. N : \E n \in 1 .. N : order[n] = i
      /\ \A m, n \in 1 .. N : m < n => holds[order[m]].start <= holds[order[n]].start
  <2>1. InOrder(holds) \in [1 .. N -> 1 .. N] BY PressesInOrder
  <2>2. \A i \in 1 .. N : \E n \in 1 .. N : InOrder(holds)[n] = i BY PressesInOrder
  <2>3. \A m, n \in 1 .. N : m < n => holds[InOrder(holds)[m]].start <= holds[InOrder(holds)[n]].start BY PressesInOrder
  <2> QED BY <1>0, <2>1, <2>2, <2>3
<1>3. \A n \in 1 .. N : span(n) \in HoldSpan BY <1>2
<1>4. \A n \in 1 .. N : f[n] = Judged(s, span(n), f[n - 1]) BY <1>0, <1>1
<1>5. ASSUME NEW n \in 1 .. N PROVE \A i, j \in bite(n) : i = j
  <2>1. span(n).start \in Int BY <1>3 DEF HoldSpan
  <2> QED BY <2>1, OneBite
<1>6. ASSUME NEW n \in 1 .. N, NEW m \in 1 .. N, NEW i \in bite(n), i \in bite(m) PROVE bite(m) = bite(n)
  <2>1. (\A j \in bite(n) : j = i) /\ (\A j \in bite(m) : j = i) BY <1>5, <1>6
  <2>2. i \in bite(n) /\ i \in bite(m) BY <1>6
  <2> HIDE DEF bite
  <2>3. bite(n) \subseteq bite(m) /\ bite(m) \subseteq bite(n) BY <2>1, <2>2
  <2> QED BY <2>3
<1> DEFINE H == {n \in Nat : n <= N =>
                   /\ f[n].escaped <=> ~quiet(n)
                   /\ ~f[n].escaped => \A i : i \in f[n].tried <=> \E m \in 1 .. n : i \in bite(m)
                   /\ f[n].pulls = Cardinality(pulled(n))}
<1>7. 0 \in H
  <2>1. 1 .. 0 = {} /\ 0 \in Nat OBVIOUS
  <2>2. quiet(0) /\ pulled(0) = {} BY <2>1
  <2>3. ~f[0].escaped /\ f[0].tried = {} /\ f[0].pulls = 0 BY <1>1 DEF Unharmed
  <2> HIDE DEF quiet, pulled, bite
  <2> QED BY <2>1, <2>2, <2>3, FS_EmptySet
<1>8. ASSUME NEW n \in Nat, n \in H PROVE n + 1 \in H
  <2> SUFFICES ASSUME n + 1 <= N
               PROVE  /\ f[n + 1].escaped <=> ~quiet(n + 1)
                      /\ ~f[n + 1].escaped => \A i : i \in f[n + 1].tried <=> \E m \in 1 .. n + 1 : i \in bite(m)
                      /\ f[n + 1].pulls = Cardinality(pulled(n + 1))
    OBVIOUS
  <2>1. n + 1 \in 1 .. N /\ (n + 1) - 1 = n /\ n \in 0 .. N /\ n <= N OBVIOUS
  <2>2. f[n] \in Verdicts /\ f[n + 1] = Judged(s, span(n + 1), f[n]) /\ span(n + 1) \in HoldSpan BY <1>3, <1>4, <2>1
  <2>3. /\ f[n].escaped <=> ~quiet(n)
        /\ ~f[n].escaped => \A i : i \in f[n].tried <=> \E m \in 1 .. n : i \in bite(m)
        /\ f[n].pulls = Cardinality(pulled(n))
    BY <1>8, <2>1
  <2>4. \A m \in 1 .. n + 1 : m \in 1 .. n \/ m = n + 1 OBVIOUS
  <2>5. \A m \in 1 .. n : m \in 1 .. n + 1 /\ m \in 1 .. N BY <2>1
  <2>6. quiet(n + 1) <=> quiet(n) /\ ~scares(n + 1)
    <3> HIDE DEF scares
    <3> QED BY <2>1, <2>4, <2>5
  <2> HIDE DEF quiet, H
  <2>7. ~quiet(n + 1) => pulled(n + 1) = pulled(n) BY <2>1, <2>4, <2>5
  <2>8. CASE ~quiet(n)
    <3>1. f[n + 1] = f[n] BY <2>2, <2>3, <2>8 DEF Judged
    <3> QED BY <2>3, <2>6, <2>7, <2>8, <3>1
  <2>9. CASE quiet(n) /\ scares(n + 1)
    <3>1. bite(n + 1) \subseteq f[n].tried
      <4>1. CASE bite(n + 1) = {} BY <4>1
      <4>2. CASE bite(n + 1) # {}
        <5>1. PICK m \in 1 .. n : bite(m) = bite(n + 1) BY <2>1, <2>9, <4>2
        <5> QED BY <2>3, <2>9, <5>1
      <4> QED BY <4>1, <4>2
    <3>2. f[n + 1].escaped /\ f[n + 1].pulls = f[n].pulls BY <2>2, <2>3, <2>9, <3>1, OnePressMore
    <3> QED BY <2>3, <2>6, <2>7, <2>9, <3>2
  <2>10. CASE quiet(n) /\ ~scares(n + 1)
    <3>1. PICK i \in bite(n + 1) : TRUE BY <2>10
    <3>2. i \notin f[n].tried
      <4> SUFFICES ASSUME i \in f[n].tried PROVE FALSE OBVIOUS
      <4>1. PICK m \in 1 .. n : i \in bite(m) BY <2>3, <2>10
      <4>2. bite(m) = bite(n + 1) BY <1>6, <2>1, <2>5, <3>1, <4>1
      <4> QED BY <2>1, <2>10, <4>2
    <3>3. PICK more : more = IF span(n + 1).end - span(n + 1).start >= s[i].hold - Slack THEN 1 ELSE 0 OBVIOUS
    <3>4. ~f[n + 1].escaped /\ f[n + 1].tried = f[n].tried \cup {i} /\ f[n + 1].pulls = f[n].pulls + more
      BY <2>2, <2>3, <2>10, <3>1, <3>2, <3>3, OnePressMore
    <3>5. \A j \in bite(n + 1) : j = i BY <1>5, <2>1, <3>1
    <3>6. \A j : j \in f[n + 1].tried <=> \E m \in 1 .. n + 1 : j \in bite(m)
      <4> HIDE DEF bite
      <4> QED BY <2>3, <2>4, <2>5, <2>10, <3>1, <3>4, <3>5
    <3>7. long(n + 1) <=> more = 1 BY <3>1, <3>3, <3>5
    <3>8. pulled(n + 1) = IF more = 1 THEN pulled(n) \cup {n + 1} ELSE pulled(n)
      <4>1. quiet(n + 1) BY <2>6, <2>10
      <4> HIDE DEF long
      <4> QED BY <2>4, <2>5, <3>7, <4>1
    <3>9. f[n + 1].pulls = Cardinality(pulled(n + 1))
      <4>1. pulled(n) \subseteq 1 .. n /\ n + 1 \notin pulled(n) OBVIOUS
      <4> HIDE DEF pulled
      <4>2. IsFiniteSet(pulled(n))
        <5>1. IsFiniteSet(1 .. n) BY FS_Interval
        <5> QED BY <4>1, <5>1, FS_Subset
      <4>3. Cardinality(pulled(n) \cup {n + 1}) = Cardinality(pulled(n)) + 1 BY <4>1, <4>2, FS_AddElement
      <4>4. Cardinality(pulled(n)) \in Nat /\ more \in {0, 1} BY <3>3, <4>2, FS_CardinalityType
      <4> QED BY <2>3, <3>4, <3>8, <4>3, <4>4
    <3> QED BY <2>6, <2>10, <3>4, <3>6, <3>9
  <2> QED BY <2>8, <2>9, <2>10
<1> HIDE DEF H
<1>9. N \in H BY <1>7, <1>8, NatInduct
<1>10. f[N].escaped <=> ~quiet(N) BY <1>9 DEF H
<1>11. f[N].pulls = Cardinality(pulled(N)) BY <1>9 DEF H
<1> DEFINE calm == {n \in 1 .. N : quiet(n)}
<1>12. ~quiet(N) <=> calm # 1 .. N
  <2>1. \A n \in 1 .. N : \A m \in 1 .. n : m \in 1 .. N OBVIOUS
  <2>2. \A n \in 1 .. N : n \in 1 .. n OBVIOUS
  <2> HIDE DEF scares
  <2>3. quiet(N) <=> \A n \in 1 .. N : ~scares(n) OBVIOUS
  <2>4. (\A n \in 1 .. N : ~scares(n)) <=> \A n \in 1 .. N : quiet(n) BY <2>1, <2>2
  <2> QED BY <2>3, <2>4
<1>13. pulled(N) = {n \in calm : long(n)} OBVIOUS
<1>14. DOMAIN holds = 1 .. N /\ DOMAIN order = 1 .. N BY <1>2
<1>15. /\ Judge(s, holds).escaped <=> calm # DOMAIN order
       /\ Judge(s, holds).pulls = Cardinality({n \in calm : long(n)})
  BY <1>1, <1>10, <1>11, <1>12, <1>13, <1>14
<1>16. calm = {n \in DOMAIN order : quiet(n)} BY <1>14
<1> HIDE DEF calm
<1>17. /\ \A i \in DOMAIN holds : \E n \in DOMAIN order : order[n] = i
       /\ \A m, n \in DOMAIN order : m < n => span(m).start <= span(n).start
  BY <1>2, <1>14
<1> QED BY <1>0, <1>15, <1>16, <1>17 DEF KeepsTheRules

\* A cast under judgement is one a client may have reported.
Judgeable == cast # NoCast => cast.bites \in Schedules /\ cast.holds \in PressLists

LEMMA ReportedPresses ==
  ASSUME NEW holds \in PressLists, Schedules # {}
  PROVE  \E N \in Nat : holds \in [1 .. N -> HoldSpan]
<1>1. PICK n \in 0 .. MaxPresses : holds \in [1 .. n -> {[start |-> p.start, end |-> p.start + p.long] : p \in HoldIn}]
  BY DEF PressLists
<1>2. ASSUME NEW p \in HoldIn PROVE [start |-> p.start, end |-> p.start + p.long] \in HoldSpan
  <2>1. p.start \in Int /\ p.long \in Int BY DEF HoldIn
  <2> QED BY <2>1 DEF HoldSpan
<1>3. {[start |-> p.start, end |-> p.start + p.long] : p \in HoldIn} \subseteq HoldSpan BY <1>2
<1>4. holds \in [1 .. n -> HoldSpan] BY <1>1, <1>3
<1> QED BY <1>4, FishingAssumption

\* The judge of the dock is fair, with any number of bites and presses, whenever no press is within reach of two bites.
THEOREM JudgeStaysFair == FishSpec => []JudgeIsFair
<1>1. FishInit => Judgeable BY DEF FishInit, Judgeable
<1>2. Judgeable /\ [FishNext]_fishVars => Judgeable'
  <2> SUFFICES ASSUME Judgeable, [FishNext]_fishVars PROVE Judgeable' OBVIOUS
  <2>1. CASE UNCHANGED cast BY <2>1 DEF Judgeable
  <2>2. CASE ReportPresses
    <3>1. PICK s \in Schedules, holds \in PressLists : cast' = [bites |-> s, holds |-> holds] BY <2>2 DEF ReportPresses
    <3>2. cast'.bites = s /\ cast'.holds = holds BY <3>1
    <3>3. Schedules' = Schedules /\ PressLists' = PressLists BY DEF Schedules, PressLists, HoldIn
    <3> QED BY <3>2, <3>3 DEF Judgeable
  <2>3. ReportPresses \/ UNCHANGED cast
    BY DEF FishNext, fishVars, DockRestart, DockWaits, StartCast, FinishCast, PayCatch, LoseCatch
  <2> QED BY <2>1, <2>2, <2>3
<1>3. Judgeable => JudgeIsFair
  <2> SUFFICES ASSUME Judgeable, cast # NoCast PROVE JudgeIsFair BY DEF JudgeIsFair
  <2>1. PICK s \in Schedules : s = cast.bites BY DEF Judgeable
  <2>2. PICK holds \in PressLists : holds = cast.holds BY DEF Judgeable
  <2>3. PICK N \in Nat : holds \in [1 .. N -> HoldSpan] BY ReportedPresses
  <2>4. KeepsTheRules(s, holds) BY <2>3, JudgeKeepsTheRules
  <2> QED BY <2>1, <2>2, <2>4 DEF JudgeIsFair, KeepsTheRules
<1> QED BY <1>1, <1>2, <1>3, PTL DEF FishSpec

-----------------------------------------------------------------------------
(* What the units are worth: the formula of comfort.py, on fractions. *)

\* There are finitely many wares.
LEMMA WaresFinite == IsFiniteSet(Wares) /\ Cardinality(Wares) \in Nat
BY ComfortAssumption, FS_CardinalityType

LEMMA Times == ASSUME NEW a \in Nat, NEW b \in Nat PROVE a * b \in Nat OBVIOUS

\* What Power computes.
LEMMA PowerIs ==
  ASSUME NEW b \in Nat
  PROVE  Power(b, 0) = 1 /\ \A n \in Nat : Power(b, n) \in Nat /\ Power(b, n + 1) = b * Power(b, n)
<1> DEFINE G == [x \in Nat |-> b * x]
<1>1. G \in [Nat -> Nat] BY Times
<1>2. PICK f \in [Nat -> Nat] : f[0] = 1 /\ \A n \in Nat : f[n + 1] = G[f[n]]
  <2> DEFINE T == Nat
  <2>1. G \in [T -> T] BY <1>1
  <2>3. PICK one \in T : one = 1 OBVIOUS
  <2> HIDE DEF G, T
  <2>2. \E f \in [Nat -> T] : f[0] = one /\ \A n \in Nat : f[n + 1] = G[f[n]] BY <2>1, Iteration
  <2> QED BY <2>2, <2>3 DEF T
<1>3. \A n \in Nat : f[n + 1] = b * f[n] BY <1>2
<1> HIDE DEF G
<1>4. ASSUME NEW n \in Nat PROVE Power(b, n) = f[n]
  <2> DEFINE Made(g) == g = [i \in 0 .. n |-> IF i = 0 THEN 1 ELSE b * g[i - 1]]
             power == CHOOSE g : Made(g)
  <2>1. Made([i \in 0 .. n |-> f[i]])
    <3>1. PICK g : g = [i \in 0 .. n |-> f[i]] OBVIOUS
    <3>2. ASSUME NEW i \in 0 .. n PROVE g[i] = IF i = 0 THEN 1 ELSE b * g[i - 1]
      <4>1. CASE i = 0 BY <1>2, <3>1, <4>1
      <4>2. CASE i # 0
        <5>1. i - 1 \in 0 .. n /\ i - 1 \in Nat /\ (i - 1) + 1 = i BY <4>2
        <5>2. g[i - 1] = f[i - 1] /\ g[i] = f[i] BY <3>1, <5>1
        <5>3. f[(i - 1) + 1] = b * f[i - 1] BY <1>3, <5>1
        <5> QED BY <4>2, <5>1, <5>2, <5>3
      <4> QED BY <4>1, <4>2
    <3> QED BY <3>1, <3>2
  <2>2. PICK g : g = power OBVIOUS
  <2>3. Made(g) 
    <3> HIDE DEF Made
    <3> QED BY <2>1, <2>2
  <2>4. \A i \in 0 .. n : g[i] = IF i = 0 THEN 1 ELSE b * g[i - 1] BY <2>3
  <2> DEFINE H == {i \in Nat : i <= n => g[i] = f[i]}
  <2>5. 0 \in H BY <1>2, <2>4
  <2>6. ASSUME NEW i \in Nat, i \in H PROVE i + 1 \in H
    <3> SUFFICES ASSUME i + 1 <= n PROVE g[i + 1] = f[i + 1] OBVIOUS
    <3>1. i + 1 \in 0 .. n /\ i + 1 # 0 /\ (i + 1) - 1 = i /\ g[i] = f[i] BY <2>6
    <3>2. g[i + 1] = b * g[(i + 1) - 1] BY <2>4, <3>1
    <3> QED BY <1>3, <3>1, <3>2
  <2> HIDE DEF H
  <2>7. n \in H BY <2>5, <2>6, NatInduct
  <2>8. Power(b, n) = power[n] BY DEF Power
  <2> QED BY <2>2, <2>7, <2>8 DEF H
<1> QED BY <1>2, <1>3, <1>4

\* A power is zero only of zero.
LEMMA PowerIsPositive ==
  ASSUME NEW b \in Nat \ {0}
  PROVE  \A n \in Nat : Power(b, n) \in Nat \ {0}
<1> DEFINE H == {n \in Nat : Power(b, n) \in Nat \ {0}}
<1>1. 0 \in H BY PowerIs
<1>2. ASSUME NEW n \in Nat, n \in H PROVE n + 1 \in H
  <2>1. PICK p \in Nat \ {0} : p = Power(b, n) BY <1>2
  <2>2. b * p \in Nat \ {0} OBVIOUS
  <2> QED BY <2>1, <2>2, PowerIs
<1> HIDE DEF H
<1> QED BY <1>1, <1>2, NatInduct DEF H

\* round() of a number that is not negative is not negative; it is the same of a
\* fraction with another denominator; and it grows with the number.
LEMMA RoundIs ==
  ASSUME NEW n \in Int, NEW d \in Nat \ {0}
  PROVE  Round(n, d) \in Int /\ (n >= 0 => Round(n, d) >= 0)
<1>1. n \div d \in Int /\ n % d \in Int /\ (n >= 0 => n \div d >= 0) OBVIOUS
<1> QED BY <1>1 DEF Round

LEMMA Division ==
  ASSUME NEW n \in Int, NEW d \in Nat \ {0}, NEW q \in Int, NEW r \in 0 .. d - 1, n = d * q + r
  PROVE  n \div d = q /\ n % d = r
<1>1. n = d * (n \div d) + (n % d) /\ n \div d \in Int /\ n % d \in 0 .. d - 1 OBVIOUS
<1>2. PICK p \in Int : p = n \div d BY <1>1
<1>3. d * (p - q) = r - (n % d) /\ r - (n % d) > 0 - d /\ r - (n % d) < d 
  <2>1. d * (p - q) = d * p - d * q OBVIOUS
  <2> QED BY <1>1, <1>2, <2>1
<1>4. p - q = 0
  <2>1. ASSUME p - q >= 1 PROVE FALSE
    <3>1. d * (p - q) >= d BY <2>1
    <3> QED BY <1>3, <3>1
  <2>2. ASSUME p - q <= 0 - 1 PROVE FALSE
    <3>1. d * (p - q) <= d * (0 - 1) BY <2>2
    <3> QED BY <1>3, <3>1
  <2> QED BY <2>1, <2>2
<1> QED BY <1>1, <1>2, <1>3, <1>4

LEMMA RoundScales ==
  ASSUME NEW n \in Int, NEW d \in Nat \ {0}, NEW c \in Nat \ {0}
  PROVE  c * d \in Nat \ {0} /\ Round(c * n, c * d) = Round(n, d)
<1>1. PICK q \in Int : q = n \div d OBVIOUS
<1>2. PICK r \in 0 .. d - 1 : r = n % d OBVIOUS
<1>3. n = d * q + r BY <1>1, <1>2
<1>4. c * d \in Nat \ {0} OBVIOUS
<1>5. c * n = (c * d) * q + c * r
  <2>1. c * (d * q + r) = c * (d * q) + c * r OBVIOUS
  <2>2. c * (d * q) = (c * d) * q OBVIOUS
  <2> QED BY <1>3, <2>1, <2>2
<1>6. c * r \in 0 .. (c * d) - 1
  <2>1. c * r >= 0 /\ c * r \in Int OBVIOUS
  <2>2. c * (d - r) >= c OBVIOUS
  <2>3. c * (d - r) = c * d - c * r OBVIOUS
  <2> QED BY <2>1, <2>2, <2>3, <1>4
<1>7. (c * n) \div (c * d) = q /\ (c * n) % (c * d) = c * r
  <2>1. PICK m \in Int : m = c * n OBVIOUS
  <2>2. PICK e \in Nat \ {0} : e = c * d BY <1>4
  <2>3. PICK s \in 0 .. e - 1 : s = c * r BY <1>6, <2>2
  <2>4. m = e * q + s BY <1>5, <2>1, <2>2, <2>3
  <2>5. m \div e = q /\ m % e = s BY <2>4, Division
  <2> QED BY <2>1, <2>2, <2>3, <2>5
<1>8. (2 * (c * r) > c * d <=> 2 * r > d) /\ (2 * (c * r) = c * d <=> 2 * r = d)
  <2>1. 2 * (c * r) - c * d = c * (2 * r - d) OBVIOUS
  <2> DEFINE tt == 2 * r - d
  <2>5. tt \in Int OBVIOUS
  <2>2. PICK t \in Int : t = 2 * r - d BY <2>5
  <2>3. (c * t > 0 <=> t > 0) /\ (c * t = 0 <=> t = 0) OBVIOUS
  <2>4. c * r \in Int /\ c * d \in Int OBVIOUS
  <2> QED BY <2>1, <2>2, <2>3, <2>4
<1> QED BY <1>1, <1>2, <1>4, <1>7, <1>8 DEF Round

LEMMA RoundGrows ==
  ASSUME NEW m \in Int, NEW n \in Int, NEW d \in Nat \ {0}, m <= n
  PROVE  Round(m, d) <= Round(n, d)
<1>1. PICK p \in Int : p = m \div d OBVIOUS
<1>0. PICK q \in Int : q = n \div d OBVIOUS
<1>2. PICK r \in 0 .. d - 1 : r = m % d OBVIOUS
<1>9. PICK s \in 0 .. d - 1 : s = n % d OBVIOUS
<1>3. m = d * p + r /\ n = d * q + s BY <1>0, <1>1, <1>2, <1>9
<1>4. p < q \/ (p = q /\ r <= s)
  <2>1. CASE p < q BY <1>0, <1>9, <2>1
  <2>2. CASE p = q
    <3>1. d * p = d * q BY <1>0, <1>9, <2>2
    <3> QED BY <1>3, <1>0, <1>9, <2>2, <3>1
  <2>3. CASE p > q
    <3>1. d * (p - q) >= d BY <1>0, <2>3
    <3>2. d * (p - q) = d * p - d * q BY <1>0
    <3>3. d * p \in Int /\ d * q \in Int BY <1>0
    <3> QED BY <1>3, <1>9, <3>1, <3>2, <3>3
  <2> QED BY <1>0, <2>1, <2>2, <2>3
<1>5. Round(m, d) \in {p, p + 1} /\ Round(n, d) \in {q, q + 1} BY <1>0, <1>1, <1>2, <1>9 DEF Round
<1>6. CASE p < q BY <1>0, <1>5, <1>6
<1>7. CASE p = q /\ r <= s BY <1>0, <1>1, <1>2, <1>7, <1>9 DEF Round
<1> QED BY <1>4, <1>6, <1>7

-----------------------------------------------------------------------------
\* The rows of a unit.
UnitRows == Seq([item : Wares, by : {"player", "system"}])

LEMMA RowsAre ==
  ASSUME NEW rows \in UnitRows
  PROVE  /\ Len(rows) \in Nat /\ DOMAIN rows = 1 .. Len(rows)
         /\ \A i \in DOMAIN rows : rows[i].item \in Wares /\ rows[i].by \in {"player", "system"}
<1> DEFINE R == [item : Wares, by : {"player", "system"}]
<1>1. rows \in Seq(R) BY DEF UnitRows
<1>2. \A r \in R : r.item \in Wares /\ r.by \in {"player", "system"} OBVIOUS
<1> HIDE DEF R
<1>3. Len(rows) \in Nat /\ DOMAIN rows = 1 .. Len(rows) /\ \A i \in DOMAIN rows : rows[i] \in R BY <1>1
<1> QED BY <1>2, <1>3

\* Some rows of a unit are finitely many.
LEMMA SomeRows ==
  ASSUME NEW rows \in UnitRows, NEW some \in SUBSET DOMAIN rows
  PROVE  IsFiniteSet(some) /\ Cardinality(some) \in 0 .. Len(rows)
<1>1. PICK n \in Nat : n = Len(rows) BY RowsAre
<1>2. some \in SUBSET (1..n) BY <1>1, RowsAre
<1>3. IsFiniteSet(1..n) /\ Cardinality(1..n) = n
  <2>1. IsFiniteSet(1..n) /\ Cardinality(1..n) = (IF 1 > n THEN 0 ELSE (n - 1) + 1) BY FS_Interval
  <2> QED BY <2>1
<1>4. IsFiniteSet(some) /\ Cardinality(some) <= n BY <1>2, <1>3, FS_Subset
<1>5. Cardinality(some) \in Nat BY <1>4, FS_CardinalityType
<1> QED BY <1>1, <1>4, <1>5

\* The copies of row i before it.
Copies(rows, i) == {j \in RowsThat(rows, Counts) : j < i /\ rows[j].item = rows[i].item}

LEMMA CopiesAre ==
  ASSUME NEW rows \in UnitRows, NEW i \in DOMAIN rows
  PROVE  /\ Copies(rows, i) \subseteq DOMAIN rows /\ IsFiniteSet(Copies(rows, i))
         /\ Cardinality(Copies(rows, i)) \in 0 .. Len(rows) - 1
<1>1. Copies(rows, i) \subseteq (DOMAIN rows) \ {i} BY RowsAre DEF Copies, RowsThat
<1>2. PICK some : some = Copies(rows, i) OBVIOUS
<1>3. some \in SUBSET DOMAIN rows /\ i \notin some BY <1>1, <1>2
<1>4. IsFiniteSet(some) /\ Cardinality(some) \in 0 .. Len(rows) /\ IsFiniteSet(some \cup {i}) /\ Cardinality(some \cup {i}) = Cardinality(some) + 1
  <2>1. IsFiniteSet(some) /\ Cardinality(some) \in 0 .. Len(rows) BY <1>3, SomeRows
  <2> QED BY <1>3, <2>1, FS_AddElement
<1>5. Cardinality(some \cup {i}) \in 0 .. Len(rows)
  <2>1. PICK more : more = some \cup {i} OBVIOUS
  <2>2. more \in SUBSET DOMAIN rows BY <1>3, <2>1
  <2>3. Cardinality(more) \in 0 .. Len(rows) BY <2>2, SomeRows
  <2> QED BY <2>1, <2>3
<1>6. Len(rows) \in Nat BY RowsAre
<1>7. Cardinality(some) \in 0 .. Len(rows) - 1
  <2>1. PICK n \in Nat : n = Len(rows) BY <1>6
  <2> QED BY <1>4, <1>5, <2>1
<1> QED BY <1>2, <1>3, <1>4, <1>7

\* The worth of a row is a number.
LEMMA WorthIs ==
  ASSUME NEW rows \in UnitRows, NEW i \in DOMAIN rows
  PROVE  /\ Worth(rows, i) \in Nat
         /\ Worth(rows, i) = WarePrice[rows[i].item] * Power(DecayNum, Cardinality(Copies(rows, i))) * Power(DecayDen, Len(rows) - Cardinality(Copies(rows, i)))
<1>1. PICK copies : copies = Cardinality(Copies(rows, i)) OBVIOUS
<1>2. copies \in Nat /\ Len(rows) - copies \in Nat
  <2>1. copies \in 0 .. Len(rows) - 1 /\ Len(rows) \in Nat BY <1>1, CopiesAre, RowsAre
  <2> QED BY <2>1
<1>3. Worth(rows, i) = WarePrice[rows[i].item] * Power(DecayNum, copies) * Power(DecayDen, Len(rows) - copies) BY <1>1 DEF Worth, Copies
<1>4. WarePrice[rows[i].item] \in Nat
  <2>1. rows[i].item \in Wares BY RowsAre
  <2> QED BY <2>1, ComfortAssumption
<1>5. Power(DecayNum, copies) \in Nat /\ Power(DecayDen, Len(rows) - copies) \in Nat
  <2>1. DecayNum \in Nat /\ DecayDen \in Nat BY ComfortAssumption
  <2> QED BY <1>2, <2>1, PowerIs
<1>6. WarePrice[rows[i].item] * Power(DecayNum, copies) \in Nat BY <1>4, <1>5, Times
<1>7. (WarePrice[rows[i].item] * Power(DecayNum, copies)) * Power(DecayDen, Len(rows) - copies) \in Nat BY <1>5, <1>6, Times
<1> QED BY <1>1, <1>3, <1>7

\* So is that of some rows.
LEMMA SumWorthIs ==
  ASSUME NEW rows \in UnitRows, NEW some \in SUBSET DOMAIN rows
  PROVE  SumWorth(rows, some) \in Nat
<1>1. [i \in some |-> Worth(rows, i)] \in [some -> Nat] BY WorthIs
<1>2. IsFiniteSet(some) BY SomeRows
<1> QED BY <1>1, <1>2, SumOfNaturals DEF SumWorth

-----------------------------------------------------------------------------
\* Where row j of what is left stood before row i was taken away.
Up(i, j) == IF j < i THEN j ELSE j + 1

LEMMA WithoutARow ==
  ASSUME NEW rows \in UnitRows, NEW i \in DOMAIN rows, NEW rest, rest = RemoveAt(rows, i)
  PROVE  /\ rest \in UnitRows /\ Len(rows) \in Nat /\ Len(rest) \in Nat /\ Len(rows) = Len(rest) + 1
         /\ DOMAIN rest = 1 .. Len(rest)
         /\ \A j \in DOMAIN rest : Up(i, j) \in (DOMAIN rows) \ {i} /\ rest[j] = rows[Up(i, j)]
         /\ \A j \in (DOMAIN rows) \ {i} : \E l \in DOMAIN rest : Up(i, l) = j
         /\ \A j, l \in DOMAIN rest : (Up(i, j) < Up(i, l) <=> j < l) /\ (Up(i, j) = Up(i, l) => j = l)
<1> DEFINE R == [item : Wares, by : {"player", "system"}]
<1>0. rows \in Seq(R) BY DEF UnitRows
<1> HIDE DEF R
<1>1. PICK n \in Nat : n = Len(rows) BY <1>0
<1>2. i \in 1 .. n /\ DOMAIN rows = 1 .. n BY <1>0, <1>1
<1> DEFINE a == SubSeq(rows, 1, i - 1)
           b == SubSeq(rows, i + 1, n)
<1>3. a \in Seq(R) /\ Len(a) = i - 1 /\ \A j \in 1 .. i - 1 : a[j] = rows[j] BY <1>0, <1>1, <1>2
<1>4. b \in Seq(R) /\ Len(b) = n - i /\ \A j \in 1 .. n - i : b[j] = rows[i + j]
  <2>1. b \in Seq(R) /\ Len(b) = n - i BY <1>0, <1>1, <1>2
  <2>2. ASSUME NEW j \in 1 .. n - i PROVE b[j] = rows[i + j]
    <3>1. b[j] = rows[(i + 1) + j - 1] BY <1>0, <1>1, <1>2
    <3>2. (i + 1) + j - 1 = i + j BY <1>2
    <3> QED BY <3>1, <3>2
  <2> QED BY <2>1, <2>2
<1>5. rest = a \o b BY <1>1 DEF RemoveAt
<1> HIDE DEF a, b
<1>6. rest \in Seq(R) /\ Len(rest) = n - 1 /\ DOMAIN rest = 1 .. n - 1
  <2>1. rest \in Seq(R) /\ Len(rest) = Len(a) + Len(b)
    <3>1. a \in Seq(R) /\ b \in Seq(R) BY <1>3, <1>4
    <3> QED BY <1>5, <3>1
  <2>2. Len(a) + Len(b) = n - 1 BY <1>2, <1>3, <1>4
  <2> QED BY <2>1, <2>2
<1>7. ASSUME NEW j \in 1 .. n - 1 PROVE rest[j] = rows[Up(i, j)]
  <2>1. CASE j < i
    <3>1. j \in 1 .. i - 1 BY <1>2, <2>1
    <3>2. rest[j] = a[j] BY <1>3, <1>4, <1>5, <3>1
    <3> QED BY <1>3, <2>1, <3>1, <3>2 DEF Up
  <2>2. CASE ~ (j < i)
    <3>1. j - (i - 1) \in 1 .. n - i /\ i + (j - (i - 1)) = j + 1 /\ ~ (j <= i - 1) BY <1>2, <2>2
    <3>2. rest[j] = b[j - (i - 1)]
      <4>1. j \in 1 .. Len(a) + Len(b) /\ ~ (j <= Len(a)) BY <1>2, <1>3, <1>4, <3>1
      <4>2. rest[j] = b[j - Len(a)] BY <1>3, <1>4, <1>5, <4>1
      <4> QED BY <1>3, <4>2
    <3> QED BY <1>4, <2>2, <3>1, <3>2 DEF Up
  <2> QED BY <2>1, <2>2
<1>8. \A j \in 1 .. n - 1 : Up(i, j) \in (1 .. n) \ {i} BY <1>2 DEF Up
<1>9. ASSUME NEW j \in (1 .. n) \ {i} PROVE \E l \in 1 .. n - 1 : Up(i, l) = j
  <2>1. CASE j < i
    <3>1. j \in 1 .. n - 1 BY <1>2, <2>1
    <3> QED BY <2>1, <3>1 DEF Up
  <2>2. CASE ~ (j < i)
    <3>1. j - 1 \in 1 .. n - 1 /\ ~ (j - 1 < i) /\ (j - 1) + 1 = j BY <1>2, <2>2
    <3> QED BY <3>1 DEF Up
  <2> QED BY <2>1, <2>2
<1>10. \A j, l \in 1 .. n - 1 : (Up(i, j) < Up(i, l) <=> j < l) /\ (Up(i, j) = Up(i, l) => j = l) BY <1>2 DEF Up
<1>11. rest \in UnitRows BY <1>6 DEF R, UnitRows
<1>12. Len(rest) \in Nat /\ Len(rows) = Len(rest) + 1 /\ n - 1 = Len(rest) BY <1>1, <1>2, <1>6
<1>13. DOMAIN rest = 1 .. n - 1 /\ DOMAIN rows = 1 .. n BY <1>2, <1>6
<1>14. \A j \in DOMAIN rest : Up(i, j) \in (DOMAIN rows) \ {i} /\ rest[j] = rows[Up(i, j)] BY <1>7, <1>8, <1>13
<1>15. \A j \in (DOMAIN rows) \ {i} : \E l \in DOMAIN rest : Up(i, l) = j BY <1>9, <1>13
<1>16. \A j, l \in DOMAIN rest : (Up(i, j) < Up(i, l) <=> j < l) /\ (Up(i, j) = Up(i, l) => j = l) BY <1>10, <1>13
<1>17. DOMAIN rest = 1 .. Len(rest) /\ Len(rows) \in Nat BY <1>1, <1>12, <1>13
<1> QED BY <1>11, <1>12, <1>14, <1>15, <1>16, <1>17

\* Rows that are left, and the same rows before.
LEMMA AsManyRows ==
  ASSUME NEW rows \in UnitRows, NEW i \in DOMAIN rows, NEW rest, rest = RemoveAt(rows, i),
         NEW now \in SUBSET DOMAIN rest, NEW was \in SUBSET ((DOMAIN rows) \ {i}), \A j \in DOMAIN rest : j \in now <=> Up(i, j) \in was
  PROVE  Cardinality(now) = Cardinality(was) /\ IsFiniteSet(now)
<1>1. PICK h : h = [j \in now |-> Up(i, j)] OBVIOUS
<1>2. h \in [now -> was] BY <1>1
<1>3. \A j, l \in now : h[j] = h[l] => j = l BY <1>1, WithoutARow
<1>4. \A y \in was : \E x \in now : h[x] = y
  <2> SUFFICES ASSUME NEW y \in was PROVE \E x \in now : h[x] = y OBVIOUS
  <2>1. PICK x \in DOMAIN rest : Up(i, x) = y BY WithoutARow
  <2> QED BY <1>1, <2>1
<1>5. IsFiniteSet(now)
  <2>1. rest \in UnitRows BY WithoutARow
  <2> QED BY <2>1, SomeRows
<1>6. h \in Bijection(now, was) BY <1>2, <1>3, <1>4 DEF Bijection, Injection, Surjection, IsInjective
<1>7. ExistsBijection(now, was) BY <1>6 DEF ExistsBijection
<1> QED BY <1>5, <1>7, FS_Bijection

\* A row that is worth nothing is no copy of another.
LEMMA WorthWithout ==
  ASSUME NEW rows \in UnitRows, NEW i \in DOMAIN rows, NEW rest, rest = RemoveAt(rows, i), ~ Counts(rows[i]), NEW j \in DOMAIN rest
  PROVE  Worth(rows, Up(i, j)) = DecayDen * Worth(rest, j)
<1>1. /\ rest \in UnitRows /\ Len(rows) \in Nat /\ Len(rest) \in Nat /\ Len(rows) = Len(rest) + 1
      /\ Up(i, j) \in (DOMAIN rows) \ {i} /\ rest[j] = rows[Up(i, j)]
      /\ \A l \in DOMAIN rest : rest[l] = rows[Up(i, l)] /\ Up(i, l) \in (DOMAIN rows) \ {i} /\ (Up(i, l) < Up(i, j) <=> l < j)
  <2>1. \A l \in DOMAIN rest : Up(i, l) \in (DOMAIN rows) \ {i} /\ rest[l] = rows[Up(i, l)]
    BY WithoutARow
  <2>3. ASSUME NEW l \in DOMAIN rest PROVE Up(i, l) < Up(i, j) <=> l < j
    <3>1. DOMAIN rest = 1 .. Len(rest) /\ Len(rest) \in Nat /\ DOMAIN rows = 1 .. Len(rows) /\ Len(rows) \in Nat BY WithoutARow, RowsAre
    <3> QED BY <3>1 DEF Up
  <2>2. rest \in UnitRows /\ Len(rows) \in Nat /\ Len(rest) \in Nat /\ Len(rows) = Len(rest) + 1 BY WithoutARow
  <2> QED BY <2>1, <2>2, <2>3
<1>2. PICK now : now = Copies(rest, j) OBVIOUS
<1>3. PICK was : was = Copies(rows, Up(i, j)) OBVIOUS
<1>4. now \in SUBSET DOMAIN rest BY <1>2 DEF Copies, RowsThat
<1>5. was \in SUBSET ((DOMAIN rows) \ {i}) BY <1>3 DEF Copies, RowsThat
<1>6. \A l \in DOMAIN rest : l \in now <=> Up(i, l) \in was BY <1>1, <1>2, <1>3 DEF Copies, RowsThat
<1>7. Cardinality(now) = Cardinality(was) BY <1>4, <1>5, <1>6, AsManyRows
<1>8. PICK c : c = Cardinality(now) OBVIOUS
<1>9. c \in Nat /\ Len(rest) - c \in Nat /\ Len(rows) - c = (Len(rest) - c) + 1
  <2>1. c \in 0 .. Len(rest) - 1 BY <1>1, <1>2, <1>8, CopiesAre
  <2> QED BY <1>1, <2>1
<1>10. PICK price \in Nat : price = WarePrice[rest[j].item]
  <2>1. rest[j].item \in Wares BY <1>1, RowsAre
  <2> QED BY <2>1, ComfortAssumption
<1>11. DecayNum \in Nat /\ DecayDen \in Nat BY ComfortAssumption
<1>12. PICK p \in Nat : p = Power(DecayNum, c) BY <1>9, <1>11, PowerIs
<1>13. PICK d \in Nat : d = Power(DecayDen, Len(rest) - c) BY <1>9, <1>11, PowerIs
<1>14. Power(DecayDen, Len(rows) - c) = DecayDen * d
  <2>1. PICK m \in Nat : m = Len(rest) - c BY <1>9
  <2>2. Power(DecayDen, m + 1) = DecayDen * Power(DecayDen, m) BY <1>11, PowerIs
  <2>3. Len(rows) - c = m + 1 /\ d = Power(DecayDen, m) BY <1>9, <1>13, <2>1
  <2> QED BY <2>2, <2>3
<1>15. Worth(rest, j) = price * p * d BY <1>1, <1>2, <1>8, <1>10, <1>12, <1>13, WorthIs
<1>16. Worth(rows, Up(i, j)) = price * p * (DecayDen * d) BY <1>1, <1>3, <1>7, <1>8, <1>10, <1>12, <1>14, WorthIs
<1>17. PICK e \in Nat : e = price * p BY Times
<1>18. e * (DecayDen * d) = DecayDen * (e * d) BY <1>11
<1> QED BY <1>15, <1>16, <1>17, <1>18

\* What rows are worth without a row that is worth nothing, and in the finer unit with it.
LEMMA SumWithout ==
  ASSUME NEW rows \in UnitRows, NEW i \in DOMAIN rows, NEW rest, rest = RemoveAt(rows, i), ~ Counts(rows[i]),
         NEW now \in SUBSET DOMAIN rest, NEW was \in SUBSET ((DOMAIN rows) \ {i}), \A j \in DOMAIN rest : j \in now <=> Up(i, j) \in was
  PROVE  SumWorth(rows, was) = DecayDen * SumWorth(rest, now)
<1>0. rest \in UnitRows BY WithoutARow
<1>1. PICK h : h = [j \in now |-> Up(i, j)] OBVIOUS
<1>2. h \in [now -> was] BY <1>1
<1>3. \A j, l \in now : h[j] = h[l] => j = l BY <1>1, WithoutARow
<1>4. \A y \in was : \E x \in now : h[x] = y
  <2> SUFFICES ASSUME NEW y \in was PROVE \E x \in now : h[x] = y OBVIOUS
  <2>1. PICK x \in DOMAIN rest : Up(i, x) = y BY WithoutARow
  <2> QED BY <1>1, <2>1
<1>5. IsFiniteSet(now) BY <1>0, SomeRows
<1>6. PICK f : f = [j \in now |-> Worth(rest, j)] OBVIOUS
<1>7. PICK g : g = [j \in was |-> Worth(rows, j)] OBVIOUS
<1>8. f \in [now -> Int]
  <2>1. \A j \in now : Worth(rest, j) \in Int
    <3>1. \A j \in DOMAIN rest : Worth(rest, j) \in Nat BY <1>0, WorthIs
    <3> QED BY <3>1
  <2> QED BY <1>6, <2>1
<1>9. g \in [was -> Int]
  <2>1. \A j \in was : Worth(rows, j) \in Int
    <3>1. \A j \in DOMAIN rows : Worth(rows, j) \in Nat BY WorthIs
    <3> QED BY <3>1
  <2> QED BY <1>7, <2>1
<1>10. \A x \in now : g[h[x]] = DecayDen * f[x]
  <2> SUFFICES ASSUME NEW x \in now PROVE g[h[x]] = DecayDen * f[x] OBVIOUS
  <2>1. h[x] = Up(i, x) /\ h[x] \in was BY <1>1, <1>2
  <2>2. g[h[x]] = Worth(rows, Up(i, x)) BY <1>7, <2>1
  <2>3. f[x] = Worth(rest, x) BY <1>6
  <2>4. Worth(rows, Up(i, x)) = DecayDen * Worth(rest, x) BY WorthWithout
  <2> QED BY <2>2, <2>3, <2>4
<1>11. PICK c \in Int : c = DecayDen BY ComfortAssumption
<1>12. \A x \in now : g[h[x]] = c * f[x] BY <1>10, <1>11
<1>13. \A x, y \in now : h[x] = h[y] => x = y BY <1>3
<1>14. Renames(h, now, was) /\ Multiplies(h, now, c, f, g) BY <1>2, <1>4, <1>12, <1>13 DEF Renames, Multiplies
<1>15. SumFunction(g) = c * SumFunction(f) BY <1>5, <1>8, <1>9, <1>14, SumRenamed
<1> QED BY <1>6, <1>7, <1>11, <1>15 DEF SumWorth

\* The rows that count, all or of a set, are the same rows.
LEMMA CountingRows ==
  ASSUME NEW rows \in UnitRows, NEW i \in DOMAIN rows, NEW rest, rest = RemoveAt(rows, i), ~ Counts(rows[i])
  PROVE  /\ RowsThat(rest, Counts) \in SUBSET DOMAIN rest /\ RowsThat(rows, Counts) \in SUBSET ((DOMAIN rows) \ {i})
         /\ \A j \in DOMAIN rest : j \in RowsThat(rest, Counts) <=> Up(i, j) \in RowsThat(rows, Counts)
         /\ \A s : /\ SetRows(rest, s) \in SUBSET DOMAIN rest /\ SetRows(rows, s) \in SUBSET ((DOMAIN rows) \ {i})
                   /\ \A j \in DOMAIN rest : j \in SetRows(rest, s) <=> Up(i, j) \in SetRows(rows, s)
<1>1. \A j \in DOMAIN rest : Up(i, j) \in (DOMAIN rows) \ {i} /\ rest[j] = rows[Up(i, j)] BY WithoutARow
<1>2. RowsThat(rest, Counts) \in SUBSET DOMAIN rest BY DEF RowsThat
<1>3. RowsThat(rows, Counts) \in SUBSET ((DOMAIN rows) \ {i}) BY DEF RowsThat
<1>4. \A j \in DOMAIN rest : j \in RowsThat(rest, Counts) <=> Up(i, j) \in RowsThat(rows, Counts) BY <1>1 DEF RowsThat
<1>5. ASSUME NEW s, NEW j \in DOMAIN rest PROVE j \in SetRows(rest, s) <=> Up(i, j) \in SetRows(rows, s) BY <1>1, <1>4 DEF SetRows
<1>6. \A s : SetRows(rest, s) \in SUBSET DOMAIN rest /\ SetRows(rows, s) \in SUBSET ((DOMAIN rows) \ {i}) BY <1>2, <1>3 DEF SetRows
<1> QED BY <1>2, <1>3, <1>4, <1>5, <1>6

\* The worths of a unit: of all that counts, and of the sets that are big enough.
AllWorth(rows) == SumWorth(rows, RowsThat(rows, Counts))
BigSets(rows) == {s \in Sets : Cardinality(SetRows(rows, s)) >= SetMinItems}
SetWorths(rows) == {SumWorth(rows, SetRows(rows, s)) : s \in BigSets(rows)}

LEMMA SetsAreParts ==
  ASSUME NEW rows \in UnitRows
  PROVE  /\ AllWorth(rows) \in Nat
         /\ \A s : SumWorth(rows, SetRows(rows, s)) \in Nat /\ SumWorth(rows, SetRows(rows, s)) <= AllWorth(rows)
         /\ \A s, t : s # t => SumWorth(rows, SetRows(rows, s)) + SumWorth(rows, SetRows(rows, t)) <= AllWorth(rows)
<1>1. PICK all : all = RowsThat(rows, Counts) OBVIOUS
<1>2. all \in SUBSET DOMAIN rows /\ \A s : SetRows(rows, s) \in SUBSET all BY <1>1 DEF RowsThat, SetRows
<1>3. AllWorth(rows) = SumWorth(rows, all) /\ AllWorth(rows) \in Nat BY <1>1, <1>2, SumWorthIs DEF AllWorth
<1>4. \A j \in DOMAIN rows : Worth(rows, j) \in Nat BY WorthIs
<1>5. IsFiniteSet(all) BY <1>2, SomeRows
<1>6. PICK g : g = [j \in all |-> Worth(rows, j)] OBVIOUS
<1>7. g \in [all -> Nat] /\ \A j \in all : g[j] = Worth(rows, j) BY <1>2, <1>4, <1>6
<1>8. ASSUME NEW s PROVE SumWorth(rows, SetRows(rows, s)) \in Nat /\ SumWorth(rows, SetRows(rows, s)) <= AllWorth(rows)
  <2>1. PICK some : some = SetRows(rows, s) OBVIOUS
  <2>2. some \in SUBSET all /\ some \in SUBSET DOMAIN rows BY <1>2, <2>1
  <2>3. PICK f : f = [j \in some |-> Worth(rows, j)] OBVIOUS
  <2>4. f \in [some -> Nat] /\ \A j \in some : g[j] = f[j] BY <1>4, <1>7, <2>2, <2>3
  <2>5. SumFunction(f) <= SumFunction(g) BY <1>5, <1>7, <2>2, <2>4, SumOfPart
  <2>6. SumWorth(rows, some) \in Nat BY <2>2, SumWorthIs
  <2> QED BY <1>3, <1>6, <2>1, <2>3, <2>5, <2>6 DEF SumWorth
<1>9. ASSUME NEW s, NEW t, s # t PROVE SumWorth(rows, SetRows(rows, s)) + SumWorth(rows, SetRows(rows, t)) <= AllWorth(rows)
  <2>1. PICK a : a = SetRows(rows, s) OBVIOUS
  <2>2. PICK b : b = SetRows(rows, t) OBVIOUS
  <2>3. a \in SUBSET all /\ b \in SUBSET all /\ a \cap b = {}
    <3>1. a \in SUBSET all BY <1>2, <2>1
    <3>3. b \in SUBSET all BY <1>2, <2>2
    <3>2. a \cap b = {} BY <1>9, <2>1, <2>2 DEF SetRows
    <3> QED BY <3>1, <3>2, <3>3
  <2>4. PICK f : f = [j \in a |-> Worth(rows, j)] OBVIOUS
  <2>5. PICK h : h = [j \in b |-> Worth(rows, j)] OBVIOUS
  <2>6. f \in [a -> Nat] /\ \A j \in a : f[j] = g[j] BY <1>2, <1>4, <1>7, <2>3, <2>4
  <2>7. h \in [b -> Nat] /\ \A j \in b : h[j] = g[j] BY <1>2, <1>4, <1>7, <2>3, <2>5
  <2>8. SumFunction(f) + SumFunction(h) <= SumFunction(g) BY <1>5, <1>7, <2>3, <2>6, <2>7, SumOfTwoParts
  <2> QED BY <1>3, <1>6, <2>1, <2>2, <2>4, <2>5, <2>8 DEF SumWorth
<1> QED BY <1>3, <1>8, <1>9

\* The multiplier of a set is a fraction.
LEMMA MultIs ==
  ASSUME NEW f \in Nat, NEW worths \in SUBSET Nat, \A w \in worths : w <= f
  PROVE  Mult(f, worths) = <<Mult(f, worths)[1], Mult(f, worths)[2]>>
         /\ Mult(f, worths)[1] \in Nat /\ Mult(f, worths)[2] \in Nat \ {0}
<1> DEFINE top == {w \in worths : 2 * w > f}
           w0 == CHOOSE w \in top : TRUE
           over == 2 * w0 - f
<1>1. Mult(f, worths) = IF top = {} THEN <<1, 1>> ELSE <<BonusDen * f + BonusNum * over, BonusDen * f>> BY DEF Mult
<1>2. CASE top = {} BY <1>1, <1>2
<1>3. CASE top # {}
  <2>0. \E w : w \in top BY <1>3
  <2>1. w0 \in top BY <2>0
  <2>2. over \in Nat /\ f \in Nat \ {0}
    <3> HIDE DEF w0
    <3>1. w0 \in Nat /\ w0 <= f /\ 2 * w0 > f BY <2>1
    <3> QED BY <3>1
  <2> HIDE DEF w0, over
  <2>3. BonusDen \in Nat \ {0} /\ BonusNum \in Nat BY ComfortAssumption
  <2>4. BonusDen * f \in Nat /\ BonusNum * over \in Nat BY <2>2, <2>3, Times
  <2>5. BonusDen * f # 0 BY <2>2, <2>3
  <2>6. BonusDen * f + BonusNum * over \in Nat BY <2>4
  <2>7. Mult(f, worths) = <<BonusDen * f + BonusNum * over, BonusDen * f>> BY <1>1, <1>3
  <2> QED BY <2>4, <2>5, <2>6, <2>7
<1> QED BY <1>2, <1>3

\* It is the same fraction when everything is worth c times as much, if one set at most is more than half.
LEMMA MultScales ==
  ASSUME NEW f \in Nat, NEW worths \in SUBSET Nat, \A v, w \in worths : 2 * v > f /\ 2 * w > f => v = w,
         NEW c \in Nat \ {0}, NEW g \in Nat, g = c * f, NEW more \in SUBSET Nat,
         \A w \in worths : c * w \in more, \A v \in more : \E w \in worths : v = c * w
  PROVE  \E e \in Nat \ {0} : Mult(g, more)[1] = e * Mult(f, worths)[1] /\ Mult(g, more)[2] = e * Mult(f, worths)[2]
<1> DEFINE top == {w \in worths : 2 * w > f}
           w0 == CHOOSE w \in top : TRUE
           over == 2 * w0 - f
           highest == {v \in more : 2 * v > g}
           v0 == CHOOSE v \in highest : TRUE
           above == 2 * v0 - g
<1>1. Mult(f, worths) = IF top = {} THEN <<1, 1>> ELSE <<BonusDen * f + BonusNum * over, BonusDen * f>> BY DEF Mult
<1>2. Mult(g, more) = IF highest = {} THEN <<1, 1>> ELSE <<BonusDen * g + BonusNum * above, BonusDen * g>> BY DEF Mult
<1>3. \A w \in Nat : 2 * (c * w) > g <=> 2 * w > f
  <2> SUFFICES ASSUME NEW w \in Nat PROVE 2 * (c * w) > g <=> 2 * w > f OBVIOUS
  <2>1. 2 * (c * w) - c * f = c * (2 * w - f) OBVIOUS
  <2> DEFINE tt == 2 * w - f
  <2>2. tt \in Int OBVIOUS
  <2>3. PICK t \in Int : t = 2 * w - f BY <2>2
  <2>4. c * t > 0 <=> t > 0 OBVIOUS
  <2>5. c * w \in Int /\ c * f \in Int OBVIOUS
  <2> QED BY <2>1, <2>3, <2>4, <2>5
<1>4. CASE top = {}
  <2>1. highest = {} BY <1>3, <1>4
  <2>2. Mult(f, worths)[1] = 1 /\ Mult(f, worths)[2] = 1 /\ Mult(g, more)[1] = 1 /\ Mult(g, more)[2] = 1 BY <1>1, <1>2, <1>4, <2>1
  <2>3. 1 = 1 * Mult(f, worths)[1] /\ 1 = 1 * Mult(f, worths)[2] /\ 1 \in Nat \ {0} BY <2>2
  <2> QED BY <2>2, <2>3
<1>5. CASE top # {}
  <2>0. \E w : w \in top BY <1>5
  <2>1. w0 \in top BY <2>0
  <2>2. c * w0 \in highest
    <3> HIDE DEF w0
    <3> QED BY <1>3, <2>1
  <2>3. \E v : v \in highest BY <2>2
  <2>4. v0 \in highest BY <2>3
  <2>5. v0 = c * w0
    <3> HIDE DEF v0, w0
    <3>1. PICK w \in worths : v0 = c * w BY <2>4
    <3>2. 2 * w > f BY <1>3, <2>4, <3>1
    <3>3. w = w0 BY <2>1, <3>2
    <3> QED BY <3>1, <3>3
  <2>6. Mult(f, worths)[1] = BonusDen * f + BonusNum * over /\ Mult(f, worths)[2] = BonusDen * f BY <1>1, <1>5
  <2>7. Mult(g, more)[1] = BonusDen * g + BonusNum * above /\ Mult(g, more)[2] = BonusDen * g BY <1>2, <2>3
  <2>8. w0 \in Nat BY <2>1
  <2>9. above = c * over /\ over \in Int
    <3> HIDE DEF w0, v0
    <3>1. 2 * (c * w0) - c * f = c * (2 * w0 - f) BY <2>8
    <3> QED BY <2>5, <2>8, <3>1
  <2> HIDE DEF over, above, w0, v0, top, highest
  <2>10. BonusDen \in Nat /\ BonusNum \in Nat BY ComfortAssumption
  <2>11. BonusDen * (c * f) = c * (BonusDen * f) /\ BonusNum * (c * over) = c * (BonusNum * over) BY <2>9, <2>10
  <2>12. BonusDen * f \in Int /\ BonusNum * over \in Int BY <2>9, <2>10
  <2>13. PICK x \in Int : x = BonusDen * f BY <2>12
  <2>14. PICK y \in Int : y = BonusNum * over BY <2>12
  <2>15. c * x + c * y = c * (x + y) OBVIOUS
  <2>16. Mult(g, more)[1] = c * Mult(f, worths)[1] BY <2>6, <2>7, <2>9, <2>11, <2>13, <2>14, <2>15
  <2>17. Mult(g, more)[2] = c * Mult(f, worths)[2] BY <2>6, <2>7, <2>11
  <2> QED BY <2>16, <2>17
<1> QED BY <1>4, <1>5

\* The multiplier of a unit.
LEMMA SetMultIs ==
  ASSUME NEW rows \in UnitRows
  PROVE  /\ SetMult(rows) = Mult(AllWorth(rows), SetWorths(rows)) /\ SetWorths(rows) \in SUBSET Nat
         /\ SetMult(rows)[1] \in Nat /\ SetMult(rows)[2] \in Nat \ {0}
<1>1. SetMult(rows) = Mult(AllWorth(rows), SetWorths(rows)) BY DEF SetMult, AllWorth, SetWorths, BigSets
<1>2. AllWorth(rows) \in Nat BY SetsAreParts
<1>3. SetWorths(rows) \in SUBSET Nat /\ \A w \in SetWorths(rows) : w <= AllWorth(rows) BY SetsAreParts DEF SetWorths
<1> QED BY <1>1, <1>2, <1>3, MultIs

\* Without a row that is worth nothing the multiplier is the same.
LEMMA SameMult ==
  ASSUME NEW rows \in UnitRows, NEW i \in DOMAIN rows, NEW rest, rest = RemoveAt(rows, i), ~ Counts(rows[i])
  PROVE  /\ AllWorth(rows) = DecayDen * AllWorth(rest)
         /\ \E e \in Nat \ {0} : SetMult(rows)[1] = e * SetMult(rest)[1] /\ SetMult(rows)[2] = e * SetMult(rest)[2]
<1>0. rest \in UnitRows BY WithoutARow
<1>1. AllWorth(rows) = DecayDen * AllWorth(rest)
  <2>1. PICK now : now = RowsThat(rest, Counts) OBVIOUS
  <2>2. PICK was : was = RowsThat(rows, Counts) OBVIOUS
  <2>3. now \in SUBSET DOMAIN rest BY <2>1, CountingRows
  <2>4. was \in SUBSET ((DOMAIN rows) \ {i}) BY <2>2, CountingRows
  <2>5. \A j \in DOMAIN rest : j \in now <=> Up(i, j) \in was BY <2>1, <2>2, CountingRows
  <2>6. SumWorth(rows, was) = DecayDen * SumWorth(rest, now) BY <2>3, <2>4, <2>5, SumWithout
  <2> QED BY <2>1, <2>2, <2>6 DEF AllWorth
<1>2. ASSUME NEW s
      PROVE  /\ SumWorth(rows, SetRows(rows, s)) = DecayDen * SumWorth(rest, SetRows(rest, s))
             /\ Cardinality(SetRows(rows, s)) = Cardinality(SetRows(rest, s))
  <2>1. PICK now : now = SetRows(rest, s) OBVIOUS
  <2>2. PICK was : was = SetRows(rows, s) OBVIOUS
  <2>3. now \in SUBSET DOMAIN rest BY <2>1, CountingRows
  <2>4. was \in SUBSET ((DOMAIN rows) \ {i}) BY <2>2, CountingRows
  <2>5. \A j \in DOMAIN rest : j \in now <=> Up(i, j) \in was BY <2>1, <2>2, CountingRows
  <2>6. SumWorth(rows, was) = DecayDen * SumWorth(rest, now) BY <2>3, <2>4, <2>5, SumWithout
  <2>7. Cardinality(now) = Cardinality(was) BY <2>3, <2>4, <2>5, AsManyRows
  <2> QED BY <2>1, <2>2, <2>6, <2>7
<1>3. BigSets(rows) = BigSets(rest) BY <1>2 DEF BigSets
<1>4. PICK f \in Nat : f = AllWorth(rest) BY <1>0, SetsAreParts
<1>5. PICK g \in Nat : g = AllWorth(rows) BY SetsAreParts
<1>6. PICK worths \in SUBSET Nat : worths = SetWorths(rest) BY <1>0, SetMultIs
<1>7. PICK more \in SUBSET Nat : more = SetWorths(rows) BY SetMultIs
<1>8. PICK c \in Nat \ {0} : c = DecayDen BY ComfortAssumption
<1>9. g = c * f BY <1>1, <1>4, <1>5, <1>8
<1>10. \A w \in worths : c * w \in more BY <1>2, <1>3, <1>6, <1>7, <1>8 DEF SetWorths
<1>11. \A v \in more : \E w \in worths : v = c * w BY <1>2, <1>3, <1>6, <1>7, <1>8 DEF SetWorths
<1>12. \A v, w \in worths : 2 * v > f /\ 2 * w > f => v = w
  <2> SUFFICES ASSUME NEW v \in worths, NEW w \in worths, 2 * v > f, 2 * w > f, v # w PROVE FALSE OBVIOUS
  <2>1. PICK s \in Sets : v = SumWorth(rest, SetRows(rest, s)) BY <1>6 DEF SetWorths, BigSets
  <2>2. PICK t \in Sets : w = SumWorth(rest, SetRows(rest, t)) BY <1>6 DEF SetWorths, BigSets
  <2>3. s # t BY <2>1, <2>2
  <2>4. v + w <= f BY <1>0, <1>4, <2>1, <2>2, <2>3, SetsAreParts
  <2> QED BY <2>4
<1>13. \E e \in Nat \ {0} : Mult(g, more)[1] = e * Mult(f, worths)[1] /\ Mult(g, more)[2] = e * Mult(f, worths)[2]
  BY <1>9, <1>10, <1>11, <1>12, MultScales
<1>14. SetMult(rows) = Mult(g, more) /\ SetMult(rest) = Mult(f, worths) BY <1>0, <1>4, <1>5, <1>6, <1>7, SetMultIs
<1> QED BY <1>1, <1>13, <1>14

-----------------------------------------------------------------------------
\* Points are a rounded fraction, between 0 and 100, and more for more.
Rounded(raw, n, mult) ==
  \E den \in Nat \ {0} : \E num \in Int : \A p \in Int : Points(raw, n, mult, p) = Percent(Round(num + p * den, den))

LEMMA PointsRound ==
  ASSUME NEW raw \in Nat, NEW n \in Nat, NEW mult, mult[1] \in Nat, mult[2] \in Nat \ {0}
  PROVE  Rounded(raw, n, mult)
<1>0. DecayDen \in Nat \ {0} /\ K \in Nat \ {0} BY ComfortAssumption
<1>1. PICK d \in Nat \ {0} : d = Power(DecayDen, n) BY <1>0, PowerIsPositive
<1>2. PICK kp \in Nat \ {0} : kp = K * d BY <1>0
<1>3. PICK den \in Nat \ {0} : den = (raw + kp) * mult[2]
  <2>1. raw + kp \in Nat \ {0} OBVIOUS
  <2> QED BY <2>1
<1>4. PICK num \in Int : num = 100 * raw * mult[1]
  <2>1. 100 * raw \in Nat OBVIOUS
  <2>2. (100 * raw) * mult[1] \in Nat BY <2>1, Times
  <2> QED BY <2>2
<1>5. \A p \in Int : Points(raw, n, mult, p) = Percent(Round(num + p * den, den)) BY <1>1, <1>2, <1>3, <1>4 DEF Points
<1> QED BY <1>5 DEF Rounded

LEMMA PointsAre ==
  ASSUME NEW raw \in Nat, NEW n \in Nat, NEW mult, mult[1] \in Nat, mult[2] \in Nat \ {0}, NEW points \in Int
  PROVE  Points(raw, n, mult, points) \in 0 .. 100
<1>0. Rounded(raw, n, mult) BY PointsRound
<1>1. PICK den \in Nat \ {0} : \E num \in Int : \A p \in Int : Points(raw, n, mult, p) = Percent(Round(num + p * den, den)) BY <1>0 DEF Rounded
<1>2. PICK num \in Int : \A p \in Int : Points(raw, n, mult, p) = Percent(Round(num + p * den, den)) BY <1>1
<1>3. points * den \in Int OBVIOUS
<1>4. PICK m \in Int : m = num + points * den BY <1>3
<1>5. PICK r \in Int : r = Round(m, den) BY RoundIs
<1>6. Points(raw, n, mult, points) = Percent(r) BY <1>2, <1>4, <1>5
<1> QED BY <1>6 DEF Percent

LEMMA PointsGrow ==
  ASSUME NEW raw \in Nat, NEW n \in Nat, NEW mult, mult[1] \in Nat, mult[2] \in Nat \ {0}, NEW p \in Int, NEW q \in Int, p <= q
  PROVE  Points(raw, n, mult, p) <= Points(raw, n, mult, q)
<1>1. Rounded(raw, n, mult) BY PointsRound
<1>2. PICK den \in Nat \ {0} : \E num \in Int : \A x \in Int : Points(raw, n, mult, x) = Percent(Round(num + x * den, den))
  BY <1>1 DEF Rounded
<1>3. PICK num \in Int : \A x \in Int : Points(raw, n, mult, x) = Percent(Round(num + x * den, den)) BY <1>2
<1>4. PICK a \in Int : a = num + p * den OBVIOUS
<1>5. PICK b \in Int : b = num + q * den OBVIOUS
<1>6. a <= b
  <2>1. q * den - p * den = (q - p) * den OBVIOUS
  <2>2. (q - p) * den >= 0 OBVIOUS
  <2>3. q * den \in Int /\ p * den \in Int OBVIOUS
  <2> QED BY <1>4, <1>5, <2>1, <2>2, <2>3
<1>7. Round(a, den) <= Round(b, den) /\ Round(a, den) \in Int /\ Round(b, den) \in Int BY <1>6, RoundGrows, RoundIs
<1> QED BY <1>3, <1>4, <1>5, <1>7 DEF Percent

\* One row more that is worth nothing, everything in the finer unit: the same points.
LEMMA PointsScale ==
  ASSUME NEW raw \in Nat, NEW n \in Nat, NEW mult, mult[1] \in Nat, mult[2] \in Nat \ {0}, NEW p \in Int,
         NEW e \in Nat \ {0}, NEW finer, finer[1] = e * mult[1], finer[2] = e * mult[2]
  PROVE  Points(DecayDen * raw, n + 1, finer, p) = Points(raw, n, mult, p)
<1>0. DecayDen \in Nat \ {0} /\ K \in Nat \ {0} BY ComfortAssumption
<1>1. PICK c \in Nat \ {0} : c = DecayDen BY <1>0
<1>2. PICK k \in Nat \ {0} : k = K BY <1>0
<1>3. PICK d \in Nat \ {0} : d = Power(DecayDen, n) BY <1>0, PowerIsPositive
<1>4. Power(DecayDen, n + 1) = c * d BY <1>0, <1>1, <1>3, PowerIs
<1>5. PICK m1 \in Nat : m1 = mult[1] OBVIOUS
<1>6. PICK m2 \in Nat \ {0} : m2 = mult[2] OBVIOUS
<1>7. PICK sum \in Nat \ {0} : sum = raw + k * d
  <2>1. PICK kd \in Nat \ {0} : kd = k * d OBVIOUS
  <2> QED BY <2>1
<1>8. PICK den \in Nat \ {0} : den = sum * m2 OBVIOUS
<1>9. PICK num \in Int : num = 100 * raw * m1
  <2>1. 100 * raw \in Nat OBVIOUS
  <2>2. (100 * raw) * m1 \in Nat BY <2>1, Times
  <2> QED BY <2>2
<1>10. PICK ce \in Nat \ {0} : ce = c * e OBVIOUS
<1>11. (c * raw + k * (c * d)) * (e * m2) = ce * den
  <2>1. k * (c * d) = c * (k * d) OBVIOUS
  <2>2. PICK kd \in Nat : kd = k * d OBVIOUS
  <2>3. c * raw + c * kd = c * (raw + kd) OBVIOUS
  <2>4. (c * sum) * (e * m2) = (c * e) * (sum * m2) OBVIOUS
  <2> QED BY <1>7, <1>8, <1>10, <2>1, <2>2, <2>3, <2>4
<1>12. 100 * (c * raw) * (e * m1) = ce * num
  <2>1. PICK r \in Nat : r = 100 * raw OBVIOUS
  <2>2. 100 * (c * raw) = c * (100 * raw) OBVIOUS
  <2>3. (c * r) * (e * m1) = (c * e) * (r * m1) OBVIOUS
  <2> QED BY <1>9, <1>10, <2>1, <2>2, <2>3
<1>13. Points(DecayDen * raw, n + 1, finer, p) = Percent(Round(ce * num + p * (ce * den), ce * den))
  BY <1>1, <1>2, <1>4, <1>5, <1>6, <1>11, <1>12 DEF Points
<1>14. Points(raw, n, mult, p) = Percent(Round(num + p * den, den)) BY <1>2, <1>3, <1>5, <1>6, <1>7, <1>8, <1>9 DEF Points
<1>15. PICK a \in Int : a = num + p * den OBVIOUS
<1>16. ce * num + p * (ce * den) = ce * a
  <2>1. p * (ce * den) = ce * (p * den) OBVIOUS
  <2>2. PICK pd \in Int : pd = p * den OBVIOUS
  <2>3. ce * num + ce * pd = ce * (num + pd) OBVIOUS
  <2> QED BY <1>15, <2>1, <2>2, <2>3
<1>17. Round(ce * a, ce * den) = Round(a, den) BY RoundScales
<1> QED BY <1>13, <1>14, <1>15, <1>16, <1>17

\* Beds and ruined things are counted.
LEMMA CountsAre ==
  ASSUME NEW rows \in UnitRows
  PROVE  BedCount(rows) \in Nat /\ RuinedCount(rows) \in Nat
<1>1. PICK n \in Nat : n = Len(rows) BY RowsAre
<1>2. \A some \in SUBSET DOMAIN rows : Cardinality(some) \in Nat
  <2>1. \A some \in SUBSET DOMAIN rows : Cardinality(some) \in 0..n BY <1>1, SomeRows
  <2> QED BY <2>1
<1> QED BY <1>2 DEF BedCount, RuinedCount, RowsThat

\* A ruined thing is no bed, and one less of its kind; another is none.
LEMMA CountsWithout ==
  ASSUME NEW rows \in UnitRows, NEW i \in DOMAIN rows, NEW rest, rest = RemoveAt(rows, i)
  PROVE  /\ rows[i].item \in RuinedWares => BedCount(rest) = BedCount(rows) /\ RuinedCount(rows) = RuinedCount(rest) + 1
         /\ rows[i].item \notin RuinedWares => RuinedCount(rows) = RuinedCount(rest)
<1>0. rest \in UnitRows BY WithoutARow
<1>1. \A j \in DOMAIN rest : Up(i, j) \in (DOMAIN rows) \ {i} /\ rest[j] = rows[Up(i, j)] BY WithoutARow
<1>2. PICK now : now = {j \in DOMAIN rest : rest[j].item \in RuinedWares} OBVIOUS
<1>3. PICK was : was = {j \in (DOMAIN rows) \ {i} : rows[j].item \in RuinedWares} OBVIOUS
<1>4. Cardinality(now) = Cardinality(was)
  <2>1. now \in SUBSET DOMAIN rest /\ was \in SUBSET ((DOMAIN rows) \ {i}) BY <1>2, <1>3
  <2>2. \A j \in DOMAIN rest : j \in now <=> Up(i, j) \in was BY <1>1, <1>2, <1>3
  <2> QED BY <2>1, <2>2, AsManyRows
<1>5. PICK all : all = {j \in DOMAIN rows : rows[j].item \in RuinedWares} OBVIOUS
<1>6. RuinedCount(rest) = Cardinality(now) /\ RuinedCount(rows) = Cardinality(all) BY <1>2, <1>5 DEF RuinedCount, RowsThat
<1>7. ASSUME rows[i].item \notin RuinedWares PROVE RuinedCount(rows) = RuinedCount(rest)
  <2>1. all = was BY <1>3, <1>5, <1>7
  <2> QED BY <1>4, <1>6, <2>1
<1>8. ASSUME rows[i].item \in RuinedWares PROVE BedCount(rest) = BedCount(rows) /\ RuinedCount(rows) = RuinedCount(rest) + 1
  <2>1. all = was \cup {i} /\ i \notin was BY <1>3, <1>5, <1>8
  <2>2. IsFiniteSet(was)
    <3>1. was \in SUBSET DOMAIN rows BY <1>3
    <3> QED BY <3>1, SomeRows
  <2>3. Cardinality(all) = Cardinality(was) + 1 BY <2>1, <2>2, FS_AddElement
  <2>4. PICK beds : beds = {j \in DOMAIN rest : rest[j].item \in BedWares \ RuinedWares} OBVIOUS
  <2>5. PICK before : before = {j \in DOMAIN rows : rows[j].item \in BedWares \ RuinedWares} OBVIOUS
  <2>6. Cardinality(beds) = Cardinality(before)
    <3>1. beds \in SUBSET DOMAIN rest BY <2>4
    <3>2. before \in SUBSET ((DOMAIN rows) \ {i}) BY <1>8, <2>5
    <3>3. \A j \in DOMAIN rest : j \in beds <=> Up(i, j) \in before BY <1>1, <2>4, <2>5
    <3> QED BY <3>1, <3>2, <3>3, AsManyRows
  <2>7. BedCount(rest) = Cardinality(beds) /\ BedCount(rows) = Cardinality(before) BY <2>4, <2>5 DEF BedCount, RowsThat
  <2> QED BY <1>4, <1>6, <2>3, <2>6, <2>7
<1> QED BY <1>7, <1>8

\* The score of a unit, and without a row that is worth nothing.
Plus(rows, a) == AffectionBonus * a - RuinedPenalty * RuinedCount(rows)

LEMMA UnitScore ==
  ASSUME NEW rows \in UnitRows, NEW a \in Nat
  PROVE  /\ Score(rows, a) \in 0 .. 100 /\ Plus(rows, a) \in Int
         /\ Score(rows, a) = Points(AllWorth(rows), Len(rows), SetMult(rows), Plus(rows, a))
<1>1. PICK p \in Int : p = Plus(rows, a)
  <2>1. RuinedPenalty * RuinedCount(rows) \in Nat BY CountsAre, Times, ComfortAssumption
  <2>2. AffectionBonus * a \in Nat BY Times, ComfortAssumption
  <2> QED BY <2>1, <2>2 DEF Plus
<1>2. Score(rows, a) = Points(AllWorth(rows), Len(rows), SetMult(rows), p) BY <1>1 DEF Score, AllWorth, Plus
<1>3. Len(rows) \in Nat /\ AllWorth(rows) \in Nat BY RowsAre, SetsAreParts
<1>4. SetMult(rows)[1] \in Nat /\ SetMult(rows)[2] \in Nat \ {0} BY SetMultIs
<1> QED BY <1>1, <1>2, <1>3, <1>4, PointsAre

LEMMA ScoreWithout ==
  ASSUME NEW rows \in UnitRows, NEW i \in DOMAIN rows, NEW rest, rest = RemoveAt(rows, i), ~ Counts(rows[i]), NEW a \in Nat
  PROVE  /\ rows[i].item \in RuinedWares => Score(rows, a) <= Score(rest, a)
         /\ rows[i].item \notin RuinedWares => Score(rows, a) = Score(rest, a)
<1>0. rest \in UnitRows /\ Len(rest) \in Nat /\ Len(rows) = Len(rest) + 1 BY WithoutARow
<1>1. PICK raw \in Nat : raw = AllWorth(rest) BY <1>0, SetsAreParts
<1>2. PICK mult : mult = SetMult(rest) OBVIOUS
<1>3. PICK finer : finer = SetMult(rows) OBVIOUS
<1>4. mult[1] \in Nat /\ mult[2] \in Nat \ {0} BY <1>0, <1>2, SetMultIs
<1>5. PICK e \in Nat \ {0} : finer[1] = e * mult[1] /\ finer[2] = e * mult[2] BY <1>2, <1>3, SameMult
<1>6. AllWorth(rows) = DecayDen * raw BY <1>1, SameMult
<1>7. PICK n \in Nat : n = Len(rest) BY <1>0
<1>8. PICK p \in Int : p = Plus(rows, a) BY UnitScore
<1>9. PICK q \in Int : q = Plus(rest, a) BY <1>0, UnitScore
<1>10. Score(rows, a) = Points(DecayDen * raw, n + 1, finer, p) BY <1>0, <1>3, <1>6, <1>7, <1>8, UnitScore
<1>11. Points(DecayDen * raw, n + 1, finer, p) = Points(raw, n, mult, p) BY <1>4, <1>5, PointsScale
<1>12. Score(rest, a) = Points(raw, n, mult, q) BY <1>0, <1>1, <1>2, <1>7, <1>9, UnitScore
<1>13. PICK were \in Nat : were = RuinedCount(rows) BY CountsAre
<1>14. PICK are \in Nat : are = RuinedCount(rest) BY <1>0, CountsAre
<1>15. PICK bonus \in Nat : bonus = AffectionBonus * a BY Times, ComfortAssumption
<1>16. RuinedPenalty \in Nat BY ComfortAssumption
<1>17. p = bonus - RuinedPenalty * were /\ q = bonus - RuinedPenalty * are BY <1>8, <1>9, <1>13, <1>14, <1>15 DEF Plus
<1>18. ASSUME rows[i].item \in RuinedWares PROVE Score(rows, a) <= Score(rest, a)
  <2>1. were = are + 1 BY <1>13, <1>14, <1>18, CountsWithout
  <2>2. RuinedPenalty * (are + 1) = RuinedPenalty * are + RuinedPenalty BY <1>16
  <2>3. RuinedPenalty * are \in Nat BY <1>16, Times
  <2>4. p <= q BY <1>16, <1>17, <2>1, <2>2, <2>3
  <2>5. Points(raw, n, mult, p) <= Points(raw, n, mult, q) BY <1>4, <2>4, PointsGrow
  <2> QED BY <1>10, <1>11, <1>12, <2>5
<1>19. ASSUME rows[i].item \notin RuinedWares PROVE Score(rows, a) = Score(rest, a)
  <2>1. were = are BY <1>13, <1>14, <1>19, CountsWithout
  <2>2. p = q BY <1>17, <2>1
  <2> QED BY <1>10, <1>11, <1>12, <2>2
<1> QED BY <1>18, <1>19

\* A better unit pays no less.
LEMMA PayIs == ASSUME NEW s \in Nat PROVE PayPerGuest(s) \in Nat
<1>1. PayPerComfortNum * s \in Nat BY Times, ComfortAssumption
<1>2. PICK n \in Nat : n = PayBaseNum + PayPerComfortNum * s BY <1>1, ComfortAssumption
<1>3. PayDen \in Nat \ {0} BY ComfortAssumption
<1>4. Round(n, PayDen) \in Int /\ Round(n, PayDen) >= 0 BY <1>2, <1>3, RoundIs
<1> QED BY <1>2, <1>4 DEF PayPerGuest

LEMMA LeastOf ==
  ASSUME NEW a \in Int, NEW b \in Int
  PROVE  Min({a, b}) = IF a <= b THEN a ELSE b
<1>1. PICK S : S = {a, b} OBVIOUS
<1>2. PICK m : m = IF a <= b THEN a ELSE b OBVIOUS
<1>3. m \in S /\ \A y \in S : m <= y BY <1>1, <1>2
<1>4. \A x \in S : (\A y \in S : x <= y) => x = m BY <1>1, <1>2
<1>5. Min(S) = m BY <1>3, <1>4 DEF Min
<1> QED BY <1>1, <1>2, <1>5

LEMMA LeastOfThree ==
  ASSUME NEW a \in Int, NEW b \in Int, NEW c \in Int, NEW S, S = {a, b, c}
  PROVE  Min(S) \in S /\ \A y \in S : Min(S) <= y
<1>1. \E x \in S : \A y \in S : x <= y
  <2>1. CASE a <= b /\ a <= c BY <2>1
  <2>2. CASE b <= a /\ b <= c BY <2>2
  <2>3. CASE c <= a /\ c <= b BY <2>3
  <2> QED BY <2>1, <2>2, <2>3
<1> QED BY <1>1 DEF Min

LEMMA MoreGuests ==
  ASSUME NEW s \in Nat, NEW t \in Nat, s <= t, NEW beds \in Nat
  PROVE  GuestCount(s, beds) \in Nat /\ GuestCount(t, beds) \in Nat /\ GuestCount(s, beds) <= GuestCount(t, beds)
<1>0. MaxGuests \in Nat \ {0} /\ Band \in Nat \ {0} /\ MinComfort \in Nat BY ComfortAssumption
<1>1. PICK k \in Nat : k = s \div Band BY <1>0
<1>2. PICK l \in Nat : l = t \div Band BY <1>0
<1>3. k <= l BY <1>0, <1>1, <1>2
<1>11. PICK kk \in Nat : kk = k + 1 OBVIOUS
<1>12. PICK ll \in Nat : ll = l + 1 OBVIOUS
<1>13. PICK most \in Nat : most = MaxGuests BY <1>0
<1>4. PICK S : S = {beds, most, kk} OBVIOUS
<1>5. PICK T : T = {beds, most, ll} OBVIOUS
<1>15. PICK a : a = Min(S) OBVIOUS
<1>16. PICK b : b = Min(T) OBVIOUS
<1>6. a \in S /\ \A y \in S : a <= y BY <1>4, <1>15, LeastOfThree
<1>7. b \in T BY <1>5, <1>16, LeastOfThree
<1>8. a <= b /\ a \in Nat /\ b \in Nat BY <1>3, <1>4, <1>5, <1>6, <1>7, <1>11, <1>12
<1>9. GuestCount(s, beds) = IF beds = 0 \/ s < MinComfort THEN 0 ELSE a BY <1>1, <1>4, <1>11, <1>13, <1>15 DEF GuestCount
<1>10. GuestCount(t, beds) = IF beds = 0 \/ t < MinComfort THEN 0 ELSE b BY <1>2, <1>5, <1>12, <1>13, <1>16 DEF GuestCount
<1> QED BY <1>0, <1>8, <1>9, <1>10

LEMMA BetterPays ==
  ASSUME NEW s \in Nat, NEW t \in Nat, s <= t, NEW beds \in Nat
  PROVE  NightlyPay(s, beds) <= NightlyPay(t, beds)
<1>1. PICK m \in Nat : m = GuestCount(s, beds) BY MoreGuests
<1>2. PICK n \in Nat : n = GuestCount(t, beds) BY MoreGuests
<1>3. m <= n BY <1>1, <1>2, MoreGuests
<1>4. PICK v \in Nat : v = PayPerGuest(s) BY PayIs
<1>5. PICK w \in Nat : w = PayPerGuest(t) BY PayIs
<1>6. v <= w
  <2>1. PayBaseNum \in Nat /\ PayPerComfortNum \in Nat /\ PayDen \in Nat \ {0} BY ComfortAssumption
  <2>2. PICK x \in Nat : x = PayPerComfortNum * s BY <2>1
  <2>3. PICK y \in Nat : y = PayPerComfortNum * t BY <2>1
  <2>4. x <= y
    <3>1. PayPerComfortNum * t - PayPerComfortNum * s = PayPerComfortNum * (t - s) BY <2>1
    <3>2. PayPerComfortNum * (t - s) >= 0 BY <2>1
    <3> QED BY <2>2, <2>3, <3>1, <3>2
  <2>5. PICK p \in Int : p = PayBaseNum + x BY <2>1
  <2>6. PICK q \in Int : q = PayBaseNum + y BY <2>1
  <2>7. p <= q BY <2>1, <2>4, <2>5, <2>6
  <2>8. Round(p, PayDen) <= Round(q, PayDen) BY <2>1, <2>7, RoundGrows
  <2> QED BY <1>4, <1>5, <2>2, <2>3, <2>5, <2>6, <2>8 DEF PayPerGuest
<1>7. m * v <= n * w
  <2>1. n * w - m * v = (n - m) * w + m * (w - v) OBVIOUS
  <2>2. (n - m) * w >= 0 BY <1>3
  <2>3. m * (w - v) >= 0 BY <1>6
  <2>4. (n - m) * w \in Int /\ m * (w - v) \in Int /\ n * w \in Int /\ m * v \in Int OBVIOUS
  <2> QED BY <2>1, <2>2, <2>3, <2>4
<1> QED BY <1>1, <1>2, <1>4, <1>5, <1>7 DEF NightlyPay

-----------------------------------------------------------------------------
FurnishedTyped == furnished \in UnitRows /\ taps \in Nat

LEMMA AffectionIs == ASSUME NEW n \in Nat PROVE AffectionOf(n) \in Nat
<1>1. MaxAffection \in Nat /\ TapsPerLevel \in Nat \ {0} BY ComfortAssumption
<1>2. PICK l \in Nat : l = n \div TapsPerLevel BY <1>1
<1>3. PICK m \in Nat : m = MaxAffection BY <1>1
<1>4. Min({m, l}) = IF m <= l THEN m ELSE l BY LeastOf
<1> QED BY <1>2, <1>3, <1>4 DEF AffectionOf

LEMMA TapsAre == ASSUME NEW n \in Nat \ {0} PROVE Clamped(n) \in Nat
<1>1. PICK m \in Nat \ {0} : m = MaxTapsPerCall BY ComfortAssumption
<1>2. Min({m, n}) = IF m <= n THEN m ELSE n BY LeastOf
<1>3. PICK k \in Nat : k = Min({m, n}) BY <1>2
<1>4. PICK S : S = {1, k} OBVIOUS
<1>5. \E x \in S : \A y \in S : x >= y
  <2>1. CASE k >= 1 BY <1>4, <2>1
  <2>2. CASE ~ (k >= 1) BY <1>4, <2>2
  <2> QED BY <2>1, <2>2
<1>6. Max(S) \in S BY <1>5 DEF Max
<1> QED BY <1>1, <1>3, <1>4, <1>6 DEF Clamped

LEMMA FurnishStep == ASSUME FurnishedTyped, [ComfortNext]_comfortVars PROVE FurnishedTyped'
<1>1. CASE UNCHANGED comfortVars BY <1>1 DEF FurnishedTyped, comfortVars
<1>2. ASSUME NEW w \in Wares, NEW by \in {"player", "system"}, Furnish(w, by) PROVE FurnishedTyped'
  <2> DEFINE R == [item : Wares, by : {"player", "system"}]
  <2>1. furnished \in Seq(R) BY DEF FurnishedTyped, UnitRows
  <2>2. [item |-> w, by |-> by] \in R OBVIOUS
  <2>3. furnished' = Append(furnished, [item |-> w, by |-> by]) /\ taps' = taps BY <1>2 DEF Furnish
  <2>4. PICK r : r = [item |-> w, by |-> by] OBVIOUS
  <2> HIDE DEF R
  <2>5. furnished' \in Seq(R) BY <2>1, <2>2, <2>3, <2>4
  <2> QED BY <2>3, <2>5 DEF FurnishedTyped, UnitRows, R
<1>3. ASSUME NEW i \in DOMAIN furnished, TakeAway(i) PROVE FurnishedTyped'
  <2>1. furnished' = RemoveAt(furnished, i) /\ taps' = taps BY <1>3 DEF TakeAway
  <2>2. furnished' \in UnitRows BY <2>1, WithoutARow DEF FurnishedTyped
  <2> QED BY <2>1, <2>2 DEF FurnishedTyped
<1>4. ASSUME NEW n \in 1 .. 2 * TapsPerLevel, Pet(n) PROVE FurnishedTyped'
  <2>1. n \in Nat \ {0} BY ComfortAssumption
  <2>2. Clamped(n) \in Nat BY <2>1, TapsAre
  <2> QED BY <1>4, <2>2 DEF Pet, FurnishedTyped
<1> QED BY <1>1, <1>2, <1>3, <1>4 DEF ComfortNext

\* A row is taken away by no other step, and the cat is not petted in that.
LEMMA OnlyTaken ==
  ASSUME FurnishedTyped, [ComfortNext]_comfortVars, NEW i \in DOMAIN furnished, furnished' = RemoveAt(furnished, i)
  PROVE  taps' = taps
<1>0. furnished \in UnitRows BY DEF FurnishedTyped
<1>1. Len(furnished) \in Nat /\ Len(furnished') \in Nat /\ Len(furnished) = Len(furnished') + 1 BY <1>0, WithoutARow
<1>2. CASE UNCHANGED comfortVars BY <1>2 DEF comfortVars
<1>3. CASE \E w \in Wares, by \in {"player", "system"} : Furnish(w, by) BY <1>3 DEF Furnish
<1>4. CASE \E j \in DOMAIN furnished : TakeAway(j) BY <1>4 DEF TakeAway
<1>5. ASSUME NEW n \in 1 .. 2 * TapsPerLevel, Pet(n) PROVE FALSE
  <2>1. furnished' = furnished BY <1>5 DEF Pet
  <2> QED BY <1>1, <2>1
<1> QED BY <1>2, <1>3, <1>4, <1>5 DEF ComfortNext

\* Cleaning up is never a loss (CleaningNeverHurts): a ruined item gone leaves the
\* unit no worse and the night no cheaper, a seeded one leaves the score as it is.
THEOREM CleaningIsSafe == ComfortSpec => CleaningNeverHurts
<1> DEFINE Cleaned ==
      \A i \in DOMAIN furnished : furnished' = RemoveAt(furnished, i) =>
        /\ furnished[i].item \in RuinedWares => ScoreNow' >= ScoreNow /\ PayNow' >= PayNow
        /\ furnished[i].by = "system" /\ furnished[i].item \notin RuinedWares => ScoreNow' = ScoreNow
<1>1. ComfortInit => FurnishedTyped
  <2>1. <<>> \in UnitRows BY DEF UnitRows
  <2> QED BY <2>1 DEF ComfortInit, FurnishedTyped
<1>2. FurnishedTyped /\ [ComfortNext]_comfortVars => FurnishedTyped' BY FurnishStep
<1>3. FurnishedTyped /\ [ComfortNext]_comfortVars => Cleaned
  <2> SUFFICES ASSUME FurnishedTyped, [ComfortNext]_comfortVars, NEW i \in DOMAIN furnished, furnished' = RemoveAt(furnished, i)
               PROVE  /\ furnished[i].item \in RuinedWares => ScoreNow' >= ScoreNow /\ PayNow' >= PayNow
                      /\ furnished[i].by = "system" /\ furnished[i].item \notin RuinedWares => ScoreNow' = ScoreNow
    OBVIOUS
  <2>1. PICK rows \in UnitRows : rows = furnished BY DEF FurnishedTyped
  <2>2. PICK rest \in UnitRows : rest = furnished' /\ rest = RemoveAt(rows, i) BY <2>1, WithoutARow
  <2>3. PICK a \in Nat : a = AffectionOf(taps) BY AffectionIs DEF FurnishedTyped
  <2>4. taps' = taps BY OnlyTaken
  <2>5. ScoreNow = Score(rows, a) /\ ScoreNow' = Score(rest, a) BY <2>1, <2>2, <2>3, <2>4 DEF ScoreNow
  <2>6. PayNow = NightlyPay(ScoreNow, BedCount(rows)) /\ PayNow' = NightlyPay(ScoreNow', BedCount(rest)) BY <2>1, <2>2 DEF PayNow
  <2>15. Score(rows, a) \in 0 .. 100 /\ Score(rest, a) \in 0 .. 100 BY UnitScore
  <2>7. PICK s \in Nat : s = Score(rows, a) BY <2>15
  <2>8. PICK t \in Nat : t = Score(rest, a) BY <2>15
  <2>9. i \in DOMAIN rows BY <2>1
  <2>10. ASSUME rows[i].item \in RuinedWares PROVE s <= t /\ NightlyPay(s, BedCount(rows)) <= NightlyPay(t, BedCount(rest))
    <3>1. ~ Counts(rows[i]) BY <2>10 DEF Counts
    <3>2. s <= t BY <2>2, <2>7, <2>8, <2>9, <2>10, <3>1, ScoreWithout
    <3>3. BedCount(rest) = BedCount(rows) BY <2>2, <2>9, <2>10, CountsWithout
    <3>4. PICK beds \in Nat : beds = BedCount(rows) BY CountsAre
    <3>5. NightlyPay(s, beds) <= NightlyPay(t, beds) BY <3>2, BetterPays
    <3> QED BY <3>2, <3>3, <3>4, <3>5
  <2>11. ASSUME rows[i].by = "system", rows[i].item \notin RuinedWares PROVE s = t
    <3>1. ~ Counts(rows[i]) BY <2>11 DEF Counts
    <3> QED BY <2>2, <2>7, <2>8, <2>9, <2>11, <3>1, ScoreWithout
  <2>12. NightlyPay(s, BedCount(rows)) \in Nat /\ NightlyPay(t, BedCount(rest)) \in Nat
    <3>1. PICK b \in Nat : b = BedCount(rows) BY CountsAre
    <3>2. PICK c \in Nat : c = BedCount(rest) BY CountsAre
    <3>3. s <= s /\ t <= t OBVIOUS
    <3>4. GuestCount(s, b) \in Nat /\ GuestCount(t, c) \in Nat BY <3>3, MoreGuests
    <3>5. PayPerGuest(s) \in Nat /\ PayPerGuest(t) \in Nat BY PayIs
    <3> QED BY <3>1, <3>2, <3>4, <3>5, Times DEF NightlyPay
  <2>13. ASSUME furnished[i].item \in RuinedWares PROVE ScoreNow' >= ScoreNow /\ PayNow' >= PayNow
    <3>1. s <= t /\ NightlyPay(s, BedCount(rows)) <= NightlyPay(t, BedCount(rest)) BY <2>1, <2>10, <2>13
    <3> QED BY <2>5, <2>6, <2>7, <2>8, <2>12, <3>1
  <2>14. ASSUME furnished[i].by = "system", furnished[i].item \notin RuinedWares PROVE ScoreNow' = ScoreNow
    BY <2>1, <2>5, <2>7, <2>8, <2>11, <2>14
  <2> QED BY <2>13, <2>14
<1>4. ComfortSpec => [][Cleaned]_comfortVars BY <1>1, <1>2, <1>3, PTL DEF ComfortSpec
<1> QED BY <1>4 DEF CleaningNeverHurts

-----------------------------------------------------------------------------
(* The guest units with their wares. *)

\* The rows of a unit: one for each ware.
LEMMA PlacedIs ==
  ASSUME NEW wares \in SUBSET Wares
  PROVE  Placed(wares) \in UnitRows
<1> DEFINE S == {[item |-> w, by |-> "player"] : w \in wares}
<1>1. IsFiniteSet(wares) /\ Cardinality(wares) \in Nat /\ Cardinality(wares) <= Cardinality(Wares)
  BY WaresFinite, FS_Subset, FS_CardinalityType
<1>2. IsFiniteSet(S) /\ Cardinality(S) = Cardinality(wares)
  <2>1. PICK f : f = [w \in wares |-> [item |-> w, by |-> "player"]] OBVIOUS
  <2>2. f \in [wares -> S] BY <2>1
  <2>3. \A a, b \in wares : f[a] = f[b] => a = b
    <3> SUFFICES ASSUME NEW a \in wares, NEW b \in wares, f[a] = f[b] PROVE a = b OBVIOUS
    <3>1. f[a].item = a /\ f[b].item = b BY <2>1
    <3> QED BY <3>1
  <2>4. \A s \in S : \E w \in wares : f[w] = s BY <2>1
  <2> HIDE DEF S
  <2>5. f \in Bijection(wares, S) BY <2>2, <2>3, <2>4 DEF Bijection, Injection, Surjection, IsInjective
  <2>6. ExistsBijection(wares, S) BY <2>5 DEF ExistsBijection
  <2> QED BY <1>1, <2>6, FS_Bijection
<1>3. PICK n \in Nat : n = Cardinality(S) BY <1>1, <1>2
<1>4. \E f \in [1..n -> S] : IsInjective(f)
  <2> HIDE DEF S
  <2>1. ExistsBijection(1..n, S) BY <1>2, <1>3, FS_CardinalityType, FS_NatBijection
  <2>2. PICK f : f \in Bijection(1..n, S) BY <2>1 DEF ExistsBijection
  <2>3. f \in [1..n -> S] /\ IsInjective(f) BY <2>2 DEF Bijection, Injection, Surjection, IsInjective
  <2> QED BY <2>3
<1>5. Placed(wares) \in [1..n -> S] 
  <2>1. Placed(wares) = SetToSeq(S) BY DEF Placed
  <2> HIDE DEF S
  <2> QED BY <2>1, <1>3, <1>4 DEF SetToSeq
<1>6. S \subseteq [item : Wares, by : {"player", "system"}] OBVIOUS
<1> DEFINE R == [item : Wares, by : {"player", "system"}]
<1>7. S \subseteq R BY <1>6
<1> HIDE DEF S, R
<1>8. Placed(wares) \in Seq(R) BY <1>3, <1>5, <1>7
<1> QED BY <1>8 DEF UnitRows, R

\* The score of a unit (comfort.py), its beds, and what a guest pays for it.
LEMMA ScoreIs ==
  ASSUME NEW wares \in SUBSET Wares
  PROVE  ScoreOf[wares] \in 0 .. 100 /\ BedsOf[wares] \in Nat /\ PayPerGuest(ScoreOf[wares]) \in Nat
<1>1. ScoreOf[wares] = Score(Placed(wares), 0) /\ BedsOf[wares] = BedCount(Placed(wares)) BY DEF ScoreOf, BedsOf
<1>2. PICK rows \in UnitRows : rows = Placed(wares) BY PlacedIs
<1>3. Score(rows, 0) \in 0 .. 100 BY UnitScore
<1>4. PICK s \in Nat : s = Score(rows, 0) BY <1>3
<1>5. PayPerGuest(s) \in Nat BY PayIs
<1>6. BedCount(rows) \in Nat BY CountsAre
<1> QED BY <1>1, <1>2, <1>3, <1>4, <1>5, <1>6

-----------------------------------------------------------------------------
(* The guests' days. *)

Reservations == [unit : Units, kind : {"item", "dog"}, item : Wares \cup {""}, due : Nat]

GuestTyped ==
  /\ today \in GuestDay /\ dogMonth \in Int
  /\ {settledTo, noGuestsDay, openedOn} \subseteq [Units -> Nat]
  /\ IsFiniteSet(pending) /\ pending \subseteq Reservations
  /\ inside \in [Units -> SUBSET Wares]
  /\ nights \in [Units -> [GuestDay -> {"none", "guests", "empty"}]] /\ missedOn \in [Units -> SUBSET GuestDay]
  /\ promise \in [Units -> Nat \cup {NoPromise}] /\ takings \in [Units -> Nat]

\* The books of a unit opened on a day: settled up to `to`, with the flag, the reservations, the nights and the misses it has.
Sound(opened, to, skip, booked, went, missed) ==
  /\ to <= today /\ opened <= today /\ (to # 0 => opened # 0 /\ opened <= to)
  /\ \A d \in GuestDay : went[d] # "none" => d > opened /\ d <= to
  /\ \A d \in GuestDay : went[d] # "none" => went[to] # "none"
  /\ \A d, e \in GuestDay :
       d < to /\ went[d] = "none" /\ went[d + 1] # "none" /\ e <= d /\ went[e] # "none" =>
         \A n \in d + 1 .. d + MaxCatchup : n <= to /\ went[n] # "none"
  /\ \A r \in booked : to # 0 /\ r.due > to
  /\ \A r, s \in booked : r.kind = "item" /\ s.kind = "item" => r = s
  /\ skip # 0 => skip - 1 \in missed
  /\ \A m \in missed : m <= to /\ (m = to => skip = m + 1)
  /\ \A m \in missed : m + 1 \in GuestDay => went[m + 1] # "guests"

UnitsSound == \A u \in Units : Sound(openedOn[u], settledTo[u], noGuestsDay[u], Of(u, pending), nights[u], missedOn[u])

DogsSound ==
  /\ dogMonth <= Month(today)
  /\ \A r \in pending : r.kind = "dog" => Month(r.due) <= dogMonth
  /\ \A r, s \in pending : r.kind = "dog" /\ s.kind = "dog" /\ Month(r.due) = Month(s.due) => r = s

BookInv == GuestTyped /\ UnitsSound /\ DogsSound

\* Later days are in later months.
LEMMA LaterMonth ==
  ASSUME NEW a \in Nat \ {0}, NEW b \in Nat, a <= b
  PROVE  Month(a) \in Int /\ Month(b) \in Int /\ Month(a) <= Month(b)
<1>1. MonthDays \in Nat \ {0} BY GuestAssumption
<1>2. PICK x \in Nat, y \in Nat : x = a - 1 /\ y = b - 1 /\ x <= y OBVIOUS
<1>3. x \div MonthDays \in Int /\ y \div MonthDays \in Int /\ x \div MonthDays <= y \div MonthDays
  <2> USE <1>1
  <2>1. PICK m \in Nat \ {0} : m = MonthDays OBVIOUS
  <2>2. PICK p \in Int, q \in Int : p = x \div m /\ q = y \div m OBVIOUS
  <2>3. m * p <= x /\ x < m * (p + 1) /\ m * q <= y /\ y < m * (q + 1) BY <2>2
  <2>4. ASSUME q < p PROVE FALSE
    <3>1. q + 1 <= p BY <2>4
    <3>2. m * (q + 1) <= m * p BY <3>1
    <3>3. m * (q + 1) \in Int /\ m * p \in Int OBVIOUS
    <3> HIDE <2>2
    <3> QED BY <2>3, <3>2, <3>3, <1>2
  <2> QED BY <2>1, <2>2, <2>4
<1> QED BY <1>2, <1>3 DEF Month

\* What is in a unit are wares.
LEMMA InsideIs == ASSUME GuestTyped, NEW u \in Units PROVE inside[u] \in SUBSET Wares
BY DEF GuestTyped

\* What ordinary guests pay is a number, and nothing when there are none.
LEMMA EarnsIs ==
  ASSUME GuestTyped, NEW u \in Units
  PROVE  Earns(u) \in Nat /\ (GuestCount(ScoreOf[inside[u]], BedsOf[inside[u]]) = 0 => Earns(u) = 0)
         /\ GuestCount(ScoreOf[inside[u]], BedsOf[inside[u]]) \in Nat
<1>0. ScoreOf[inside[u]] \in 0 .. 100 /\ BedsOf[inside[u]] \in Nat /\ PayPerGuest(ScoreOf[inside[u]]) \in Nat
  BY ScoreIs, InsideIs
<1>1. PICK s \in Nat : s = ScoreOf[inside[u]] BY <1>0
<1>2. PICK b \in Nat : b = BedsOf[inside[u]] BY <1>0
<1>3. PICK p \in Nat : p = PayPerGuest(s) BY <1>0, <1>1
<1>4. GuestCount(s, b) \in Nat
  <2>1. MaxGuests \in Nat /\ s \div Band + 1 \in Nat BY ComfortAssumption
  <2>2. PICK x \in Nat, y \in Nat : x = MaxGuests /\ y = s \div Band + 1 BY <2>1
  <2>3. Min({b, x, y}) \in Nat
    <3>1. \E m \in {b, x, y} : \A n \in {b, x, y} : m <= n OBVIOUS
    <3> QED BY <3>1 DEF Min
  <2> QED BY <2>2, <2>3 DEF GuestCount
<1>5. PICK c \in Nat : c = GuestCount(s, b) BY <1>4
<1>6. c * p \in Nat /\ (c = 0 => c * p = 0) BY Times
<1> QED BY <1>1, <1>2, <1>3, <1>5, <1>6 DEF Earns, NightlyPay

\* So is what a guest who asked for something pays.
LEMMA ExtraIs == ASSUME GuestTyped, NEW u \in Units, NEW r PROVE Extra(u, r) \in Nat
<1>1. PICK p \in Nat : p = PayPerGuest(ScoreOf[inside[u]]) BY ScoreIs, InsideIs
<1>2. PICK m \in Nat : m = IF r.kind = "dog" THEN DogMult ELSE ReserveMult BY GuestAssumption
<1> QED BY <1>1, <1>2, Times DEF Extra

\* The comfiest of the open units is one of them.
LEMMA ComfiestIs ==
  ASSUME GuestTyped, \E u \in Units : IsOpen(u)
  PROVE  Comfiest \in Units /\ IsOpen(Comfiest)
<1> DEFINE key(u) == IF BedsOf[inside[u]] > 0 THEN ScoreOf[inside[u]] ELSE -1
           open == {u \in Units : IsOpen(u)}
           best == {u \in open : \A v \in open : key(u) >= key(v)}
<1>1. \A u \in open : key(u) \in -1 .. 100
  <2> SUFFICES ASSUME NEW u \in open PROVE key(u) \in -1 .. 100 OBVIOUS
  <2>1. ScoreOf[inside[u]] \in 0 .. 100 BY ScoreIs, InsideIs
  <2> QED BY <2>1
<1>2. PICK some \in open : TRUE OBVIOUS
<1>3. Comfiest = Min(best) BY DEF Comfiest
<1> DEFINE short == {100 - key(u) : u \in open}
<1> HIDE DEF key
<1>4. short \in SUBSET Nat /\ short # {} BY <1>1, <1>2
<1>5. PICK x \in short : \A y \in short : x <= y
  <2> HIDE DEF short
  <2> QED BY <1>4, LeastNumber
<1>6. PICK top \in open : x = 100 - key(top) OBVIOUS
<1>7. \A v \in open : key(top) >= key(v)
  <2> SUFFICES ASSUME NEW v \in open PROVE key(top) >= key(v) OBVIOUS
  <2>1. 100 - key(top) <= 100 - key(v) BY <1>5, <1>6
  <2>2. key(top) \in Int /\ key(v) \in Int BY <1>1
  <2> QED BY <2>1, <2>2
<1>8. best \in SUBSET Nat /\ best # {} BY <1>6, <1>7 DEF Units
<1>9. PICK first \in best : \A v \in best : first <= v
  <2> HIDE DEF best
  <2> QED BY <1>8, LeastNumber
<1>10. Comfiest \in best
  <2> HIDE DEF best
  <2> QED BY <1>3, <1>9 DEF Min
<1> QED BY <1>10

-----------------------------------------------------------------------------
\* A pass starts after the day settled last, or as far back as it makes up for.
LEMMA FirstDayIs ==
  ASSUME GuestTyped, NEW u \in Units, Behind(u)
  PROVE  /\ FirstDay(u) \in 2 .. today /\ FirstDay(u) > settledTo[u] /\ settledTo[u] \in Nat \ {0} /\ today \in Nat
         /\ FirstDay(u) = settledTo[u] + 1 \/ FirstDay(u) + MaxCatchup = today + 1
         /\ settledTo[u] = today - 1 => FirstDay(u) = today
<1>1. today \in Nat /\ settledTo[u] \in Nat /\ settledTo[u] # 0 /\ settledTo[u] <= today - 1
  BY DEF GuestTyped, Behind, GuestDay
<1>2. PICK x \in Int, y \in Int : x = settledTo[u] + 1 /\ y = (today - MaxCatchup) + 1 BY <1>1, GuestAssumption
<1>3. FirstDay(u) = IF x >= y THEN x ELSE y
  <2>1. \E m \in {x, y} : \A n \in {x, y} : m >= n OBVIOUS
  <2>2. Max({x, y}) \in {x, y} /\ Max({x, y}) >= x /\ Max({x, y}) >= y BY <2>1 DEF Max
  <2>3. FirstDay(u) = Max({x, y}) BY <1>2 DEF FirstDay
  <2> QED BY <2>2, <2>3
<1>4. MaxCatchup \in Nat \ {0} BY GuestAssumption
<1> QED BY <1>1, <1>2, <1>3, <1>4

States(u) == [pending : SUBSET Of(u, pending), skip : Nat, pay : Nat, paid : Nat, full : SUBSET GuestDay, missed : SUBSET GuestDay]
Start(u) == [pending |-> Of(u, pending), skip |-> noGuestsDay[u], pay |-> 0, paid |-> 0, full |-> {}, missed |-> {}]

Met(u, s, d) == {r \in s.pending : DueBy(r, d) /\ Ready(u, r)}
Paid(u, s, d) == s.pay + ((IF s.skip # d THEN Earns(u) ELSE 0) + SumFunction([r \in Met(u, s, d) |-> Extra(u, r)]))

\* What a night makes of the state of a pass (_settle_day).
LEMMA NightIs ==
  ASSUME GuestTyped, NEW u \in Units, NEW d \in GuestDay, NEW s \in States(u)
  PROVE  /\ Night(u, s, d) \in States(u)
         /\ Night(u, s, d).pending = s.pending \ {r \in s.pending : r.due <= d}
         /\ Night(u, s, d).pay = Paid(u, s, d)
         /\ \/ Night(u, s, d).full = s.full 
            \/ Night(u, s, d).full = s.full \cup {d} /\ s.skip # d
         /\ \/ Night(u, s, d).missed = s.missed /\ Night(u, s, d).skip = s.skip
            \/ Night(u, s, d).missed = s.missed \cup {d} /\ Night(u, s, d).skip = d + 1
<1> DEFINE due == {r \in s.pending : DueBy(r, d)}
           met == {r \in due : Ready(u, r)}
           missed == {r \in due \ met : r.kind = "item"}
           guests == s.skip # d /\ GuestCount(ScoreOf[inside[u]], BedsOf[inside[u]]) > 0
           sum == SumFunction([r \in met |-> Extra(u, r)])
           pay == (IF guests THEN Earns(u) ELSE 0) + sum
           n == Night(u, s, d)
<1>1. /\ s.pending \in SUBSET Of(u, pending) /\ s.skip \in Nat /\ s.pay \in Nat /\ s.paid \in Nat
      /\ s.full \in SUBSET GuestDay /\ s.missed \in SUBSET GuestDay
  BY DEF States
<1>2. n = [pending |-> s.pending \ due,
           skip |-> IF missed # {} THEN NextSkip(d) ELSE s.skip,
           pay |-> s.pay + pay, paid |-> s.paid + (IF pay > 0 THEN 1 ELSE 0),
           full |-> s.full \cup {e \in {d} : guests}, missed |-> s.missed \cup {e \in {d} : missed # {}}]
  BY DEF Night
<1>3. due = {r \in s.pending : r.due <= d} BY DEF DueBy
<1>4. met = Met(u, s, d) BY DEF Met
<1>5. sum \in Nat
  <2>1. IsFiniteSet(met)
    <3>1. met \subseteq pending BY <1>1 DEF Of
    <3> QED BY <3>1, FS_Subset DEF GuestTyped
  <2>2. [r \in met |-> Extra(u, r)] \in [met -> Nat] BY ExtraIs
  <2> HIDE DEF met
  <2> QED BY <2>1, <2>2, SumOfNaturals
<1>6. Earns(u) \in Nat /\ (GuestCount(ScoreOf[inside[u]], BedsOf[inside[u]]) = 0 => Earns(u) = 0)
      /\ GuestCount(ScoreOf[inside[u]], BedsOf[inside[u]]) \in Nat
  BY EarnsIs
<1> HIDE DEF sum, n, met
<1>7. pay = (IF s.skip # d THEN Earns(u) ELSE 0) + sum BY <1>6
<1>8. pay \in Nat BY <1>5, <1>6
<1>9. d \in Nat BY GuestAssumption DEF GuestDay
<1> HIDE DEF pay, guests, missed, due
<1>10. n.pending = s.pending \ due BY <1>2
<1>11. n.pay = s.pay + pay BY <1>2
<1>12. n.full = IF guests THEN s.full \cup {d} ELSE s.full BY <1>2
<1>13. n.missed = (IF missed # {} THEN s.missed \cup {d} ELSE s.missed) /\ n.skip = (IF missed # {} THEN d + 1 ELSE s.skip)
  BY <1>2 DEF NextSkip
<1>14. n \in States(u)
  <2>1. (IF missed # {} THEN NextSkip(d) ELSE s.skip) \in Nat BY <1>1, <1>9 DEF NextSkip
  <2>2. s.pay + pay \in Nat /\ s.paid + (IF pay > 0 THEN 1 ELSE 0) \in Nat BY <1>1, <1>8
  <2>3. s.full \cup {e \in {d} : guests} \in SUBSET GuestDay /\ s.missed \cup {e \in {d} : missed # {}} \in SUBSET GuestDay
    BY <1>1
  <2>4. s.pending \ due \in SUBSET Of(u, pending) BY <1>1
  <2> QED BY <1>2, <2>1, <2>2, <2>3, <2>4 DEF States
<1>15. guests => s.skip # d BY DEF guests
<1>16. n.pay = Paid(u, s, d) BY <1>4, <1>7, <1>11 DEF Paid, sum
<1>17. n.full = s.full \/ (n.full = s.full \cup {d} /\ s.skip # d) BY <1>12, <1>15
<1>18. (n.missed = s.missed /\ n.skip = s.skip) \/ (n.missed = s.missed \cup {d} /\ n.skip = d + 1) BY <1>13
<1> QED BY <1>3, <1>10, <1>14, <1>16, <1>17, <1>18 DEF n

\* The days of a pass one after the other are what `Settled` computes.
LEMMA PassRuns ==
  ASSUME GuestTyped, NEW u \in Units, Behind(u)
  PROVE  \E f \in [FirstDay(u) - 1 .. today -> States(u)] :
           /\ f[FirstDay(u) - 1] = Start(u) /\ Settled(u) = f[today]
           /\ \A d \in FirstDay(u) .. today : f[d] = Night(u, f[d - 1], d)
<1>1. PICK b \in Nat, t \in Nat : b = FirstDay(u) - 1 /\ t = today /\ b >= 1 /\ b < t BY FirstDayIs
<1>2. \A d \in b + 1 .. t : d \in GuestDay
  <2>1. LastGuestDay \in Nat BY GuestAssumption
  <2>2. t <= LastGuestDay BY <1>1, <2>1 DEF GuestTyped, GuestDay
  <2> QED BY <1>1, <2>1, <2>2 DEF GuestDay
<1>3. Start(u) \in States(u)
  <2>1. noGuestsDay[u] \in Nat BY DEF GuestTyped
  <2> QED BY <2>1 DEF Start, States
<1>4. PICK m \in Nat : m = t - b BY <1>1
<1> DEFINE G == [x \in (1..m) \X States(u) |-> Night(u, x[2], b + x[1])]
<1>5. G \in [(1..m) \X States(u) -> States(u)]
  <2> SUFFICES ASSUME NEW x \in (1..m) \X States(u) PROVE Night(u, x[2], b + x[1]) \in States(u) OBVIOUS
  <2>1. x[1] \in 1..m /\ x[2] \in States(u) OBVIOUS
  <2>2. b + x[1] \in b + 1 .. t BY <1>1, <1>4, <2>1
  <2>3. b + x[1] \in GuestDay BY <1>2, <2>2
  <2> QED BY <2>1, <2>3, NightIs
<1>6. PICK g \in [0..m -> States(u)] : g[0] = Start(u) /\ \A i \in 1..m : g[i] = G[<<i, g[i - 1]>>]
  <2> HIDE DEF G
  <2>1. Runs(m, States(u), Start(u), G) # {} BY <1>3, <1>5, Recursion
  <2> QED BY <2>1 DEF Runs
<1>7. \A i \in 1..m : g[i] = Night(u, g[i - 1], b + i)
  <2> SUFFICES ASSUME NEW i \in 1..m PROVE g[i] = Night(u, g[i - 1], b + i) OBVIOUS
  <2>1. g[i - 1] \in States(u)
    <3>1. i - 1 \in 0..m OBVIOUS
    <3> QED BY <3>1, <1>6
  <2>2. <<i, g[i - 1]>> \in (1..m) \X States(u) BY <2>1
  <2> QED BY <1>6, <2>2
<1> HIDE DEF G
<1>8. PICK f : f = [d \in b .. t |-> g[d - b]] OBVIOUS
<1>9. f \in [b .. t -> States(u)]
  <2>1. \A d \in b .. t : d - b \in 0..m BY <1>1, <1>4
  <2> QED BY <1>6, <1>8, <2>1
<1>10. f[b] = Start(u)
  <2>1. b \in b .. t /\ b - b = 0 BY <1>1
  <2> QED BY <1>6, <1>8, <2>1
<1>11. \A d \in b + 1 .. t : f[d] = Night(u, f[d - 1], d)
  <2> SUFFICES ASSUME NEW d \in b + 1 .. t PROVE f[d] = Night(u, f[d - 1], d) OBVIOUS
  <2>1. d \in b .. t /\ d - 1 \in b .. t /\ d - b \in 1..m /\ b + (d - b) = d /\ (d - 1) - b = (d - b) - 1 BY <1>1, <1>4
  <2>2. f[d] = g[d - b] /\ f[d - 1] = g[(d - b) - 1] BY <1>8, <2>1
  <2> QED BY <1>7, <2>1, <2>2
<1> DEFINE night == CHOOSE h : h = [d \in b .. t |-> IF d = b THEN Start(u) ELSE Night(u, h[d - 1], d)]
<1>12. f = [d \in b .. t |-> IF d = b THEN Start(u) ELSE Night(u, f[d - 1], d)]
  <2>1. \A d \in b .. t : d = b \/ d \in b + 1 .. t BY <1>1
  <2>2. \A d \in b .. t : f[d] = IF d = b THEN Start(u) ELSE Night(u, f[d - 1], d) BY <1>10, <1>11, <2>1
  <2>3. f = [d \in b .. t |-> f[d]] BY <1>9
  <2> QED BY <2>2, <2>3
<1>13. Settled(u) = night[t] BY <1>1 DEF Settled, Start
<1>14. night = [d \in b .. t |-> IF d = b THEN Start(u) ELSE Night(u, night[d - 1], d)] BY <1>12
<1> HIDE DEF night
<1>15. \A d \in b .. t : night[d] = IF d = b THEN Start(u) ELSE Night(u, night[d - 1], d) BY ONLY <1>14
<1> DEFINE H == {n \in Nat : b + n <= t => night[b + n] = f[b + n]}
<1>16. 0 \in H
  <2>1. b \in b .. t /\ b + 0 = b BY <1>1
  <2> QED BY <1>10, <1>15, <2>1
<1>17. ASSUME NEW n \in Nat, n \in H PROVE n + 1 \in H
  <2> SUFFICES ASSUME b + (n + 1) <= t PROVE night[b + (n + 1)] = f[b + (n + 1)] OBVIOUS
  <2>1. PICK d \in Nat : d = b + (n + 1) BY <1>1
  <2>2. d \in b + 1 .. t /\ d \in b .. t /\ d # b /\ d - 1 = b + n /\ b + n <= t BY <1>1, <2>1
  <2>3. night[d - 1] = f[d - 1] BY <1>17, <2>2
  <2>4. night[d] = Night(u, night[d - 1], d) BY <1>15, <2>2
  <2> QED BY <1>11, <2>1, <2>2, <2>3, <2>4
<1> HIDE DEF H
<1>18. m \in H BY <1>16, <1>17, NatInduct
<1>19. night[t] = f[t]
  <2>1. b + m = t BY <1>1, <1>4
  <2> QED BY <1>18, <2>1 DEF H
<1>20. b + 1 = FirstDay(u)
  <2>1. FirstDay(u) \in Int BY FirstDayIs
  <2> QED BY <1>1, <2>1
<1> QED BY <1>1, <1>9, <1>10, <1>11, <1>13, <1>19, <1>20

\* How far the books of a unit are after day d of a pass.
Missed(u, s) == missedOn[u] \cup s.missed
During(u, d, s) ==
  /\ s \in States(u)
  /\ d >= FirstDay(u) => \A r \in s.pending : r.due > d
  /\ s.full \subseteq FirstDay(u) .. d /\ s.missed \subseteq FirstDay(u) .. d
  /\ s.skip # 0 => s.skip - 1 \in Missed(u, s)
  /\ d \in Missed(u, s) => s.skip = d + 1
  /\ \A m \in Missed(u, s) : m + 1 \notin s.full

\* A pass starts with what holds during it.
LEMMA DuringStarts ==
  ASSUME GuestTyped, UnitsSound, NEW u \in Units, Behind(u)
  PROVE  During(u, FirstDay(u) - 1, Start(u))
<1>1. PICK b \in Nat : b = FirstDay(u) - 1 /\ b >= 1 /\ FirstDay(u) = b + 1 /\ settledTo[u] <= b /\ settledTo[u] \in Nat
  BY FirstDayIs
<1>2. noGuestsDay[u] \in Nat /\ missedOn[u] \subseteq GuestDay BY DEF GuestTyped
<1>3. Start(u) \in States(u) BY <1>2 DEF Start, States
<1>4. Start(u).pending = Of(u, pending) /\ Start(u).skip = noGuestsDay[u] /\ Start(u).full = {} /\ Start(u).missed = {}
  BY DEF Start
<1>5. Missed(u, Start(u)) = missedOn[u] BY <1>4 DEF Missed
<1>6. /\ noGuestsDay[u] # 0 => noGuestsDay[u] - 1 \in missedOn[u]
      /\ \A m \in missedOn[u] : m <= settledTo[u] /\ (m = settledTo[u] => noGuestsDay[u] = m + 1)
  BY DEF UnitsSound, Sound
<1>7. b \in missedOn[u] => noGuestsDay[u] = b + 1
  <2> SUFFICES ASSUME b \in missedOn[u] PROVE noGuestsDay[u] = b + 1 OBVIOUS
  <2>1. b <= settledTo[u] BY <1>6
  <2>2. b = settledTo[u] BY <1>1, <2>1
  <2> QED BY <1>6, <2>2
<1>8. ~(b >= FirstDay(u)) BY <1>1
<1> QED BY <1>1, <1>3, <1>4, <1>5, <1>6, <1>7, <1>8 DEF During

\* A night keeps it.
LEMMA DuringStep ==
  ASSUME GuestTyped, UnitsSound, NEW u \in Units, Behind(u), NEW d \in FirstDay(u) .. today, NEW s, During(u, d - 1, s)
  PROVE  During(u, d, Night(u, s, d))
<1> DEFINE n == Night(u, s, d)
<1>1. PICK b \in Nat : b = FirstDay(u) /\ b >= 2 /\ b <= d /\ d \in Nat /\ d >= 2 BY FirstDayIs
<1>2. d \in GuestDay
  <2>1. LastGuestDay \in Nat BY GuestAssumption
  <2>2. today \in Nat /\ today <= LastGuestDay BY <2>1 DEF GuestTyped, GuestDay
  <2> QED BY <1>1, <2>1, <2>2 DEF GuestDay
<1>3. /\ s \in States(u) /\ s.full \subseteq b .. d - 1 /\ s.missed \subseteq b .. d - 1
      /\ s.skip # 0 => s.skip - 1 \in Missed(u, s)
      /\ d - 1 \in Missed(u, s) => s.skip = d
      /\ \A m \in Missed(u, s) : m + 1 \notin s.full
  BY <1>1 DEF During
<1>4. /\ n \in States(u)
      /\ n.pending = s.pending \ {r \in s.pending : r.due <= d}
      /\ n.full = s.full \/ (n.full = s.full \cup {d} /\ s.skip # d)
      /\ \/ n.missed = s.missed /\ n.skip = s.skip
         \/ n.missed = s.missed \cup {d} /\ n.skip = d + 1
  BY <1>2, <1>3, NightIs
<1> HIDE DEF n
<1>5. \A r \in n.pending : r.due > d
  <2> SUFFICES ASSUME NEW r \in n.pending PROVE r.due > d OBVIOUS
  <2>1. r \in s.pending /\ ~(r.due <= d) BY <1>4
  <2>2. r \in pending BY <1>3, <2>1 DEF States, Of
  <2>3. r.due \in Nat BY <2>2 DEF GuestTyped, Reservations
  <2> QED BY <1>1, <2>1, <2>3
<1>6. s.full \subseteq b .. d /\ s.missed \subseteq b .. d /\ d \in b .. d
  <2>1. \A x \in b .. d - 1 : x \in b .. d BY <1>1
  <2> QED BY <1>1, <1>3, <2>1
<1>7. n.full \subseteq b .. d /\ n.missed \subseteq b .. d BY <1>4, <1>6
<1>8. \A m \in Missed(u, s) : m \in Nat /\ m <= d - 1
  <2> SUFFICES ASSUME NEW m \in Missed(u, s) PROVE m \in Nat /\ m <= d - 1 OBVIOUS
  <2>1. CASE m \in s.missed BY <1>1, <1>3, <2>1
  <2>2. CASE m \in missedOn[u]
    <3>1. m <= settledTo[u] BY <2>2 DEF UnitsSound, Sound
    <3>2. m \in GuestDay BY <2>2 DEF GuestTyped
    <3>3. FirstDay(u) > settledTo[u] /\ settledTo[u] \in Nat BY FirstDayIs
    <3> QED BY <1>1, <3>1, <3>2, <3>3, GuestAssumption DEF GuestDay
  <2> QED BY <2>1, <2>2 DEF Missed
<1>9. n.skip # 0 => n.skip - 1 \in Missed(u, n)
  <2>1. (d + 1) - 1 = d BY <1>1
  <2> QED BY <1>3, <1>4, <2>1 DEF Missed
<1>10. d \in Missed(u, n) => n.skip = d + 1
  <2>1. d \notin Missed(u, s) BY <1>1, <1>8
  <2>2. n.missed = s.missed => d \notin Missed(u, n) BY <2>1 DEF Missed
  <2> QED BY <1>4, <2>2
<1>11. ASSUME NEW m \in Missed(u, n) PROVE m + 1 \notin n.full
  <2>1. m \in Missed(u, s) \/ m = d BY <1>4, <1>11 DEF Missed
  <2>2. CASE m = d
    <3>1. d + 1 \notin b .. d BY <1>1
    <3> QED BY <1>7, <2>2, <3>1
  <2>3. CASE m \in Missed(u, s)
    <3>1. m + 1 \notin s.full BY <1>3, <2>3
    <3>2. CASE n.full = s.full BY <3>1, <3>2
    <3>3. CASE n.full = s.full \cup {d} /\ s.skip # d
      <4>1. m # d - 1 BY <1>3, <2>3, <3>3
      <4>2. m + 1 # d BY <1>1, <1>8, <2>3, <4>1
      <4> QED BY <3>1, <3>3, <4>2
    <3> QED BY <1>4, <3>2, <3>3
  <2> QED BY <2>1, <2>2, <2>3
<1> QED BY <1>1, <1>4, <1>5, <1>7, <1>9, <1>10, <1>11 DEF During, n

\* So it holds at the end.
LEMMA Settles ==
  ASSUME GuestTyped, UnitsSound, NEW u \in Units, Behind(u)
  PROVE  During(u, today, Settled(u))
<1>1. PICK b \in Nat, t \in Nat : b = FirstDay(u) - 1 /\ t = today /\ b < t /\ b + 1 = FirstDay(u) BY FirstDayIs
<1>2. PICK f \in [b .. t -> States(u)] :
        f[b] = Start(u) /\ Settled(u) = f[t] /\ \A d \in b + 1 .. t : f[d] = Night(u, f[d - 1], d)
  BY <1>1, PassRuns
<1> DEFINE H == {n \in Nat : b + n <= t => During(u, b + n, f[b + n])}
<1>3. 0 \in H
  <2>1. b + 0 = b BY <1>1
  <2> QED BY <1>1, <1>2, <2>1, DuringStarts
<1>4. ASSUME NEW n \in Nat, n \in H PROVE n + 1 \in H
  <2> SUFFICES ASSUME b + (n + 1) <= t PROVE During(u, b + (n + 1), f[b + (n + 1)]) OBVIOUS
  <2>1. PICK d \in Nat : d = b + (n + 1) BY <1>1
  <2>2. d \in b + 1 .. t /\ d - 1 = b + n /\ b + n <= t BY <1>1, <2>1
  <2>3. During(u, d - 1, f[d - 1]) BY <1>4, <2>2
  <2>4. d \in FirstDay(u) .. today BY <1>1, <2>2
  <2>5. During(u, d, Night(u, f[d - 1], d)) BY <2>3, <2>4, DuringStep
  <2> QED BY <1>2, <2>1, <2>2, <2>5
<1> HIDE DEF H
<1>5. PICK m \in Nat : m = t - b BY <1>1
<1>6. m \in H BY <1>3, <1>4, NatInduct
<1>7. During(u, t, f[t])
  <2>1. b + m = t BY <1>1, <1>5
  <2> QED BY <1>6, <2>1 DEF H
<1> QED BY <1>1, <1>2, <1>7

-----------------------------------------------------------------------------
(* What a pass makes of one unit. *)

\* A guest asks for at most one thing, and only where nothing is pending (_maybe_reserve).
LEMMA RequestIs ==
  ASSUME GuestTyped, NEW u \in Units, NEW left, NEW asked \in Requests(u, left)
  PROVE  \/ asked = {}
         \/ \E r \in Reservations : asked = {r} /\ left = {} /\ r.unit = u /\ r.kind = "item" /\ r.due > today
<1>1. CASE asked = {} BY <1>1
<1>2. CASE asked # {}
  <2>1. PICK w \in Requestable, lead \in LeadMin .. LeadMax :
          asked = {[unit |-> u, kind |-> "item", item |-> w, due |-> today + lead]} /\ left = {}
    BY <1>2 DEF Requests, MayAsk
  <2>2. PICK r : r = [unit |-> u, kind |-> "item", item |-> w, due |-> today + lead] OBVIOUS
  <2>3. w \in Wares /\ lead \in Nat \ {0} /\ today \in Nat
    <3>1. w \in Wares BY GuestAssumption
    <3>2. lead \in Nat \ {0}
      <4>1. LeadMin \in Nat \ {0} BY GuestAssumption
      <4> QED BY <4>1
    <3>3. today \in Nat BY GuestAssumption DEF GuestTyped, GuestDay
    <3> QED BY <3>1, <3>2, <3>3
  <2>4. r \in Reservations
    <3>0. PICK now \in Nat, n \in Nat : now = today /\ n = lead BY <2>3
    <3>1. today + lead \in Nat BY <3>0
    <3>2. w \in Wares \cup {""} BY <2>3
    <3>3. "item" \in {"item", "dog"} OBVIOUS
    <3> HIDE DEF Units
    <3> QED BY <2>2, <3>1, <3>2, <3>3 DEF Reservations
  <2>5. r.unit = u /\ r.kind = "item" /\ r.due = today + lead BY <2>2
  <2>6. r.due > today BY <2>3, <2>5
  <2> QED BY <2>6, <2>1, <2>2, <2>4, <2>5
<1> QED BY <1>1, <1>2

Typed(u, o) ==
  /\ o.to \in Nat /\ o.skip \in Nat /\ o.takings \in Nat
  /\ o.nights \in [GuestDay -> {"none", "guests", "empty"}] /\ o.missed \in SUBSET GuestDay
  /\ o.pending \subseteq Reservations /\ IsFiniteSet(o.pending)
  /\ \A r \in o.pending : r.unit = u /\ (r \in pending \/ r.kind = "item")
  /\ IsOpen(u) => o.to = today

SoundAfter(u, o) == Sound(openedOn[u], o.to, o.skip, o.pending, o.nights, missedOn[u] \cup o.missed)

\* The reservations of a unit are finitely many.
LEMMA LeftIs ==
  ASSUME GuestTyped, NEW u \in Units
  PROVE  Of(u, pending) \subseteq Reservations /\ IsFiniteSet(Of(u, pending)) /\ \A r \in Of(u, pending) : r.unit = u /\ r \in pending
<1>1. Of(u, pending) \subseteq pending /\ \A r \in Of(u, pending) : r.unit = u BY DEF Of
<1> QED BY <1>1, FS_Subset DEF GuestTyped

\* A unit that is not settled keeps its books.
LEMMA AsItIsSound ==
  ASSUME BookInv, NEW u \in Units, ~Behind(u)
  PROVE  Typed(u, AsItIs(u)) /\ SoundAfter(u, AsItIs(u))
<1> DEFINE o == AsItIs(u)
<1>1. /\ o.pending = Of(u, pending) /\ o.skip = noGuestsDay[u] /\ o.to = (IF Starts(u) THEN today ELSE settledTo[u])
      /\ o.nights = nights[u] /\ o.missed = {} /\ o.takings = takings[u]
  BY DEF AsItIs
<1> HIDE DEF o
<1>2. /\ today \in Nat \ {0} /\ settledTo[u] \in Nat /\ noGuestsDay[u] \in Nat /\ takings[u] \in Nat /\ openedOn[u] \in Nat
      /\ nights[u] \in [GuestDay -> {"none", "guests", "empty"}] /\ missedOn[u] \in SUBSET GuestDay
  BY DEF BookInv, GuestTyped, GuestDay
<1>3. Sound(openedOn[u], settledTo[u], noGuestsDay[u], Of(u, pending), nights[u], missedOn[u]) BY DEF BookInv, UnitsSound
<1>4. missedOn[u] \cup o.missed = missedOn[u] BY <1>1
<1>5. IsOpen(u) => o.to = today
  <2> SUFFICES ASSUME IsOpen(u), ~Starts(u) PROVE settledTo[u] = today BY <1>1
  <2>1. settledTo[u] # 0 /\ ~(settledTo[u] \in 1 .. today - 1) BY DEF Starts, Behind
  <2>2. settledTo[u] <= today BY <1>3 DEF Sound
  <2> QED BY <1>2, <2>1, <2>2
<1>6. Typed(u, o)
  <2>1. Of(u, pending) \subseteq Reservations /\ IsFiniteSet(Of(u, pending)) /\ \A r \in Of(u, pending) : r.unit = u /\ r \in pending
    BY LeftIs DEF BookInv
  <2> QED BY <1>1, <1>2, <1>5, <2>1 DEF Typed
<1>7. ASSUME ~Starts(u) PROVE SoundAfter(u, o)
  <2>1. o.to = settledTo[u] BY <1>1, <1>7
  <2> QED BY <1>1, <1>3, <1>4, <2>1, Zenon DEF SoundAfter
<1>8. ASSUME Starts(u) PROVE SoundAfter(u, o)
  <2>1. settledTo[u] = 0 /\ openedOn[u] # 0 BY <1>8 DEF Starts, IsOpen
  <2>2. \A d \in GuestDay : d \in Nat /\ d # 0 BY GuestAssumption DEF GuestDay
  <2>3. \A d \in GuestDay : nights[u][d] = "none" BY <1>2, <1>3, <2>1, <2>2 DEF Sound
  <2>4. Of(u, pending) = {} BY <1>3, <2>1 DEF Sound
  <2>5. missedOn[u] = {} BY <1>2, <1>3, <2>1, <2>2 DEF Sound
  <2>6. noGuestsDay[u] = 0 BY <1>3, <2>5 DEF Sound
  <2>7. openedOn[u] <= today BY <1>3 DEF Sound
  <2>8. Sound(openedOn[u], today, noGuestsDay[u], {}, nights[u], {}) BY <1>2, <2>1, <2>3, <2>6, <2>7 DEF Sound
  <2>9. o.to = today /\ o.skip = noGuestsDay[u] /\ o.pending = {} /\ o.nights = nights[u] BY <1>1, <1>8, <2>4
  <2>10. missedOn[u] \cup o.missed = {} BY <1>4, <2>5
  <2> QED BY <2>8, <2>9, <2>10, Zenon DEF SoundAfter
<1> QED BY <1>6, <1>7, <1>8 DEF o

\* The nights after a pass: as they were before its first day, known up to today.
LEMMA NightsAre ==
  ASSUME GuestTyped, UnitsSound, NEW u \in Units, Behind(u), NEW s
  PROVE  /\ NightsAfter(u, s) \in [GuestDay -> {"none", "guests", "empty"}]
         /\ \A d \in GuestDay :
              /\ d < FirstDay(u) => NightsAfter(u, s)[d] = nights[u][d]
              /\ d >= FirstDay(u) /\ d <= today => NightsAfter(u, s)[d] = IF d \in s.full THEN "guests" ELSE "empty"
              /\ d > today => NightsAfter(u, s)[d] = "none"
<1>1. PICK b \in Nat, t \in Nat : b = FirstDay(u) /\ t = today /\ b <= t /\ b > settledTo[u] /\ settledTo[u] \in Nat BY FirstDayIs
<1>2. \A d \in GuestDay : d \in Nat BY GuestAssumption DEF GuestDay
<1>3. nights[u] \in [GuestDay -> {"none", "guests", "empty"}] BY DEF GuestTyped
<1>4. ASSUME NEW d \in GuestDay, d >= b PROVE nights[u][d] = "none"
  <2>1. nights[u][d] # "none" => d <= settledTo[u] BY DEF UnitsSound, Sound
  <2> QED BY <1>1, <1>2, <1>4, <2>1
<1>5. ASSUME NEW d \in GuestDay
      PROVE  Went(u, s, d) = IF d < b THEN nights[u][d] ELSE IF d \in s.full THEN "guests" ELSE "empty"
  <2>1. d < b \/ d >= b BY <1>1, <1>2
  <2> QED BY <1>1, <1>4, <2>1 DEF Went
<1>6. \A d \in GuestDay : NightsAfter(u, s)[d] =
        IF d <= t THEN IF d < b THEN nights[u][d] ELSE IF d \in s.full THEN "guests" ELSE "empty" ELSE "none"
  BY <1>1, <1>5 DEF NightsAfter
<1>7. \A d \in GuestDay : NightsAfter(u, s)[d] \in {"none", "guests", "empty"} BY <1>3, <1>6
<1>8. NightsAfter(u, s) = [d \in GuestDay |-> NightsAfter(u, s)[d]] BY DEF NightsAfter
<1>9. NightsAfter(u, s) \in [GuestDay -> {"none", "guests", "empty"}] BY <1>7, <1>8
<1>10. \A d \in GuestDay :
              /\ d < b => NightsAfter(u, s)[d] = nights[u][d]
              /\ d >= b /\ d <= t => NightsAfter(u, s)[d] = IF d \in s.full THEN "guests" ELSE "empty"
              /\ d > t => NightsAfter(u, s)[d] = "none"
  BY <1>1, <1>2, <1>6
<1> QED BY <1>1, <1>9, <1>10

\* The books of a unit are sound after a pass.
LEMMA SettledSound ==
  ASSUME BookInv, NEW u \in Units, Behind(u), NEW o \in AfterPass(u, Settled(u))
  PROVE  Typed(u, o) /\ SoundAfter(u, o)
<1>1. PICK s : s = Settled(u) OBVIOUS
<1>2. During(u, today, s) BY <1>1, Settles DEF BookInv
<1>3. PICK asked \in Requests(u, s.pending), n \in {notes[u], NotesLeft(u, s.paid)} :
        o = [pending |-> s.pending \cup asked, skip |-> s.skip, to |-> today, notes |-> n,
             nights |-> NightsAfter(u, s), missed |-> s.missed, takings |-> s.pay]
  BY <1>1 DEF AfterPass
<1>4. PICK b \in Nat, t \in Nat : b = FirstDay(u) /\ t = today /\ b >= 2 /\ b <= t /\ b > settledTo[u] /\ settledTo[u] \in Nat \ {0}
                                  /\ (b = settledTo[u] + 1 \/ b + MaxCatchup = t + 1)
  BY FirstDayIs DEF BookInv
<1>5. /\ o.pending = s.pending \cup asked /\ o.skip = s.skip /\ o.to = t
      /\ o.nights = NightsAfter(u, s) /\ o.missed = s.missed /\ o.takings = s.pay
  BY <1>3, <1>4
<1>6. /\ s.pending \in SUBSET Of(u, pending) /\ s.skip \in Nat /\ s.pay \in Nat
      /\ s.full \in SUBSET GuestDay /\ s.missed \in SUBSET GuestDay
  BY <1>2 DEF During, States
<1>7. /\ \A r \in s.pending : r.due > t
      /\ s.full \subseteq b .. t /\ s.missed \subseteq b .. t
      /\ s.skip # 0 => s.skip - 1 \in Missed(u, s)
      /\ t \in Missed(u, s) => s.skip = t + 1
      /\ \A m \in Missed(u, s) : m + 1 \notin s.full
  BY <1>2, <1>4 DEF During
<1>8. /\ o.nights \in [GuestDay -> {"none", "guests", "empty"}]
      /\ \A d \in GuestDay :
              /\ d < b => o.nights[d] = nights[u][d]
              /\ d >= b /\ d <= t => o.nights[d] = IF d \in s.full THEN "guests" ELSE "empty"
              /\ d > t => o.nights[d] = "none"
  BY <1>4, <1>5, NightsAre DEF BookInv
<1>9. \/ asked = {}
      \/ \E r \in Reservations : asked = {r} /\ s.pending = {} /\ r.unit = u /\ r.kind = "item" /\ r.due > t
  BY <1>3, <1>4, RequestIs DEF BookInv
<1>10. Of(u, pending) \subseteq Reservations /\ IsFiniteSet(Of(u, pending)) /\ \A r \in Of(u, pending) : r.unit = u /\ r \in pending
  BY LeftIs DEF BookInv
<1>11. Sound(openedOn[u], settledTo[u], noGuestsDay[u], Of(u, pending), nights[u], missedOn[u]) BY DEF BookInv, UnitsSound
<1>12. Typed(u, o)
  <2>1. o.pending \subseteq Reservations /\ \A r \in o.pending : r.unit = u /\ (r \in pending \/ r.kind = "item")
    BY <1>5, <1>6, <1>9, <1>10
  <2>2. IsFiniteSet(o.pending)
    <3>1. IsFiniteSet(s.pending) BY <1>6, <1>10, FS_Subset
    <3>2. IsFiniteSet(asked)
      <4>1. asked = {} \/ \E r : asked = {r} BY <1>9
      <4>2. CASE asked = {} BY <4>2, FS_EmptySet, Zenon
      <4>3. CASE \E r : asked = {r}
        <5>1. PICK r : asked = {r} BY <4>3
        <5> QED BY <5>1, FS_Singleton, Zenon
      <4> QED BY <4>1, <4>2, <4>3
    <3> QED BY <1>5, <3>1, <3>2, FS_Union
  <2> QED BY <1>4, <1>5, <1>6, <1>8, <2>1, <2>2 DEF Typed
<1>13. \A d \in GuestDay : d \in Nat /\ d # 0 BY GuestAssumption DEF GuestDay
<1>14. t \in GuestDay /\ \A d \in Nat : d # 0 /\ d <= t => d \in GuestDay
  <2>1. LastGuestDay \in Nat /\ t \in GuestDay BY <1>4, GuestAssumption DEF BookInv, GuestTyped
  <2> QED BY <2>1 DEF GuestDay
<1>15. /\ openedOn[u] # 0 /\ openedOn[u] <= settledTo[u] /\ openedOn[u] \in Nat
       /\ \A d \in GuestDay : nights[u][d] # "none" => d > openedOn[u] /\ d <= settledTo[u] /\ nights[u][settledTo[u]] # "none"
       /\ \A d, e \in GuestDay :
           d < settledTo[u] /\ nights[u][d] = "none" /\ nights[u][d + 1] # "none" /\ e <= d /\ nights[u][e] # "none" =>
             \A n1 \in d + 1 .. d + MaxCatchup : n1 <= settledTo[u] /\ nights[u][n1] # "none"
       /\ \A r, r1 \in Of(u, pending) : r.kind = "item" /\ r1.kind = "item" => r = r1
       /\ \A m \in missedOn[u] : m <= settledTo[u]
       /\ \A m \in missedOn[u] : m + 1 \in GuestDay => nights[u][m + 1] # "guests"
  <2>1. openedOn[u] \in Nat BY DEF BookInv, GuestTyped
  <2> QED BY <1>4, <1>11, <2>1 DEF Sound
<1>16. \A d \in GuestDay : d >= b /\ d <= t => o.nights[d] # "none" BY <1>8
<1>17. \A d \in GuestDay : o.nights[d] # "none" => d > openedOn[u] /\ d <= t
  <2> SUFFICES ASSUME NEW d \in GuestDay, o.nights[d] # "none" PROVE d > openedOn[u] /\ d <= t OBVIOUS
  <2>1. d <= t BY <1>4, <1>8, <1>13
  <2>2. CASE d >= b BY <1>4, <1>13, <1>15, <2>1, <2>2
  <2>3. CASE ~(d >= b)
    <3>1. d < b BY <1>4, <1>13, <2>3
    <3>2. d > openedOn[u] BY <1>8, <1>15, <3>1
    <3> QED BY <2>1, <3>2
  <2> QED BY <2>2, <2>3
<1>18. o.nights[t] # "none" BY <1>4, <1>14, <1>16
<1>19. MaxCatchup \in Nat \ {0} BY GuestAssumption
<1>20. ASSUME NEW d \in GuestDay, NEW e \in GuestDay,
              d < t, o.nights[d] = "none", o.nights[d + 1] # "none", e <= d, o.nights[e] # "none",
              NEW n1 \in d + 1 .. d + MaxCatchup
       PROVE  n1 <= t /\ o.nights[n1] # "none"
  <2>1. d < b BY <1>4, <1>13, <1>16, <1>20
  <2>2. nights[u][d] = "none" /\ nights[u][e] # "none" /\ e <= settledTo[u] /\ nights[u][settledTo[u]] # "none"
    <3>1. e < b BY <1>4, <1>13, <1>20, <2>1
    <3> QED BY <1>8, <1>15, <1>20, <2>1, <3>1
  <2>3. n1 \in Nat /\ n1 # 0 /\ n1 >= d + 1 /\ n1 <= d + MaxCatchup /\ d + 1 \in GuestDay BY <1>4, <1>13, <1>14, <1>19, <1>20
  <2>4. CASE d + 1 < b
    <3>1. nights[u][d + 1] # "none" BY <1>8, <1>20, <2>3, <2>4
    <3>2. d + 1 <= settledTo[u] BY <1>15, <2>3, <3>1
    <3>3. d < settledTo[u] BY <1>4, <1>13, <3>2
    <3>4. n1 <= settledTo[u] /\ nights[u][n1] # "none" BY <1>15, <1>20, <2>2, <3>1, <3>3
    <3>5. n1 < b /\ n1 <= t /\ n1 \in GuestDay BY <1>4, <1>14, <2>3, <3>4
    <3> QED BY <1>8, <3>4, <3>5
  <2>5. CASE ~(d + 1 < b)
    <3>1. d + 1 = b BY <1>4, <1>13, <2>1, <2>5
    <3>2. b # settledTo[u] + 1
      <4> SUFFICES ASSUME b = settledTo[u] + 1 PROVE FALSE OBVIOUS
      <4>1. d = settledTo[u] BY <1>4, <1>13, <3>1
      <4> QED BY <2>2, <4>1
    <3>3. b + MaxCatchup = t + 1 BY <1>4, <3>2
    <3>4. n1 >= b /\ n1 <= t /\ n1 \in GuestDay BY <1>4, <1>13, <1>14, <1>19, <2>3, <3>1, <3>3
    <3> QED BY <1>16, <3>4
  <2> QED BY <2>4, <2>5
<1>21. \A r \in o.pending : r.due > t BY <1>5, <1>7, <1>9
<1>22. \A r, r1 \in o.pending : r.kind = "item" /\ r1.kind = "item" => r = r1
  <2>1. \A r, r1 \in s.pending : r.kind = "item" /\ r1.kind = "item" => r = r1 BY <1>6, <1>15
  <2>2. o.pending = s.pending \/ \E r : o.pending = {r} BY <1>5, <1>9
  <2> QED BY <2>1, <2>2
<1>23. missedOn[u] \cup o.missed = Missed(u, s) BY <1>5 DEF Missed
<1>24. \A m \in Missed(u, s) : m \in Nat /\ m <= t
  <2> SUFFICES ASSUME NEW m \in Missed(u, s) PROVE m \in Nat /\ m <= t OBVIOUS
  <2>1. CASE m \in s.missed BY <1>4, <1>7, <2>1
  <2>2. CASE m \in missedOn[u]
    <3>1. m \in GuestDay BY <2>2 DEF BookInv, GuestTyped
    <3> QED BY <1>4, <1>13, <1>15, <2>2, <3>1
  <2> QED BY <2>1, <2>2 DEF Missed
<1>25. \A m \in Missed(u, s) : m + 1 \in GuestDay => o.nights[m + 1] # "guests"
  <2> SUFFICES ASSUME NEW m \in Missed(u, s), m + 1 \in GuestDay PROVE o.nights[m + 1] # "guests" OBVIOUS
  <2>1. m \in Nat /\ m <= t /\ m + 1 \notin s.full BY <1>7, <1>24
  <2>2. CASE m + 1 > t BY <1>8, <2>2
  <2>3. CASE m + 1 >= b /\ m + 1 <= t BY <1>8, <2>1, <2>3
  <2>4. CASE m + 1 < b
    <3>1. m \notin s.missed BY <1>4, <1>7, <2>1, <2>4
    <3>2. m \in missedOn[u] BY <3>1 DEF Missed
    <3> QED BY <1>8, <1>15, <2>4, <3>2
  <2> QED BY <1>4, <2>1, <2>2, <2>3, <2>4
<1>26. openedOn[u] <= t BY <1>4, <1>15
<1>27. Sound(openedOn[u], t, s.skip, o.pending, o.nights, Missed(u, s))
  <2>1. t # 0 BY <1>4
  <2>2. openedOn[u] <= today /\ t <= today BY <1>4, <1>26
  <2> HIDE <1>11
  <2>3. \A m \in Missed(u, s) : m <= t /\ (m = t => s.skip = m + 1) BY <1>7, <1>24
  <2> QED BY <1>7, <1>15, <1>17, <1>18, <1>20, <1>21, <1>22, <1>25, <1>26, <2>1, <2>2, <2>3 DEF Sound
<1>28. SoundAfter(u, o) BY <1>5, <1>23, <1>27, Zenon DEF SoundAfter
<1> QED BY <1>12, <1>28

\* Whatever a pass makes of a unit is sound.
LEMMA OutcomeSound ==
  ASSUME BookInv, NEW u \in Units, NEW o \in Outcomes(u)
  PROVE  Typed(u, o) /\ SoundAfter(u, o)
<1>1. CASE Behind(u) BY <1>1, SettledSound DEF Outcomes
<1>2. CASE ~Behind(u)
  <2>1. o = AsItIs(u) BY <1>2 DEF Outcomes
  <2> QED BY <1>2, <2>1, AsItIsSound
<1> QED BY <1>1, <1>2

\* One more unit of a pass.
LEMMA WithUnitIs ==
  ASSUME NEW P, NEW u
  PROVE  /\ \A q \in WithUnit(P, u) : \E p \in P, o \in Outcomes(u) : q = Append(p, o)
         /\ \A Q : (\A p \in P, o \in Outcomes(u) : Append(p, o) \in Q) => WithUnit(P, u) \subseteq Q
<1>1. \A q \in WithUnit(P, u) : \E x \in P \X Outcomes(u) : q = Append(x[1], x[2]) BY DEF WithUnit
<1>2. ASSUME NEW Q, \A p \in P, o \in Outcomes(u) : Append(p, o) \in Q PROVE WithUnit(P, u) \subseteq Q
  <2>1. \A x \in P \X Outcomes(u) : Append(x[1], x[2]) \in Q BY <1>2
  <2> QED BY <2>1 DEF WithUnit
<1>3. \A q \in WithUnit(P, u) : \E p \in P, o \in Outcomes(u) : q = Append(p, o)
  <2> SUFFICES ASSUME NEW q \in WithUnit(P, u) PROVE \E p \in P, o \in Outcomes(u) : q = Append(p, o) OBVIOUS
  <2>1. PICK x \in P \X Outcomes(u) : q = Append(x[1], x[2]) BY <1>1
  <2>2. x[1] \in P /\ x[2] \in Outcomes(u) OBVIOUS
  <2> QED BY <2>1, <2>2
<1> QED BY <1>2, <1>3

\* A pass gives every unit an outcome of its own.
LEMMA PassIs ==
  ASSUME NEW after \in Passes
  PROVE  \A u \in Units : after[u] \in Outcomes(u)
<1> DEFINE O == UNION {Outcomes(u) : u \in Units}
           T == SUBSET Seq(O)
           G == [x \in (1..NUnits) \X T |-> WithUnit(x[2], x[1])]
<1>1. NUnits \in Nat BY GuestAssumption
<1>2. \A u \in 1..NUnits : Outcomes(u) \subseteq O BY DEF Units
<1>3. G \in [(1..NUnits) \X T -> T]
  <2> SUFFICES ASSUME NEW u \in 1..NUnits, NEW P \in T PROVE WithUnit(P, u) \in T OBVIOUS
  <2> SUFFICES ASSUME NEW p \in P, NEW o \in Outcomes(u) PROVE Append(p, o) \in Seq(O) BY WithUnitIs
  <2>1. p \in Seq(O) /\ o \in O BY <1>2
  <2> HIDE DEF O
  <2> QED BY <2>1
<1>4. {<<>>} \in T OBVIOUS
<1> HIDE DEF T
<1>5. PICK f \in [0..NUnits -> T] : f[0] = {<<>>} /\ \A i \in 1..NUnits : f[i] = G[<<i, f[i - 1]>>]
  <2> HIDE DEF G
  <2>1. Runs(NUnits, T, {<<>>}, G) # {} BY <1>1, <1>3, <1>4, Recursion
  <2> QED BY <2>1 DEF Runs
<1>6. \A i \in 1..NUnits : f[i] = WithUnit(f[i - 1], i)
  <2> SUFFICES ASSUME NEW i \in 1..NUnits PROVE f[i] = WithUnit(f[i - 1], i) OBVIOUS
  <2>1. i - 1 \in 0..NUnits BY <1>1
  <2>2. f[i - 1] \in T BY <1>5, <2>1
  <2> QED BY <1>5, <2>2
<1> HIDE DEF G
<1> DEFINE upTo == CHOOSE h : h = [u \in 0..NUnits |-> IF u = 0 THEN {<<>>} ELSE WithUnit(h[u - 1], u)]
<1>7. f = [u \in 0..NUnits |-> IF u = 0 THEN {<<>>} ELSE WithUnit(f[u - 1], u)]
  <2>1. \A u \in 0..NUnits : u = 0 \/ u \in 1..NUnits OBVIOUS
  <2>3. \A u \in 0..NUnits : f[u] = IF u = 0 THEN {<<>>} ELSE WithUnit(f[u - 1], u)
    BY <1>5, <1>6, <2>1
  <2>4. f = [u \in 0..NUnits |-> f[u]] BY <1>5
  <2> QED BY <2>3, <2>4
<1>8. Passes = upTo[NUnits] BY DEF Passes
<1>9. upTo = [u \in 0..NUnits |-> IF u = 0 THEN {<<>>} ELSE WithUnit(upTo[u - 1], u)] BY <1>7
<1> HIDE DEF upTo
<1>10. \A u \in 0..NUnits : upTo[u] = IF u = 0 THEN {<<>>} ELSE WithUnit(upTo[u - 1], u)
  BY ONLY <1>9
<1> DEFINE Good(n, p) == p \in Seq(O) /\ Len(p) = n /\ \A i \in 1..n : p[i] \in Outcomes(i)
           H == {n \in Nat : n <= NUnits => \A p \in upTo[n] : Good(n, p)}
<1>11. 0 \in H
  <2>1. upTo[0] = {<<>>} BY <1>1, <1>10
  <2>2. Good(0, <<>>) OBVIOUS
  <2> HIDE DEF Good
  <2> QED BY <2>1, <2>2
<1> HIDE DEF Good
<1>12. ASSUME NEW n \in Nat, n \in H PROVE n + 1 \in H
  <2> SUFFICES ASSUME n + 1 <= NUnits, NEW q \in upTo[n + 1] PROVE Good(n + 1, q) OBVIOUS
  <2>1. n <= NUnits /\ n + 1 \in 0..NUnits /\ n + 1 # 0 /\ (n + 1) - 1 = n /\ n + 1 \in 1..NUnits
    BY <1>1
  <2>2. upTo[n + 1] = WithUnit(upTo[n], n + 1) BY <1>10, <2>1
  <2>3. PICK p \in upTo[n], o \in Outcomes(n + 1) : q = Append(p, o) BY <2>2, WithUnitIs
  <2>4. p \in Seq(O) /\ Len(p) = n /\ \A i \in 1..n : p[i] \in Outcomes(i) BY <1>12, <2>1 DEF Good
  <2>5. o \in O BY <1>2, <2>1
  <2> HIDE DEF O
  <2>6. q \in Seq(O) /\ Len(q) = n + 1 BY <2>3, <2>4, <2>5
  <2>7. ASSUME NEW i \in 1..n + 1 PROVE q[i] \in Outcomes(i)
    <3>1. CASE i = n + 1
      <4>1. q[n + 1] = o BY <2>3, <2>4, <2>5
      <4> QED BY <3>1, <4>1
    <3>2. CASE i \in 1..n
      <4>1. q[i] = p[i] BY <2>3, <2>4, <2>5, <3>2
      <4> QED BY <2>4, <3>2, <4>1
    <3> QED BY <3>1, <3>2
  <2> QED BY <2>6, <2>7 DEF Good
<1> HIDE DEF H
<1>13. NUnits \in H BY <1>1, <1>11, <1>12, NatInduct
<1>14. Good(NUnits, after) BY <1>1, <1>8, <1>13 DEF H
<1> QED BY <1>14 DEF Units, Good

-----------------------------------------------------------------------------
(* Every step keeps the books. *)

\* The dog lover books an open unit for a day to come of a month not decided before (_maybe_dog).
LEMMA DogIs ==
  ASSUME GuestTyped
  PROVE  \/ DogAsks = {}
         \/ \E r \in Reservations : DogAsks = {r} /\ DogBooks /\ IsOpen(r.unit) /\ r.kind = "dog"
                                    /\ r.due > today /\ Month(r.due) = Month(today)
<1>1. CASE DogAsks = {} BY <1>1
<1>2. CASE DogAsks # {}
  <2>1. DogBooks /\ DogDay[Month(today)] > today
        /\ DogAsks = {[unit |-> Comfiest, kind |-> "dog", item |-> "", due |-> DogDay[Month(today)]]}
    BY <1>2 DEF DogAsks
  <2>2. PICK r : r = [unit |-> Comfiest, kind |-> "dog", item |-> "", due |-> DogDay[Month(today)]] OBVIOUS
  <2>3. Comfiest \in Units /\ IsOpen(Comfiest)
    <3>1. SpecialAfter \in Units /\ IsOpen(SpecialAfter) BY <2>1, GuestAssumption DEF DogBooks
    <3> QED BY <3>1, ComfiestIs
  <2>4. DogDay[Month(today)] \in Nat /\ Month(DogDay[Month(today)]) = Month(today) BY GuestAssumption DEF GuestTyped
  <2>5. r \in Reservations
    <3>1. "" \in Wares \cup {""} /\ "dog" \in {"item", "dog"} OBVIOUS
    <3> HIDE DEF Units
    <3> QED BY <2>2, <2>3, <2>4, <3>1 DEF Reservations
  <2>6. r.unit = Comfiest /\ r.kind = "dog" /\ r.due = DogDay[Month(today)] BY <2>2
  <2> QED BY <2>1, <2>2, <2>3, <2>4, <2>5, <2>6
<1> QED BY <1>1, <1>2

\* The books stay sound with the dog lover's booking.
LEMMA SoundWithDog ==
  ASSUME NEW opened, NEW to, NEW skip, NEW booked, NEW went, NEW missed, NEW r,
         Sound(opened, to, skip, booked, went, missed), to # 0, r.kind = "dog", r.due > to
  PROVE  Sound(opened, to, skip, booked \cup {r}, went, missed)
<1>1. "dog" # "item" OBVIOUS
<1> QED BY <1>1 DEF Sound

\* A pass keeps the books.
LEMMA SettleStep == ASSUME BookInv, Settle PROVE BookInv'
<1>1. PICK after \in Passes :
       /\ pending' = (UNION {after[u].pending : u \in Units}) \cup DogAsks
       /\ settledTo' = [u \in Units |-> after[u].to] /\ noGuestsDay' = [u \in Units |-> after[u].skip]
       /\ notes' = [u \in Units |-> after[u].notes] /\ nights' = [u \in Units |-> after[u].nights]
       /\ missedOn' = [u \in Units |-> missedOn[u] \cup after[u].missed]
       /\ takings' = [u \in Units |-> after[u].takings]
  BY DEF Settle
<1>2. /\ dogMonth' = IF DogBooks THEN Month(today) ELSE dogMonth
      /\ UNCHANGED <<today, inside, openedOn, moves, promise>>
  BY DEF Settle
<1>3. \A u \in Units : Typed(u, after[u]) /\ SoundAfter(u, after[u]) BY PassIs, OutcomeSound
<1>4. \/ DogAsks = {}
      \/ \E r \in Reservations : DogAsks = {r} /\ DogBooks /\ IsOpen(r.unit) /\ r.kind = "dog"
                                 /\ r.due > today /\ Month(r.due) = Month(today)
  BY DogIs DEF BookInv
<1>5. GuestTyped BY DEF BookInv
<1>6. Month(today) \in Int
  <2>1. today \in Nat \ {0} BY <1>5, GuestAssumption DEF GuestTyped, GuestDay
  <2> QED BY <2>1, LaterMonth
<1>7. GuestTyped'
  <2>1. today' \in GuestDay /\ dogMonth' \in Int BY <1>2, <1>5, <1>6 DEF GuestTyped
  <2>2. settledTo' \in [Units -> Nat] /\ noGuestsDay' \in [Units -> Nat] /\ openedOn' \in [Units -> Nat] /\ takings' \in [Units -> Nat]
    <3>1. \A u \in Units : after[u].to \in Nat /\ after[u].skip \in Nat /\ after[u].takings \in Nat BY <1>3 DEF Typed
    <3> QED BY <1>1, <1>2, <1>5, <3>1 DEF GuestTyped
  <2>3. nights' \in [Units -> [GuestDay -> {"none", "guests", "empty"}]]
    <3>1. \A u \in Units : after[u].nights \in [GuestDay -> {"none", "guests", "empty"}] BY <1>3 DEF Typed
    <3> QED BY <1>1, <3>1
  <2>4. missedOn' \in [Units -> SUBSET GuestDay]
    <3>1. \A u \in Units : missedOn[u] \cup after[u].missed \in SUBSET GuestDay BY <1>3, <1>5 DEF Typed, GuestTyped
    <3> QED BY <1>1, <3>1
  <2>5. inside' \in [Units -> SUBSET Wares] /\ promise' \in [Units -> Nat \cup {NoPromise}] BY <1>2, <1>5 DEF GuestTyped
  <2>6. pending' \subseteq Reservations
    <3>1. \A u \in Units : after[u].pending \subseteq Reservations BY <1>3 DEF Typed
    <3> QED BY <1>1, <1>4, <3>1
  <2>7. IsFiniteSet(pending')
    <3>1. PICK f : f = [u \in Units |-> after[u].pending] OBVIOUS
    <3>2. PICK all : all = {after[u].pending : u \in Units} OBVIOUS
    <3>3. f \in Surjection(Units, all) BY <3>1, <3>2 DEF Surjection
    <3>4. IsFiniteSet(Units)
      <4>1. NUnits \in Int /\ 1 \in Int BY GuestAssumption
      <4> QED BY <4>1, FS_Interval DEF Units
    <3>5. IsFiniteSet(all) BY <3>3, <3>4, FS_Surjection
    <3>6. \A T \in all : IsFiniteSet(T) BY <1>3, <3>2 DEF Typed
    <3>7. IsFiniteSet(UNION all) BY <3>5, <3>6, FS_UNION
    <3>8. IsFiniteSet(DogAsks) BY <1>4, FS_Singleton, FS_EmptySet
    <3> QED BY <1>1, <3>2, <3>7, <3>8, FS_Union
  <2> QED BY <2>1, <2>2, <2>3, <2>4, <2>5, <2>6, <2>7 DEF GuestTyped
<1>8. ASSUME NEW u \in Units
      PROVE  Of(u, pending') = after[u].pending \cup {r \in DogAsks : r.unit = u}
  <2>1. \A v \in Units : \A r \in after[v].pending : r.unit = v BY <1>3 DEF Typed
  <2> QED BY <1>1, <2>1 DEF Of
<1>9. ASSUME NEW u \in Units
      PROVE  Sound(openedOn[u], after[u].to, after[u].skip, Of(u, pending'), after[u].nights, missedOn[u] \cup after[u].missed)
  <2>1. Sound(openedOn[u], after[u].to, after[u].skip, after[u].pending, after[u].nights, missedOn[u] \cup after[u].missed)
    BY <1>3 DEF SoundAfter
  <2>2. CASE {r \in DogAsks : r.unit = u} = {}
    <3>1. Of(u, pending') = after[u].pending BY <1>8, <2>2
    <3> QED BY <2>1, <3>1
  <2>3. CASE {r \in DogAsks : r.unit = u} # {}
    <3>1. PICK r : {x \in DogAsks : x.unit = u} = {r} /\ r.unit = u /\ IsOpen(u) /\ r.kind = "dog" /\ r.due > today
      BY <1>4, <2>3
    <3>2. after[u].to = today BY <1>3, <3>1 DEF Typed
    <3>3. today # 0 BY <1>5, GuestAssumption DEF GuestTyped, GuestDay
    <3>4. Sound(openedOn[u], after[u].to, after[u].skip, after[u].pending \cup {r}, after[u].nights, missedOn[u] \cup after[u].missed)
      BY <2>1, <3>1, <3>2, <3>3, SoundWithDog
    <3>5. Of(u, pending') = after[u].pending \cup {r} BY <1>8, <3>1
    <3> QED BY <3>4, <3>5
  <2> QED BY <2>2, <2>3
<1>10. UnitsSound'
  <2> SUFFICES ASSUME NEW u \in Units
               PROVE  Sound(openedOn[u], settledTo[u], noGuestsDay[u], Of(u, pending), nights[u], missedOn[u])'
    BY DEF UnitsSound
  <2>1. openedOn'[u] = openedOn[u] /\ settledTo'[u] = after[u].to /\ noGuestsDay'[u] = after[u].skip /\ nights'[u] = after[u].nights
        /\ missedOn'[u] = missedOn[u] \cup after[u].missed /\ today' = today
    BY <1>1, <1>2
  <2> QED BY <1>9, <2>1 DEF Sound, Of
<1>11. DogsSound'
  <2>1. dogMonth <= Month(today) /\ dogMonth \in Int BY <1>5 DEF BookInv, DogsSound, GuestTyped
  <2>2. \A r \in pending' : r.kind = "dog" => r \in pending \/ r \in DogAsks
    <3>1. \A u \in Units : \A r \in after[u].pending : r.kind = "dog" => r \in pending BY <1>3 DEF Typed
    <3> QED BY <1>1, <3>1
  <2>3. \A r \in pending : r.kind = "dog" => Month(r.due) <= dogMonth BY DEF BookInv, DogsSound
  <2>4. \A r, s \in pending : r.kind = "dog" /\ s.kind = "dog" /\ Month(r.due) = Month(s.due) => r = s BY DEF BookInv, DogsSound
  <2>5. DogBooks => dogMonth # Month(today) BY DEF DogBooks, DogDecided
  <2>6. dogMonth' <= Month(today') /\ dogMonth <= dogMonth' /\ dogMonth' \in Int BY <1>2, <1>6, <2>1
  <2>7. \A r \in pending : r.due \in Nat /\ Month(r.due) \in Int
    <3>1. \A r \in pending : r.due \in Nat BY <1>5 DEF GuestTyped, Reservations
    <3>2. \A d \in Nat : Month(d) \in Int
      <4>1. MonthDays \in Nat \ {0} BY GuestAssumption
      <4> QED BY <4>1 DEF Month
    <3> QED BY <3>1, <3>2
  <2>8. ASSUME NEW r \in pending', r.kind = "dog" PROVE Month(r.due) <= dogMonth'
    <3>1. CASE r \in pending BY <2>1, <2>3, <2>6, <2>7, <2>8, <3>1
    <3>2. CASE r \in DogAsks BY <1>2, <1>4, <1>6, <3>2
    <3> QED BY <2>2, <2>8, <3>1, <3>2
  <2>9. ASSUME NEW r \in pending', NEW s \in pending', r.kind = "dog", s.kind = "dog", Month(r.due) = Month(s.due) PROVE r = s
    <3>1. CASE r \in pending /\ s \in pending BY <2>4, <2>9, <3>1
    <3>2. CASE r \in DogAsks /\ s \in DogAsks BY <1>4, <3>2
    <3>3. ASSUME NEW x \in pending, NEW y \in DogAsks, x.kind = "dog" PROVE Month(x.due) # Month(y.due)
      <4>1. Month(y.due) = Month(today) /\ DogBooks BY <1>4, <3>3
      <4>2. Month(x.due) <= dogMonth /\ dogMonth < Month(today) BY <1>6, <2>1, <2>3, <2>5, <3>3, <4>1
      <4> QED BY <1>6, <2>1, <2>7, <4>1, <4>2
    <3> QED BY <2>2, <2>9, <3>1, <3>2, <3>3
  <2> QED BY <2>6, <2>8, <2>9 DEF DogsSound, Month
<1> QED BY <1>7, <1>10, <1>11 DEF BookInv

\* What leaves the books alone, or opens a room that was locked.
LEMMA BooksKept ==
  ASSUME BookInv, GuestTyped', UNCHANGED <<settledTo, noGuestsDay, pending, dogMonth, nights, missedOn>>, today <= today',
         \A u \in Units : openedOn'[u] = openedOn[u] \/ (openedOn[u] = 0 /\ openedOn'[u] <= today')
  PROVE  BookInv'
<1>1. today \in Nat \ {0} /\ today' \in Nat \ {0} BY GuestAssumption DEF BookInv, GuestTyped, GuestDay
<1>2. UnitsSound'
  <2> SUFFICES ASSUME NEW u \in Units
               PROVE  Sound(openedOn[u], settledTo[u], noGuestsDay[u], Of(u, pending), nights[u], missedOn[u])'
    BY DEF UnitsSound
  <2>1. Sound(openedOn[u], settledTo[u], noGuestsDay[u], Of(u, pending), nights[u], missedOn[u]) BY DEF BookInv, UnitsSound
  <2>2. settledTo[u] \in Nat /\ openedOn[u] \in Nat /\ openedOn'[u] \in Nat BY DEF BookInv, GuestTyped
  <2>3. CASE openedOn'[u] = openedOn[u] BY <1>1, <2>1, <2>2, <2>3 DEF Sound, Of
  <2>4. CASE openedOn[u] = 0 /\ openedOn'[u] <= today'
    <3>1. settledTo[u] = 0 BY <2>1, <2>4 DEF Sound
    <3>2. \A d \in GuestDay : d \in Nat /\ d # 0 BY GuestAssumption DEF GuestDay
    <3>3. \A d \in GuestDay : nights[u][d] = "none" BY <2>1, <3>1, <3>2 DEF Sound
    <3> QED BY <1>1, <2>1, <2>2, <2>4, <3>1, <3>3 DEF Sound, Of
  <2> QED BY <2>3, <2>4
<1>3. Month(today) \in Int /\ Month(today') \in Int /\ Month(today) <= Month(today') BY <1>1, LaterMonth
<1>4. DogsSound'
  <2>1. dogMonth \in Int /\ dogMonth <= Month(today) BY DEF BookInv, DogsSound, GuestTyped
  <2>2. dogMonth <= Month(today') BY <1>3, <2>1
  <2> QED BY <2>2 DEF BookInv, DogsSound, Month
<1> QED BY <1>2, <1>4 DEF BookInv

\* The panel shows a number.
LEMMA PanelPays == ASSUME GuestTyped, NEW u \in Units PROVE PanelPay(u) \in Nat
<1> DEFINE first == {r \in Of(u, pending) : \A s \in Of(u, pending) : r.due <= s.due}
           kept == {r \in first : r.due = today + 1 /\ Ready(u, r)}
           extras == {Extra(u, r) : r \in kept}
<1>1. PanelPay(u) = (IF Skips(u) THEN 0 ELSE Earns(u)) + IF kept = {} THEN 0 ELSE Min(extras) BY DEF PanelPay
<1>2. extras \in SUBSET Nat BY ExtraIs
<1>3. extras # {} => Min(extras) \in Nat
  <2> SUFFICES ASSUME extras # {} PROVE Min(extras) \in Nat OBVIOUS
  <2> HIDE DEF extras
  <2>1. \E x \in extras : \A y \in extras : x <= y BY <1>2, LeastNumber
  <2> QED BY <1>2, <2>1 DEF Min
<1>4. kept # {} => extras # {} OBVIOUS
<1> HIDE DEF extras, kept
<1> QED BY <1>1, <1>3, <1>4, EarnsIs

\* The books are sound at the start.
LEMMA BooksInitially == GuestInit => BookInv
<1> SUFFICES ASSUME GuestInit PROVE BookInv OBVIOUS
<1>1. /\ today = 1 /\ settledTo = [u \in Units |-> 0] /\ noGuestsDay = [u \in Units |-> 0] /\ pending = {} /\ dogMonth = 0
      /\ inside = Stocked /\ openedOn = [u \in Units |-> IF u = 1 THEN 1 ELSE 0]
      /\ nights = [u \in Units |-> [d \in GuestDay |-> "none"]] /\ missedOn = [u \in Units |-> {}]
      /\ promise = [u \in Units |-> NoPromise] /\ takings = [u \in Units |-> 0]
  BY DEF GuestInit
<1>2. today \in GuestDay BY <1>1, GuestAssumption DEF GuestDay
<1>3. GuestTyped
  <2>1. IsFiniteSet(pending) /\ pending \subseteq Reservations BY <1>1, FS_EmptySet
  <2>2. inside \in [Units -> SUBSET Wares] BY <1>1, GuestAssumption
  <2>3. {settledTo, noGuestsDay, openedOn} \subseteq [Units -> Nat] BY <1>1
  <2> QED BY <1>1, <1>2, <2>1, <2>2, <2>3 DEF GuestTyped
<1>4. UnitsSound BY <1>1 DEF UnitsSound, Sound, Of
<1>5. DogsSound
  <2>1. 0 <= Month(1)
    <3>1. MonthDays \in Nat \ {0} BY GuestAssumption
    <3>2. (1 - 1) \div MonthDays = 0 BY <3>1
    <3> QED BY <3>2 DEF Month
  <2> QED BY <1>1, <2>1 DEF DogsSound
<1> QED BY <1>3, <1>4, <1>5 DEF BookInv

\* Every step keeps them.
LEMMA BooksStep == BookInv /\ [GuestNext]_guestVars => BookInv'
<1> SUFFICES ASSUME BookInv, [GuestNext]_guestVars PROVE BookInv' OBVIOUS
<1>1. GuestTyped BY DEF BookInv
<1>2. today \in Nat BY <1>1, GuestAssumption DEF GuestTyped, GuestDay
<1>3. CASE UNCHANGED guestVars
  <2>1. GuestTyped' BY <1>1, <1>3 DEF GuestTyped, guestVars
  <2> QED BY <1>2, <1>3, <2>1, BooksKept DEF guestVars
<1>4. ASSUME NEW n \in 1 .. MaxCatchup + 1, Checkout(n) PROVE BookInv'
  <2>1. today' \in GuestDay /\ today <= today'
    <3>1. LastGuestDay \in Nat /\ MaxCatchup \in Nat /\ today \in GuestDay BY <1>1, GuestAssumption DEF GuestTyped
    <3> QED BY <1>4, <3>1 DEF Checkout, GuestDay
  <2>2. promise' \in [Units -> Nat \cup {NoPromise}]
    <3>1. \A u \in Units : PanelPay(u) \in Nat BY <1>1, PanelPays
    <3> QED BY <1>4, <3>1 DEF Checkout
  <2>3. GuestTyped' BY <1>1, <1>4, <2>1, <2>2 DEF GuestTyped, Checkout
  <2> QED BY <1>4, <2>1, <2>3, BooksKept DEF Checkout
<1>5. ASSUME NEW u \in Units, NEW wares \in SUBSET Wares, Change(u, wares) PROVE BookInv'
  <2>1. inside' \in [Units -> SUBSET Wares] /\ promise' \in [Units -> Nat \cup {NoPromise}] BY <1>1, <1>5 DEF Change, GuestTyped
  <2>2. GuestTyped' BY <1>1, <1>5, <2>1 DEF GuestTyped, Change
  <2> QED BY <1>2, <1>5, <2>2, BooksKept DEF Change
<1>6. ASSUME NEW u \in Units, OpenRoom(u) PROVE BookInv'
  <2>1. openedOn' \in [Units -> Nat] BY <1>1, <1>2, <1>6 DEF OpenRoom, GuestTyped
  <2>2. GuestTyped' BY <1>1, <1>6, <2>1 DEF GuestTyped, OpenRoom
  <2>3. \A v \in Units : openedOn'[v] = openedOn[v] \/ (openedOn[v] = 0 /\ openedOn'[v] <= today')
    BY <1>1, <1>2, <1>6 DEF OpenRoom, IsOpen, GuestTyped
  <2> QED BY <1>2, <1>6, <2>2, <2>3, BooksKept DEF OpenRoom
<1>7. ASSUME NEW u \in Units, TakeNote(u) PROVE BookInv'
  <2>1. GuestTyped' BY <1>1, <1>7 DEF GuestTyped, TakeNote
  <2> QED BY <1>2, <1>7, <2>1, BooksKept DEF TakeNote
<1>8. ASSUME NEW u \in Units, NEW w \in Movable[u], Change(u, inside[u] \cup {w}) \/ Change(u, inside[u] \ {w}) PROVE BookInv'
  <2>1. inside[u] \in SUBSET Wares BY <1>1, InsideIs
  <2>2. w \in Wares BY GuestAssumption
  <2> QED BY <1>5, <1>8, <2>1, <2>2
<1> QED BY <1>3, <1>4, <1>6, <1>7, <1>8, SettleStep DEF GuestNext

\* Sound books are honest.
LEMMA BooksHonest == BookInv => BooksAreHonest
<1> SUFFICES ASSUME BookInv PROVE BooksAreHonest OBVIOUS
<1>1. GuestTyped BY DEF BookInv
<1>2. \A d \in GuestDay : d \in Nat /\ d # 0 BY GuestAssumption DEF GuestDay
<1>3. today \in Nat /\ \A u \in Units : settledTo[u] \in Nat /\ openedOn[u] \in Nat /\ missedOn[u] \in SUBSET GuestDay
                         /\ nights[u] \in [GuestDay -> {"none", "guests", "empty"}]
  BY <1>1, <1>2 DEF GuestTyped
<1>4. \A u \in Units : Sound(openedOn[u], settledTo[u], noGuestsDay[u], Of(u, pending), nights[u], missedOn[u])
  BY DEF BookInv, UnitsSound
<1>5. NightsAreSettledOnce
  <2> SUFFICES ASSUME NEW u \in Units, NEW d \in GuestDay, nights[u][d] # "none"
               PROVE  nights[u][d] # "twice" /\ openedOn[u] # 0 /\ d \in openedOn[u] + 1 .. today
    BY DEF NightsAreSettledOnce
  <2>1. d > openedOn[u] /\ d <= settledTo[u] /\ settledTo[u] <= today /\ (settledTo[u] # 0 => openedOn[u] # 0) BY <1>4 DEF Sound
  <2>2. nights[u][d] \in {"none", "guests", "empty"} BY <1>3
  <2> QED BY <1>2, <1>3, <2>1, <2>2
<1>6. OnlySleepLosesNights
  <2> SUFFICES ASSUME NEW u \in Units, NEW d \in GuestDay, d < settledTo[u], nights[u][d] = "none", nights[u][d + 1] # "none",
                      NEW e \in 1 .. d, nights[u][e] # "none", NEW n \in d + 1 .. d + MaxCatchup
               PROVE  n <= settledTo[u] /\ nights[u][n] # "none"
    BY DEF OnlySleepLosesNights
  <2>1. e \in GuestDay /\ e <= d
    <3>1. LastGuestDay \in Nat BY GuestAssumption
    <3> QED BY <3>1 DEF GuestDay
  <2> QED BY <1>4, <2>1 DEF Sound
<1>7. NothingOverdue
  <2> SUFFICES ASSUME NEW r \in pending PROVE r.due > settledTo[r.unit] BY DEF NothingOverdue
  <2>1. r.unit \in Units /\ r \in Of(r.unit, pending) BY <1>1 DEF GuestTyped, Reservations, Of
  <2> QED BY <1>4, <2>1 DEF Sound
<1>8. OneRequestAtATime
  <2>1. ASSUME NEW u \in Units PROVE Cardinality({r \in Of(u, pending) : r.kind = "item"}) <= 1
    <3>1. PICK asked : asked = {r \in Of(u, pending) : r.kind = "item"} OBVIOUS
    <3>2. \A r, s \in asked : r = s BY <1>4, <3>1 DEF Sound
    <3>3. asked = {} \/ \E r : asked = {r} BY <3>2
    <3>4. Cardinality(asked) = 0 \/ Cardinality(asked) = 1 BY <3>3, FS_EmptySet, FS_Singleton
    <3> QED BY <3>1, <3>4
  <2> QED BY <2>1 DEF OneRequestAtATime, BookInv, DogsSound
<1>9. AMissCostsOneNight
  <2> SUFFICES ASSUME NEW u \in Units, NEW d \in GuestDay
               PROVE  /\ d - 1 \in missedOn[u] => nights[u][d] # "guests"
                      /\ noGuestsDay[u] # 0 => noGuestsDay[u] - 1 \in missedOn[u]
    BY DEF AMissCostsOneNight
  <2>1. (d - 1) + 1 = d BY <1>2
  <2> QED BY <1>4, <2>1 DEF Sound
<1> QED BY <1>5, <1>6, <1>7, <1>8, <1>9 DEF BooksAreHonest

\* However passes and days interleave (guests.settle, settle_guests of main.py), the books of the units stay honest:
\* no night is settled twice or lost but by sleeping too long, nothing pending is overdue, nobody books twice, and a
\* request that was missed (_settle_day) costs the guests of one night.
THEOREM BooksStayHonest == GuestSpec => []BooksAreHonest
BY BooksInitially, BooksStep, BooksHonest, PTL DEF GuestSpec

-----------------------------------------------------------------------------
(* The panel. *)

\* What the panel promises of a unit with these wares, flag and reservations for the night to day d.
Tonight(wares, skip, booked, d) ==
  LET first == {r \in booked : \A s \in booked : r.due <= s.due}
      ready(r) == /\ BedsOf[wares] > 0
                  /\ \/ r.kind = "item" /\ r.item \in wares
                     \/ r.kind = "dog" /\ (wares \cap DogWares # {} \/ ScoreOf[wares] >= DogFallback)
      kept == {r \in first : r.due = d /\ ready(r)}
  IN (IF skip = d THEN 0 ELSE NightlyPay(ScoreOf[wares], BedsOf[wares]))
     + IF kept = {} THEN 0 ELSE Min({PayPerGuest(ScoreOf[wares]) * (IF r.kind = "dog" THEN DogMult ELSE ReserveMult) : r \in kept})
Promised(u) == Tonight(inside[u], noGuestsDay[u], Of(u, pending), today)

KeepsWord(u) ==
  promise[u] # NoPromise =>
    \/ settledTo[u] = today - 1 /\ settledTo[u] # 0 /\ promise[u] = Promised(u)
    \/ settledTo[u] = today /\ takings[u] >= promise[u]
PanelInv == BookInv /\ \A u \in Units : KeepsWord(u)

\* The panel shows what the next night is to bring.
LEMMA PanelShows == ASSUME NEW u PROVE PanelPay(u) = Tonight(inside[u], noGuestsDay[u], Of(u, pending), today + 1)
BY DEF PanelPay, Tonight, Skips, Earns, Extra, Ready

\* A night that follows at once brings what was promised.
LEMMA NightBrings ==
  ASSUME BookInv, NEW u \in Units, Behind(u), settledTo[u] = today - 1
  PROVE  Settled(u).pay \in Nat /\ Promised(u) \in Int /\ Settled(u).pay >= Promised(u)
<1>1. GuestTyped BY DEF BookInv
<1>2. PICK t \in Nat : t = today /\ FirstDay(u) = t /\ t - 1 \in Nat BY <1>1, FirstDayIs
<1>3. PICK f \in [t - 1 .. t -> States(u)] : f[t - 1] = Start(u) /\ Settled(u) = f[t] /\ f[t] = Night(u, f[t - 1], t)
  <2>1. t \in t .. t BY <1>2
  <2> QED BY <1>1, <1>2, <2>1, PassRuns
<1>4. Start(u) \in States(u)
  <2>1. t - 1 \in t - 1 .. t BY <1>2
  <2> QED BY <1>3, <2>1
<1>5. t \in GuestDay BY <1>1, <1>2 DEF GuestTyped
<1> DEFINE met == Met(u, Start(u), t)
           extra == [r \in met |-> Extra(u, r)]
           first == {r \in Of(u, pending) : \A s \in Of(u, pending) : r.due <= s.due}
           kept == {r \in first : r.due = t /\ Ready(u, r)}
           extras == {Extra(u, r) : r \in kept}
<1>6. Settled(u).pay = 0 + ((IF noGuestsDay[u] # t THEN Earns(u) ELSE 0) + SumFunction(extra))
  <2>1. Night(u, Start(u), t).pay = Paid(u, Start(u), t) BY <1>1, <1>4, <1>5, NightIs
  <2>2. Start(u).pay = 0 /\ Start(u).skip = noGuestsDay[u] BY DEF Start
  <2> QED BY <1>3, <2>1, <2>2 DEF Paid
<1>7. Promised(u) = (IF noGuestsDay[u] = t THEN 0 ELSE Earns(u)) + (IF kept = {} THEN 0 ELSE Min(extras))
  BY <1>2 DEF Promised, Tonight, Earns, Extra, Ready
<1>8. Start(u).pending = Of(u, pending) BY DEF Start
<1>9. kept \subseteq met BY <1>8, <1>2 DEF Met, DueBy
<1>10. IsFiniteSet(met)
  <2>1. IsFiniteSet(Of(u, pending)) BY <1>1, LeftIs
  <2>2. met \subseteq Of(u, pending) BY <1>8 DEF Met
  <2> QED BY <2>1, <2>2, FS_Subset
<1>11. extra \in [met -> Nat] /\ extras \in SUBSET Nat BY <1>1, ExtraIs
<1>12. SumFunction(extra) \in Nat
  <2> HIDE DEF met, extra
  <2> QED BY <1>10, <1>11, SumOfNaturals
<1>13. kept # {} => Min(extras) \in Nat /\ Min(extras) <= SumFunction(extra)
  <2> SUFFICES ASSUME kept # {} PROVE Min(extras) \in Nat /\ Min(extras) <= SumFunction(extra) OBVIOUS
  <2>1. extras # {} OBVIOUS
  <2>2. Min(extras) \in extras
    <3> HIDE DEF extras
    <3>1. \E x \in extras : \A y \in extras : x <= y BY <1>11, <2>1, LeastNumber
    <3> QED BY <3>1 DEF Min
  <2>3. PICK r \in kept : Min(extras) = Extra(u, r) BY <2>2
  <2>4. r \in met /\ extra[r] = Extra(u, r) BY <1>9
  <2>5. PICK one : one = [x \in {r} |-> extra[x]] OBVIOUS
  <2>6. one \in [{r} -> Nat] /\ \A x \in {r} : extra[x] = one[x] BY <1>11, <2>4, <2>5
  <2>7. {r} \in SUBSET met /\ IsFiniteSet({r}) BY <2>4, FS_Singleton
  <2> HIDE DEF met, extra, kept, extras
  <2>8. SumFunction(one) <= SumFunction(extra) BY <1>10, <1>11, <2>6, <2>7, SumOfPart
  <2>9. SumFunction(one) = one[r]
    <3>1. \A x \in {r} : one[x] \in Int BY <2>6
    <3>2. SumFunctionOnSet(one, {r}) = one[r] + SumFunctionOnSet(one, {r} \ {r}) /\ SumFunctionOnSet(one, {}) = 0 BY <2>7, <3>1, SumOn
    <3>3. {r} \ {r} = {} OBVIOUS
    <3>4. SumFunction(one) = SumFunctionOnSet(one, {r})
      <4>1. DOMAIN one = {r} BY <2>6
      <4> QED BY <4>1 DEF SumFunction
    <3>5. SumFunctionOnSet(one, {r} \ {r}) = 0 BY <3>2, <3>3, Zenon
    <3>6. PICK v \in Int : v = one[r] BY <3>1
    <3>7. SumFunction(one) = v + 0 BY <3>2, <3>4, <3>5, <3>6
    <3> QED BY <3>6, <3>7
  <2>10. one[r] = Extra(u, r) /\ one[r] \in Nat BY <2>4, <2>5, <2>6
  <2> QED BY <2>3, <2>8, <2>9, <2>10
<1>14. Earns(u) \in Nat BY <1>1, EarnsIs
<1>15. PICK x \in Nat, y \in Nat : x = (IF noGuestsDay[u] = t THEN 0 ELSE Earns(u)) /\ y = (IF kept = {} THEN 0 ELSE Min(extras))
                                   /\ y <= SumFunction(extra)
  <2>1. PICK z \in Nat : z = SumFunction(extra) BY <1>12
  <2>2. (IF kept = {} THEN 0 ELSE Min(extras)) \in Nat /\ (IF kept = {} THEN 0 ELSE Min(extras)) <= z
    <3>1. CASE kept = {} BY <3>1, <2>1
    <3>2. CASE kept # {}
      <4>1. Min(extras) \in Nat /\ Min(extras) <= z BY <3>2, <1>13, <2>1, Zenon
      <4> HIDE DEF kept, extras
      <4> QED BY <3>2, <4>1
    <3> QED BY <3>1, <3>2
  <2>3. (IF noGuestsDay[u] # t THEN Earns(u) ELSE 0) = IF noGuestsDay[u] = t THEN 0 ELSE Earns(u) OBVIOUS
  <2>4. (IF noGuestsDay[u] = t THEN 0 ELSE Earns(u)) \in Nat BY <1>14
  <2> HIDE DEF extra, kept, extras
  <2> QED BY <2>1, <2>2, <2>4
<1>16. Promised(u) = x + y BY <1>7, <1>15
<1>17. Settled(u).pay = 0 + (x + SumFunction(extra)) BY <1>6, <1>15
<1> HIDE DEF extra, kept, extras
<1> QED BY <1>12, <1>15, <1>16, <1>17

\* What a pass makes of a unit that is behind, and of one that is not.
LEMMA PassPays ==
  ASSUME NEW u, NEW o \in Outcomes(u)
  PROVE  /\ Behind(u) => o.to = today /\ o.takings = Settled(u).pay
         /\ ~Behind(u) /\ settledTo[u] # 0 => o.to = settledTo[u] /\ o.takings = takings[u]
<1>1. ASSUME Behind(u) PROVE o.to = today /\ o.takings = Settled(u).pay
  <2>1. o \in AfterPass(u, Settled(u)) BY <1>1 DEF Outcomes
  <2>2. PICK s : s = Settled(u) OBVIOUS
  <2>3. o \in AfterPass(u, s) BY <2>1, <2>2, Zenon
  <2>4. o.to = today /\ o.takings = s.pay BY <2>3 DEF AfterPass
  <2> QED BY <2>2, <2>4
<1>2. ASSUME ~Behind(u), settledTo[u] # 0 PROVE o.to = settledTo[u] /\ o.takings = takings[u]
  <2>1. o = AsItIs(u) BY <1>2 DEF Outcomes
  <2>2. ~Starts(u) BY <1>2 DEF Starts
  <2> QED BY <2>1, <2>2 DEF AsItIs
<1> QED BY <1>1, <1>2

\* A pass brings what the panel promised.
LEMMA PanelSettles == ASSUME PanelInv, Settle, NEW u \in Units PROVE KeepsWord(u)'
<1>1. PICK after \in Passes :
       settledTo' = [v \in Units |-> after[v].to] /\ takings' = [v \in Units |-> after[v].takings]
  BY DEF Settle
<1>2. UNCHANGED <<today, inside, promise>> BY DEF Settle
<1>3. after[u] \in Outcomes(u) BY PassIs
<1>4. PICK o : o = after[u] OBVIOUS
<1>5. settledTo'[u] = o.to /\ takings'[u] = o.takings BY <1>1, <1>4
<1>6. BookInv /\ GuestTyped /\ KeepsWord(u) BY DEF PanelInv, BookInv
<1>7. today \in Nat \ {0} /\ settledTo[u] \in Nat BY <1>6, GuestAssumption DEF GuestTyped, GuestDay
<1> SUFFICES ASSUME promise[u] # NoPromise PROVE settledTo'[u] = today /\ takings'[u] >= promise[u]
  BY <1>2 DEF KeepsWord
<1>8. CASE settledTo[u] = today - 1 /\ settledTo[u] # 0 /\ promise[u] = Promised(u)
  <2>1. openedOn[u] # 0 BY <1>6, <1>8 DEF BookInv, UnitsSound, Sound
  <2>2. Behind(u) BY <1>7, <1>8, <2>1 DEF Behind, IsOpen
  <2>3. o.to = today /\ o.takings = Settled(u).pay BY <1>3, <1>4, <2>2, PassPays
  <2>4. Settled(u).pay >= Promised(u) BY <1>6, <1>8, <2>2, NightBrings
  <2> QED BY <1>5, <1>8, <2>3, <2>4
<1>9. CASE settledTo[u] = today /\ takings[u] >= promise[u]
  <2>1. ~Behind(u) /\ settledTo[u] # 0 BY <1>7, <1>9 DEF Behind
  <2>2. o.to = settledTo[u] /\ o.takings = takings[u] BY <1>3, <1>4, <2>1, PassPays
  <2> QED BY <1>5, <1>9, <2>2
<1> QED BY <1>6, <1>8, <1>9 DEF KeepsWord

\* What a unit was promised is lost when something in it is moved, and is not touched by anything but checkout.
LEMMA PanelStep == PanelInv /\ [GuestNext]_guestVars => PanelInv'
<1> SUFFICES ASSUME PanelInv, [GuestNext]_guestVars PROVE PanelInv' OBVIOUS
<1>1. BookInv' BY BooksStep DEF PanelInv
<1>2. GuestTyped BY DEF PanelInv, BookInv
<1>3. today \in Nat \ {0} BY <1>2, GuestAssumption DEF GuestTyped, GuestDay
<1> SUFFICES ASSUME NEW v \in Units PROVE KeepsWord(v)' BY <1>1 DEF PanelInv
<1>4. KeepsWord(v) BY DEF PanelInv
<1>5. ASSUME UNCHANGED <<today, settledTo, noGuestsDay, pending, takings, inside, promise>> PROVE KeepsWord(v)'
  <2>1. Promised(v)' = Promised(v) BY <1>5 DEF Promised, Of
  <2> QED BY <1>4, <1>5, <2>1 DEF KeepsWord
<1>6. ASSUME NEW n \in 1 .. MaxCatchup + 1, Checkout(n) PROVE KeepsWord(v)'
  <2>1. /\ today' = today + n /\ settledTo' = settledTo
        /\ promise'[v] = IF n = 1 /\ settledTo[v] = today THEN PanelPay(v) ELSE NoPromise
        /\ UNCHANGED <<inside, noGuestsDay, pending>>
    BY <1>6 DEF Checkout
  <2>2. CASE n = 1 /\ settledTo[v] = today
    <3>1. today' = today + 1 BY <2>1, <2>2
    <3>2. promise'[v] = Tonight(inside[v], noGuestsDay[v], Of(v, pending), today + 1) BY <2>1, <2>2, PanelShows
    <3>3. promise'[v] = Promised(v)' BY <2>1, <3>1, <3>2 DEF Promised, Of
    <3>4. settledTo'[v] = today' - 1 /\ settledTo'[v] # 0 BY <1>3, <2>1, <2>2, <3>1
    <3> QED BY <3>3, <3>4 DEF KeepsWord
  <2>3. CASE ~(n = 1 /\ settledTo[v] = today) BY <2>1, <2>3 DEF KeepsWord
  <2> QED BY <2>2, <2>3
<1>7. ASSUME NEW u \in Units, NEW wares, Change(u, wares) PROVE KeepsWord(v)'
  <2>1. /\ UNCHANGED <<today, settledTo, noGuestsDay, pending, takings>>
        /\ inside' = [inside EXCEPT ![u] = wares] /\ promise' = [promise EXCEPT ![u] = NoPromise]
    BY <1>7 DEF Change
  <2>2. CASE v = u BY <1>2, <2>1, <2>2 DEF KeepsWord, GuestTyped
  <2>3. CASE v # u
    <3>1. inside'[v] = inside[v] /\ promise'[v] = promise[v] BY <1>2, <2>1, <2>3 DEF GuestTyped
    <3>2. Promised(v)' = Promised(v) BY <2>1, <3>1 DEF Promised, Of
    <3> QED BY <1>4, <2>1, <3>1, <3>2 DEF KeepsWord
  <2> QED BY <2>2, <2>3
<1>8. ASSUME NEW u \in Units, OpenRoom(u) \/ TakeNote(u) PROVE KeepsWord(v)' BY <1>5, <1>8 DEF OpenRoom, TakeNote
<1>9. CASE UNCHANGED guestVars BY <1>5, <1>9 DEF guestVars
<1> QED BY <1>6, <1>7, <1>8, <1>9, PanelSettles DEF GuestNext

\* Nothing is promised at the start.
LEMMA PanelInitially == GuestInit => PanelInv
BY BooksInitially DEF GuestInit, PanelInv, KeepsWord

\* The invariant says what the panel's word is worth.
LEMMA PanelHonest == PanelInv => PanelKeepsItsWord
<1> SUFFICES ASSUME PanelInv, NEW u \in Units, promise[u] # NoPromise, settledTo[u] = today PROVE takings[u] >= promise[u]
  BY DEF PanelKeepsItsWord
<1>1. today \in Nat BY GuestAssumption DEF PanelInv, BookInv, GuestTyped, GuestDay
<1> QED BY <1>1 DEF PanelInv, KeepsWord

\* What unit_view shows before checkout is what settle brings after it, or less, unless somebody moved something
\* in the unit in between.
THEOREM PanelStaysTrue == GuestSpec => []PanelKeepsItsWord
BY PanelInitially, PanelStep, PanelHonest, PTL DEF GuestSpec
================================================================================
