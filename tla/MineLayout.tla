----------------------------- MODULE MineLayout -----------------------------
(***************************************************************************)
(* How a floor of the mine is laid out: layout_floor of server/app/mine.py *)
(* and the configuration it reads.                                         *)
(*                                                                         *)
(* The random generator is a choice: rocks fall on any small set of cells  *)
(* they may fall on (the shape of a cluster is left out), every draw picks *)
(* any ore of the floor's tier and any cell of its pool.  What follows     *)
(* from the draws is computed as in the code: the pockets that are filled, *)
(* the pools, the fallback for an ore of the wall, and the ladder.         *)
(***************************************************************************)
EXTENDS Integers, Sequences, FiniteSets

CONSTANTS
  Cols, Rows, WallRows,  \* the mine room: its size and the rows of its back wall
  Spawn, Exits,          \* the cell where one appears, the cells that lead out
  Blocked, Pits, Props,  \* blocked cells, floor tiles nobody walks on, cells under seeded items
  RockTarget,            \* how many rocks are wanted; 0: none
  OreSeq,                \* the kinds of ore, in the order of the configuration
  OreHits, OreValue,     \* kind -> presses that break it, and what it is worth
  InWall,                \* the kinds that sit in the back wall
  Floors,                \* how many floors there are
  Tier,                  \* floor -> the kinds with a positive weight, in order
  NodesPerFloor,
  Reach,                 \* how far from the avatar a node may be
  NoLayout               \* nothing has been drawn yet

Kinds == {OreSeq[i] : i \in DOMAIN OreSeq}

\* What MineConfig._check demands: no kind twice, every floor in a tier, and
\* in every tier a kind without value, which hides the ladder.
ConfigOK ==
  /\ Cardinality(Kinds) = Len(OreSeq) /\ DOMAIN Tier = 1 .. Floors
  /\ \A f \in 1 .. Floors :
       /\ \A i \in DOMAIN Tier[f] : Tier[f][i] \in Kinds
       /\ \E i \in DOMAIN Tier[f] : OreValue[Tier[f][i]] = 0

ASSUME ConfigAssumption ==
  /\ ConfigOK /\ {Floors, NodesPerFloor, Reach} \subseteq Nat \ {0} /\ {Cols, Rows, WallRows, RockTarget} \subseteq Nat
  /\ \A k \in Kinds : OreHits[k] \in Nat \ {0} /\ OreValue[k] \in Nat
  /\ Spawn \in (0 .. Cols - 1) \X (0 .. Rows - 1)

Cell == (0 .. Cols - 1) \X (0 .. Rows - 1)
OnFloor(c) == c[2] >= WallRows
Below(c) == <<c[1], c[2] + 1>>
Distance(c, d) == LET abs(n) == IF n < 0 THEN -n ELSE n IN <<abs(c[1] - d[1]), abs(c[2] - d[2])>>
Around(cells) == {c \in Cell : \E d \in cells : Distance(c, d)[1] <= 1 /\ Distance(c, d)[2] <= 1}
InReach(foot, c) == Distance(foot, c)[1] <= Reach /\ Distance(foot, c)[2] <= Reach

TakenByRoom == Blocked \cup {Spawn} \cup Exits \cup Props
FreeCells == {c \in Cell : OnFloor(c) /\ c \notin TakenByRoom \cup Pits}

\* The cells the spawn can walk to.  Items do not count: nobody bumps into them.
Steps4 == {<<1, 0>>, <<-1, 0>>, <<0, 1>>, <<0, -1>>}
Reachable(rocks) ==
  LET ok == {c \in Cell : OnFloor(c) /\ c \notin Blocked \cup Pits \cup rocks}
      walk(c, s) == LET d == <<c[1] + s[1], c[2] + s[2]>> IN IF d \in ok THEN d ELSE c
      within[n \in 0 .. Cardinality(Cell)] ==
        IF n = 0 THEN {Spawn} ELSE {walk(c, s) : c \in within[n - 1], s \in Steps4 \cup {<<0, 0>>}}
  IN within[Cardinality(Cell)]

\* Rocks: the last cluster may go three cells past the target; then the pockets.
Scatters ==
  LET protected == Around({Spawn} \cup Exits)
      past == IF RockTarget = 0 THEN 0 ELSE RockTarget + 3
  IN {rocks \in SUBSET (FreeCells \ protected) : Cardinality(rocks) <= past}
Filled(rocks) == IF RockTarget = 0 THEN {} ELSE rocks \cup (FreeCells \ Reachable(rocks))

\* What the ores of the floor and of the wall are put on.
FloorPool(rocks) == (FreeCells \cap Reachable(rocks)) \ rocks
WallRow == {c \in (1 .. Cols - 2) \X {WallRows - 1} : WallRows > 0 /\ c \notin TakenByRoom}
WallPool(rocks) == LET open == Reachable(rocks) \ rocks IN {c \in WallRow : Below(c) \in open}

Node(c, k) == [at |-> c, kind |-> k, ladder |-> FALSE]
FirstOf(seq, test(_)) == {seq[i] : i \in {j \in DOMAIN seq : test(seq[j]) /\ \A k \in 1 .. j - 1 : ~test(seq[k])}}

\* One draw: an ore of the tier, or the first one of the floor when the wall is full.
Draw(f, d) ==
  LET onFloor(k) == k \notin InWall
      ore(k) == IF k \in InWall /\ d.wall = {} THEN FirstOf(Tier[f], onFloor) ELSE {k}
      pool(k) == IF k \in InWall THEN d.wall ELSE d.floor
      put(k) == {[nodes |-> d.nodes \cup {Node(c, k)}, floor |-> d.floor \ {c}, wall |-> d.wall \ {c}] : c \in pool(k)}
      after(k) == IF k = {} \/ pool(CHOOSE o \in k : TRUE) = {} THEN {d} ELSE put(CHOOSE o \in k : TRUE)
  IN UNION {after(ore(Tier[f][i])) : i \in DOMAIN Tier[f]}

Draws(f, rocks) ==
  LET drawn[n \in 0 .. NodesPerFloor] ==
        IF n = 0 THEN {[nodes |-> {}, floor |-> FloorPool(rocks), wall |-> WallPool(rocks)]}
        ELSE LET before == drawn[n - 1] IN UNION {Draw(f, d) : d \in before}
  IN drawn[NodesPerFloor]

\* Where the ladder comes up when a node breaks: below a node of the wall.
LadderCell(n) == IF n.kind \in InWall THEN Below(n.at) ELSE n.at

\* One node without value hides the ladder: one already drawn whose ladder
\* would come up free of nodes, or else a stone of its own.
AnyDud(nodes) == {n \in nodes : OreValue[n.kind] = 0}
Duds(nodes) == {n \in nodes : OreValue[n.kind] = 0 /\ ~\E m \in nodes \ {n} : m.at = LadderCell(n)}
Stone(f) ==
  LET dud(k) == OreValue[k] = 0 /\ k \notin InWall
  IN IF FirstOf(Tier[f], dud) # {} THEN FirstOf(Tier[f], dud) ELSE FirstOf(OreSeq, dud)
Hide(f, d) ==
  IF f = Floors THEN {d.nodes}
  ELSE IF Duds(d.nodes) # {} THEN {(d.nodes \ {n}) \cup {[n EXCEPT !.ladder = TRUE]} : n \in Duds(d.nodes)}
  ELSE IF Stone(f) = {} \/ d.floor = {} THEN {d.nodes}
  ELSE {d.nodes \cup {[Node(c, k) EXCEPT !.ladder = TRUE]} : c \in d.floor, k \in Stone(f)}

Layouts(f) ==
  UNION {UNION {{[floor |-> f, rocks |-> rocks, nodes |-> nodes] : nodes \in Hide(f, d)} : d \in Draws(f, rocks)}
         : rocks \in {Filled(r) : r \in Scatters}}

-----------------------------------------------------------------------------
VARIABLE layout  \* the floor drawn last

LayoutInit == layout = NoLayout
LayoutNext == layout = NoLayout /\ \E f \in 1 .. Floors : layout' \in Layouts(f)

-----------------------------------------------------------------------------
(* Properties. *)

\* For every node there is a floor cell within reach of it that the spawn can
\* walk to (a wall ore is mined from below), and no two nodes share a cell.
EveryNodeCanBeMined ==
    /\ \A n \in layout.nodes : \E c \in Reachable(layout.rocks) : InReach(c, n.at)
    /\ \A n, m \in layout.nodes : n.at = m.at => n = m

\* One node of a floor that is not the last hides the ladder, and the cell on
\* which the ladder will come up can be walked to and is under no other node.
OneWayDown ==
    LET hiding == {n \in layout.nodes : n.ladder} IN
    /\ Cardinality(hiding) = (IF layout.floor < Floors THEN 1 ELSE 0)
    /\ \A n \in hiding : /\ OreValue[n.kind] = 0
                         /\ LadderCell(n) \in Reachable(layout.rocks) \ layout.rocks
                         /\ \A m \in layout.nodes \ {n} : m.at # LadderCell(n)

\* The floor is one cave: a cell that may be walked on is a rock, or the spawn
\* can walk to it, or it is under an exit or an item ("whatever the spawn cannot
\* reach is filled with rock too").
OneCave ==
  RockTarget > 0 => \A c \in FreeCells : c \in layout.rocks \/ c \in Reachable(layout.rocks)

\* Whatever the random generator draws, the floor can be played (the rocks are
\* filled in, the pools cut down and the ladder hidden for this in layout_floor):
\* all there is can be mined, there is one way down, and no pocket is shut off.
LayoutIsPlayable == layout # NoLayout => EveryNodeCanBeMined /\ OneWayDown /\ OneCave
=============================================================================
