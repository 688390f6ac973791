------------------------------ MODULE MCWorld ------------------------------
(* The world editor and the way of its files to the server: one run watches *)
(* the files on the PC or the transfer to the VM, `part`. Three rooms, three *)
(* lists of slices, four folders of art; five files to send. *)
EXTENDS WorldEditor, Deploy, TLC

VARIABLE part  \* what this behaviour is about

Slice(k, kind, from, of, named) == [key |-> k, kind |-> kind, from |-> from, of |-> of, named |-> named, tile |-> k = "oak"]
Oak == Slice("oak", "rect", "pack", {}, TRUE)
Sofa == Slice("sofa", "rect", "theme", {}, TRUE)
Lamp == Slice("lamp", "frames", "none", {"sofa"}, TRUE)
Unnamed == Slice("auto_1", "rect", "pack", {}, FALSE)
Grass == Slice("grass", "anim", "pack", {}, TRUE)

\* A short pair of lists, a full one, and one that is refused: a key is in it twice.
WorldSlices == {<<{Oak, Sofa}, {}>>, <<{Oak, Sofa, Lamp, Unnamed}, {Grass}>>,
                <<{Oak, Sofa, Lamp, [Oak EXCEPT !.kind = "file"]}, {Grass}>>}

Ware(id, sprite, pair) == [id |-> id, sprite |-> sprite, pair |-> pair]
WorldItems == {{Ware("auto", "auto_1", "none")}, {Ware("sofa", "sofa", "old"), Ware("old", "lamp", "sofa")}}

Room(seeds, fx, exits, stages, fits) ==
  [tiles |-> {"oak"}, seeds |-> seeds, fx |-> fx, exits |-> exits, stages |-> stages, wants |-> {}, tidy |-> TRUE, fits |-> fits]

\* The inn alone; rooms that wait for each other; rooms that open one another in turn,
\* one of them with an exit the server may not like.
WorldRooms ==
  {"inn" :> Room({}, {}, {}, <<>>, TRUE),
   "inn" :> Room({"old"}, {}, {"attic", "cellar"}, <<{}, {"map"}>>, TRUE)
     @@ "attic" :> Room({}, {}, {}, <<{"cellar"}>>, TRUE) @@ "cellar" :> Room({}, {}, {}, <<{"attic"}>>, TRUE)}
  \cup {"inn" :> Room({"sofa"}, {"lamp"}, {"attic"}, <<{"attic"}>>, TRUE)
     @@ "attic" :> Room({}, {}, {"inn"}, <<{"cellar", "dock"}>>, TRUE)
     @@ "cellar" :> Room({}, {}, {}, <<{"map"}>>, fits) : fits \in BOOLEAN}

WorldMap(places, tiles, bk) == [places |-> places, tiles |-> tiles, backs |-> bk, tidy |-> TRUE, fits |-> TRUE]
WorldMaps == {WorldMap({"inn", "dock"}, {"grass"}, {}), WorldMap({"attic"}, {"grass"}, {"sea"})}
WorldTrains == {[rooms |-> {}, layout |-> {}], [rooms |-> {Room({"sofa"}, {}, {}, <<>>, TRUE)}, layout |-> {"lamp"}]}
WorldBacks == {[file |-> "Sea", name |-> "sea"], [file |-> "sea", name |-> "sea"]}

worldVars == <<part, editorVars, deployVars>>

WorldInit == part \in {"editor", "deploy"} /\ EditorInit /\ DeployInit
WorldNext ==
  /\ part' = part
  /\ \/ part = "editor" /\ EditorNext /\ UNCHANGED deployVars
     \/ part = "deploy" /\ DeployNext /\ UNCHANGED editorVars
WorldSpec == WorldInit /\ [][WorldNext]_worldVars
=============================================================================
