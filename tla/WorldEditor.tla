---------------------------- MODULE WorldEditor ----------------------------
(***************************************************************************)
(* The files the local editor writes (tools/preprocess/editor.py, `do_PUT`) *)
(* and the build turns into atlases (tools/preprocess/preprocess.py,       *)
(* `cmd_build`), and whether the game server starts on what they left on   *)
(* disk (server/app/catalog.py, `load`).  Each file is saved by itself and  *)
(* checked against what the others say at that moment; the art it is drawn *)
(* from may leave the disk at any time.                                    *)
(*                                                                         *)
(* A file is abstracted to the names in it, and the rules about the shape  *)
(* of one file alone to two flags: `tidy`, what the editor checks, and     *)
(* `fits`, what only the server does.                                      *)
(***************************************************************************)
EXTENDS Naturals, FiniteSets, Sequences

CONSTANTS
    SliceLists,   \* slices.json and map_slices.json as they may be put: pairs of sets of
                  \* [key, kind, from, of, named, tile]
    ItemLists,    \* items.json as it may be put: sets of [id, sprite, pair]
    Worlds,       \* data/rooms as it may be put: functions from room ids to rooms
    Maps,         \* map.json as it may be put: [places, tiles, backs, tidy, fits]
    Trains,       \* train_interiors.json as it may be put: [rooms, layout]
    Art,          \* folders and sheets on disk a slice may be cut from
    CharFolder,   \* the character generator's own folder, one of Art
    CharSheets,   \* the sheets the character layers are built from
    BackFolder,   \* the folder of map backdrops, one of Art
    BackFiles,    \* the PNGs that may lie in it: [file, name]
    Base,         \* DEFAULT_ROOM
    MaxMoves      \* bound: how often art comes to the disk or leaves it

\* The key of a tile begins with tile_, that of a slice nobody named with auto_; a world is one JSON file.
ASSUME EditorAssumption ==
    /\ \A lists \in SliceLists : \A s \in lists[1] \union lists[2] : s.tile => s.named
    /\ \A world \in Worlds : IsFiniteSet(DOMAIN world)
    /\ \E world \in Worlds : DOMAIN world = {Base} /\ world[Base].seeds = {} /\ world[Base].fx = {}

VARIABLES
    art,          \* what of Art is on disk now
    backFiles,    \* the PNGs in the backdrop folder
    slices, mapSlices, items, rooms, map, train,   \* the saved files
    atlas,        \* gen/interiors.json: frames of the last atlas that was packed
    mapAtlas,     \* gen/map.json
    backs,        \* gen/mapbg: backdrop names with a picture
    manifest,     \* gen/manifest.json, written last
    moves,        \* how often it did
    current,      \* history: files checked since what they name last changed
    drawn         \* history: <<list, key>>, named in that list ever since they were last built

files == <<slices, mapSlices, items, rooms, map, train>>
built == <<atlas, mapAtlas, backs, manifest>>
editorVars == <<art, backFiles, moves, files, built, current, drawn>>

SceneRooms == {"map", "dock"}
Everything == {"build", "items", "rooms", "map", "train"}
Keys(list) == {s.key : s \in list}
Named(list) == {s \in list : s.named}
Listed(list, maps) == {<<"rooms", k>> : k \in Keys(Named(list))} \union {<<"map", k>> : k \in Keys(Named(maps))}
IsAnim(s) == s.kind \in {"anim", "frames"}
Stills(frames) == {f[1] : f \in {g \in frames : g[2] = "still"}}

-----------------------------------------------------------------------------
(* Slices and pictures. *)

\* One slice of a list: the folder of an animation must be on disk, a sheet only in the list of sheets, which was
\* read when the editor started, and a plain file is not looked at.
SliceOK(s, list) ==
    CASE s.kind = "frames" -> \A k \in s.of : \E r \in list : r.key = k /\ ~IsAnim(r)
      [] s.kind = "anim" -> s.from \in art
      [] s.kind = "rect" -> s.from \in Art
      [] OTHER -> TRUE

\* Keys are checked over both lists together.
SlicesOK(list, maps) ==
    /\ Cardinality(Keys(list \union maps)) = Cardinality(list) + Cardinality(maps)
    /\ \A s \in list : SliceOK(s, list)
    /\ \A s \in maps : SliceOK(s, maps)

\* A still comes from the source, or from the atlas before when the source is gone.
HasStill(s, list, old) ==
    IF s.kind = "frames"
    THEN \A k \in s.of : \E r \in list : r.key = k /\ ~IsAnim(r) /\ (r.from \in art \/ <<k, "still">> \in old)
    ELSE s.from \in art \/ <<s.key, "still">> \in old

\* The frames of an animated slice fall back by their own names, <key>#0 and on.
HasFrames(s, list, old) ==
    CASE s.kind = "anim" -> s.from \in art \/ <<s.key, "moving">> \in old
      [] OTHER -> HasStill(s, list, old)

\* (for a mutant: the atlas before is not looked at for a missing source; the slice is left out)
PackedFromDisk(list, old) ==
    LET there == {s \in list : HasStill(s, list, {}) /\ HasFrames(s, list, {})}
    IN  {<<s.key, "still">> : s \in there} \union {<<s.key, "moving">> : s \in {t \in there : IsAnim(t)}}
\* The frames of the atlas packed from `list` over the atlas `old`; nothing when a slice has no picture at all.
Packed(list, old) ==
    IF \A s \in list : HasStill(s, list, old) /\ HasFrames(s, list, old)
    THEN {<<s.key, "still">> : s \in list} \union {<<s.key, "moving">> : s \in {t \in list : IsAnim(t)}}
    ELSE {}

-----------------------------------------------------------------------------
(* The build. *)

BackNames(pngs) == {b.name : b \in pngs}

\* Two files of one name stop the copying; by then the old copies are deleted.
BacksClash == BackFolder \in art /\ Cardinality(BackNames(backFiles)) < Cardinality(backFiles)
BacksCopied == IF BackFolder \in art /\ backFiles # {} THEN BackNames(backFiles) ELSE backs

\* What the manifest says of backdrops: an empty folder is none, a missing one is what was built before.
BacksListed == IF BackFolder \in art THEN BackNames(backFiles) ELSE backs

\* The map atlas is not packed, and not in the manifest, when its list is empty.
MapPacked == Packed(Named(mapSlices), mapAtlas)
MapFails == Named(mapSlices) # {} /\ MapPacked = {}

\* Refused before anything is written: nothing named, no character folder, fewer characters than were shipped.
CharsMissing == CharFolder \notin art \/ Cardinality(CharSheets \intersect art) < manifest.chars
BuildRefused == Named(slices) = {} \/ CharsMissing \/ Packed(Named(slices), atlas) = {}

NewManifest == [keys |-> Keys(Named(slices)), map |-> Keys(Named(mapSlices)), backs |-> BacksListed,
                chars |-> Cardinality(CharSheets \intersect art)]

\* After a build the places that name built pictures have to be looked at again; the items name slices.
AfterBuild(done) == (current \intersect {"items"}) \union (IF done THEN {"build"} ELSE {})

Build ==
    /\ UNCHANGED <<art, backFiles, moves, files>>
    /\ \/ BuildRefused /\ UNCHANGED <<built, current, drawn>>
       \/ /\ ~BuildRefused
          /\ atlas' = Packed(Named(slices), atlas)
          /\ mapAtlas' = IF Named(mapSlices) = {} \/ MapFails THEN mapAtlas ELSE MapPacked
          /\ drawn' = IF MapFails THEN (drawn \intersect Listed({}, mapSlices)) \union Listed(slices, {})
                      ELSE Listed(slices, mapSlices)
          /\ \/ MapFails /\ UNCHANGED <<backs, manifest>> /\ current' = AfterBuild(FALSE)
             \/ /\ ~MapFails /\ BacksClash /\ UNCHANGED manifest /\ current' = AfterBuild(FALSE)
                /\ \E copied \in (SUBSET BackNames(backFiles)) \ {{}} : backs' = copied
             \/ /\ ~MapFails /\ ~BacksClash /\ current' = AfterBuild(TRUE)
                /\ backs' = BacksCopied
                /\ manifest' = NewManifest

-----------------------------------------------------------------------------
(* Saving.  Each operator says what the editor checks before it writes the file. *)

PutSlices(list, maps) ==
    /\ SlicesOK(list, maps)
    /\ slices' = list /\ mapSlices' = maps
    /\ current' = {}
    /\ drawn' = drawn \intersect Listed(list, maps)
    /\ UNCHANGED <<art, backFiles, moves, items, rooms, map, train, built>>

\* (for a mutant: a slice nobody named yet is taken as well)
AnySprites(list) == Keys(list)
\* Every sprite must reach the atlas, so unnamed slices do not count; pairs stay within the list.
SpritesFor(list) == Keys(Named(list))

Ids(list) == {it.id : it \in list}

PutItems(list) ==
    /\ Cardinality(Ids(list)) = Cardinality(list)
    /\ \A it \in list : it.sprite \in SpritesFor(slices) /\ it.pair \in (Ids(list) \ {it.id}) \union {"none"}
    /\ items' = list
    /\ current' = (current \ {"rooms", "map", "train"}) \union {"items"}
    /\ UNCHANGED <<art, backFiles, moves, slices, mapSlices, rooms, map, train, built, drawn>>

TileKeys(list) == Keys({s \in list : s.tile})

\* A room of the list: seeds that the game would skip are only warned about.
ValidRoom(r, exits, others) ==
    /\ r.tidy
    /\ r.tiles \subseteq TileKeys(slices)
    /\ exits \subseteq others \union {"map"}
    /\ r.seeds \subseteq Ids(items)
    /\ atlas # {} => r.fx \subseteq Stills(atlas)

PutRooms(world) ==
    /\ Base \in DOMAIN world
    /\ \A id \in DOMAIN world : ValidRoom(world[id], world[id].exits, DOMAIN world)
    /\ rooms' = world
    /\ current' = (current \ {"map"}) \union {"rooms"}
    /\ UNCHANGED <<art, backFiles, moves, slices, mapSlices, items, map, train, built, drawn>>

\* Backdrops on offer: the folder's, and when it holds none whatever was built before.
BacksOffered == IF BackFolder \in art /\ backFiles # {} THEN BackNames(backFiles) ELSE backs

PutMap(m) ==
    /\ m.tidy
    /\ m.tiles \subseteq Stills(mapAtlas)
    /\ m.places \subseteq DOMAIN rooms \union {"dock"}
    /\ m.backs \subseteq BacksOffered
    /\ map' = m
    /\ current' = current \union {"map"}
    /\ UNCHANGED <<art, backFiles, moves, slices, mapSlices, items, rooms, train, built, drawn>>

\* Compartments are checked as rooms without exits; all have one size, which `tidy` stands for.
PutTrain(t) ==
    /\ \A r \in t.rooms : ValidRoom(r, {}, {})
    /\ atlas # {} => t.layout \subseteq Stills(atlas)
    /\ train' = t
    /\ current' = current \union {"train"}
    /\ UNCHANGED <<art, backFiles, moves, slices, mapSlices, items, rooms, map, built, drawn>>

\* Art is added to the disk and taken off it by hand; a change of backdrops is one the build has to pick up.
MoveArt(pack) ==
    /\ moves < MaxMoves /\ moves' = moves + 1
    /\ art' = IF pack \in art THEN art \ {pack} ELSE art \union {pack}
    /\ current' = IF pack = BackFolder THEN current \ {"build", "map"} ELSE current
    /\ UNCHANGED <<backFiles, files, built, drawn>>

MoveBackdrop(png) ==
    /\ BackFolder \in art
    /\ moves < MaxMoves /\ moves' = moves + 1
    /\ backFiles' = IF png \in backFiles THEN backFiles \ {png} ELSE backFiles \union {png}
    /\ current' = current \ {"build", "map"}
    /\ UNCHANGED <<art, files, built, drawn>>

-----------------------------------------------------------------------------
(* The server's start. *)

\* A room names only what is in the manifest and the item list, and leads only to rooms that exist.
RoomLoads(r) ==
    /\ r.tiles \union r.fx \subseteq manifest.keys
    /\ r.seeds \union r.wants \subseteq Ids(items)
    /\ r.fits

ItemsLoad ==
    /\ Cardinality(Ids(items)) = Cardinality(items)
    /\ \A it \in items : it.sprite \in manifest.keys /\ it.pair \in Ids(items) \union {"none"}

\* <<place, room>>: a stage of the room unlocks the place.
Unlocks == {u \in (DOMAIN rooms \union SceneRooms) \X DOMAIN rooms :
               \E i \in DOMAIN rooms[u[2]].stages : u[1] \in rooms[u[2]].stages[i]}
UnlockerOf(p) == CHOOSE id \in DOMAIN rooms : <<p, id>> \in Unlocks
Locked == {u[1] : u \in Unlocks}

\* From an unlocked place to the room that unlocks it, and so on, `hops` times or until nothing locks it.
Climb(p, hops) ==
    LET at[n \in 0..hops] == IF n = 0 THEN p ELSE IF at[n - 1] \in Locked THEN UnlockerOf(at[n - 1]) ELSE at[n - 1]
    IN  at[hops]
\* (for a mutant: only a place that unlocks itself is noticed)
OneHop == {1}
Hops == 1..(Cardinality(Locked) + 1)

RestoreLoads ==
    /\ \A id \in DOMAIN rooms : \A i \in DOMAIN rooms[id].stages :
          rooms[id].stages[i] \subseteq (DOMAIN rooms \union SceneRooms) \ {Base, id}
    /\ \A u, v \in Unlocks : u[1] = v[1] => u = v
    /\ \A p \in Locked : \A n \in Hops : Climb(p, n) # p

MapLoads ==
    /\ map.fits
    /\ map.tiles \subseteq manifest.map
    /\ map.places \subseteq DOMAIN rooms \union {"dock"}
    /\ map.backs \subseteq manifest.backs

TrainLoads ==
    /\ \A r \in train.rooms : RoomLoads(r)
    /\ train.layout \subseteq manifest.keys

ServerStarts ==
    /\ ItemsLoad
    /\ Base \in DOMAIN rooms
    /\ \A id \in DOMAIN rooms : RoomLoads(rooms[id]) /\ rooms[id].exits \subseteq DOMAIN rooms \union {"map"}
    /\ RestoreLoads
    /\ MapLoads
    /\ TrainLoads

-----------------------------------------------------------------------------

EditorInit ==
    /\ art = Art
    /\ backFiles = {} /\ backs = {} /\ moves = 0
    /\ slices = {} /\ mapSlices = {} /\ items = {}
    /\ rooms = CHOOSE w \in Worlds : DOMAIN w = {Base} /\ w[Base].seeds = {} /\ w[Base].fx = {}
    /\ map = [places |-> {}, tiles |-> {}, backs |-> {}, tidy |-> TRUE, fits |-> TRUE]
    /\ train = [rooms |-> {}, layout |-> {}]
    /\ atlas = {} /\ mapAtlas = {}
    /\ manifest = [keys |-> {}, map |-> {}, backs |-> {}, chars |-> 0]
    /\ current = {} /\ drawn = {}

EditorNext ==
    \/ \E lists \in SliceLists : PutSlices(lists[1], lists[2])
    \/ \E list \in ItemLists : PutItems(list)
    \/ \E world \in Worlds : PutRooms(world)
    \/ \E m \in Maps : PutMap(m)
    \/ \E t \in Trains : PutTrain(t)
    \/ Build
    \/ \E pack \in Art : MoveArt(pack)
    \/ \E png \in BackFiles : MoveBackdrop(png)

EditorSpec == EditorInit /\ [][EditorNext]_editorVars

-----------------------------------------------------------------------------
(* Properties. *)

\* What the editor leaves to the server: exits that stay inside the room and land in the next, at least four rows,
\* stages that name places and items that exist and do not wait for each other.
ServersOwnRules ==
    /\ \A id \in DOMAIN rooms : rooms[id].fits /\ rooms[id].wants \subseteq Ids(items)
    /\ \A r \in train.rooms : r.fits /\ r.wants \subseteq Ids(items)
    /\ RestoreLoads
    /\ map.fits

\* The build had something to put in the map atlas and in the backdrops: over an empty list or an empty folder it
\* leaves the old files in place for the editor to read, and writes a manifest that does not have them.
SomethingForTheMap == Named(mapSlices) # {} /\ (BackFolder \in art => backFiles # {})

\* Files that were each saved after everything they name, over a build that was finished after the slices, are files
\* the server starts on: what the editor checks of names is all the server asks of them, although the editor reads
\* the atlases' frame lists, which a broken off build has changed, and the server the manifest.
CheckedWorldStarts ==
    current = Everything /\ ServersOwnRules /\ SomethingForTheMap => ServerStarts

\* A slice that stays in its list never loses its picture, whatever art leaves the disk and however often the build
\* is run or breaks off.  (One that is moved to the other list may: each atlas falls back on its own last frames.)
PicturesSurvive == \A d \in drawn : d[2] \in Stills(IF d[1] = "map" THEN mapAtlas ELSE atlas)

\* On a world the server accepts every locked place opens, if the stages are worked off in some order: no set of
\* locked places keeps each other shut, which the walk from unlocker to unlocker is there to find.
EverythingOpens ==
    RestoreLoads => \A shut \in (SUBSET Locked) \ {{}} : \E p \in shut : UnlockerOf(p) \notin shut
=============================================================================
