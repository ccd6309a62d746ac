------------------------------ MODULE MCLibrary ------------------------------
(***************************************************************************)
(* A small instance of Library: shoeboxes and an L-shaped mesh edited in    *)
(* place, two and three rooms behind walls and doors, and buildings of      *)
(* boxes.                                                                  *)
(***************************************************************************)
EXTENDS Library

Material(absorption, scattering, fixed, transmission, reduction) ==
    [absorption |-> absorption, scattering |-> scattering, fixed |-> fixed,
     transmission |-> transmission, reduction |-> reduction]

MCMaterials ==
    [hard |-> Material(<<10, 20>>, <<30>>, <<0, 0>>, <<>>, <<>>),
     soft |-> Material(<<100>>, <<>>, <<40, 0>>, <<>>, <<>>),
     door |-> Material(<<20>>, <<0, 10>>, <<5, 5>>, <<50, 0>>, <<>>),
     lead |-> Material(<<50>>, <<>>, <<0, 0>>, <<1, 1>>, <<20>>),
     mute |-> Material(<<30>>, <<0>>, <<0, 0>>, <<>>, <<>>)]

Bands(first) == [centers |-> <<first, 200>>, lowers |-> <<50, 150>>, uppers |-> <<150, 250>>]

From(x, y, model) == [pos |-> <<x, y>>, voice |-> "voice", model |-> model]

Listener(x, y) == [pos |-> <<x, y>>, type |-> "binaural",
               hrtf |-> <<[rate |-> 1000, kind |-> "nearest"]>>]

Box(w, h, x, y) ==
    [NoRoom EXCEPT !.kind = "shoebox",
                   !.shoebox = <<[dims |-> <<w, h>>, origin |-> <<x, y>>,
                                  walls |-> <<"hard", "soft", "hard", "mute">>]>>]

Scene(room, sources, receivers) ==
    [room |-> room, rooms |-> <<>>, portals |-> <<>>, materials |-> MCMaterials,
     sources |-> sources, receivers |-> receivers, bands |-> Bands(100), sampleRate |-> 1000]

Face(axis, at, sign, lo, hi) == [axis |-> axis, at |-> at, sign |-> sign, lo |-> lo, hi |-> hi]

BoxFaces == <<Face(1, 0, 1, 0, 6), Face(1, 5, -1, 0, 6), Face(2, 0, 1, 0, 5), Face(2, 6, -1, 0, 5)>>

LFaces == <<Face(1, 0, 1, 0, 6), Face(2, 0, 1, 0, 6), Face(1, 6, -1, 0, 3),
            Face(2, 3, -1, 3, 6), Face(1, 3, -1, 3, 6), Face(2, 6, -1, 0, 3)>>

Mesh(id, faces, names) ==
    [NoRoom EXCEPT !.kind = "mesh", !.meshMaterial = "hard",
                   !.mesh = <<[id |-> id, faces |-> faces, closed |-> TRUE]>>,
                   !.triangleMaterials = names]

(***************************************************************************)
(* Scenes for the solver with a memory.                                    *)
(***************************************************************************)
One == <<From(1, 2, "none")>>
Moved == <<From(2, 2, "none")>>
Two == <<From(1, 2, "none"), From(2, 1, "cardioid")>>
TwoMoved == <<From(1, 2, "none"), From(1, 1, "cardioid")>>
Ear == <<Omni(<<4, 1>>)>>

Boxes == {Scene(Box(5, 6, 0, 0), sources, Ear) : sources \in {One, Moved, Two, TwoMoved}}
         \cup {Scene(Box(6, 6, 0, 0), One, Ear)}

Meshes == {Scene(Mesh(id, faces, <<>>), One, Ear) : id \in {1, 2}, faces \in {BoxFaces, LFaces}}
          \cup {Scene(Mesh(1, LFaces, <<>>), Two, Ear),
                Scene(Mesh(1, LFaces, <<<<"", "soft", "mute", "", "", "">>>>), One, Ear)}

Wrong == {Scene(Box(5, 6, 0, 0), <<From(7, 2, "none")>>, Ear),
          Scene(Box(5, 6, 0, 0), One, Ear \o Ear)}

MCScenes == Boxes \cup Meshes \cup Wrong

MCConfigs == {[maxOrder |-> -1, speed |-> 0], [maxOrder |-> 1, speed |-> 0],
              [maxOrder |-> 2, speed |-> 0], [maxOrder |-> 2, speed |-> 3]}

MCStoredScenes ==
    {Scene(Box(5, 6, 0, 0), One, Ear), Scene(Box(5, 6, 0, 0), Moved, Ear),
     Scene(Mesh(1, LFaces, <<>>), One, Ear), Scene(Mesh(2, LFaces, <<>>), One, Ear),
     Scene(Mesh(1, BoxFaces, <<>>), One, Ear),
     [Scene(Box(5, 6, 0, 0), One, Ear) EXCEPT !.materials.hard.absorption = <<70>>]}

(***************************************************************************)
(* Scenes to render and to save.                                           *)
(***************************************************************************)
Opening(rooms, axis, at, lo, hi, sign, material, state) ==
    [rooms |-> rooms, material |-> material, state |-> state,
     polygon |-> [vertices |-> 4, planar |-> TRUE, axis |-> axis, at |-> at,
                  lo |-> lo, hi |-> hi, sign |-> sign]]

House(rooms, portals, sources, receivers) ==
    [Scene(NoRoom, sources, receivers) EXCEPT !.rooms = rooms, !.portals = portals]

\* Two rooms side by side, away from the origin.
Pair == <<Box(4, 6, 2, 1), Box(6, 6, 6, 1)>>

Door(material, state) == Opening(<<1, 2>>, 1, 6, 2, 4, 1, material, state)

DoorReversed == Opening(<<2, 1>>, 1, 6, 4, 6, -1, "lead", "closed")

Left == <<From(3, 5, "cardioid")>>
Right == <<From(9, 2, "none")>>
LeftHead == <<Listener(4, 2)>>
RightHead == <<Listener(9, 4)>>

PairHalls ==
    {House(Pair, <<Door(material, state)>>, Left, RightHead) :
         material \in {"door", "mute"}, state \in {"open", "closed"}}
    \cup {House(Pair, <<Door("door", "closed"), DoorReversed>>, sources, receivers) :
              sources \in {Left, Right}, receivers \in {LeftHead, RightHead}}
    \cup {House(Pair, <<Door("door", "closed")>>, Left, <<Omni(<<9, 4>>), Listener(8, 3)>>),
          House(Pair, <<Opening(<<1, 2>>, 1, 6, 2, 4, -1, "door", "closed")>>, Left, RightHead)}

\* Three rooms in a ring, and the way between two of them around the third.
Ring == Pair \o <<Box(10, 4, 2, 7)>>

Upstairs == <<Listener(5, 9)>>

RingHalls ==
    {House(Ring, <<Door("door", "closed"), Opening(<<2, 3>>, 2, 7, 7, 9, 1, "lead", "closed"),
                   Opening(<<3, 1>>, 2, 7, 3, 5, -1, material, "closed")>>, sources, Upstairs) :
         material \in {"lead", "mute"}, sources \in {Left, Right}}

SingleHalls ==
    {Scene(room, sources, receivers) :
         room \in {Box(5, 6, 0, 0), Mesh(1, LFaces, <<>>)}, sources \in {One, Two},
         receivers \in {<<Listener(4, 1)>>, <<Omni(<<2, 4>>), Listener(4, 1)>>}}

MCHalls == PairHalls \cup RingHalls \cup SingleHalls

MCRenderers ==
    {r \in [early : BOOLEAN, late : BOOLEAN, dense : {"none", "mono", "binaural"},
            low : BOOLEAN, cross : BOOLEAN, timeBased : BOOLEAN] :
        /\ r.timeBased \/ (r.early /\ r.dense = "binaural" /\ ~r.late)
        /\ r.cross => ~r.late}

(***************************************************************************)
(* Buildings to merge.                                                     *)
(***************************************************************************)
Room3(x, y, z, X, Y, Z) == [min |-> <<x, y, z>>, max |-> <<X, Y, Z>>]

Across(at, y, z, Y, Z) == Rect(1, at, [a \in {2, 3} |-> IF a = 2 THEN y ELSE z],
                                      [a \in {2, 3} |-> IF a = 2 THEN Y ELSE Z])

Aside(at, x, z, X, Z) == Rect(2, at, [a \in {1, 3} |-> IF a = 1 THEN x ELSE z],
                                     [a \in {1, 3} |-> IF a = 1 THEN X ELSE Z])

Gap(rooms, rect, open) == [rooms |-> rooms, rect |-> rect, open |-> open]

Building(rooms, portals) == [rooms |-> rooms, portals |-> portals]

West == Room3(0, 0, 0, 3, 4, 3)
East == Room3(3, 0, 0, 5, 4, 3)
North == Room3(0, 4, 0, 3, 6, 3)
Small == Room3(3, 0, 0, 5, 3, 2)

Doors == {Across(3, 1, 0, 2, 2), Across(3, 1, 1, 2, 2), Across(3, 0, 0, 4, 3), Across(3, 0, 1, 2, 2)}

MCBuildings ==
    {Building(<<West, other>>, <<Gap(rooms, rect, open)>>) :
         other \in {East, Small}, rooms \in {<<1, 2>>, <<2, 1>>}, rect \in Doors, open \in BOOLEAN}
    \cup {Building(<<West, East>>, <<Gap(<<1, 2>>, Across(3, 0, 0, 1, 2), TRUE),
                                     Gap(<<1, 2>>, rect, open)>>) :
              rect \in {Across(3, 2, 0, 3, 2), Across(3, 1, 0, 2, 1), Across(3, 0, 1, 2, 3)},
              open \in BOOLEAN}
    \cup {Building(<<West, East, North>>, <<Gap(<<1, 2>>, Across(3, 1, 0, 2, 2), a),
                                            Gap(<<3, 1>>, Aside(4, 0, 0, 2, 2), b)>>) :
              a \in BOOLEAN, b \in BOOLEAN}
    \cup {Building(<<West, Room3(2, 0, 0, 5, 4, 3)>>, <<Gap(<<1, 2>>, Across(3, 1, 0, 2, 2), TRUE)>>)}
==============================================================================
