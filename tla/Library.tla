------------------------------- MODULE Library -------------------------------
(***************************************************************************)
(* A program that uses the library: it keeps one CachedISMSolver and one    *)
(* stored image list, and calls the pipeline, the renderer, the loader and  *)
(* the scene graph.  Only the solver and the stored list carry anything     *)
(* from call to call, so the other calls are made from a new solver.        *)
(***************************************************************************)
EXTENDS CachedISM, Engines, MergedRooms

CONSTANTS Buildings,     \* rooms and portals for MergedRooms
          Renderers,     \* the engines a Renderer is configured with
          Halls,         \* the scenes that are rendered
          StoredScenes,  \* the scenes image lists are stored for
          FreshMesh      \* the identity of a mesh the decoder allocates

VARIABLES stored,        \* a ShoeboxCache or MeshCache and the call it came from
          result         \* the last call that is not a Solve: operation, arguments, answer

libraryVars == <<solver, call, stored, result>>

NoResult == [op |-> "none"]

NoList == [hash |-> <<>>, answer |-> Refused]

LibraryInit == Init /\ stored = NoList /\ result = NoResult

\* The calls of CachedISM.
Solving == stored = NoList /\ result = NoResult /\ Next /\ UNCHANGED <<stored, result>>

\* The other calls, made before the solver has solved anything.
Free == solver = NewSolver /\ call = NoCall /\ result = NoResult

Stateless == Free /\ call' = NoCall /\ UNCHANGED solver

\* The program has used the answer.
Use == result # NoResult /\ result' = NoResult /\ UNCHANGED <<solver, call, stored>>

\* NewShoeboxCache and NewMeshCache: the list generated for the only source.
Store(s, cfg) ==
    /\ Stateless
    /\ Accepted(s, cfg) /\ Len(s.sources) = 1
    /\ stored' = [hash |-> GeometryHash(s), answer |-> Fresh(s, cfg), cfg |-> cfg]
    /\ result' = NoResult

\* The planes EvaluateMesh builds; EvaluateShoebox needs none.
ScenePlanes(s) == IF s.room.kind = "mesh" THEN BuildPlanePolygonMap(s.room.mesh[1].faces) ELSE {}

\* ValidFor, then EvaluateShoebox or EvaluateMesh with the planes of the scene
\* as it is now; neither validates the scene.
MutantValidFor(list, s) == list.hash.room = RoomHash(s)

ValidFor(list, s) == list.hash = GeometryHash(s)

Evaluate(s) ==
    /\ Stateless
    /\ stored # NoList
    /\ ValidFor(stored, s)
    /\ Len(s.sources) = 1 /\ s.receivers # <<>>
    /\ result' = [op |-> "evaluate", scene |-> s, cfg |-> stored.cfg,
                  answer |-> Answer(stored.answer.lists, ScenePlanes(s))]
    /\ UNCHANGED stored

\* pipeline.SolveEarly.
SolveEarly(s, cfg) ==
    /\ Stateless
    /\ stored = NoList
    /\ result' = [op |-> "early", scene |-> s, cfg |-> cfg,
                  answer |-> IF RoomCount(s) > 1
                             THEN IF NewEngine(s) = "onehop" THEN OneHopSolveEarly(s, cfg)
                                  ELSE IF AllShut(s) THEN NetworkSolveEarly(s, cfg)
                                  ELSE Early("merged", {})
                             ELSE LET Of(events) == IF events = <<>> THEN Early("engine", {})
                                                    ELSE Early("no", events[1])
                                  IN  Of(Solved(s, cfg))]
    /\ UNCHANGED stored

\* Rooms behind closed doors: Engines has no merged groups.
Render(r, s, cfg) ==
    /\ Stateless
    /\ stored = NoList
    /\ AllShut(s)
    /\ \E op \in {"mono", "stereo"} :
           result' = [op |-> op, renderer |-> r, scene |-> s, cfg |-> cfg,
                      answer |-> IF op = "mono" THEN RenderMono(r, s, cfg)
                                 ELSE RenderStereo(r, s, cfg)]
    /\ UNCHANGED stored

\* Save and LoadScene; a mesh named by a path is read from the file.
SaveAndLoad(s) ==
    /\ Stateless
    /\ stored = NoList
    /\ result' = [op |-> "load", scene |-> s,
                  answer |-> IF Encodes(s)
                             THEN <<loadScene(MarshalJSON(s), FreshMesh,
                                              [id |-> FreshMesh, faces |-> <<>>, closed |-> FALSE])>>
                             ELSE <<>>]
    /\ UNCHANGED stored

Merge(b, rooms) ==
    /\ Stateless
    /\ stored = NoList
    /\ result' = [op |-> "merge", building |-> b, rooms |-> rooms,
                  answer |-> buildGroupGeometry(b, rooms)]
    /\ UNCHANGED stored

LibraryNext ==
    \/ Solving
    \/ Use
    \/ /\ Free
       /\ \/ \E s \in StoredScenes, cfg \in Configs : Store(s, cfg)
          \/ \E s \in StoredScenes : Evaluate(s)
          \/ \E s \in Halls, cfg \in Configs : SolveEarly(s, cfg)
          \/ \E r \in Renderers, s \in Halls, cfg \in Configs : Render(r, s, cfg)
          \/ \E s \in Scenes \cup Halls : SaveAndLoad(s)
          \/ \E b \in Buildings : \E rooms \in RoomGroups(b) : Merge(b, rooms)

LibrarySpec == LibraryInit /\ [][LibraryNext]_libraryVars

(***************************************************************************)
(* Properties.                                                             *)
(***************************************************************************)
\* The event of a network as the one-hop renderer reports it: its distance and
\* its amplitude are those of the last leg alone.
OfLastLeg(t) ==
    LET last == <<t.legs[Len(t.legs)]>> IN [t EXCEPT !.distance = last, !.amplitude = last]

\* The two engines for a wall between two rooms agree: where pipeline.SolveEarly
\* takes the one-hop renderer, the filter network would have composed the same
\* transmitted events, leg by leg in time, phase, pressure and direction, from
\* its own geometry (localized hop scenes, ports off the portal), however the
\* portal is wound and wherever the rooms lie; only a way that is silent in
\* every band is an empty response for one and an error for the other.  They do
\* not agree on DistanceMeters: the one-hop renderer reports the last leg's, the
\* network the whole way's (network_test.go:85-92 says so, and that the field is
\* export metadata).  And neither derives, from a scene it
\* accepts, a scene the solver it calls refuses
\* (src/crossroom/engine.go:54-131, onehop.go:39-112, network.go:482-510).
EnginesAgree ==
    (result.op = "early" /\ result.cfg.maxOrder >= 0) =>
        /\ result.answer.refused # "derived"
        /\ (result.answer.refused = "no" /\ RoomCount(result.scene) > 1
                /\ NewEngine(result.scene) = "onehop") =>
              IF NetworkPaths(result.scene) = {} THEN result.answer.events = {}
              ELSE LET network == NetworkSolveEarly(result.scene, result.cfg) IN
                   result.answer = [network EXCEPT !.events = {OfLastLeg(t) : t \in @}]

\* What a renderer was asked for.
Asked(r, s, op) ==
    IF RoomCount(s) > 1
    THEN {"cross"} \cup (IF r.low /\ op = "mono" THEN {"low"} ELSE {})
    ELSE {e \in {"early", "late", "low", "dense"} :
             \/ e = "early" /\ r.early
             \/ e = "late" /\ r.late
             \/ e = "dense" /\ r.dense # "none"
             \/ e = "low" /\ r.low /\ op = "mono"}

\* A render that succeeds holds the field of every engine it was configured
\* with, none dropped and none twice, and all of them for one receiver: the
\* first, or in stereo the one whose HRTF is used.  The low-frequency part of a
\* scene of several rooms is solved in the room of that receiver, put at the
\* origin because the modal solver does not know of an offset, in a scene that
\* is valid (src/renderer.go:74-353, src/crossroom/lowfreq.go:50-139).
RenderSound ==
    LET For(s, heard) ==
            /\ {f.engine : f \in result.answer.fields} = Asked(result.renderer, s, result.op)
            /\ \A f \in result.answer.fields : f.receiver = heard
        LowFor(s, heard, low) ==
            /\ Validate(low.scene)
            /\ Origin(low.scene.room) = Zero
            /\ Plus(low.scene.receivers[1].pos, Origin(RoomAt(s, RoomIndexAt(s, heard.pos))))
                   = heard.pos
    IN  (result.op \in {"mono", "stereo"} /\ result.answer.ok) =>
            /\ For(result.scene, IF result.op = "mono" THEN result.scene.receivers[1]
                                 ELSE firstBinauralReceiver(result.scene)[1])
            /\ (RoomCount(result.scene) > 1 /\ \E f \in result.answer.fields : f.engine = "low") =>
                   LowFor(result.scene, result.scene.receivers[1], LowFreqScene(result.scene)[1])

\* A stored image list that is ValidFor a scene gives the answer a fresh solve
\* of that scene would give, although it was made for another scene object,
\* perhaps with other materials or another mesh pointer
\* (src/ism/cache.go:5-47, src/ism/evaluate.go:16-164).
StoredServes ==
    (result.op = "evaluate" /\ Fresh(result.scene, result.cfg).ok) =>
        result.answer = Fresh(result.scene, result.cfg)

\* Both of the material's lists of scattering coefficients are in use, and the
\* one that counts is all zero: the save leaves it out.
ShadowedScattering(m) == m.scattering # <<>> /\ ~HasNonZero(m.scattering) /\ HasNonZero(m.fixed)

\* A valid scene that can be saved is valid when it is loaded again, and an
\* acoustic simulation cannot tell them apart: the same hash of rooms and
\* portals, positions, wall and triangle materials, and in every band the same
\* absorption, transmission and scattering, although omitted zeros, defaults
\* and the two forms of the scattering list are rewritten on the way.  The
\* exception is a material with ShadowedScattering
\* (src/scene/scene.go:41-89, material.go:37-94, room.go:43-85).
SaveLoadKeeps ==
    (result.op = "load" /\ result.answer # <<>> /\ Validate(result.scene)) =>
        LET old == result.scene
            new == result.answer[1]
        IN  /\ Validate(new)
            /\ GeometryHash(new) = GeometryHash(old)
            /\ \A i \in RoomIndices(old) :
                   IF RoomAt(old, i).kind = "shoebox"
                   THEN RoomAt(new, i).shoebox = RoomAt(old, i).shoebox
                   ELSE \A k \in DOMAIN RoomAt(old, i).mesh[1].faces :
                           TriangleMaterialName(RoomAt(new, i), k)
                               = TriangleMaterialName(RoomAt(old, i), k)
            /\ \A name \in DOMAIN old.materials : \A b \in 1..BandCount(old) :
                   LET m == old.materials[name]
                       n == new.materials[name]
                   IN  /\ AbsorptionAt(n, b) = AbsorptionAt(m, b)
                       /\ TransmissionAt(n, b) = TransmissionAt(m, b)
                       /\ ~ShadowedScattering(m) =>
                              ScatteringCoefficients(n, BandCount(old))[b]
                                  = ScatteringCoefficients(m, BandCount(old))[b]

\* The boundary of a merged group is right whenever it is built, and it is built
\* for every group that keeps the authoring rules and whose open portals join
\* walls of one outline: cutting a grid into each wall and counting edges never
\* refuses such a group and never passes one with a sheet across an open door
\* or a gap in a wall (src/scene/graph_geometry.go:100-172, 406-428, 989-1041,
\* src/geometry/face_cut.go:25-115).
MergedSound ==
    result.op = "merge" =>
        /\ result.answer # <<>> => Sealed(result.building, result.rooms, result.answer[1])
        /\ Buildable(result.building, result.rooms) => result.answer # <<>>

(***************************************************************************)
(* The inductive invariant behind StoredServes: a stored list and an answer *)
(* made from one remember the accepted call that generated the list.        *)
(***************************************************************************)
StoredFrom(t, cfg) ==
    /\ Accepted(t, cfg)
    /\ stored = [hash |-> GeometryHash(t), answer |-> Fresh(t, cfg), cfg |-> cfg]

EvaluatedFrom(t, cfg) ==
    /\ Accepted(t, cfg) /\ result.cfg = cfg
    /\ GeometryHash(t) = GeometryHash(result.scene)
    /\ result.answer = Answer(Fresh(t, cfg).lists, ScenePlanes(result.scene))

StoredInv ==
    /\ stored # NoList => \E t \in StoredScenes, cfg \in Configs : StoredFrom(t, cfg)
    /\ result.op = "evaluate" => \E t \in StoredScenes, cfg \in Configs : EvaluatedFrom(t, cfg)
=============================================================================
