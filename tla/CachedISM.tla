------------------------------ MODULE CachedISM ------------------------------
(***************************************************************************)
(* CachedISMSolver (src/ism/cached_solver.go): a solver that keeps the      *)
(* image lists of its last call and decides from the room's hash, the       *)
(* order, the reach and the source positions which of them to generate      *)
(* again.  Between calls the program may change anything: the scene is an   *)
(* argument, a mesh edited in place keeps its identity and changes its      *)
(* faces.                                                                   *)
(***************************************************************************)
EXTENDS ImageSources

CONSTANTS Scenes,     \* the scenes a program passes, some of them invalid
          Configs     \* [maxOrder, speed]

\* The sources of a scene are a list.
ASSUME ScenesAssumption ==
    \A s \in Scenes : Len(s.sources) \in Nat /\ DOMAIN s.sources = 1..Len(s.sources)

VARIABLES solver,     \* the fields of CachedISMSolver
          call        \* the last call: its operation, arguments and answer

vars == <<solver, call>>

NoHash == [rooms |-> <<>>, portals |-> <<>>]

\* nil lists are <<>>: a call always has at least one source.
NewSolver ==
    [shoeboxCache |-> <<>>, lastSourcePosSbx |-> <<>>,
     meshCache |-> <<>>, lastMesh |-> 0, lastSourcePosMsh |-> <<>>, lastMeshMaxDist |-> 0,
     meshPPM |-> <<>>,
     lastRoomHash |-> NoHash, lastMaxOrder |-> 0, lastRoomKind |-> ""]

NoCall == [op |-> "none"]

Init == solver = NewSolver /\ call = NoCall

collectSourcePositions(s) == [i \in DOMAIN s.sources |-> s.sources[i].pos]

\* A kept list is reused for a source that has not moved.
Refreshed(cache, lastPositions, s, generated) ==
    [i \in DOMAIN s.sources |->
        IF i <= Len(lastPositions) /\ lastPositions[i] = s.sources[i].pos
        THEN cache[i] ELSE generated[i]]

\* Whether the kept lists are of this room, order and number of sources.
ShoeboxUnchanged(s, cfg) ==
    /\ solver.lastRoomKind = "shoebox"
    /\ solver.lastRoomHash = RoomHash(s)
    /\ solver.lastMaxOrder = cfg.maxOrder
    /\ Len(solver.shoeboxCache) = Len(s.sources)

solveShoebox(s, cfg) ==
    LET generated == [i \in DOMAIN s.sources |-> ShoeboxList(s.sources[i].pos, s, cfg)]
        lists == IF ShoeboxUnchanged(s, cfg)
                 THEN Refreshed(solver.shoeboxCache, solver.lastSourcePosSbx, s, generated)
                 ELSE generated
    IN  /\ solver' = [solver EXCEPT !.shoeboxCache = lists,
                                    !.lastRoomHash = RoomHash(s),
                                    !.lastMaxOrder = cfg.maxOrder,
                                    !.lastRoomKind = "shoebox",
                                    !.lastSourcePosSbx = collectSourcePositions(s),
                                    !.meshCache = <<>>, !.lastMesh = 0,
                                    !.lastSourcePosMsh = <<>>]
        /\ call' = [op |-> "solve", scene |-> s, cfg |-> cfg, answer |-> Answer(lists, {})]

\* The planes of the mesh: kept while the very mesh and its hash are the same.
SamePlanes(s) ==
    /\ solver.meshPPM # <<>>
    /\ solver.lastRoomKind = "mesh"
    /\ solver.lastRoomHash = RoomHash(s)
    /\ solver.lastMesh = s.room.mesh[1].id

MutantMeshUnchanged(s, cfg) ==        \* the reach is forgotten
    /\ solver.lastRoomKind = "mesh"
    /\ solver.lastRoomHash = RoomHash(s)
    /\ solver.lastMaxOrder = cfg.maxOrder
    /\ Len(solver.meshCache) = Len(s.sources)

MeshUnchanged(s, cfg) ==
    /\ solver.lastRoomKind = "mesh"
    /\ solver.lastRoomHash = RoomHash(s)
    /\ solver.lastMaxOrder = cfg.maxOrder
    /\ solver.lastMeshMaxDist = meshMaxDistance(cfg)
    /\ Len(solver.meshCache) = Len(s.sources)

solveMesh(s, cfg) ==
    LET ppm == IF SamePlanes(s) THEN solver.meshPPM[1]
               ELSE BuildPlanePolygonMap(s.room.mesh[1].faces)
        generated == [i \in DOMAIN s.sources |-> MeshList(s.sources[i].pos, cfg, ppm)]
        lists == IF MeshUnchanged(s, cfg)
                 THEN Refreshed(solver.meshCache, solver.lastSourcePosMsh, s, generated)
                 ELSE generated
    IN  /\ solver' = [solver EXCEPT !.meshCache = lists, !.meshPPM = <<ppm>>,
                                    !.lastRoomHash = RoomHash(s),
                                    !.lastMaxOrder = cfg.maxOrder,
                                    !.lastRoomKind = "mesh", !.lastMesh = s.room.mesh[1].id,
                                    !.lastSourcePosMsh = collectSourcePositions(s),
                                    !.lastMeshMaxDist = meshMaxDistance(cfg),
                                    !.shoeboxCache = <<>>, !.lastSourcePosSbx = <<>>]
        /\ call' = [op |-> "solve", scene |-> s, cfg |-> cfg, answer |-> Answer(lists, ppm)]

\* A refused call leaves the memory alone.
SolveRefused(s, cfg) ==
    /\ ~Accepted(s, cfg)
    /\ call' = [op |-> "solve", scene |-> s, cfg |-> cfg, answer |-> Refused]
    /\ UNCHANGED solver

SolveShoebox(s, cfg) == Accepted(s, cfg) /\ s.room.kind = "shoebox" /\ solveShoebox(s, cfg)

SolveMesh(s, cfg) == Accepted(s, cfg) /\ s.room.kind = "mesh" /\ solveMesh(s, cfg)

Invalidate == solver' = NewSolver /\ call' = NoCall

Next ==
    \/ Invalidate
    \/ \E s \in Scenes, cfg \in Configs :
           SolveRefused(s, cfg) \/ SolveShoebox(s, cfg) \/ SolveMesh(s, cfg)

Spec == Init /\ [][Next]_vars

Abstract == INSTANCE FreshISM WITH Scenes <- Scenes, Configs <- Configs, Fresh <- Fresh, call <- call

\* The cached solver implements the solver without memory: whatever sequence of
\* rooms, orders, speeds, source lists, mesh edits and refused calls came
\* before, the image lists and the planes Solve evaluates are those a fresh
\* ISMSolver would generate for this very scene and configuration
\* (src/ism/cached_solver.go:29-31).
ImplementsFresh == Abstract!Spec

\* Why: the memory is always what one accepted call from nothing would have left,
\* whichever call it was that filled it (the inductive invariant of the proof).
KeptShoebox(t, cfg) ==
    /\ Accepted(t, cfg) /\ t.room.kind = "shoebox"
    /\ solver.lastRoomHash = RoomHash(t)
    /\ solver.lastMaxOrder = cfg.maxOrder
    /\ solver.lastSourcePosSbx = collectSourcePositions(t)
    /\ solver.shoeboxCache = [i \in DOMAIN t.sources |-> ShoeboxList(t.sources[i].pos, t, cfg)]

KeptMesh(t, cfg) ==
    LET planes == BuildPlanePolygonMap(t.room.mesh[1].faces) IN
    /\ Accepted(t, cfg) /\ t.room.kind = "mesh"
    /\ solver.lastRoomHash = RoomHash(t)
    /\ solver.lastMaxOrder = cfg.maxOrder
    /\ solver.lastMeshMaxDist = meshMaxDistance(cfg)
    /\ solver.lastSourcePosMsh = collectSourcePositions(t)
    /\ solver.meshPPM = <<planes>>
    /\ solver.meshCache = [i \in DOMAIN t.sources |-> MeshList(t.sources[i].pos, cfg, planes)]

MemoryOfOneCall ==
    /\ DOMAIN solver = DOMAIN NewSolver
    /\ solver.lastRoomKind \in {"", "shoebox", "mesh"}
    /\ solver.lastRoomKind = "shoebox" =>
           \E t \in Scenes, cfg \in Configs : KeptShoebox(t, cfg)
    /\ solver.lastRoomKind = "mesh" =>
           \E t \in Scenes, cfg \in Configs : KeptMesh(t, cfg)

\* The shoebox and the mesh solver agree, for a room at the origin and for the
\* images within the reach of the mesh solver: for a shoebox call the direct and
\* specular events are exactly those the mesh solver finds in the same box
\* given as faces, and every reflection meets exactly the walls of its image's
\* wall mask.  Closed form with a folded line on one side, mirroring plane by
\* plane with a ray cast from the receiver on the other
\* (src/ism/audibility.go:28-71, src/ism/mesh_solver.go:147-226).
SolversAgree ==
    (call.op = "solve" /\ call.answer.ok /\ call.scene.room.kind = "shoebox"
         /\ call.scene.room.shoebox[1].origin = Zero) =>
        LET box == call.scene.room.shoebox[1]
            Side(a, positive) == [axis |-> a, at |-> IF positive THEN box.dims[a] ELSE 0,
                                  sign |-> IF positive THEN -1 ELSE 1,
                                  lo |-> 0, hi |-> box.dims[Other(a)]]
            boxMesh == [id |-> 0, closed |-> TRUE,
                        faces |-> <<Side(1, FALSE), Side(1, TRUE), Side(2, FALSE), Side(2, TRUE)>>]
            asMesh == [call.scene EXCEPT !.room =
                          [NoRoom EXCEPT !.kind = "mesh", !.mesh = <<boxMesh>>,
                                         !.triangleMaterials = <<box.walls>>]]
        IN  /\ EventsOf(call.answer, call.scene)
                   = EventsOf(Fresh(asMesh, [call.cfg EXCEPT !.speed = 0]), asMesh)
            /\ \A i \in DOMAIN call.answer.lists :
                   \A image \in GenerateImageSources(call.answer.lists[i].pos, box.dims,
                                                     call.cfg.maxOrder) :
                       LET path == reflectionPath(image, call.scene.receivers[1].pos)
                       IN  path # <<>> => {path[1][k] : k \in DOMAIN path[1]} = image.mask
=============================================================================
