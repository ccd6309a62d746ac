---------------------------- MODULE LibraryProofs ----------------------------
(* What the library keeps between calls, for every set of scenes and          *)
(* configurations: the cached image source solver implements the solver       *)
(* without memory, and a stored image list serves every scene it is ValidFor. *)
EXTENDS Library, TLAPS

\* An accepted scene has one room and that room is its only hashed one.
LEMMA AcceptedRoom ==
  ASSUME NEW s, NEW cfg, Accepted(s, cfg)
  PROVE  /\ RoomHash(s).rooms[1] = writeRoom(s.room)
         /\ s.room.kind = "shoebox" => s.room.shoebox # <<>>
         /\ s.room.kind = "mesh" => s.room.mesh # <<>>
<1>1. roomIsSet(s.room) /\ s.rooms = <<>>
  BY DEF Accepted, Validate, validSceneRooms, roomIsSet
<1>2. RoomCount(s) = 1 /\ RoomIndices(s) = 1..1 /\ RoomAt(s, 1) = s.room
  BY <1>1 DEF RoomCount, RoomIndices, RoomAt
<1>3. RoomHash(s).rooms[1] = writeRoom(s.room)
  BY <1>2 DEF RoomHash
<1>4. validRoom(s.room)
  BY <1>2 DEF Accepted, Validate, validSceneRooms
<1> QED
  BY <1>3, <1>4 DEF validRoom, validShoeboxRoom, validMeshRoom, IsValid

\* RoomHash tells apart what the image lists are generated from.
LEMMA HashTellsRooms ==
  ASSUME NEW s, NEW c, Accepted(s, c), NEW t, NEW d, Accepted(t, d),
         RoomHash(s) = RoomHash(t)
  PROVE  /\ s.room.kind = t.room.kind
         /\ s.room.kind = "shoebox" => s.room.shoebox[1].dims = t.room.shoebox[1].dims
         /\ s.room.kind = "mesh" => s.room.mesh[1].faces = t.room.mesh[1].faces
<1>1. writeRoom(s.room) = writeRoom(t.room)
  BY AcceptedRoom
<1>2. s.room.kind = t.room.kind
  BY <1>1 DEF writeRoom
<1>3. CASE s.room.kind = "shoebox"
  <2>1. s.room.shoebox # <<>> /\ t.room.shoebox # <<>>
    BY <1>2, <1>3, AcceptedRoom
  <2>2. <<s.room.shoebox[1].origin, s.room.shoebox[1].dims>>
          = <<t.room.shoebox[1].origin, t.room.shoebox[1].dims>>
    BY <1>1, <2>1 DEF writeRoom
  <2> QED
    BY <1>2, <1>3, <2>2
<1>4. CASE s.room.kind = "mesh"
  <2>1. s.room.mesh # <<>> /\ t.room.mesh # <<>>
    BY <1>2, <1>4, AcceptedRoom
  <2> QED
    BY <1>1, <1>2, <1>4, <2>1 DEF writeRoom
<1> QED
  BY <1>2, <1>3, <1>4

\* The length of a list built over the sources of a scene.
LEMMA PositionsLength ==
  ASSUME NEW t \in Scenes
  PROVE  \E n \in Nat : /\ DOMAIN t.sources = 1..n
                        /\ Len(collectSourcePositions(t)) = n
<1>1. PICK n \in Nat : DOMAIN t.sources = 1..n
  BY ScenesAssumption
<1>2. DOMAIN collectSourcePositions(t) = 1..n
  BY <1>1 DEF collectSourcePositions
<1>3. Len(collectSourcePositions(t)) = n
  BY <1>1, <1>2, SMT DEF collectSourcePositions
<1> QED
  BY <1>1, <1>3

\* The lists a fresh solver generates.
FreshShoeboxLists(s, cfg) == [i \in DOMAIN s.sources |-> ShoeboxList(s.sources[i].pos, s, cfg)]

FreshMeshLists(s, cfg) ==
    [i \in DOMAIN s.sources |->
        MeshList(s.sources[i].pos, cfg, BuildPlanePolygonMap(s.room.mesh[1].faces))]

\* A kept shoebox list that solveShoebox reuses is the one it would generate.
LEMMA KeptShoeboxIsFresh ==
  ASSUME MemoryOfOneCall, NEW s \in Scenes, NEW cfg \in Configs,
         Accepted(s, cfg), s.room.kind = "shoebox", ShoeboxUnchanged(s, cfg)
  PROVE  Refreshed(solver.shoeboxCache, solver.lastSourcePosSbx, s, FreshShoeboxLists(s, cfg))
         = FreshShoeboxLists(s, cfg)
<1>1. PICK t \in Scenes, d \in Configs : KeptShoebox(t, d)
  BY DEF MemoryOfOneCall, ShoeboxUnchanged
<1>2. PICK n \in Nat : DOMAIN t.sources = 1..n /\ Len(solver.lastSourcePosSbx) = n
  BY <1>1, PositionsLength DEF KeptShoebox
<1>3. t.room.shoebox[1].dims = s.room.shoebox[1].dims /\ d.maxOrder = cfg.maxOrder
  <2>1. Accepted(t, d) /\ RoomHash(s) = RoomHash(t) /\ d.maxOrder = cfg.maxOrder
    BY <1>1 DEF KeptShoebox, ShoeboxUnchanged
  <2>2. s.room.shoebox[1].dims = t.room.shoebox[1].dims
    BY <2>1, HashTellsRooms
  <2> QED
    BY <2>1, <2>2
<1>4. ASSUME NEW i \in DOMAIN s.sources, i <= Len(solver.lastSourcePosSbx),
             solver.lastSourcePosSbx[i] = s.sources[i].pos
      PROVE  solver.shoeboxCache[i] = ShoeboxList(s.sources[i].pos, s, cfg)
  <2>1. i \in DOMAIN t.sources
    <3>1. PICK m \in Nat : DOMAIN s.sources = 1..m
      BY ScenesAssumption
    <3> QED
      BY <1>2, <1>4, <3>1
  <2>2. t.sources[i].pos = s.sources[i].pos
    BY <1>1, <1>4, <2>1 DEF KeptShoebox, collectSourcePositions
  <2>3. solver.shoeboxCache[i] = ShoeboxList(t.sources[i].pos, t, d)
    BY <1>1, <2>1 DEF KeptShoebox
  <2> QED
    BY <1>3, <2>2, <2>3 DEF ShoeboxList
<1> QED
  BY <1>4 DEF Refreshed, FreshShoeboxLists

\* The planes that solveMesh reuses are those of the mesh it is given.
LEMMA KeptPlanesAreFresh ==
  ASSUME MemoryOfOneCall, NEW s \in Scenes, NEW cfg \in Configs,
         Accepted(s, cfg), s.room.kind = "mesh", SamePlanes(s)
  PROVE  solver.meshPPM[1] = BuildPlanePolygonMap(s.room.mesh[1].faces)
<1>1. PICK t \in Scenes, d \in Configs : KeptMesh(t, d)
  BY DEF MemoryOfOneCall, SamePlanes
<1>2. t.room.mesh[1].faces = s.room.mesh[1].faces
  <2>1. Accepted(t, d) /\ RoomHash(s) = RoomHash(t)
    BY <1>1 DEF KeptMesh, SamePlanes
  <2> QED
    BY <2>1, HashTellsRooms
<1> QED
  BY <1>1, <1>2 DEF KeptMesh

\* A kept mesh list that solveMesh reuses is the one it would generate.
LEMMA KeptMeshIsFresh ==
  ASSUME MemoryOfOneCall, NEW s \in Scenes, NEW cfg \in Configs,
         Accepted(s, cfg), s.room.kind = "mesh", MeshUnchanged(s, cfg)
  PROVE  Refreshed(solver.meshCache, solver.lastSourcePosMsh, s, FreshMeshLists(s, cfg))
         = FreshMeshLists(s, cfg)
<1>1. PICK t \in Scenes, d \in Configs : KeptMesh(t, d)
  BY DEF MemoryOfOneCall, MeshUnchanged
<1>2. PICK n \in Nat : DOMAIN t.sources = 1..n /\ Len(solver.lastSourcePosMsh) = n
  BY <1>1, PositionsLength DEF KeptMesh
<1>3. t.room.mesh[1].faces = s.room.mesh[1].faces
  <2>1. Accepted(t, d) /\ RoomHash(s) = RoomHash(t)
    BY <1>1 DEF KeptMesh, MeshUnchanged
  <2> QED
    BY <2>1, HashTellsRooms
<1>4. d.maxOrder = cfg.maxOrder /\ meshMaxDistance(d) = meshMaxDistance(cfg)
  BY <1>1 DEF KeptMesh, MeshUnchanged
<1>5. ASSUME NEW i \in DOMAIN s.sources, i <= Len(solver.lastSourcePosMsh),
             solver.lastSourcePosMsh[i] = s.sources[i].pos
      PROVE  solver.meshCache[i]
               = MeshList(s.sources[i].pos, cfg, BuildPlanePolygonMap(s.room.mesh[1].faces))
  <2>1. i \in DOMAIN t.sources
    <3>1. PICK m \in Nat : DOMAIN s.sources = 1..m
      BY ScenesAssumption
    <3> QED
      BY <1>2, <1>5, <3>1
  <2>2. t.sources[i].pos = s.sources[i].pos
    BY <1>1, <1>5, <2>1 DEF KeptMesh, collectSourcePositions
  <2>3. solver.meshCache[i]
          = MeshList(t.sources[i].pos, d, BuildPlanePolygonMap(t.room.mesh[1].faces))
    BY <1>1, <2>1 DEF KeptMesh
  <2> QED
    BY <1>3, <1>4, <2>2, <2>3 DEF MeshList
<1> QED
  BY <1>5 DEF Refreshed, FreshMeshLists

\* A shoebox call answers as a fresh solver and leaves what that call leaves.
LEMMA ShoeboxStep ==
  ASSUME MemoryOfOneCall, NEW s \in Scenes, NEW cfg \in Configs, SolveShoebox(s, cfg)
  PROVE  MemoryOfOneCall' /\ Abstract!Solve(s, cfg)
<1>1. Accepted(s, cfg) /\ s.room.kind = "shoebox" /\ solveShoebox(s, cfg)
  BY DEF SolveShoebox
<1>2. /\ solver' = [solver EXCEPT !.shoeboxCache = FreshShoeboxLists(s, cfg),
                                   !.lastRoomHash = RoomHash(s),
                                   !.lastMaxOrder = cfg.maxOrder,
                                   !.lastRoomKind = "shoebox",
                                   !.lastSourcePosSbx = collectSourcePositions(s),
                                   !.meshCache = <<>>, !.lastMesh = 0,
                                   !.lastSourcePosMsh = <<>>]
      /\ call' = [op |-> "solve", scene |-> s, cfg |-> cfg,
                  answer |-> Answer(FreshShoeboxLists(s, cfg), {})]
  <2>1. CASE ShoeboxUnchanged(s, cfg)
    BY <1>1, <2>1, KeptShoeboxIsFresh DEF solveShoebox, FreshShoeboxLists
  <2>2. CASE ~ShoeboxUnchanged(s, cfg)
    BY <1>1, <2>2 DEF solveShoebox, FreshShoeboxLists
  <2> QED
    BY <2>1, <2>2
<1>3. DOMAIN solver = DOMAIN NewSolver
  BY DEF MemoryOfOneCall
<1>4. /\ DOMAIN solver' = DOMAIN NewSolver
      /\ solver'.lastRoomKind = "shoebox"
      /\ solver'.lastRoomHash = RoomHash(s)
      /\ solver'.lastMaxOrder = cfg.maxOrder
      /\ solver'.lastSourcePosSbx = collectSourcePositions(s)
      /\ solver'.shoeboxCache = FreshShoeboxLists(s, cfg)
  BY <1>2, <1>3 DEF NewSolver
<1>5. MemoryOfOneCall'
  <2>1. KeptShoebox(s, cfg)'
    BY <1>1, <1>4 DEF KeptShoebox, FreshShoeboxLists
  <2> QED
    BY <1>4, <2>1 DEF MemoryOfOneCall
<1>6. Abstract!Solve(s, cfg)
  BY <1>1, <1>2 DEF Abstract!Solve, Fresh, FreshShoeboxLists
<1> QED
  BY <1>5, <1>6

\* A mesh call likewise.
LEMMA MeshStep ==
  ASSUME MemoryOfOneCall, NEW s \in Scenes, NEW cfg \in Configs, SolveMesh(s, cfg)
  PROVE  MemoryOfOneCall' /\ Abstract!Solve(s, cfg)
<1> DEFINE planes == BuildPlanePolygonMap(s.room.mesh[1].faces)
<1>1. Accepted(s, cfg) /\ s.room.kind = "mesh" /\ solveMesh(s, cfg)
  BY DEF SolveMesh
<1>2. /\ solver' = [solver EXCEPT !.meshCache = FreshMeshLists(s, cfg), !.meshPPM = <<planes>>,
                                   !.lastRoomHash = RoomHash(s),
                                   !.lastMaxOrder = cfg.maxOrder,
                                   !.lastRoomKind = "mesh", !.lastMesh = s.room.mesh[1].id,
                                   !.lastSourcePosMsh = collectSourcePositions(s),
                                   !.lastMeshMaxDist = meshMaxDistance(cfg),
                                   !.shoeboxCache = <<>>, !.lastSourcePosSbx = <<>>]
      /\ call' = [op |-> "solve", scene |-> s, cfg |-> cfg,
                  answer |-> Answer(FreshMeshLists(s, cfg), planes)]
  <2>1. (IF SamePlanes(s) THEN solver.meshPPM[1]
         ELSE BuildPlanePolygonMap(s.room.mesh[1].faces)) = planes
    BY <1>1, KeptPlanesAreFresh
  <2>2. [i \in DOMAIN s.sources |->
             MeshList(s.sources[i].pos, cfg,
                      IF SamePlanes(s) THEN solver.meshPPM[1]
                      ELSE BuildPlanePolygonMap(s.room.mesh[1].faces))] = FreshMeshLists(s, cfg)
    BY <2>1 DEF FreshMeshLists
  <2>3. CASE MeshUnchanged(s, cfg)
    <3>1. Refreshed(solver.meshCache, solver.lastSourcePosMsh, s, FreshMeshLists(s, cfg))
            = FreshMeshLists(s, cfg)
      BY <1>1, <2>3, KeptMeshIsFresh
    <3> QED
      BY <1>1, <2>1, <2>2, <2>3, <3>1 DEF solveMesh
  <2>4. CASE ~MeshUnchanged(s, cfg)
    BY <1>1, <2>1, <2>2, <2>4 DEF solveMesh
  <2> QED
    BY <2>3, <2>4
<1>3. DOMAIN solver = DOMAIN NewSolver
  BY DEF MemoryOfOneCall
<1>4. /\ DOMAIN solver' = DOMAIN NewSolver
      /\ solver'.lastRoomKind = "mesh"
      /\ solver'.lastRoomHash = RoomHash(s)
      /\ solver'.lastMaxOrder = cfg.maxOrder
      /\ solver'.lastMeshMaxDist = meshMaxDistance(cfg)
      /\ solver'.lastSourcePosMsh = collectSourcePositions(s)
      /\ solver'.meshPPM = <<planes>>
      /\ solver'.meshCache = FreshMeshLists(s, cfg)
  BY <1>2, <1>3 DEF NewSolver
<1>5. MemoryOfOneCall'
  <2>1. KeptMesh(s, cfg)'
    BY <1>1, <1>4 DEF KeptMesh, FreshMeshLists
  <2> QED
    BY <1>4, <2>1 DEF MemoryOfOneCall
<1>6. Abstract!Solve(s, cfg)
  BY <1>1, <1>2 DEF Abstract!Solve, Fresh, FreshMeshLists
<1> QED
  BY <1>5, <1>6

\* Every step keeps the memory that of one accepted call and is a step of the
\* solver without memory.
LEMMA EveryStep ==
  ASSUME MemoryOfOneCall, [Next]_vars
  PROVE  MemoryOfOneCall' /\ [Abstract!Next]_call
<1>1. CASE Invalidate
  BY <1>1 DEF Invalidate, MemoryOfOneCall, NewSolver, NoCall,
              Abstract!Next, Abstract!Forget, Abstract!NoCall
<1>2. ASSUME NEW s \in Scenes, NEW cfg \in Configs, SolveRefused(s, cfg)
      PROVE  MemoryOfOneCall' /\ Abstract!Next
  <2>1. MemoryOfOneCall'
    BY <1>2 DEF SolveRefused, MemoryOfOneCall, KeptShoebox, KeptMesh
  <2>2. Abstract!Solve(s, cfg)
    BY <1>2 DEF SolveRefused, Abstract!Solve, Fresh
  <2> QED
    BY <2>1, <2>2 DEF Abstract!Next
<1>3. ASSUME NEW s \in Scenes, NEW cfg \in Configs, SolveShoebox(s, cfg)
      PROVE  MemoryOfOneCall' /\ Abstract!Next
  BY <1>3, ShoeboxStep DEF Abstract!Next
<1>4. ASSUME NEW s \in Scenes, NEW cfg \in Configs, SolveMesh(s, cfg)
      PROVE  MemoryOfOneCall' /\ Abstract!Next
  BY <1>4, MeshStep DEF Abstract!Next
<1>5. CASE UNCHANGED vars
  BY <1>5 DEF vars, MemoryOfOneCall, KeptShoebox, KeptMesh
<1> QED
  BY <1>1, <1>2, <1>3, <1>4, <1>5 DEF Next

\* CachedISMSolver answers every call as a fresh ISMSolver would, whatever
\* scenes, orders, speeds, mesh edits, refused calls and invalidations came
\* before it (src/ism/cached_solver.go:29-31): for every set of scenes and
\* configurations, the cached specification implements FreshISM.
THEOREM CachedSolverIsFresh == Spec => ImplementsFresh
<1>1. Init => MemoryOfOneCall /\ Abstract!Init
  <2> SUFFICES ASSUME Init PROVE MemoryOfOneCall /\ Abstract!Init
    OBVIOUS
  <2>1. solver.lastRoomKind = ""
    BY DEF Init, NewSolver
  <2>2. DOMAIN solver = DOMAIN NewSolver
    BY DEF Init
  <2>3. MemoryOfOneCall
    BY <2>1, <2>2 DEF MemoryOfOneCall
  <2>4. Abstract!Init
    BY DEF Init, NoCall, Abstract!Init, Abstract!NoCall
  <2> QED
    BY <2>3, <2>4
<1>2. MemoryOfOneCall /\ [Next]_vars => MemoryOfOneCall' /\ [Abstract!Next]_call
  BY EveryStep
<1> QED
  BY <1>1, <1>2, PTL DEF Spec, ImplementsFresh, Abstract!Spec
-----------------------------------------------------------------------------
(* The stored image list. *)

\* GeometryHash tells apart what a fresh solve is made of: with the hash of an accepted
\* scene come its image lists.
LEMMA HashTellsLists ==
  ASSUME NEW s, NEW t, NEW cfg, Accepted(s, cfg), Accepted(t, cfg), GeometryHash(s) = GeometryHash(t)
  PROVE  Fresh(s, cfg) = Answer(Fresh(t, cfg).lists, ScenePlanes(s))
<1>1. RoomHash(s) = RoomHash(t)
  BY DEF GeometryHash
<1>2. [i \in DOMAIN s.sources |-> s.sources[i].pos] = [i \in DOMAIN t.sources |-> t.sources[i].pos]
  BY DEF GeometryHash
<1>3. PICK D : D = DOMAIN s.sources
  OBVIOUS
<1>4. D = DOMAIN t.sources /\ \A i \in D : s.sources[i].pos = t.sources[i].pos
  BY <1>2, <1>3
<1>5. /\ s.room.kind = t.room.kind
      /\ s.room.kind = "shoebox" => s.room.shoebox[1].dims = t.room.shoebox[1].dims
      /\ s.room.kind = "mesh" => s.room.mesh[1].faces = t.room.mesh[1].faces
  BY <1>1, HashTellsRooms
<1>6. CASE s.room.kind = "shoebox"
  <2>1. PICK a, b : /\ a = [i \in D |-> ShoeboxList(s.sources[i].pos, s, cfg)]
                    /\ b = [i \in D |-> ShoeboxList(t.sources[i].pos, t, cfg)]
    OBVIOUS
  <2>2. \A i \in D : ShoeboxList(s.sources[i].pos, s, cfg) = ShoeboxList(t.sources[i].pos, t, cfg)
    BY <1>4, <1>5, <1>6 DEF ShoeboxList
  <2>3. a = b
    BY <2>1, <2>2
  <2>4. Fresh(s, cfg) = Answer(a, {}) /\ Fresh(t, cfg) = Answer(b, {})
    BY <1>3, <1>4, <1>5, <1>6, <2>1 DEF Fresh
  <2>5. Fresh(t, cfg).lists = b /\ ScenePlanes(s) = {}
    BY <1>6, <2>4 DEF Answer, ScenePlanes
  <2> QED
    BY <2>3, <2>4, <2>5
<1>7. CASE s.room.kind = "mesh"
  <2>1. PICK planes : planes = BuildPlanePolygonMap(s.room.mesh[1].faces)
    OBVIOUS
  <2>2. planes = BuildPlanePolygonMap(t.room.mesh[1].faces)
    BY <1>5, <1>7, <2>1
  <2>3. PICK a, b : /\ a = [i \in D |-> MeshList(s.sources[i].pos, cfg, planes)]
                    /\ b = [i \in D |-> MeshList(t.sources[i].pos, cfg, planes)]
    OBVIOUS
  <2>4. a = b
    BY <1>4, <2>3
  <2>5. Fresh(s, cfg) = Answer(a, planes) /\ Fresh(t, cfg) = Answer(b, planes)
    BY <1>3, <1>4, <1>5, <1>7, <2>1, <2>2, <2>3 DEF Fresh
  <2>6. Fresh(t, cfg).lists = b /\ ScenePlanes(s) = planes
    BY <1>7, <2>1, <2>5 DEF Answer, ScenePlanes
  <2> QED
    BY <2>4, <2>5, <2>6
<1> QED
  BY <1>6, <1>7 DEF Accepted

LEMMA StoredInvInit ==
  ASSUME LibraryInit
  PROVE  StoredInv
BY DEF LibraryInit, StoredInv, NoResult

\* A call that keeps the stored list and whose result is no evaluation.
LEMMA OtherCallKeeps ==
  ASSUME StoredInv, stored' = stored, result'.op # "evaluate"
  PROVE  StoredInv'
BY DEF StoredInv, StoredFrom

LEMMA StoreKeeps ==
  ASSUME StoredInv, NEW s \in StoredScenes, NEW cfg \in Configs, Store(s, cfg)
  PROVE  StoredInv'
<1>1. /\ Accepted(s, cfg) /\ result' = NoResult
      /\ stored' = [hash |-> GeometryHash(s), answer |-> Fresh(s, cfg), cfg |-> cfg]
  BY DEF Store
<1>2. StoredFrom(s, cfg)'
  BY <1>1 DEF StoredFrom
<1>3. result'.op # "evaluate"
  BY <1>1 DEF NoResult
<1> QED
  BY <1>2, <1>3 DEF StoredInv

LEMMA EvaluateKeeps ==
  ASSUME StoredInv, NEW s \in StoredScenes, Evaluate(s)
  PROVE  StoredInv'
<1>1. /\ stored' = stored /\ stored # NoList /\ stored.hash = GeometryHash(s)
      /\ result' = [op |-> "evaluate", scene |-> s, cfg |-> stored.cfg,
                    answer |-> Answer(stored.answer.lists, ScenePlanes(s))]
  BY DEF Evaluate, ValidFor
<1>2. PICK t \in StoredScenes, cfg \in Configs : StoredFrom(t, cfg)
  BY <1>1 DEF StoredInv
<1>3. StoredFrom(t, cfg)'
  BY <1>1, <1>2 DEF StoredFrom
<1>4. /\ Accepted(t, cfg) /\ stored.cfg = cfg /\ stored.hash = GeometryHash(t)
      /\ stored.answer = Fresh(t, cfg)
  BY <1>2 DEF StoredFrom
<1>5. /\ result'.cfg = cfg /\ result'.scene = s
      /\ result'.answer = Answer(Fresh(t, cfg).lists, ScenePlanes(s))
  BY <1>1, <1>4
<1>6. EvaluatedFrom(t, cfg)'
  BY <1>1, <1>4, <1>5 DEF EvaluatedFrom
<1> QED
  BY <1>3, <1>6 DEF StoredInv

LEMMA LibraryNextKeeps ==
  ASSUME StoredInv, [LibraryNext]_libraryVars
  PROVE  StoredInv'
<1>1. CASE UNCHANGED libraryVars \/ Solving
  <2>1. stored' = stored /\ result' = result
    BY <1>1 DEF libraryVars, Solving
  <2> QED
    BY <2>1 DEF StoredInv, StoredFrom, EvaluatedFrom
<1>2. CASE Use
  <2>1. stored' = stored /\ result'.op # "evaluate"
    BY <1>2 DEF Use, NoResult
  <2> QED
    BY <2>1, OtherCallKeeps
<1>3. ASSUME NEW s \in StoredScenes, NEW cfg \in Configs, Store(s, cfg) PROVE StoredInv'
  BY <1>3, StoreKeeps
<1>4. ASSUME NEW s \in StoredScenes, Evaluate(s) PROVE StoredInv'
  BY <1>4, EvaluateKeeps
<1>5. ASSUME NEW s, NEW cfg, SolveEarly(s, cfg) PROVE StoredInv'
  <2>1. stored' = stored /\ result'.op = "early"
    BY <1>5 DEF SolveEarly
  <2> QED
    BY <2>1, OtherCallKeeps
<1>6. ASSUME NEW r, NEW s, NEW cfg, Render(r, s, cfg) PROVE StoredInv'
  <2>1. stored' = stored /\ result'.op \in {"mono", "stereo"}
    BY <1>6 DEF Render
  <2> QED
    BY <2>1, OtherCallKeeps
<1>7. ASSUME NEW s, SaveAndLoad(s) PROVE StoredInv'
  <2>1. stored' = stored /\ result'.op = "load"
    BY <1>7 DEF SaveAndLoad
  <2> QED
    BY <2>1, OtherCallKeeps
<1>8. ASSUME NEW b, NEW rooms, Merge(b, rooms) PROVE StoredInv'
  <2>1. stored' = stored /\ result'.op = "merge"
    BY <1>8 DEF Merge
  <2> QED
    BY <2>1, OtherCallKeeps
<1> QED
  BY <1>1, <1>2, <1>3, <1>4, <1>5, <1>6, <1>7, <1>8 DEF LibraryNext

LEMMA StoredInvServes ==
  ASSUME StoredInv
  PROVE  StoredServes
<1>1. SUFFICES ASSUME result.op = "evaluate", Fresh(result.scene, result.cfg).ok
               PROVE  result.answer = Fresh(result.scene, result.cfg)
  BY DEF StoredServes
<1>2. PICK t \in StoredScenes, cfg \in Configs : EvaluatedFrom(t, cfg)
  BY <1>1 DEF StoredInv
<1>3. PICK s : s = result.scene
  OBVIOUS
<1>4. Accepted(t, cfg) /\ result.cfg = cfg /\ GeometryHash(t) = GeometryHash(s)
  BY <1>2, <1>3 DEF EvaluatedFrom
<1>5. result.answer = Answer(Fresh(t, cfg).lists, ScenePlanes(s))
  BY <1>2, <1>3 DEF EvaluatedFrom
<1>6. Accepted(s, cfg)
  <2>1. ~Accepted(s, cfg) => Fresh(s, cfg) = Refused
    BY DEF Fresh
  <2> QED
    BY <1>1, <1>3, <1>4, <2>1 DEF Refused
<1>7. Fresh(s, cfg) = Answer(Fresh(t, cfg).lists, ScenePlanes(s))
  BY <1>4, <1>6, HashTellsLists
<1> QED
  BY <1>3, <1>4, <1>5, <1>7

\* A ShoeboxCache or MeshCache that is ValidFor a scene gives the answer of a fresh
\* solve of it, for every set of scenes, whatever object the list was generated from.
THEOREM StoredListServes == LibrarySpec => []StoredServes
<1>1. LibraryInit => StoredInv
  BY StoredInvInit
<1>2. StoredInv /\ [LibraryNext]_libraryVars => StoredInv'
  BY LibraryNextKeeps
<1>3. StoredInv => StoredServes
  BY StoredInvServes
<1> QED
  BY <1>1, <1>2, <1>3, PTL DEF LibrarySpec

=============================================================================
