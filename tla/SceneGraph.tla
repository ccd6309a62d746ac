------------------------------ MODULE SceneGraph ------------------------------
(***************************************************************************)
(* The acoustic scene graph (scene/graph.go, scene/graph_geometry.go,      *)
(* scene/graph_scene.go, scene/hash.go): rooms joined by portals, the room *)
(* groups that the open portals make, and the caches of derived geometry.  *)
(*                                                                         *)
(* A portal change recomputes the groups by a breadth-first search over    *)
(* the open portals, one step per iteration here, and evicts the geometry  *)
(* no group uses any more.  Readers may derive geometry concurrently; a    *)
(* mutation excludes readers, as graph.go:80-82 demands of callers.        *)
(*                                                                         *)
(* A 64-bit hash stands for the data it hashes (collisions are left out),  *)
(* and geometry for what it was built from.                                *)
(***************************************************************************)
EXTENDS Naturals

CONSTANTS
  NumRooms,     \* number of rooms of the scene
  Portals,      \* the portals of the scene
  Materials,    \* material assignments a room may have
  Readers,      \* goroutines that derive geometry
  MaxChanges,   \* bound on the mutations of the scene
  None

ASSUME SceneAssumption ==
  /\ NumRooms \in Nat \ {0}
  /\ MaxChanges \in Nat
  /\ Materials # {}

Rooms == 0 .. NumRooms - 1
NoGroup == NumRooms             \* no group has this number (-1 in the code)
Groups == Rooms                 \* at most one group per room
States == {"open", "closed"}
Pairs == {e \in SUBSET Rooms : \E a, b \in Rooms : a # b /\ e = {a, b}}

VARIABLES
  ends,         \* Portal.RoomIndices
  state,        \* Portal.State
  material,     \* the material assignment of each room
  groupOfRoom, roomsOfGroup, groupCount,     \* the published room groups
  pc,           \* "ready", or which loop of UpdateRoomGroups is running
  start, gor, rog, count, queue, members,    \* the locals of UpdateRoomGroups
  geomCache,    \* g.geomCache: set of [key, geom]
  bvhCache,     \* g.bvhCache: set of [key, geom]
  reader,       \* what each reader is doing
  changes       \* number of mutations so far

graph == <<groupOfRoom, roomsOfGroup, groupCount>>
locals == <<start, gor, rog, count, queue, members>>
caches == <<geomCache, bvhCache>>
vars == <<ends, state, material, groupOfRoom, roomsOfGroup, groupCount, pc,
          start, gor, rog, count, queue, members, geomCache, bvhCache, reader, changes>>

-----------------------------------------------------------------------------
(* What the search and the caches see of the scene. *)

Joins(p, a, b) == ends[p] = {a, b} /\ a # b

\* g.incident[room]
Incident(room) == {p \in Portals : room \in ends[p]}

\* The rooms on the far side of a room's open portals.
Neighbours(room) ==
  {b \in Rooms : \E p \in Incident(room) : state[p] = "open" /\ Joins(p, room, b)}

MutantRoomGroupHash(rooms) ==       \* without the material assignments
  [rooms |-> rooms,
   materials |-> {},
   portals |-> {<<p, state[p]>> : p \in {q \in Portals : ends[q] \cap rooms # {}}}]

\* RoomGroupHash: the rooms, their materials and their incident portals.
RoomGroupHash(rooms) ==
  [rooms |-> rooms,
   materials |-> {<<r, material[r]>> : r \in rooms},
   portals |-> {<<p, state[p]>> : p \in {q \in Portals : ends[q] \cap rooms # {}}}]

\* groupApertures: the open portals with both rooms in the group.
GroupApertures(rooms) == {p \in Portals : state[p] = "open" /\ ends[p] \subseteq rooms}

\* buildGroupGeometry: the merged boundary with its per-triangle materials.
BuildGroupGeometry(rooms) ==
  [boundary |-> rooms,
   materials |-> {<<r, material[r]>> : r \in rooms},
   holes |-> GroupApertures(rooms)]

Idle == [pc |-> "idle", op |-> "geometry", group |-> NoGroup, geom |-> None]

\* NewAcousticSceneGraph: any valid scene, and the search is about to run.
Init ==
  /\ ends \in [Portals -> Pairs]
  /\ state \in [Portals -> States]
  /\ material \in [Rooms -> Materials]
  /\ groupOfRoom = [r \in Rooms |-> NoGroup]
  /\ roomsOfGroup = [g \in Groups |-> {}]
  /\ groupCount = 0
  /\ pc = "scan" /\ start = 0 /\ count = 0 /\ queue = {} /\ members = {}
  /\ gor = [r \in Rooms |-> NoGroup] /\ rog = [g \in Groups |-> {}]
  /\ geomCache = {} /\ bvhCache = {}
  /\ reader = [r \in Readers |-> Idle]
  /\ changes = 0

-----------------------------------------------------------------------------
(* Mutations. *)

Quiet == pc = "ready" /\ \A r \in Readers : reader[r].pc = "idle"

\* SetPortalState: setting the state a portal already has changes nothing,
\* any other change starts UpdateRoomGroups with fresh locals.
SetPortalState(p, s) ==
  /\ Quiet /\ changes < MaxChanges /\ state[p] # s
  /\ state' = [state EXCEPT ![p] = s]
  /\ pc' = "scan" /\ start' = 0 /\ count' = 0 /\ queue' = {} /\ members' = {}
  /\ gor' = [r \in Rooms |-> NoGroup] /\ rog' = [g \in Groups |-> {}]
  /\ changes' = changes + 1
  /\ UNCHANGED <<ends, material, graph, caches, reader>>

\* A caller reassigns a wall material of the scene (hash.go:56-59).
SetMaterial(r, m) ==
  /\ Quiet /\ changes < MaxChanges /\ material[r] # m
  /\ material' = [material EXCEPT ![r] = m]
  /\ changes' = changes + 1
  /\ UNCHANGED <<ends, state, graph, pc, locals, caches, reader>>

-----------------------------------------------------------------------------
(* UpdateRoomGroups.  The queue is a set: the order in which rooms leave it *)
(* does not show in the result, whose members are sorted.                   *)

scene == <<ends, state, material, graph, caches, reader, changes>>

\* The outer loop skips a room that already has a group.
Skip ==
  /\ pc = "scan" /\ start < NumRooms /\ gor[start] # NoGroup
  /\ start' = start + 1
  /\ UNCHANGED <<scene, pc, gor, rog, count, queue, members>>

\* The outer loop opens a new group at a room that has none.
StartGroup ==
  /\ pc = "scan" /\ start < NumRooms /\ gor[start] = NoGroup
  /\ pc' = "bfs"
  /\ gor' = [gor EXCEPT ![start] = count]
  /\ queue' = {start} /\ members' = {start}
  /\ UNCHANGED <<scene, start, rog, count>>

\* The neighbours of a room that have no group yet.
Ungrouped(room) == {b \in Neighbours(room) : gor[b] = NoGroup}

Join(new) == gor' = [r \in Rooms |-> IF r \in new THEN count ELSE gor[r]]

MutantVisit(room) ==        \* a neighbour joins the group but is not queued
  /\ pc = "bfs" /\ room \in queue
  /\ Join(Ungrouped(room))
  /\ queue' = queue \ {room}
  /\ members' = members \cup Ungrouped(room)
  /\ UNCHANGED <<scene, pc, start, rog, count>>

\* One room leaves the queue and its ungrouped neighbours join the group.
Visit(room) ==
  /\ pc = "bfs" /\ room \in queue
  /\ Join(Ungrouped(room))
  /\ queue' = (queue \ {room}) \cup Ungrouped(room)
  /\ members' = members \cup Ungrouped(room)
  /\ UNCHANGED <<scene, pc, start, rog, count>>

MutantCloseGroup ==         \* the group's number is not advanced
  /\ pc = "bfs" /\ queue = {}
  /\ pc' = "scan"
  /\ rog' = [rog EXCEPT ![count] = members]
  /\ start' = start + 1
  /\ UNCHANGED <<scene, gor, count, queue, members>>

\* The queue is empty: the group is complete.
CloseGroup ==
  /\ pc = "bfs" /\ queue = {}
  /\ pc' = "scan"
  /\ rog' = [rog EXCEPT ![count] = members]
  /\ count' = count + 1 /\ start' = start + 1
  /\ UNCHANGED <<scene, gor, queue, members>>

\* The keys of the geometry the new groups can use.
LiveKeys == {RoomGroupHash(rog[g]) : g \in {h \in Groups : h < count}}

\* evictUnreachableGeometry
Evict(cache) == {e \in cache : e.key \in LiveKeys}

MutantPublish ==            \* evictUnreachableGeometry forgets bvhCache
  /\ pc = "scan" /\ start = NumRooms
  /\ pc' = "ready"
  /\ groupOfRoom' = gor /\ roomsOfGroup' = rog /\ groupCount' = count
  /\ geomCache' = Evict(geomCache)
  /\ UNCHANGED <<ends, state, material, locals, bvhCache, reader, changes>>

\* Every room is grouped: the groups are published and the geometry that no
\* group can use is evicted.
Publish ==
  /\ pc = "scan" /\ start = NumRooms
  /\ pc' = "ready"
  /\ groupOfRoom' = gor /\ roomsOfGroup' = rog /\ groupCount' = count
  /\ geomCache' = Evict(geomCache) /\ bvhCache' = Evict(bvhCache)
  /\ UNCHANGED <<ends, state, material, locals, reader, changes>>

UpdateRoomGroups ==
  Skip \/ StartGroup \/ (\E room \in Rooms : Visit(room)) \/ CloseGroup \/ Publish

-----------------------------------------------------------------------------
(* Readers: GroupGeometry and GroupBVH, with their double-checked caches. *)

Goto(r, at, geom) == reader' = [reader EXCEPT ![r].pc = at, ![r].geom = geom]

\* A map entry is replaced: m[key] = value.
Put(cache, key, geom) == {e \in cache : e.key # key} \cup {[key |-> key, geom |-> geom]}

Hash(r) == RoomGroupHash(roomsOfGroup[reader[r].group])

\* What follows a group's geometry: GroupBVH goes on, GroupGeometry returns.
AfterGeometry(r) == IF reader[r].op = "bvh" THEN "bvhLookup" ELSE "return"

Call(r, op, g) ==
  /\ pc = "ready" /\ reader[r].pc = "idle" /\ g < groupCount
  /\ reader' = [reader EXCEPT ![r] = [pc |-> "lookup", op |-> op, group |-> g, geom |-> None]]
  /\ UNCHANGED <<ends, state, material, graph, pc, locals, caches, changes>>

\* GroupGeometry: the cache is read under the read lock.
Lookup(r) ==
  /\ reader[r].pc = "lookup"
  /\ IF \E e \in geomCache : e.key = Hash(r)
     THEN \E e \in geomCache : e.key = Hash(r) /\ Goto(r, AfterGeometry(r), e.geom)
     ELSE Goto(r, "build", None)
  /\ UNCHANGED <<ends, state, material, graph, pc, locals, caches, changes>>

\* buildGroupGeometry runs without a lock, and the result is stored; rooms
\* that overlap or a boundary that is not closed end the call with an error.
BuildAndStore(r) ==
  /\ reader[r].pc = "build"
  /\ LET built == BuildGroupGeometry(roomsOfGroup[reader[r].group]) IN
       /\ geomCache' = Put(geomCache, Hash(r), built)
       /\ Goto(r, AfterGeometry(r), built)
  /\ UNCHANGED <<ends, state, material, graph, pc, locals, bvhCache, changes>>

BuildFails(r) ==
  /\ reader[r].pc = "build"
  /\ reader' = [reader EXCEPT ![r] = Idle]
  /\ UNCHANGED <<ends, state, material, graph, pc, locals, caches, changes>>

\* GroupBVH: the same, under the hash recorded in the geometry.
BvhLookup(r) ==
  /\ reader[r].pc = "bvhLookup"
  /\ IF \E e \in bvhCache : e.key = Hash(r)
     THEN \E e \in bvhCache : e.key = Hash(r) /\ Goto(r, "return", e.geom)
     ELSE Goto(r, "bvhBuild", reader[r].geom)
  /\ UNCHANGED <<ends, state, material, graph, pc, locals, caches, changes>>

BvhBuild(r) ==
  /\ reader[r].pc = "bvhBuild"
  /\ bvhCache' = Put(bvhCache, Hash(r), reader[r].geom)
  /\ Goto(r, "return", reader[r].geom)
  /\ UNCHANGED <<ends, state, material, graph, pc, locals, geomCache, changes>>

Return(r) ==
  /\ reader[r].pc = "return"
  /\ reader' = [reader EXCEPT ![r] = Idle]
  /\ UNCHANGED <<ends, state, material, graph, pc, locals, caches, changes>>

ReaderStep(r) ==
  \/ \E op \in {"geometry", "bvh"}, g \in Groups : Call(r, op, g)
  \/ Lookup(r) \/ BuildAndStore(r) \/ BuildFails(r) \/ BvhLookup(r) \/ BvhBuild(r) \/ Return(r)

Next ==
  \/ \E p \in Portals, s \in States : SetPortalState(p, s)
  \/ \E r \in Rooms, m \in Materials : SetMaterial(r, m)
  \/ UpdateRoomGroups
  \/ \E r \in Readers : ReaderStep(r)

Spec == Init /\ [][Next]_vars

-----------------------------------------------------------------------------
(* Properties. *)

Ready == pc = "ready"

TypeOK ==
  /\ ends \in [Portals -> Pairs]
  /\ state \in [Portals -> States]
  /\ material \in [Rooms -> Materials]
  /\ groupOfRoom \in [Rooms -> Rooms \cup {NoGroup}]
  /\ roomsOfGroup \in [Groups -> SUBSET Rooms]
  /\ groupCount \in 0 .. NumRooms
  /\ pc \in {"ready", "scan", "bfs"}
  /\ start \in 0 .. NumRooms
  /\ gor \in [Rooms -> Rooms \cup {NoGroup}]
  /\ rog \in [Groups -> SUBSET Rooms]
  /\ count \in 0 .. NumRooms
  /\ queue \subseteq Rooms /\ members \subseteq Rooms
  /\ changes \in 0 .. MaxChanges

\* No group boundary has an open portal in it: rooms joined by an open portal
\* are in the same group, whatever order the search visits them in.
GroupsClosed ==
  Ready => \A p \in Portals : state[p] = "open" =>
             \A a, b \in ends[p] : groupOfRoom[a] = groupOfRoom[b]

\* A set of rooms that no open portal leaves.
ClosedSet(S) == \A a \in S : Neighbours(a) \subseteq S

\* No group is larger than it has to be: a set of rooms that holds one member
\* and that no open portal leaves holds the whole group.  With GroupsClosed,
\* the groups are exactly the components of the open portals.
GroupsConnected ==
  Ready => \A S \in SUBSET Rooms : ClosedSet(S) =>
             \A a \in S, b \in Rooms : groupOfRoom[a] = groupOfRoom[b] => b \in S

\* The groups are exactly the components of the open portals, after any sequence
\* of portal changes and in whatever order the search visits the rooms.
GroupsExact == GroupsClosed /\ GroupsConnected

\* Rooms up to b in a numbering: b opened its group.
Opens(table, b) == \A c \in Rooms : c < b => table[c] < table[b]

\* The two tables of the groups agree, every room has a group, and the groups
\* are numbered by their lowest rooms, so that the numbering is deterministic.
GroupTables ==
  Ready =>
    /\ \A r \in Rooms : groupOfRoom[r] < groupCount
    /\ \A g \in Groups : roomsOfGroup[g] = {r \in Rooms : groupOfRoom[r] = g}
    /\ \A a \in Rooms : \E b \in Rooms :
         b <= a /\ groupOfRoom[b] = groupOfRoom[a] /\ Opens(groupOfRoom, b)

\* A reader gets the geometry a fresh build of its group would give, from a
\* cache that survived portal and material changes (hash.go:56-59: a caller that
\* reassigns a material must not keep "receiving the stale table").
ReadersFresh ==
  \A r \in Readers :
    reader[r].pc = "return" => reader[r].geom = BuildGroupGeometry(roomsOfGroup[reader[r].group])

\* When the groups are published, eviction is exact.  The caches hold nothing that
\* no group uses, and "a portal change elsewhere in the building leaves it warm"
\* (graph_geometry.go:40-43): geometry whose rooms have the materials and whose
\* portals have the states it was built with survives, because its rooms still
\* form a group.
EvictsExactly ==
  pc # "ready" /\ pc' = "ready" =>
    /\ \A e \in geomCache' \cup bvhCache' :
         \E g \in Groups : g < groupCount' /\ e.key = RoomGroupHash(roomsOfGroup'[g])
    /\ \A e \in geomCache :
         /\ \A x \in e.key.portals : state[x[1]] = x[2]
         /\ \A x \in e.key.materials : material[x[1]] = x[2]
         => e \in geomCache'

EvictionExact == [][EvictsExactly]_vars

-----------------------------------------------------------------------------
(* The inductive invariant of the search. *)

Grouped(r) == gor[r] # NoGroup

\* What holds of the groups found so far, in both loops.
SearchCommon ==
  /\ \A r \in Rooms : r < start => Grouped(r)
  /\ count <= start
  /\ \A S \in SUBSET Rooms : ClosedSet(S) =>
       \A a \in S, b \in Rooms : Grouped(a) /\ gor[a] = gor[b] => b \in S
  /\ \A a \in Rooms : Grouped(a) =>
       \E b \in Rooms : b <= a /\ gor[b] = gor[a] /\ Opens(gor, b)
  /\ \A g \in Groups :
       rog[g] = IF g < count THEN {r \in Rooms : gor[r] = g} ELSE {}

\* Between two groups, every group found is complete.
ScanInv ==
  pc = "scan" =>
    /\ SearchCommon
    /\ \A r \in Rooms : Grouped(r) =>
         gor[r] < count /\ \A b \in Neighbours(r) : gor[b] = gor[r]

\* Inside a group, only rooms still in the queue may have ungrouped neighbours.
BfsInv ==
  pc = "bfs" =>
    /\ SearchCommon
    /\ start < NumRooms
    /\ gor[start] = count
    /\ members = {r \in Rooms : gor[r] = count}
    /\ queue \subseteq members
    /\ \A r \in Rooms : Grouped(r) => gor[r] <= count
    /\ \A r \in Rooms : Grouped(r) /\ r \notin queue =>
         \A b \in Neighbours(r) : gor[b] = gor[r]

IInv == TypeOK /\ ScanInv /\ BfsInv /\ GroupsClosed /\ GroupsConnected /\ GroupTables
-----------------------------------------------------------------------------
(* The inductive invariant of the caches. *)

Geometries == [boundary : SUBSET Rooms, materials : SUBSET (Rooms \X Materials), holes : SUBSET Portals]

ReaderStates ==
  [pc : {"idle", "lookup", "build", "bvhLookup", "bvhBuild", "return"}, op : {"geometry", "bvh"},
   group : Groups \cup {NoGroup}, geom : Geometries \cup {None}]

\* Who is not idle runs between two mutations and asks for an existing group,
\* and whoever is past the geometry cache holds what a fresh build would give.
ReadersInv ==
  /\ reader \in [Readers -> ReaderStates]
  /\ \A r \in Readers : reader[r].pc # "idle" =>
       Ready /\ reader[r].group \in Groups /\ reader[r].group < groupCount
  /\ \A r \in Readers : reader[r].pc \in {"bvhLookup", "bvhBuild", "return"} =>
       reader[r].geom = BuildGroupGeometry(roomsOfGroup[reader[r].group])

\* No group is empty.
GroupsInhabited ==
  /\ \A g \in Groups : g < count => rog[g] # {}
  /\ \A g \in Groups : g < groupCount => roomsOfGroup[g] # {}

\* What the key of an entry says of the geometry.
GeometryOf(key) ==
  [boundary |-> key.rooms, materials |-> key.materials,
   holes |-> {p \in Portals : <<p, "open">> \in key.portals /\ ends[p] \subseteq key.rooms}]

\* The portals that are open in a key do not lead out of S.
ClosedInKey(key, S) ==
  \A p \in Portals : <<p, "open">> \in key.portals /\ ends[p] \cap S # {} => ends[p] \subseteq S

\* A key is the hash of a group at some portal states and materials, the current
\* ones or former ones: its rooms were a component of the open portals then.
KeyOfGroup(key) ==
  /\ key.rooms \subseteq Rooms /\ key.rooms # {}
  /\ ClosedInKey(key, key.rooms)
  /\ \A S \in SUBSET Rooms : ClosedInKey(key, S) /\ S \cap key.rooms # {} => key.rooms \subseteq S
  /\ \E st \in [Portals -> States], mat \in [Rooms -> Materials] :
       key = [rooms |-> key.rooms,
              materials |-> {<<r, mat[r]>> : r \in key.rooms},
              portals |-> {<<p, st[p]>> : p \in {q \in Portals : ends[q] \cap key.rooms # {}}}]

\* Every entry was a group's geometry when it was stored, and is what its key says.
CachesInv == \A e \in geomCache \cup bvhCache : e.geom = GeometryOf(e.key) /\ KeyOfGroup(e.key)

CacheIInv == ReadersInv /\ GroupsInhabited /\ CachesInv
=============================================================================
