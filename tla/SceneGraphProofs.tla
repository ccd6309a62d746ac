--------------------------- MODULE SceneGraphProofs ---------------------------
(* The room groups are the components of the open portals, for every number *)
(* of rooms and every set of portals.                                       *)
EXTENDS SceneGraph, TLAPS

\* Open portals lead both ways.
LEMMA NeighboursSymmetric ==
  ASSUME NEW a \in Rooms, NEW b \in Rooms
  PROVE  b \in Neighbours(a) <=> a \in Neighbours(b)
<1>1. \A p \in Portals : Joins(p, a, b) <=> Joins(p, b, a)
  BY DEF Joins
<1>2. \A p \in Portals : Joins(p, a, b) => p \in Incident(a) /\ p \in Incident(b)
  BY DEF Joins, Incident
<1> QED
  BY <1>1, <1>2 DEF Neighbours, Incident

\* The initial state satisfies the inductive invariant.
LEMMA InitIInv == Init => IInv
<1> SUFFICES ASSUME Init PROVE IInv
  OBVIOUS
<1> USE SceneAssumption DEF Init
<1>1. TypeOK
  BY DEF TypeOK, Rooms, Groups, NoGroup
<1>2. ScanInv
  BY DEF ScanInv, SearchCommon, Grouped, Rooms, Groups, NoGroup
<1>3. ~Ready /\ BfsInv
  BY DEF Ready, BfsInv
<1> QED
  BY <1>1, <1>2, <1>3 DEF IInv, GroupsClosed, GroupsConnected, GroupTables

\* The state that the groups depend on.
core == <<ends, state, groupOfRoom, roomsOfGroup, groupCount, pc,
          start, gor, rog, count, queue, members>>

\* A step that leaves that state alone preserves the invariant.
LEMMA Framed == IInv /\ TypeOK' /\ UNCHANGED core => IInv'
<1> SUFFICES ASSUME IInv, TypeOK', UNCHANGED core PROVE IInv'
  OBVIOUS
<1> USE DEF core, IInv
<1>1. \A r : Neighbours(r)' = Neighbours(r)
  BY DEF Neighbours, Incident, Joins
<1>2. SearchCommon' <=> SearchCommon
  BY <1>1 DEF SearchCommon, Grouped, ClosedSet, Opens
<1>3. ScanInv' /\ BfsInv'
  BY <1>1, <1>2 DEF ScanInv, BfsInv, Grouped
<1>4. GroupsClosed' /\ GroupsConnected' /\ GroupTables'
  BY <1>1 DEF GroupsClosed, GroupsConnected, GroupTables, Ready, ClosedSet, Opens
<1> QED
  BY <1>3, <1>4

\* Readers do not touch the groups.
LEMMA ReadersIInv ==
  ASSUME NEW r \in Readers, IInv, ReaderStep(r)
  PROVE  IInv'
<1>1. UNCHANGED <<core, material, changes>>
  BY DEF ReaderStep, Call, Lookup, BuildAndStore, BuildFails, BvhLookup, BvhBuild, Return,
         core, graph, locals, caches
<1>2. TypeOK'
  BY <1>1 DEF IInv, TypeOK, core
<1> QED
  BY <1>1, <1>2, Framed

\* A mutation starts the search afresh or leaves the groups alone.
LEMMA MutationIInv ==
  ASSUME IInv,
         \/ \E p \in Portals, s \in States : SetPortalState(p, s)
         \/ \E r \in Rooms, m \in Materials : SetMaterial(r, m)
  PROVE  IInv'
<1> USE SceneAssumption
<1>1. ASSUME NEW p \in Portals, NEW s \in States, SetPortalState(p, s) PROVE IInv'
  <2> USE <1>1 DEF SetPortalState, graph, caches
  <2>1. TypeOK'
    BY DEF IInv, TypeOK, Rooms, Groups, NoGroup
  <2>2. \A r \in Rooms : ~Grouped(r)'
    BY DEF Grouped
  <2>3. ScanInv'
    BY <2>2 DEF ScanInv, SearchCommon, Rooms, Groups
  <2>4. ~Ready' /\ BfsInv'
    BY DEF Ready, BfsInv
  <2> QED
    BY <2>1, <2>3, <2>4 DEF IInv, GroupsClosed, GroupsConnected, GroupTables
<1>2. ASSUME NEW r \in Rooms, NEW m \in Materials, SetMaterial(r, m) PROVE IInv'
  <2>1. UNCHANGED core /\ TypeOK'
    BY <1>2 DEF SetMaterial, graph, locals, caches, core, IInv, TypeOK
  <2> QED
    BY <2>1, Framed
<1> QED
  BY <1>1, <1>2

\* The steps of the search leave the scene and the published groups alone.
LEMMA SearchFrame ==
  ASSUME IInv, UNCHANGED scene, pc' # "ready"
  PROVE  /\ \A r : Neighbours(r)' = Neighbours(r)
         /\ \A S : ClosedSet(S)' <=> ClosedSet(S)
         /\ GroupsClosed' /\ GroupsConnected' /\ GroupTables'
<1>1. \A r : Neighbours(r)' = Neighbours(r)
  BY DEF Neighbours, Incident, Joins, scene
<1> QED
  BY <1>1 DEF GroupsClosed, GroupsConnected, GroupTables, Ready, ClosedSet

\* The outer loop skips a grouped room.
LEMMA SkipIInv == IInv /\ Skip => IInv'
<1> SUFFICES ASSUME IInv, Skip PROVE IInv'
  OBVIOUS
<1> USE SceneAssumption DEF Skip, IInv
<1>1. TypeOK'
  BY DEF TypeOK, scene, graph, caches, Rooms
<1>2. SearchCommon'
  <2>1. \A r \in Rooms : r < start + 1 => Grouped(r)
    <3>1. \A r \in Rooms : r < start + 1 => r < start \/ r = start
      BY DEF TypeOK, Rooms
    <3>2. \A r \in Rooms : r < start => Grouped(r)
      BY DEF ScanInv, SearchCommon
    <3> QED
      BY <3>1, <3>2 DEF Grouped
  <2>2. count <= start + 1
    BY DEF ScanInv, SearchCommon, TypeOK
  <2>3. \A S \in SUBSET Rooms : ClosedSet(S)' =>
          \A a \in S, b \in Rooms : Grouped(a) /\ gor[a] = gor[b] => b \in S
    BY SearchFrame DEF ScanInv, SearchCommon
  <2> QED
    BY <2>1, <2>2, <2>3 DEF ScanInv, SearchCommon, Grouped, Opens
<1>3. ScanInv' /\ BfsInv'
  BY <1>2, SearchFrame DEF ScanInv, BfsInv, Grouped
<1> QED
  BY <1>1, <1>3, SearchFrame

\* The outer loop opens a group: the invariant of the inner loop holds.
LEMMA StartGroupIInv == IInv /\ StartGroup => IInv'
<1> SUFFICES ASSUME IInv, StartGroup PROVE IInv'
  OBVIOUS
<1> USE SceneAssumption DEF StartGroup, IInv
<1>1. start \in Rooms /\ count \in Rooms /\ count # NoGroup /\ count <= start
  BY DEF ScanInv, SearchCommon, TypeOK, Rooms, NoGroup
<1>2. TypeOK'
  BY <1>1 DEF TypeOK, scene, graph, caches, Rooms
<1>3. /\ \A r \in Rooms : gor'[r] = IF r = start THEN count ELSE gor[r]
      /\ \A r \in Rooms : Grouped(r) => gor[r] < count
      /\ \A r \in Rooms : Grouped(r) => gor[r] # count
  BY <1>1 DEF ScanInv, TypeOK, Grouped, Rooms
<1>4. SearchCommon'
  <2>1. \A r \in Rooms : r < start' => Grouped(r)'
    BY <1>1, <1>3 DEF ScanInv, SearchCommon, Grouped
  <2>2. ASSUME NEW S \in SUBSET Rooms, ClosedSet(S)', NEW a \in S, NEW b \in Rooms,
               Grouped(a)', gor'[a] = gor'[b]
        PROVE  b \in S
    <3>1. ClosedSet(S)
      BY <2>2, SearchFrame
    <3>2. CASE a = start
      BY <2>2, <3>2, <1>1, <1>3 DEF Grouped
    <3>3. CASE a # start
      <4>1. Grouped(a) /\ gor[a] = gor[b]
        BY <2>2, <3>3, <1>1, <1>3 DEF Grouped
      <4> QED
        BY <4>1, <3>1 DEF ScanInv, SearchCommon
    <3> QED
      BY <3>2, <3>3
  <2>3. ASSUME NEW a \in Rooms, Grouped(a)'
        PROVE  \E b \in Rooms : b <= a /\ gor'[b] = gor'[a] /\ Opens(gor, b)'
    <3>1. CASE a = start
      <4>1. Opens(gor, a)'
        BY <3>1, <1>1, <1>3 DEF Opens, ScanInv, SearchCommon, Grouped, Rooms
      <4> QED
        BY <4>1, <1>1, <3>1 DEF Rooms
    <3>2. CASE a # start
      <4>1. PICK b \in Rooms : b <= a /\ gor[b] = gor[a] /\ Opens(gor, b)
        BY <3>2, <2>3, <1>3 DEF ScanInv, SearchCommon, Grouped
      <4>2. Grouped(a)
        BY <3>2, <2>3, <1>3 DEF Grouped
      <4>3. b # start
        BY <4>1, <4>2, <1>1 DEF Grouped
      <4>4. \A c \in Rooms : c < b => c # start
        BY <4>1, <4>2, <1>3, <1>1 DEF Opens, Grouped, TypeOK, Rooms, NoGroup
      <4>5. Opens(gor, b)'
        BY <4>1, <4>3, <4>4, <1>3 DEF Opens
      <4> QED
        BY <4>1, <4>3, <4>5, <3>2, <1>3
    <3> QED
      BY <3>1, <3>2
  <2>4. \A g \in Groups : rog'[g] = IF g < count' THEN {r \in Rooms : gor'[r] = g} ELSE {}
    <3> SUFFICES ASSUME NEW g \in Groups, g < count
                 PROVE  {r \in Rooms : gor'[r] = g} = {r \in Rooms : gor[r] = g}
      BY DEF ScanInv, SearchCommon
    <3> QED
      BY <1>1, <1>3 DEF Groups, Rooms, NoGroup, TypeOK
  <2> QED
    BY <2>1, <2>2, <2>3, <2>4, <1>1 DEF SearchCommon
<1>5. members' = {r \in Rooms : gor'[r] = count'}
  BY <1>1, <1>3 DEF Grouped
<1>6. \A r \in Rooms : Grouped(r)' => gor'[r] <= count'
  BY <1>1, <1>3 DEF Grouped, TypeOK, Rooms
<1>7. ASSUME NEW r \in Rooms, Grouped(r)', r \notin queue', NEW b \in Neighbours(r)'
      PROVE  gor'[b] = gor'[r]
  BY <1>1, <1>3, <1>7, SearchFrame DEF ScanInv, Grouped, Neighbours
<1>8. BfsInv' /\ ScanInv'
  BY <1>1, <1>3, <1>4, <1>5, <1>6, <1>7 DEF BfsInv, ScanInv
<1> QED
  BY <1>2, <1>8, SearchFrame

\* A room leaves the queue and its neighbours join: the group stays connected,
\* because open portals lead both ways, and only queued rooms are unfinished.
LEMMA VisitIInv ==
  ASSUME IInv, NEW room \in Rooms, Visit(room)
  PROVE  IInv'
<1> USE SceneAssumption DEF Visit, IInv
<1> DEFINE new == Ungrouped(room)
<1>1. /\ start \in Rooms /\ count \in Rooms /\ count # NoGroup /\ count <= start
      /\ room \in members /\ gor[room] = count
  BY DEF BfsInv, SearchCommon, TypeOK, Rooms, NoGroup
<1>2. /\ new \subseteq Rooms
      /\ \A r \in new : r \in Neighbours(room) /\ gor[r] = NoGroup
      /\ \A r \in Neighbours(room) : r \in Rooms /\ (gor[r] = NoGroup => r \in new)
  BY DEF Ungrouped, Neighbours
<1>3. \A r \in Rooms : gor'[r] = IF r \in new THEN count ELSE gor[r]
  BY DEF Join
<1> HIDE DEF new
<1>4. TypeOK'
  <2>1. gor' \in [Rooms -> Rooms \cup {NoGroup}]
    BY <1>1 DEF Join, TypeOK
  <2>2. queue' \subseteq Rooms /\ members' \subseteq Rooms
    BY <1>2 DEF TypeOK, new
  <2> QED
    BY <2>1, <2>2 DEF TypeOK, scene, graph, caches
<1>5. \A r \in Rooms : Grouped(r)' <=> Grouped(r) \/ r \in new
  BY <1>1, <1>3 DEF Grouped
<1>6. SearchCommon'
  <2>1. \A r \in Rooms : r < start => Grouped(r)'
    BY <1>5 DEF BfsInv, SearchCommon
  <2>2. ASSUME NEW S \in SUBSET Rooms, ClosedSet(S)', NEW a \in S, NEW b \in Rooms,
               Grouped(a)', gor'[a] = gor'[b]
        PROVE  b \in S
    <3>1. ClosedSet(S)
      BY <2>2, SearchFrame
    <3>2. \A x \in S, y \in Rooms : Grouped(x) /\ gor[x] = gor[y] => y \in S
      BY <3>1 DEF BfsInv, SearchCommon
    <3>3. CASE gor'[a] = count
      <4>1. room \in S
        <5>1. CASE a \in new
          BY <5>1, <1>2, <3>1, NeighboursSymmetric DEF ClosedSet
        <5>2. CASE a \notin new
          BY <5>2, <3>3, <1>1, <1>3, <3>2 DEF Grouped
        <5> QED
          BY <5>1, <5>2
      <4>2. CASE b \in new
        BY <4>1, <4>2, <1>2, <3>1 DEF ClosedSet
      <4>3. CASE b \notin new
        BY <4>1, <4>3, <2>2, <3>3, <1>1, <1>3, <3>2 DEF Grouped
      <4> QED
        BY <4>2, <4>3
    <3>4. CASE gor'[a] # count
      BY <3>4, <2>2, <3>2, <1>3, <1>5
    <3> QED
      BY <3>3, <3>4
  <2>3. ASSUME NEW a \in Rooms, Grouped(a)'
        PROVE  \E b \in Rooms : b <= a /\ gor'[b] = gor'[a] /\ Opens(gor, b)'
    <3>1. \A r \in new : ~(r < start)
      BY <1>2 DEF BfsInv, SearchCommon, Grouped
    <3>2. \A b \in Rooms : Grouped(b) /\ Opens(gor, b) => \A c \in Rooms : c < b => c \notin new
      BY <1>2, SMT DEF Opens, Grouped, TypeOK, Rooms, NoGroup
    <3>3. \A b \in Rooms : Grouped(b) /\ Opens(gor, b) => Opens(gor, b)' /\ gor'[b] = gor[b]
      BY <3>2, <1>2, <1>3 DEF Opens, Grouped
    <3>4. CASE a \in new
      <4>1. start <= a
        BY <3>1, <3>4, <1>1 DEF Rooms
      <4>2. PICK b \in Rooms : b <= start /\ gor[b] = gor[start] /\ Opens(gor, b)
        BY <1>1 DEF BfsInv, SearchCommon, Grouped
      <4>3. Grouped(b) /\ gor'[a] = count /\ gor[b] = count
        BY <4>2, <3>4, <1>1, <1>3 DEF BfsInv, Grouped
      <4> QED
        BY <4>1, <4>2, <4>3, <3>3, <1>1 DEF Rooms
    <3>5. CASE a \notin new
      <4>1. PICK b \in Rooms : b <= a /\ gor[b] = gor[a] /\ Opens(gor, b)
        BY <2>3, <3>5, <1>5 DEF BfsInv, SearchCommon
      <4> QED
        BY <4>1, <3>5, <2>3, <1>3, <1>5, <3>3 DEF Grouped
    <3> QED
      BY <3>4, <3>5
  <2>4. \A g \in Groups : rog'[g] = IF g < count' THEN {r \in Rooms : gor'[r] = g} ELSE {}
    <3> SUFFICES ASSUME NEW g \in Groups, g < count
                 PROVE  {r \in Rooms : gor'[r] = g} = {r \in Rooms : gor[r] = g}
      BY DEF BfsInv, SearchCommon
    <3>1. g # count /\ g # NoGroup
      BY <1>1 DEF Groups, Rooms, NoGroup
    <3> QED
      BY <3>1, <1>2, <1>3
  <2> QED
    BY <2>1, <2>2, <2>3, <2>4 DEF SearchCommon, BfsInv
<1>7. members' = {r \in Rooms : gor'[r] = count'}
  <2>1. members = {r \in Rooms : gor[r] = count}
    BY DEF BfsInv
  <2> QED
    BY <2>1, <1>2, <1>3, <1>1 DEF new
<1>8. queue' \subseteq members'
  BY DEF BfsInv
<1>9. \A r \in Rooms : Grouped(r)' => gor'[r] <= count'
  BY <1>1, <1>3, <1>5 DEF BfsInv, Rooms
<1>10. ASSUME NEW r \in Rooms, Grouped(r)', r \notin queue', NEW b \in Neighbours(r)'
       PROVE  gor'[b] = gor'[r]
  <2>1. b \in Neighbours(r) /\ b \in Rooms /\ r \notin new
    BY <1>10, SearchFrame DEF Neighbours, new
  <2>2. CASE r = room
    <3>1. CASE b \in new
      BY <3>1, <2>2, <2>1, <1>3, <1>1
    <3>2. CASE b \notin new
      <4>1. Grouped(b)
        BY <3>2, <2>1, <2>2, <1>2 DEF Grouped
      <4>2. room \in Neighbours(b)
        BY <2>1, <2>2, NeighboursSymmetric
      <4>3. b \in queue => gor[b] = count
        BY DEF BfsInv
      <4>4. b \notin queue => gor[room] = gor[b]
        BY <4>1, <4>2, <2>1 DEF BfsInv
      <4> QED
        BY <4>3, <4>4, <3>2, <2>1, <2>2, <1>1, <1>3
    <3> QED
      BY <3>1, <3>2
  <2>3. CASE r # room
    <3>1. r \notin queue /\ Grouped(r)
      BY <1>10, <2>1, <2>3, <1>5
    <3>2. gor[b] = gor[r]
      BY <3>1, <2>1 DEF BfsInv
    <3>3. b \notin new
      BY <3>1, <3>2, <1>2 DEF Grouped
    <3> QED
      BY <3>2, <3>3, <2>1, <1>3
  <2> QED
    BY <2>2, <2>3
<1>11. BfsInv' /\ ScanInv'
  <2>1. gor'[start'] = count' /\ start' < NumRooms
    BY <1>1, <1>3 DEF BfsInv
  <2> QED
    BY <2>1, <1>6, <1>7, <1>8, <1>9, <1>10 DEF BfsInv, ScanInv
<1> QED
  BY <1>4, <1>11, SearchFrame

\* The queue is empty: the group is complete and the outer loop goes on.
LEMMA CloseGroupIInv == IInv /\ CloseGroup => IInv'
<1> SUFFICES ASSUME IInv, CloseGroup PROVE IInv'
  OBVIOUS
<1> USE SceneAssumption DEF CloseGroup, IInv
<1>1. /\ start \in Rooms /\ count \in Rooms /\ count # NoGroup /\ count <= start
      /\ gor[start] = count
  BY DEF BfsInv, SearchCommon, TypeOK, Rooms, NoGroup
<1>2. TypeOK'
  <2>1. start' \in 0 .. NumRooms /\ count' \in 0 .. NumRooms
    BY <1>1 DEF Rooms
  <2>2. rog' \in [Groups -> SUBSET Rooms]
    BY DEF TypeOK
  <2> QED
    BY <2>1, <2>2 DEF TypeOK, scene, graph, caches
<1>3. SearchCommon'
  <2>1. \A r \in Rooms : r < start + 1 => Grouped(r)'
    <3>1. \A r \in Rooms : r < start + 1 => r < start \/ r = start
      BY <1>1 DEF Rooms
    <3>2. \A r \in Rooms : r < start => Grouped(r)
      BY DEF BfsInv, SearchCommon
    <3> QED
      BY <3>1, <3>2, <1>1 DEF Grouped
  <2>2. count + 1 <= start + 1
    BY <1>1 DEF Rooms
  <2>3. \A S \in SUBSET Rooms : ClosedSet(S)' =>
          \A a \in S, b \in Rooms : Grouped(a) /\ gor[a] = gor[b] => b \in S
    BY SearchFrame DEF BfsInv, SearchCommon
  <2>4. ASSUME NEW g \in Groups
        PROVE  rog'[g] = IF g < count + 1 THEN {r \in Rooms : gor[r] = g} ELSE {}
    <3>1. CASE g = count
      BY <3>1, <1>1 DEF BfsInv, TypeOK, Groups, Rooms
    <3>2. CASE g # count
      <4>1. g < count + 1 <=> g < count
        BY <3>2, <1>1 DEF Groups, Rooms
      <4>2. rog'[g] = rog[g]
        BY <3>2 DEF TypeOK
      <4> QED
        BY <4>1, <4>2 DEF BfsInv, SearchCommon
    <3> QED
      BY <3>1, <3>2
  <2>5. \A a \in Rooms : Grouped(a)' =>
          \E b \in Rooms : b <= a /\ gor'[b] = gor'[a] /\ Opens(gor, b)'
    BY DEF BfsInv, SearchCommon, Grouped, Opens
  <2>6. \A a \in Rooms : Grouped(a)' <=> Grouped(a)
    BY DEF Grouped
  <2> QED
    BY <2>1, <2>2, <2>3, <2>4, <2>5, <2>6 DEF SearchCommon
<1>4. ASSUME NEW r \in Rooms, Grouped(r)'
      PROVE  gor'[r] < count' /\ \A b \in Neighbours(r)' : gor'[b] = gor'[r]
  <2>1. Grouped(r) /\ r \notin queue
    BY <1>4 DEF Grouped
  <2>2. gor[r] <= count /\ gor[r] \in Rooms
    BY <2>1 DEF BfsInv, Grouped, TypeOK
  <2> QED
    BY <2>1, <2>2, <1>1, SearchFrame DEF BfsInv, Rooms
<1>5. ScanInv' /\ BfsInv'
  BY <1>3, <1>4 DEF ScanInv, BfsInv
<1> QED
  BY <1>2, <1>5, SearchFrame

\* Every room is grouped: what the search found is published.
LEMMA PublishIInv == IInv /\ Publish => IInv'
<1> SUFFICES ASSUME IInv, Publish PROVE IInv'
  OBVIOUS
<1> USE SceneAssumption DEF Publish, IInv, locals
<1>1. TypeOK'
  BY DEF TypeOK
<1>2. \A r : Neighbours(r)' = Neighbours(r)
  BY DEF Neighbours, Incident, Joins
<1>3. \A r \in Rooms : Grouped(r) /\ gor[r] < count
  BY DEF ScanInv, SearchCommon, Rooms
<1>4. GroupsClosed'
  <2> SUFFICES ASSUME NEW p \in Portals, state[p] = "open", NEW a \in ends[p], NEW b \in ends[p], a # b
               PROVE  gor[a] = gor[b]
    BY DEF GroupsClosed
  <2>1. a \in Rooms /\ b \in Rooms /\ ends[p] = {a, b}
    BY DEF TypeOK, Pairs
  <2>2. b \in Neighbours(a)
    BY <2>1 DEF Neighbours, Incident, Joins
  <2> QED
    BY <2>1, <2>2, <1>3 DEF ScanInv
<1>5. GroupsConnected'
  <2>1. \A S : ClosedSet(S)' <=> ClosedSet(S)
    BY <1>2 DEF ClosedSet
  <2> QED
    BY <2>1, <1>3 DEF GroupsConnected, ScanInv, SearchCommon
<1>6. GroupTables'
  <2>1. \A g \in Groups : rog[g] = {r \in Rooms : gor[r] = g}
    <3> SUFFICES ASSUME NEW g \in Groups, ~(g < count)
                 PROVE  {r \in Rooms : gor[r] = g} = {}
      BY DEF ScanInv, SearchCommon
    <3> QED
      BY <1>3
  <2> QED
    BY <2>1, <1>3 DEF GroupTables, ScanInv, SearchCommon, Opens
<1>7. ScanInv' /\ BfsInv'
  BY DEF ScanInv, BfsInv
<1> QED
  BY <1>1, <1>4, <1>5, <1>6, <1>7

\* Every step preserves the inductive invariant.
LEMMA NextIInv == IInv /\ [Next]_vars => IInv'
<1> SUFFICES ASSUME IInv, [Next]_vars PROVE IInv'
  OBVIOUS
<1>1. CASE UNCHANGED vars
  <2>1. UNCHANGED core /\ TypeOK'
    BY <1>1 DEF vars, core, IInv, TypeOK
  <2> QED
    BY <2>1, Framed
<1>2. CASE UpdateRoomGroups
  BY <1>2, SkipIInv, StartGroupIInv, VisitIInv, CloseGroupIInv, PublishIInv DEF UpdateRoomGroups
<1> QED
  BY <1>1, <1>2, MutationIInv, ReadersIInv DEF Next

\* The inductive invariant holds in every reachable state.
LEMMA Invariance == Spec => []IInv
  BY InitIInv, NextIInv, PTL DEF Spec

\* After NewAcousticSceneGraph and after every SetPortalState, whatever the
\* rooms, the portals and the order of the search, the room groups are exactly
\* the components of the open portals.
THEOREM GroupsAreComponents == Spec => []GroupsExact
<1>1. IInv => GroupsExact
  BY DEF IInv, GroupsExact
<1>2. QED
  BY <1>1, Invariance, PTL

\* The tables groupOfRoom and roomsOfGroup agree, cover every room and number
\* the groups by their lowest rooms.
THEOREM GroupTablesAgree == Spec => []GroupTables
  BY Invariance, PTL DEF IInv

-----------------------------------------------------------------------------
(* The caches.  Their invariant relies on the one of the groups. *)

\* A hash says everything about the geometry of its rooms: an open portal with
\* both rooms in the group is one of the portals of the hash.
LEMMA HashDeterminesGeometry ==
  ASSUME TypeOK, NEW rooms \in SUBSET Rooms
  PROVE  GeometryOf(RoomGroupHash(rooms)) = BuildGroupGeometry(rooms)
<1> DEFINE key == RoomGroupHash(rooms)
<1>1. /\ key.rooms = rooms
      /\ key.materials = {<<r, material[r]>> : r \in rooms}
      /\ key.portals = {<<p, state[p]>> : p \in {q \in Portals : ends[q] \cap rooms # {}}}
  BY DEF RoomGroupHash
<1>2. ASSUME NEW p \in Portals, ends[p] \subseteq rooms
      PROVE  <<p, "open">> \in key.portals <=> state[p] = "open"
  <2>1. ends[p] \cap rooms # {}
    BY <1>2 DEF TypeOK, Pairs
  <2> QED
    BY <1>1, <1>2, <2>1
<1> HIDE DEF key
<1>3. {p \in Portals : <<p, "open">> \in key.portals /\ ends[p] \subseteq key.rooms}
        = {p \in Portals : state[p] = "open" /\ ends[p] \subseteq rooms}
  BY <1>1, <1>2
<1>4. GeometryOf(key) = BuildGroupGeometry(rooms)
  BY <1>1, <1>3 DEF GeometryOf, BuildGroupGeometry, GroupApertures
<1> QED
  BY <1>4 DEF key

\* What is built of a group is geometry.
LEMMA GeometryTyped ==
  ASSUME TypeOK, NEW rooms \in SUBSET Rooms
  PROVE  BuildGroupGeometry(rooms) \in Geometries
<1>1. {<<r, material[r]>> : r \in rooms} \in SUBSET (Rooms \X Materials)
  BY DEF TypeOK
<1>2. GroupApertures(rooms) \in SUBSET Portals
  BY DEF GroupApertures
<1> QED
  BY <1>1, <1>2 DEF BuildGroupGeometry, Geometries

\* A hash that was open at a portal was open at it.
LEMMA OpenInHash ==
  ASSUME NEW rooms, NEW p \in Portals
  PROVE  <<p, "open">> \in RoomGroupHash(rooms).portals <=> state[p] = "open" /\ ends[p] \cap rooms # {}
  BY DEF RoomGroupHash

\* A published group has the key of a group.
LEMMA HashOfGroup ==
  ASSUME IInv, GroupsInhabited, Ready, NEW g \in Groups, g < groupCount
  PROVE  KeyOfGroup(RoomGroupHash(roomsOfGroup[g]))
<1> DEFINE rooms == roomsOfGroup[g]
           key == RoomGroupHash(rooms)
<1>1. rooms \in SUBSET Rooms /\ rooms # {} /\ rooms = {r \in Rooms : groupOfRoom[r] = g}
  BY DEF IInv, TypeOK, GroupTables, GroupsInhabited
<1>2. key.rooms = rooms
  BY DEF RoomGroupHash
<1>3. \A p \in Portals : <<p, "open">> \in key.portals <=> state[p] = "open" /\ ends[p] \cap rooms # {}
  BY OpenInHash
<1>4. \A p \in Portals : ends[p] \subseteq Rooms
  BY DEF IInv, TypeOK, Pairs
<1>5. \E st \in [Portals -> States], mat \in [Rooms -> Materials] :
        key = [rooms |-> rooms,
               materials |-> {<<r, mat[r]>> : r \in rooms},
               portals |-> {<<p, st[p]>> : p \in {q \in Portals : ends[q] \cap rooms # {}}}]
  <2>1. state \in [Portals -> States] /\ material \in [Rooms -> Materials]
    BY DEF IInv, TypeOK
  <2> QED
    BY <2>1 DEF RoomGroupHash
<1> HIDE DEF key, rooms
<1>6. ClosedInKey(key, rooms)
  BY <1>1, <1>3, <1>4 DEF ClosedInKey, IInv, GroupsClosed
<1>7. ASSUME NEW S \in SUBSET Rooms, ClosedInKey(key, S), S \cap rooms # {}
      PROVE  rooms \subseteq S
  <2> DEFINE T == S \cap rooms
  <2>1. ASSUME NEW a \in T, NEW b \in Neighbours(a) PROVE b \in T
    <3>1. PICK p \in Portals : a \in ends[p] /\ state[p] = "open" /\ Joins(p, a, b)
      BY DEF Neighbours, Incident
    <3>2. b \in ends[p] /\ <<p, "open">> \in key.portals
      BY <3>1, <1>3 DEF Joins
    <3>3. b \in S
      BY <3>1, <3>2, <1>7 DEF ClosedInKey
    <3>4. b \in rooms
      BY <3>1, <3>2, <1>6 DEF ClosedInKey
    <3> QED
      BY <3>3, <3>4
  <2>2. ClosedSet(T) /\ T \in SUBSET Rooms
    BY <2>1, <1>1 DEF ClosedSet
  <2>3. PICK a \in T : a \in rooms
    BY <1>7
  <2>4. \A b \in rooms : groupOfRoom[a] = groupOfRoom[b] /\ b \in Rooms
    BY <2>3, <1>1
  <2> HIDE DEF T
  <2>5. rooms \subseteq T
    BY <2>2, <2>3, <2>4 DEF IInv, GroupsConnected
  <2> QED
    BY <2>5 DEF T
<1>8. \E st \in [Portals -> States], mat \in [Rooms -> Materials] :
        key = [rooms |-> key.rooms,
               materials |-> {<<r, mat[r]>> : r \in key.rooms},
               portals |-> {<<p, st[p]>> : p \in {q \in Portals : ends[q] \cap key.rooms # {}}}]
  BY <1>2, <1>5, Zenon
<1>9. KeyOfGroup(key)
  BY <1>1, <1>2, <1>6, <1>7, <1>8, Zenon DEF KeyOfGroup
<1> QED
  BY <1>9 DEF key, rooms

\* The initial state satisfies the invariant of the caches.
LEMMA InitCacheIInv == Init => CacheIInv
<1> SUFFICES ASSUME Init PROVE CacheIInv
  OBVIOUS
<1> USE SceneAssumption DEF Init
<1>1. ReadersInv
  BY DEF ReadersInv, ReaderStates, Idle
<1>2. GroupsInhabited
  BY DEF GroupsInhabited, Groups, Rooms
<1>3. CachesInv
  BY DEF CachesInv
<1> QED
  BY <1>1, <1>2, <1>3 DEF CacheIInv

\* Entries stay what they are while the portals of the scene lead where they led.
LEMMA CachesFramed ==
  ASSUME CachesInv, UNCHANGED ends, geomCache' \cup bvhCache' \subseteq geomCache \cup bvhCache
  PROVE  CachesInv'
<1>1. \A key : GeometryOf(key)' = GeometryOf(key)
  BY DEF GeometryOf
<1>2. \A key : KeyOfGroup(key)' <=> KeyOfGroup(key)
  BY DEF KeyOfGroup, ClosedInKey
<1> QED
  BY <1>1, <1>2 DEF CachesInv

\* A new entry with the hash of a group and the geometry built of it.
LEMMA CachesExtended ==
  ASSUME IInv, CacheIInv, Ready, NEW g \in Groups, g < groupCount, UNCHANGED ends,
         \A e \in geomCache' \cup bvhCache' :
           \/ e \in geomCache \cup bvhCache
           \/ e = [key |-> RoomGroupHash(roomsOfGroup[g]),
                   geom |-> BuildGroupGeometry(roomsOfGroup[g])]
  PROVE  CachesInv'
<1>1. \A key : GeometryOf(key)' = GeometryOf(key)
  BY DEF GeometryOf
<1>2. \A key : KeyOfGroup(key)' <=> KeyOfGroup(key)
  BY DEF KeyOfGroup, ClosedInKey
<1>3. roomsOfGroup[g] \in SUBSET Rooms
  BY DEF IInv, TypeOK
<1>4. GeometryOf(RoomGroupHash(roomsOfGroup[g])) = BuildGroupGeometry(roomsOfGroup[g])
  BY <1>3, HashDeterminesGeometry DEF IInv
<1>5. KeyOfGroup(RoomGroupHash(roomsOfGroup[g]))
  BY HashOfGroup DEF CacheIInv
<1> QED
  BY <1>1, <1>2, <1>4, <1>5 DEF CachesInv, CacheIInv


\* While the search runs nobody reads, and the groups found so far have rooms.
LEMMA SearchCacheIInv ==
  ASSUME IInv, CacheIInv, UpdateRoomGroups
  PROVE  CacheIInv'
<1> USE SceneAssumption DEF CacheIInv
<1>1. ~Ready /\ UNCHANGED <<ends, state, material, reader>>
  BY DEF UpdateRoomGroups, Skip, StartGroup, Visit, CloseGroup, Publish, Ready, scene, locals
<1>2. ReadersInv'
  BY <1>1 DEF ReadersInv
<1>3. GroupsInhabited'
  <2>1. CASE Skip \/ StartGroup \/ \E room \in Rooms : Visit(room)
    <3>1. UNCHANGED <<rog, count, roomsOfGroup, groupCount>>
      BY <2>1 DEF Skip, StartGroup, Visit, scene, graph
    <3> QED
      BY <3>1 DEF GroupsInhabited
  <2>2. CASE CloseGroup
    <3>1. start \in members /\ count \in Groups
      <4>1. members = {r \in Rooms : gor[r] = count} /\ gor[start] = count
        BY <2>2 DEF CloseGroup, IInv, BfsInv
      <4>2. start \in Rooms /\ count \in Groups
        BY <2>2 DEF CloseGroup, IInv, BfsInv, SearchCommon, TypeOK, Rooms, Groups
      <4> QED
        BY <4>1, <4>2
    <3>2. \A g \in Groups : g < count' => g = count \/ g < count
      BY <2>2 DEF CloseGroup, IInv, TypeOK, Groups, Rooms
    <3>3. \A g \in Groups : rog'[g] = IF g = count THEN members ELSE rog[g]
      BY <2>2, <3>1 DEF CloseGroup, IInv, TypeOK
    <3> QED
      BY <2>2, <3>1, <3>2, <3>3 DEF CloseGroup, GroupsInhabited, scene, graph
  <2>3. CASE Publish
    BY <2>3 DEF Publish, GroupsInhabited, locals
  <2> QED
    BY <2>1, <2>2, <2>3 DEF UpdateRoomGroups
<1>4. geomCache' \cup bvhCache' \subseteq geomCache \cup bvhCache
  BY DEF UpdateRoomGroups, Skip, StartGroup, Visit, CloseGroup, Publish, scene, caches, Evict
<1>5. CachesInv'
  BY <1>1, <1>4, CachesFramed
<1> QED
  BY <1>2, <1>3, <1>5

\* A mutation needs quiet, and leaves the caches alone.
LEMMA MutationCacheIInv ==
  ASSUME CacheIInv,
         \/ \E p \in Portals, s \in States : SetPortalState(p, s)
         \/ \E r \in Rooms, m \in Materials : SetMaterial(r, m)
  PROVE  CacheIInv'
<1> USE SceneAssumption DEF CacheIInv
<1>1. /\ \A r \in Readers : reader[r].pc = "idle"
      /\ UNCHANGED <<ends, reader, geomCache, bvhCache, roomsOfGroup, groupCount>>
      /\ UNCHANGED <<rog, count>> \/ count' = 0
  BY DEF SetPortalState, SetMaterial, Quiet, graph, locals, caches
<1>2. ReadersInv'
  BY <1>1 DEF ReadersInv
<1>3. GroupsInhabited'
  BY <1>1 DEF GroupsInhabited, Groups, Rooms
<1>4. CachesInv'
  BY <1>1, CachesFramed
<1> QED
  BY <1>2, <1>3, <1>4

\* What the readers leave alone.
readerFrame == <<ends, state, material, roomsOfGroup, groupCount, pc, rog, count>>

\* A reader that goes on keeps the invariant of the readers.
LEMMA ReaderMoves ==
  ASSUME IInv, CacheIInv, NEW r \in Readers, reader[r].pc # "idle",
         NEW at \in {"build", "bvhLookup", "bvhBuild", "return"}, NEW geom, Goto(r, at, geom),
         UNCHANGED readerFrame,
         \/ at = "build" /\ geom = None
         \/ geom = BuildGroupGeometry(roomsOfGroup[reader[r].group])
  PROVE  ReadersInv'
<1> USE DEF CacheIInv, readerFrame
<1> DEFINE g == reader[r].group
<1>1. Ready /\ g \in Groups /\ g < groupCount
  BY DEF ReadersInv
<1>2. roomsOfGroup[g] \in SUBSET Rooms
  BY <1>1 DEF IInv, TypeOK
<1>3. geom \in Geometries \cup {None}
  BY <1>2, GeometryTyped DEF IInv
<1>4. \A q \in Readers :
        /\ q # r => reader'[q] = reader[q]
        /\ reader'[r].pc = at /\ reader'[r].geom = geom /\ reader'[r].group = g
  BY DEF Goto, ReadersInv, ReaderStates
<1>5. reader' \in [Readers -> ReaderStates]
  <2>1. reader[r] \in ReaderStates
    BY DEF ReadersInv
  <2>2. [reader[r] EXCEPT !.pc = at, !.geom = geom] \in ReaderStates
    BY <2>1, <1>3 DEF ReaderStates
  <2>3. reader' = [reader EXCEPT ![r] = [reader[r] EXCEPT !.pc = at, !.geom = geom]]
    BY DEF Goto
  <2> QED
    BY <2>2, <2>3 DEF ReadersInv
<1>6. \A rooms : BuildGroupGeometry(rooms)' = BuildGroupGeometry(rooms)
  BY DEF BuildGroupGeometry, GroupApertures
<1>7. /\ Ready' <=> Ready
      /\ \A x : (x \in Geometries)' <=> x \in Geometries
  BY DEF Ready
<1> HIDE DEF g
<1>8. \A q \in Readers : reader'[q].pc # "idle" =>
        Ready' /\ reader'[q].group \in Groups /\ reader'[q].group < groupCount'
  BY <1>1, <1>4, <1>7 DEF ReadersInv
<1>9. \A q \in Readers : reader'[q].pc \in {"bvhLookup", "bvhBuild", "return"} =>
        reader'[q].geom = BuildGroupGeometry(roomsOfGroup[reader'[q].group])
  BY <1>4 DEF ReadersInv, g
<1> QED
  BY <1>5, <1>6, <1>8, <1>9 DEF ReadersInv


\* A reader that starts a call or ends one keeps the invariant of the readers.
LEMMA ReaderStartsOrEnds ==
  ASSUME CacheIInv, NEW r \in Readers, UNCHANGED readerFrame,
         \/ reader' = [reader EXCEPT ![r] = Idle]
         \/ \E op \in {"geometry", "bvh"}, g \in Groups :
              /\ Ready /\ g < groupCount
              /\ reader' = [reader EXCEPT ![r] = [pc |-> "lookup", op |-> op, group |-> g, geom |-> None]]
  PROVE  ReadersInv'
<1> USE DEF CacheIInv, readerFrame
<1>1. reader'[r] \in ReaderStates /\ reader' = [reader EXCEPT ![r] = reader'[r]]
  BY DEF ReadersInv, ReaderStates, Idle
<1>2. reader' \in [Readers -> ReaderStates] /\ \A q \in Readers \ {r} : reader'[q] = reader[q]
  BY <1>1 DEF ReadersInv
<1>3. \A rooms : BuildGroupGeometry(rooms)' = BuildGroupGeometry(rooms)
  BY DEF BuildGroupGeometry, GroupApertures
<1>4. /\ reader'[r].pc \in {"idle", "lookup"}
      /\ reader'[r].pc # "idle" => Ready /\ reader'[r].group \in Groups /\ reader'[r].group < groupCount
  BY DEF ReadersInv, Idle
<1>5. \A q \in Readers : reader'[q].pc # "idle" =>
        Ready' /\ reader'[q].group \in Groups /\ reader'[q].group < groupCount'
  BY <1>2, <1>4 DEF ReadersInv, Ready
<1>6. \A q \in Readers : reader'[q].pc \in {"bvhLookup", "bvhBuild", "return"} =>
        reader'[q].geom = BuildGroupGeometry(roomsOfGroup[reader'[q].group])
  BY <1>2, <1>4 DEF ReadersInv
<1> QED
  BY <1>2, <1>3, <1>5, <1>6 DEF ReadersInv

\* What a cache holds under the hash of a reader's group is what a fresh build
\* of the group would give.
LEMMA HitIsFresh ==
  ASSUME IInv, CacheIInv, NEW r \in Readers, reader[r].pc # "idle",
         NEW e \in geomCache \cup bvhCache, e.key = Hash(r)
  PROVE  e.geom = BuildGroupGeometry(roomsOfGroup[reader[r].group])
<1>1. reader[r].group \in Groups
  BY DEF CacheIInv, ReadersInv
<1>2. roomsOfGroup[reader[r].group] \in SUBSET Rooms
  BY <1>1 DEF IInv, TypeOK
<1>3. e.geom = GeometryOf(e.key)
  BY DEF CacheIInv, CachesInv
<1>4. GeometryOf(Hash(r)) = BuildGroupGeometry(roomsOfGroup[reader[r].group])
  BY <1>2, HashDeterminesGeometry DEF IInv, Hash
<1> QED
  BY <1>3, <1>4

\* The steps of the readers.
LEMMA ReadersCacheIInv ==
  ASSUME IInv, CacheIInv, NEW r \in Readers, ReaderStep(r)
  PROVE  CacheIInv'
<1>1. UNCHANGED readerFrame
  BY DEF ReaderStep, Call, Lookup, BuildAndStore, BuildFails, BvhLookup, BvhBuild, Return,
         readerFrame, graph, locals, caches
<1>2. GroupsInhabited'
  BY <1>1 DEF CacheIInv, GroupsInhabited, readerFrame
<1>3. UNCHANGED ends
  BY <1>1 DEF readerFrame
<1> DEFINE g == reader[r].group
           built == BuildGroupGeometry(roomsOfGroup[g])
<1>4. reader[r].pc # "idle" => Ready /\ g \in Groups /\ g < groupCount
  BY DEF CacheIInv, ReadersInv
<1>5. AfterGeometry(r) \in {"bvhLookup", "return"}
  BY DEF AfterGeometry
<1>6. CASE \/ \E op \in {"geometry", "bvh"}, h \in Groups : Call(r, op, h)
           \/ BuildFails(r) \/ Return(r)
  <2>1. \/ reader' = [reader EXCEPT ![r] = Idle]
        \/ \E op \in {"geometry", "bvh"}, h \in Groups :
             /\ Ready /\ h < groupCount
             /\ reader' = [reader EXCEPT ![r] = [pc |-> "lookup", op |-> op, group |-> h, geom |-> None]]
    BY <1>6 DEF Call, BuildFails, Return, Ready
  <2>2. ReadersInv'
    BY <2>1, <1>1, ReaderStartsOrEnds
  <2>3. geomCache' \cup bvhCache' \subseteq geomCache \cup bvhCache
    BY <1>6 DEF Call, BuildFails, Return, caches
  <2>4. CachesInv'
    BY <2>3, <1>3, CachesFramed DEF CacheIInv
  <2> QED
    BY <2>2, <2>4, <1>2 DEF CacheIInv
<1>7. CASE Lookup(r) \/ BvhLookup(r)
  <2>1. geomCache' \cup bvhCache' \subseteq geomCache \cup bvhCache
    BY <1>7 DEF Lookup, BvhLookup, caches
  <2>2. CachesInv'
    BY <2>1, <1>3, CachesFramed DEF CacheIInv
  <2>3. reader[r].pc # "idle"
    BY <1>7 DEF Lookup, BvhLookup
  <2>4. CASE \E e \in geomCache \cup bvhCache :
               e.key = Hash(r) /\ (Goto(r, AfterGeometry(r), e.geom) \/ Goto(r, "return", e.geom))
    <3>1. PICK e \in geomCache \cup bvhCache :
            e.key = Hash(r) /\ (Goto(r, AfterGeometry(r), e.geom) \/ Goto(r, "return", e.geom))
      BY <2>4
    <3>2. e.geom = built
      BY <3>1, <2>3, HitIsFresh
    <3>3. PICK at \in {"bvhLookup", "return"} : Goto(r, at, e.geom)
      BY <3>1, <1>5
    <3> QED
      BY <2>2, <2>3, <3>2, <3>3, <1>1, <1>2, ReaderMoves DEF CacheIInv
  <2>5. CASE Goto(r, "build", None)
    BY <2>2, <2>3, <2>5, <1>1, <1>2, ReaderMoves DEF CacheIInv
  <2>6. CASE BvhLookup(r) /\ Goto(r, "bvhBuild", reader[r].geom)
    <3>1. reader[r].geom = built
      BY <2>6 DEF BvhLookup, CacheIInv, ReadersInv
    <3> QED
      BY <2>2, <2>3, <2>6, <3>1, <1>1, <1>2, ReaderMoves DEF CacheIInv
  <2> QED
    BY <1>7, <2>4, <2>5, <2>6 DEF Lookup, BvhLookup
<1>8. CASE BuildAndStore(r)
  <2>1. reader[r].pc # "idle" /\ Goto(r, AfterGeometry(r), built)
    BY <1>8 DEF BuildAndStore
  <2>2. ReadersInv'
    BY <2>1, <1>1, <1>5, ReaderMoves
  <2>3. \A e \in geomCache' \cup bvhCache' :
          e \in geomCache \cup bvhCache \/ e = [key |-> RoomGroupHash(roomsOfGroup[g]), geom |-> built]
    BY <1>8 DEF BuildAndStore, Put, Hash
  <2>4. CachesInv'
    BY <2>1, <2>3, <1>3, <1>4, CachesExtended
  <2> QED
    BY <2>2, <2>4, <1>2 DEF CacheIInv
<1>9. CASE BvhBuild(r)
  <2>1. reader[r].pc # "idle" /\ Goto(r, "return", reader[r].geom)
    BY <1>9 DEF BvhBuild
  <2>2. reader[r].geom = built
    BY <1>9 DEF BvhBuild, CacheIInv, ReadersInv
  <2>3. ReadersInv'
    BY <2>1, <2>2, <1>1, ReaderMoves
  <2>4. \A e \in geomCache' \cup bvhCache' :
          e \in geomCache \cup bvhCache \/ e = [key |-> RoomGroupHash(roomsOfGroup[g]), geom |-> built]
    BY <1>9, <2>2 DEF BvhBuild, Put, Hash
  <2>5. CachesInv'
    BY <2>1, <2>4, <1>3, <1>4, CachesExtended
  <2> QED
    BY <2>3, <2>5, <1>2 DEF CacheIInv
<1> QED
  BY <1>6, <1>7, <1>8, <1>9 DEF ReaderStep

\* Every step preserves the invariant of the caches.
LEMMA NextCacheIInv == IInv /\ CacheIInv /\ [Next]_vars => CacheIInv'
<1> SUFFICES ASSUME IInv, CacheIInv, [Next]_vars PROVE CacheIInv'
  OBVIOUS
<1>1. CASE UNCHANGED vars
  <2>1. ReadersInv' /\ GroupsInhabited'
    BY <1>1 DEF vars, CacheIInv, ReadersInv, GroupsInhabited, Ready, BuildGroupGeometry, GroupApertures
  <2>2. CachesInv'
    <3>1. UNCHANGED ends /\ geomCache' \cup bvhCache' \subseteq geomCache \cup bvhCache
      BY <1>1 DEF vars
    <3> QED
      BY <3>1, CachesFramed DEF CacheIInv
  <2> QED
    BY <2>1, <2>2 DEF CacheIInv
<1> QED
  BY <1>1, SearchCacheIInv, MutationCacheIInv, ReadersCacheIInv DEF Next

\* Both invariants hold in every reachable state.
LEMMA CacheInvariance == Spec => [](IInv /\ CacheIInv)
<1>1. Init => IInv /\ CacheIInv
  BY InitIInv, InitCacheIInv
<1>2. IInv /\ CacheIInv /\ [Next]_vars => (IInv /\ CacheIInv)'
  BY NextIInv, NextCacheIInv
<1> QED
  BY <1>1, <1>2, PTL DEF Spec

\* GroupGeometry and GroupBVH return what a fresh build of the group would give,
\* for every scene, every number of readers and every history of portal and
\* material changes.
THEOREM ReadersAreFresh == Spec => []ReadersFresh
<1>1. CacheIInv => ReadersFresh
  BY DEF CacheIInv, ReadersInv, ReadersFresh
<1>2. QED
  BY <1>1, CacheInvariance, PTL


\* A key whose portals and materials are as the scene has them now is the hash
\* of a group the search has found.
LEMMA CurrentKeyIsLive ==
  ASSUME IInv, pc = "scan", start = NumRooms, NEW key, KeyOfGroup(key),
         \A x \in key.portals : state[x[1]] = x[2],
         \A x \in key.materials : material[x[1]] = x[2]
  PROVE  key \in LiveKeys
<1> USE SceneAssumption DEF IInv
<1> DEFINE rooms == key.rooms
<1>1. PICK st \in [Portals -> States], mat \in [Rooms -> Materials] :
        key = [rooms |-> rooms,
               materials |-> {<<r, mat[r]>> : r \in rooms},
               portals |-> {<<p, st[p]>> : p \in {q \in Portals : ends[q] \cap rooms # {}}}]
  BY Zenon DEF KeyOfGroup
<1>2. /\ key.materials = {<<r, mat[r]>> : r \in rooms}
      /\ key.portals = {<<p, st[p]>> : p \in {q \in Portals : ends[q] \cap rooms # {}}}
  BY <1>1
<1>3. \A r \in rooms : material[r] = mat[r]
  <2> SUFFICES ASSUME NEW r \in rooms PROVE material[r] = mat[r]
    OBVIOUS
  <2>1. <<r, mat[r]>> \in key.materials
    BY <1>2
  <2>2. material[<<r, mat[r]>>[1]] = <<r, mat[r]>>[2]
    BY <2>1, Zenon
  <2> QED
    BY <2>2
<1>4. \A p \in Portals : ends[p] \cap rooms # {} => state[p] = st[p]
  <2> SUFFICES ASSUME NEW p \in Portals, ends[p] \cap rooms # {} PROVE state[p] = st[p]
    OBVIOUS
  <2>1. <<p, st[p]>> \in key.portals
    BY <1>2
  <2>2. state[<<p, st[p]>>[1]] = <<p, st[p]>>[2]
    BY <2>1, Zenon
  <2> QED
    BY <2>2
<1>5. rooms \in SUBSET Rooms /\ rooms # {} /\ ClosedInKey(key, rooms)
  BY DEF KeyOfGroup
<1>6. key = RoomGroupHash(rooms)
  <2>1. {<<r, mat[r]>> : r \in rooms} = {<<r, material[r]>> : r \in rooms}
    BY <1>3
  <2>2. {<<p, st[p]>> : p \in {q \in Portals : ends[q] \cap rooms # {}}}
          = {<<p, state[p]>> : p \in {q \in Portals : ends[q] \cap rooms # {}}}
    BY <1>4
  <2> QED
    BY <1>1, <2>1, <2>2, Zenon DEF RoomGroupHash
<1>7. \A p \in Portals : <<p, "open">> \in key.portals <=> state[p] = "open" /\ ends[p] \cap rooms # {}
  <2> HIDE DEF rooms
  <2>1. \A p \in Portals : <<p, "open">> \in RoomGroupHash(rooms).portals
                             <=> state[p] = "open" /\ ends[p] \cap rooms # {}
    BY OpenInHash
  <2> QED
    BY <1>6, <2>1
<1>8. PICK a \in rooms : a \in Rooms
  BY <1>5
<1> DEFINE g == gor[a]
           found == {r \in Rooms : gor[r] = g}
<1>9. Grouped(a) /\ g < count /\ g \in Groups
  <2>1. Grouped(a)
    <3>1. \A r \in Rooms : r < start
      BY DEF Rooms
    <3>2. \A r \in Rooms : r < start => Grouped(r)
      BY DEF ScanInv, SearchCommon
    <3> QED
      BY <3>1, <3>2, <1>8
  <2>2. g < count
    BY <2>1, <1>8 DEF ScanInv
  <2>3. g \in Groups
    BY <2>1, <1>8 DEF TypeOK, Groups, Grouped
  <2> QED
    BY <2>1, <2>2, <2>3
<1>10. rog[g] = found
  BY <1>9 DEF ScanInv, SearchCommon
<1>11. ClosedSet(rooms)
  <2> SUFFICES ASSUME NEW b \in rooms, NEW c \in Neighbours(b) PROVE c \in rooms
    BY DEF ClosedSet
  <2>1. PICK p \in Portals : b \in ends[p] /\ state[p] = "open" /\ Joins(p, b, c)
    BY DEF Neighbours, Incident
  <2>2. <<p, "open">> \in key.portals /\ c \in ends[p] /\ ends[p] \cap rooms # {}
    BY <2>1, <1>7 DEF Joins
  <2> QED
    BY <2>2, <1>5 DEF ClosedInKey
<1> HIDE DEF rooms
<1>12. found \subseteq rooms
  BY <1>5, <1>8, <1>9, <1>11 DEF ScanInv, SearchCommon
<1>13. ClosedInKey(key, found)
  <2> SUFFICES ASSUME NEW p \in Portals, <<p, "open">> \in key.portals, NEW b \in ends[p], b \in found,
                      NEW c \in ends[p]
               PROVE  c \in found
    BY DEF ClosedInKey
  <2>1. b \in Rooms /\ c \in Rooms /\ (b # c => ends[p] = {b, c})
    BY DEF TypeOK, Pairs
  <2>2. b # c => c \in Neighbours(b)
    BY <2>1, <1>7 DEF Neighbours, Incident, Joins
  <2>3. Grouped(b) /\ gor[b] = g
    BY <2>1, <1>9 DEF Grouped
  <2> QED
    BY <2>1, <2>2, <2>3 DEF ScanInv
<1>14. rooms \subseteq found
  <2>1. found \in SUBSET Rooms /\ a \in found /\ a \in key.rooms
    BY <1>8 DEF rooms
  <2>2. found \cap key.rooms # {}
    BY <2>1
  <2> HIDE DEF found
  <2> QED
    BY <2>1, <2>2, <1>13 DEF KeyOfGroup, rooms
<1>15. rog[g] = rooms
  BY <1>10, <1>12, <1>14
<1> QED
  BY <1>6, <1>9, <1>15 DEF LiveKeys

\* Only Publish ends the search.
LEMMA SearchEnds == [Next]_vars /\ pc # "ready" /\ pc' = "ready" => Publish
<1> SUFFICES ASSUME [Next]_vars, pc # "ready", pc' = "ready" PROVE Publish
  OBVIOUS
<1>1. ~UNCHANGED vars
  BY DEF vars
<1>2. ~(\E p \in Portals, s \in States : SetPortalState(p, s))
  BY DEF SetPortalState
<1>3. ~(\E r \in Rooms, m \in Materials : SetMaterial(r, m))
  BY DEF SetMaterial
<1>4. ~(\E r \in Readers : ReaderStep(r))
  BY DEF ReaderStep, Call, Lookup, BuildAndStore, BuildFails, BvhLookup, BvhBuild, Return
<1>5. ~Skip /\ ~StartGroup /\ ~(\E room \in Rooms : Visit(room)) /\ ~CloseGroup
  BY DEF Skip, StartGroup, Visit, CloseGroup
<1> QED
  BY <1>1, <1>2, <1>3, <1>4, <1>5 DEF Next, UpdateRoomGroups

\* Publishing the groups evicts what no group uses, and only that: geometry of
\* rooms whose portals and materials are as they were when it was built
\* survives every change elsewhere.
THEOREM EvictionIsExact == Spec => EvictionExact
<1>1. IInv /\ CacheIInv /\ [Next]_vars => [EvictsExactly]_vars
  <2> SUFFICES ASSUME IInv, CacheIInv, [Next]_vars, pc # "ready", pc' = "ready"
               PROVE  /\ \A e \in geomCache' \cup bvhCache' :
                           \E g \in Groups : g < groupCount' /\ e.key = RoomGroupHash(roomsOfGroup'[g])
                      /\ \A e \in geomCache :
                           /\ \A x \in e.key.portals : state[x[1]] = x[2]
                           /\ \A x \in e.key.materials : material[x[1]] = x[2]
                           => e \in geomCache'
    BY DEF EvictsExactly
  <2>1. Publish
    BY SearchEnds
  <2>2. ASSUME NEW e \in geomCache' \cup bvhCache'
        PROVE  \E g \in Groups : g < groupCount' /\ e.key = RoomGroupHash(roomsOfGroup'[g])
    <3>1. e.key \in LiveKeys
      BY <2>1, <2>2 DEF Publish, Evict
    <3>2. PICK g \in Groups : g < count /\ e.key = RoomGroupHash(rog[g])
      BY <3>1 DEF LiveKeys
    <3> QED
      BY <3>2, <2>1 DEF Publish
  <2>3. ASSUME NEW e \in geomCache,
               \A x \in e.key.portals : state[x[1]] = x[2],
               \A x \in e.key.materials : material[x[1]] = x[2]
        PROVE  e \in geomCache'
    <3>1. KeyOfGroup(e.key) /\ pc = "scan" /\ start = NumRooms
      BY <2>1 DEF CacheIInv, CachesInv, Publish
    <3>2. e.key \in LiveKeys
      BY <2>3, <3>1, CurrentKeyIsLive
    <3> QED
      BY <3>2, <2>1 DEF Publish, Evict
  <2> QED
    BY <2>2, <2>3
<1> QED
  BY <1>1, CacheInvariance, PTL DEF Spec, EvictionExact

=============================================================================
