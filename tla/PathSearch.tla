------------------------------ MODULE PathSearch ------------------------------
(***************************************************************************)
(* SearchPaths of scene/path_search.go: the depth-first search for the     *)
(* ways from the source's room group to the receivers' over the closed     *)
(* portals, with its explicit stack, one step per edge considered.         *)
(*                                                                         *)
(* Rooms and portals are numbered as in the scene, node 1 is the root.     *)
(* The transmission of a portal in a band is 10^-Loss, so that levels in   *)
(* units of 10 dB add along a path; a band that does not pass has the loss *)
(* Opaque.  The room groups are the components of the open portals, which  *)
(* SceneGraph shows of UpdateRoomGroups, numbered by their lowest rooms.   *)
(***************************************************************************)
EXTENDS Integers, SequencesExt, FiniteSetsExt

CONSTANTS
  NumRooms,
  Ends,            \* Portal.RoomIndices: portal -> <<room, room>>
  Loss,            \* portal -> its loss per band
  Opaque,          \* the loss of a band that does not pass at all
  SourceRoom, ReceiverRoom,
  Limits           \* the limits a renderer may be configured with

VARIABLES
  state,     \* Portal.State of the scene
  limits,    \* PathSearchConfig and MaxPaths, zero where they are not set
  search     \* the tree and the locals of expandPaths

Rooms == 1 .. NumRooms
Portals == DOMAIN Ends
NumBands == Len(Loss[1])
Bands == 1 .. NumBands
Root == 1

LimitsType == [maxDepth : Int, maxNodes : Int, floor : Int, maxPaths : Int]

\* Portal indices are the positions in Scene.Portals; validatePortalReferences wants
\* two distinct rooms.  A transmission is at most 1, so no loss is negative.
ASSUME PathAssumption ==
  /\ NumRooms \in Nat \ {0}
  /\ SourceRoom \in Rooms /\ ReceiverRoom \in Rooms
  /\ Ends \in Seq(Rooms \X Rooms) /\ \A p \in Portals : Ends[p][1] # Ends[p][2]
  /\ NumBands \in Nat \ {0} /\ Loss \in [Portals -> [Bands -> Nat]]
  /\ Opaque \in Nat \ {0}
  /\ Limits \subseteq LimitsType

\* The elements of S in the order of Before.
Sorted(S, Before(_, _)) ==
  [i \in 1 .. Cardinality(S) |-> CHOOSE x \in S : Cardinality({y \in S : Before(y, x)}) = i - 1]

-----------------------------------------------------------------------------
(* The room groups of a portal state. *)

\* The rooms reached from a room through k open portals or fewer.
Within(room, st) ==
  LET Reached[k \in 0 .. NumRooms] ==
        IF k = 0 THEN {room}
        ELSE Reached[k - 1] \cup UNION {Range(Ends[p]) : p \in {q \in Portals :
               st[q] = "open" /\ Range(Ends[q]) \cap Reached[k - 1] # {}}}
  IN Reached[NumRooms]

\* The rooms of each group, in the order of the group numbers.
GroupsOf(st) == Sorted({Within(r, st) : r \in Rooms}, LAMBDA a, b : Min(a) < Min(b))

\* GroupOfPosition: the number of the group a room belongs to.
GroupOf(room, groups) == CHOOSE g \in DOMAIN groups : room \in groups[g]

\* GroupPortalViews: the closed portals that leave a group and where they lead.
GroupPortalViews(from, groups, st) ==
  LET inside == groups[from]
      ways == {p \in Portals : st[p] = "closed" /\ Cardinality(Range(Ends[p]) \cap inside) = 1}
      Far(p) == CHOOSE r \in Range(Ends[p]) : r \notin inside IN
  {[portal |-> p, to |-> GroupOf(Far(p), groups)] : p \in ways}

\* sortedGroupEdges: the views by portal index.
SortedGroupEdges(from, groups, st) ==
  Sorted(GroupPortalViews(from, groups, st), LAMBDA a, b : a.portal < b.portal)

-----------------------------------------------------------------------------
(* The configuration and the bands. *)

Default(value, default) == IF value <= 0 THEN default ELSE value

\* withDefaults, for a caller that leaves the reduction weights alone.
WithDefaults(c) ==
  [c EXCEPT !.maxDepth = Default(@, 6), !.maxNodes = Default(@, 100000), !.floor = Default(@, 6)]

\* activeBands: the bands still above the floor.
ActiveBands(loss, floor) == {b \in Bands : loss[b] < Opaque /\ loss[b] < floor}

\* The accumulated transmission behind a portal; an opaque band stays opaque.
Accumulate(loss, p) == [b \in Bands |-> Min({loss[b] + Loss[p][b], Opaque})]

-----------------------------------------------------------------------------
(* The search. *)

Frame(node, edges) == [node |-> node, edges |-> edges, cursor |-> 1]

\* SearchPaths up to its call of expandPaths: the tree is its root.
NewSearch(st) ==
  LET groups == GroupsOf(st)
      group == GroupOf(SourceRoom, groups) IN
  [groups |-> groups,
   nodes |-> <<[group |-> group, depth |-> 0, parent |-> 0, portal |-> 0,
                loss |-> [b \in Bands |-> 0]]>>,
   truncated |-> FALSE, onPath |-> {group},
   stack |-> <<Frame(Root, SortedGroupEdges(group, groups, st))>>]

NoSearch == [groups |-> <<>>, nodes |-> <<>>, truncated |-> FALSE, onPath |-> {}, stack |-> <<>>]

Top == Last(search.stack)
Node(n) == search.nodes[n]
HasEdge == search.stack # <<>> /\ Top.cursor <= Len(Top.edges)
Edge == Top.edges[Top.cursor]

\* frame.childCursor++
Considered == [search.stack EXCEPT ![Len(search.stack)].cursor = @ + 1]

\* Every edge of the top frame is considered: its group leaves the path.
PopFrame ==
  /\ search.stack # <<>> /\ Top.cursor > Len(Top.edges)
  /\ search' = [search EXCEPT !.onPath = @ \ {Node(Top.node).group}, !.stack = Front(@)]

\* growPath returns early for a group on the current path.
SkipCycle ==
  /\ HasEdge
  /\ Edge.to \in search.onPath
  /\ search' = [search EXCEPT !.stack = Considered]

\* The depth and the node limit.
AtLimit ==
  LET cfg == WithDefaults(limits) IN
  Node(Top.node).depth + 1 > cfg.maxDepth \/ Len(search.nodes) >= cfg.maxNodes

\* No band of the branch is above the floor.
Inaudible ==
  ActiveBands(Accumulate(Node(Top.node).loss, Edge.portal), WithDefaults(limits).floor) = {}

MutantCutBranch ==        \* a branch below the floor is not reported
  /\ HasEdge
  /\ Edge.to \notin search.onPath
  /\ AtLimit \/ Inaudible
  /\ search' = [search EXCEPT !.stack = Considered, !.truncated = @ \/ AtLimit]

\* growPath rejects the branch and marks the tree as truncated.
CutBranch ==
  /\ HasEdge
  /\ Edge.to \notin search.onPath
  /\ AtLimit \/ Inaudible
  /\ search' = [search EXCEPT !.stack = Considered, !.truncated = TRUE]

\* growPath appends the child, which becomes the top frame.
GrowPath ==
  /\ HasEdge
  /\ Edge.to \notin search.onPath
  /\ ~AtLimit /\ ~Inaudible
  /\ LET child == [group |-> Edge.to, depth |-> Node(Top.node).depth + 1, parent |-> Top.node,
                   portal |-> Edge.portal, loss |-> Accumulate(Node(Top.node).loss, Edge.portal)]
     IN search' = [search EXCEPT
          !.nodes = Append(@, child),
          !.onPath = @ \cup {Edge.to},
          !.stack = Append(Considered, Frame(Len(search.nodes) + 1, SortedGroupEdges(Edge.to, search.groups, state)))]

ExpandPaths == PopFrame \/ SkipCycle \/ CutBranch \/ GrowPath

\* PathTo: up the parents from a node to the root, reversed.
PathTo(n) ==
  LET depth == Node(n).depth
      Up[k \in 0 .. depth] == IF k = 0 THEN n ELSE Node(Up[k - 1]).parent IN
  [i \in 1 .. depth + 1 |-> Up[depth + 1 - i]]

PortalSequence(n) == [i \in 1 .. Node(n).depth |-> Node(PathTo(n)[i + 1]).portal]

-----------------------------------------------------------------------------
(* What the search is for. *)

\* The ways from the source's group that visit no group twice.
SimplePaths(st) ==
  LET groups == GroupsOf(st)
      Extend(path) == {[portals |-> Append(path.portals, e.portal), visited |-> Append(path.visited, e.to)] :
                         e \in {x \in Range(SortedGroupEdges(Last(path.visited), groups, st)) :
                                  x.to \notin Range(path.visited)}}
      Long[k \in 0 .. NumRooms - 1] ==
        IF k = 0 THEN {[portals |-> <<>>, visited |-> <<GroupOf(SourceRoom, groups)>>]}
        ELSE UNION {Extend(path) : path \in Long[k - 1]}
  IN UNION {Long[k] : k \in 0 .. NumRooms - 1}

\* Those that end in the receiver's group.
SimplePathsToReceiver(st) ==
  LET group == GroupOf(ReceiverRoom, GroupsOf(st)) IN
  {path.portals : path \in {q \in SimplePaths(st) : Last(q.visited) = group}}

\* What the portals of a path take from a band.
PathLossIn(s, b) ==
  LET Sum[i \in 0 .. Len(s)] == IF i = 0 THEN 0 ELSE Sum[i - 1] + Loss[s[i]][b] IN Sum[Len(s)]

PathLoss(s) == [b \in Bands |-> Min({PathLossIn(s, b), Opaque})]

\* The search finds every simple path once and reports truncation exactly when
\* one is missing: a path cut at the depth, the node or the audibility limit is
\* truncation, a cycle is not ("Callers must surface this rather than swallow
\* it", path_search.go:69-72).
SearchHonest ==
  search.stack = <<>> /\ search.nodes # <<>> =>
    LET found == {PortalSequence(n) : n \in DOMAIN search.nodes}
        simple == {path.portals : path \in SimplePaths(state)} IN
    /\ Cardinality(found) = Len(search.nodes)
    /\ found \subseteq simple
    /\ search.truncated <=> found # simple

-----------------------------------------------------------------------------
(* The inductive invariant behind SearchHonest. *)

Edges(n) == SortedGroupEdges(Node(n).group, search.groups, state)
PathGroups(n) == {Node(m).group : m \in Range(PathTo(n))}

\* expandPaths is past the edge with this index; of a node that is not on the stack
\* it is past all of them.
Tried(n, i) == \A f \in Range(search.stack) : f.node = n => i < f.cursor

HasChild(n, p) == \E m \in DOMAIN search.nodes : Node(m).parent = n /\ Node(m).portal = p

NodeType == [group : Nat, depth : Nat, parent : Nat, portal : Nat, loss : [Bands -> Nat]]
EdgeType == [portal : Portals, to : 1 .. NumRooms]
FrameType == [node : Nat, edges : Seq(EdgeType), cursor : Nat]

\* A child stands for an edge of its parent that was tried, into a group that is not
\* on the way; no edge has two children.
NodesInv ==
  /\ search.nodes \in Seq(NodeType) \ {<<>>}
  /\ Node(Root) = [group |-> GroupOf(SourceRoom, search.groups), depth |-> 0, parent |-> 0, portal |-> 0,
                   loss |-> [b \in Bands |-> 0]]
  /\ \A m \in DOMAIN search.nodes \ {Root} :
       LET n == Node(m).parent IN
       /\ n \in 1 .. m - 1
       /\ Node(m).depth = Node(n).depth + 1
       /\ Node(m).loss = Accumulate(Node(n).loss, Node(m).portal)
       /\ Node(m).group \notin PathGroups(n)
       /\ \E i \in DOMAIN Edges(n) : /\ Tried(n, i)
                                     /\ Edges(n)[i].portal = Node(m).portal /\ Edges(n)[i].to = Node(m).group
  /\ \A m \in DOMAIN search.nodes : ActiveBands(Node(m).loss, WithDefaults(limits).floor) # {}
  /\ \A m, n \in DOMAIN search.nodes :
       Node(m).parent = Node(n).parent /\ Node(m).portal = Node(n).portal => m = n

\* The stack is the way to its top, onPath the groups on it.
StackInv ==
  /\ search.stack \in Seq(FrameType)
  /\ \A i \in DOMAIN search.stack :
       LET f == search.stack[i] IN
       /\ f.node \in DOMAIN search.nodes /\ PathTo(f.node) = [j \in 1 .. i |-> search.stack[j].node]
       /\ f.edges = Edges(f.node) /\ f.cursor \in 1 .. Len(f.edges) + 1
  /\ search.onPath = {Node(f.node).group : f \in Range(search.stack)}

\* An edge that was tried and closes no cycle has a child, or the tree is marked as
\* truncated; it is marked only because of such an edge.
Cut(n, i) == Tried(n, i) /\ Edges(n)[i].to \notin PathGroups(n) /\ ~HasChild(n, Edges(n)[i].portal)
TruncationInv ==
  search.truncated <=> \E n \in DOMAIN search.nodes : \E i \in DOMAIN Edges(n) : Cut(n, i)

SearchInv ==
  /\ DOMAIN search = DOMAIN NoSearch /\ search.groups = GroupsOf(state)
  /\ NodesInv /\ StackInv /\ TruncationInv
=============================================================================
