---------------------------- MODULE MergedRooms ----------------------------
(***************************************************************************)
(* The merged boundary of a room group (src/scene/graph_geometry.go): the   *)
(* walls of its shoebox rooms with the apertures of the open portals cut    *)
(* out of both sides, and the test that nothing is left open.              *)
(*                                                                         *)
(* Space has three axes and integer coordinates, a rectangle in a plane     *)
(* axis = at spans min..max on the two other axes, and the tolerances are   *)
(* zero.  A building is its rooms, boxes [min, max], and its portals        *)
(* [rooms, rect, open], already validated.  Mesh rooms are left out.        *)
(***************************************************************************)
EXTENDS Integers, Sequences, FiniteSets

Axes3 == 1..3

\* The two axes of a plane, in the order of its frame.
InPlane(axis) == Axes3 \ {axis}

Rect(axis, at, lo, hi) == [axis |-> axis, at |-> at, min |-> lo, max |-> hi]

boxesOverlap(a, b) ==
    \A x \in Axes3 : a.min[x] < b.max[x] /\ b.min[x] < a.max[x]

\* Two shoeboxes are settled by their boxes.
checkGroupRoomsDoNotOverlap(b, rooms) ==
    \A i, j \in rooms : i < j => ~boxesOverlap(b.rooms[i], b.rooms[j])

Aperture(b, p) == [portal |-> p, rect |-> b.portals[p].rect]

MutantGroupApertures(b, rooms, room) ==      \* only the first room is cut
    {Aperture(b, p) : p \in {q \in DOMAIN b.portals :
        /\ b.portals[q].open
        /\ \A k \in 1..2 : b.portals[q].rooms[k] \in rooms
        /\ room = b.portals[q].rooms[1]}}

\* The open portals inside the group, for each of their two rooms; two in one
\* place stay two.
groupApertures(b, rooms, room) ==
    {Aperture(b, p) : p \in {q \in DOMAIN b.portals :
        /\ b.portals[q].open
        /\ \A k \in 1..2 : b.portals[q].rooms[k] \in rooms
        /\ room \in {b.portals[q].rooms[1], b.portals[q].rooms[2]}}}

\* The walls of a box, each a rectangle.
shoeboxFaces(box) ==
    LET Wall(a, side) == Rect(a, side[a], [x \in InPlane(a) |-> box.min[x]],
                                          [x \in InPlane(a) |-> box.max[x]])
    IN  {Wall(a, box.min) : a \in Axes3} \cup {Wall(a, box.max) : a \in Axes3}

Within(inner, outer) ==
    \A x \in InPlane(outer.axis) : outer.min[x] <= inner.min[x] /\ inner.max[x] <= outer.max[x]

\* The apertures that lie on a wall.
faceHoles(face, apertures) ==
    {h \in apertures :
        h.rect.axis = face.axis /\ h.rect.at = face.at /\ Within(h.rect, face)}

RectsOverlap(a, b) == \A x \in InPlane(a.axis) : a.min[x] < b.max[x] /\ b.min[x] < a.max[x]

validateHoles(face, holes) ==
    \A h \in holes : /\ \A x \in InPlane(face.axis) : h.rect.min[x] < h.rect.max[x]
                     /\ \A g \in holes : g # h => ~RectsOverlap(g.rect, h.rect)

\* The grid lines on one axis of a wall: its own edges and those of the holes.
cutLines(face, holes, x) ==
    {face.min[x], face.max[x]} \cup UNION {{h.rect.min[x], h.rect.max[x]} : h \in holes}

\* Neighbouring pairs of grid lines.
Spans(lines) == {s \in lines \X lines : s[1] < s[2] /\ ~\E v \in lines : s[1] < v /\ v < s[2]}

cellIsInsideAnyHole(cell, holes) == \E h \in holes : Within(cell, h.rect)

\* The cells of the grid that are in no hole; never merged.
CutRectangularHoles(face, holes) ==
    LET u == CHOOSE x \in InPlane(face.axis) : \A y \in InPlane(face.axis) : x <= y
        v == CHOOSE y \in InPlane(face.axis) : y # u
        Cell(su, sv) == Rect(face.axis, face.at,
                             [x \in {u, v} |-> IF x = u THEN su[1] ELSE sv[1]],
                             [x \in {u, v} |-> IF x = u THEN su[2] ELSE sv[2]])
        grid == {Cell(su, sv) : su \in Spans(cutLines(face, holes, u)),
                                sv \in Spans(cutLines(face, holes, v))}
    IN  {cell \in grid : ~cellIsInsideAnyHole(cell, holes)}

\* Each cell with the room it belongs to.
appendShoeboxRoom(b, rooms, i) ==
    UNION {{[room |-> i, cell |-> c] :
               c \in CutRectangularHoles(face, faceHoles(face, groupApertures(b, rooms, i)))} :
           face \in shoeboxFaces(b.rooms[i])}

Point(rect, along) == [x \in Axes3 |-> IF x = rect.axis THEN rect.at ELSE along[x]]

\* The edges of a cell's two triangles: its four sides once, its diagonal twice.
CellSides(rect) ==
    LET Corner3(pick) == Point(rect, [x \in InPlane(rect.axis) |->
                                         IF x \in pick THEN rect.max[x] ELSE rect.min[x]])
        corners == {Corner3(pick) : pick \in SUBSET InPlane(rect.axis)}
    IN  {e \in SUBSET corners : /\ Cardinality(e) = 2
                                /\ \A p, q \in e : Cardinality({x \in Axes3 : p[x] # q[x]}) <= 1}

\* Every edge is used an even number of times; diagonals always are.
groupMeshIsClosed(walls) ==
    LET edges == UNION {CellSides(w.cell) : w \in walls}
    IN  \A e \in edges : Cardinality({w \in walls : e \in CellSides(w.cell)}) % 2 = 0

\* <<>>, or the walls of the group.
buildGroupGeometry(b, rooms) ==
    LET holesFit == \A i \in rooms : \A face \in shoeboxFaces(b.rooms[i]) :
                        validateHoles(face, faceHoles(face, groupApertures(b, rooms, i)))
        walls == UNION {appendShoeboxRoom(b, rooms, i) : i \in rooms}
    IN  IF ~checkGroupRoomsDoNotOverlap(b, rooms) \/ ~holesFit THEN <<>>
        ELSE IF walls = {} \/ ~groupMeshIsClosed(walls) THEN <<>>
        ELSE <<walls>>

\* The room groups: closed under open portals, and no part of one is.
RoomGroups(b) ==
    LET Closed(rooms) == \A p \in DOMAIN b.portals :
            b.portals[p].open => (b.portals[p].rooms[1] \in rooms) = (b.portals[p].rooms[2] \in rooms)
        closed == {rooms \in SUBSET DOMAIN b.rooms \ {{}} : Closed(rooms)}
    IN  {rooms \in closed : ~\E part \in closed : part # rooms /\ part \subseteq rooms}

\* Every unit square of a wall.
Squares(face) ==
    LET Edge(x) == face.min[x]..(face.max[x] - 1)
        u == CHOOSE x \in InPlane(face.axis) : TRUE
        v == CHOOSE y \in InPlane(face.axis) : y # u
    IN  {Rect(face.axis, face.at, [x \in {u, v} |-> IF x = u THEN c[1] ELSE c[2]],
                                  [x \in {u, v} |-> IF x = u THEN c[1] + 1 ELSE c[2] + 1]) :
            c \in Edge(u) \X Edge(v)}

On(square, rect) == square.axis = rect.axis /\ square.at = rect.at /\ Within(square, rect)

\* The cavity of a merged group is right: a unit square of a member's boundary
\* is wall, once for each member it bounds, unless it lies in an open portal of
\* the group, where neither member leaves a sheet; so sound passes exactly at
\* the open portals and nowhere leaks out.
Sealed(b, rooms, walls) ==
    \A i \in rooms : \A face \in shoeboxFaces(b.rooms[i]) : \A square \in Squares(face) :
        LET open == \E p \in DOMAIN b.portals :
                       /\ b.portals[p].open
                       /\ On(square, b.portals[p].rect)
                       /\ {b.portals[p].rooms[1], b.portals[p].rooms[2]} \subseteq rooms
            sheets == {w \in walls : On(square, w.cell)}
        IN  IF open THEN sheets = {}
            ELSE Cardinality({w \in sheets : w.room = i}) = 1

\* The two walls a portal lies in have the same outline.
SharedWall(b, portal) ==
    \E face \in shoeboxFaces(b.rooms[portal.rooms[1]]) \cap shoeboxFaces(b.rooms[portal.rooms[2]]) :
        On(portal.rect, face)

\* A group that keeps the authoring rules (docs/scene-graph.md, rectangular
\* portals inside their walls, no two in one place, rooms that do not overlap)
\* and whose open portals join walls of one outline gets its boundary.
Buildable(b, rooms) ==
    /\ checkGroupRoomsDoNotOverlap(b, rooms)
    /\ \A p, q \in DOMAIN b.portals :
           (p # q /\ b.portals[p].rect.axis = b.portals[q].rect.axis
                  /\ b.portals[p].rect.at = b.portals[q].rect.at)
               => ~RectsOverlap(b.portals[p].rect, b.portals[q].rect)
    /\ \A p \in DOMAIN b.portals : b.portals[p].open => SharedWall(b, b.portals[p])
=============================================================================
