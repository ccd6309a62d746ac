--------------------------- MODULE ImageSources ---------------------------
(***************************************************************************)
(* The image source method of src/ism: the closed-form images of a         *)
(* shoebox and their audibility test, the mirrored images of a mesh and     *)
(* their ray-cast audibility test, and the events the two solvers emit.     *)
(*                                                                         *)
(* Points are integer, points on a path rational: a coordinate is num/den.  *)
(* The code's 1e-9 tolerances are exact comparisons, and the 1e-6 offset    *)
(* off a surface is the rule that a ray never hits where it starts.  A list *)
(* of images is the arguments of the pure function that generates it; the   *)
(* cap of 500,000 candidates is out of reach of the orders used here.       *)
(*                                                                         *)
(* An event keeps its kind, its source, the vector to the image (distance,  *)
(* delay and direction of arrival) and, as its gain, the absorption and     *)
(* axis of each surface met, in source order: the reflectance is a function *)
(* of the absorption and of the angle to that axis, which is the unfolded   *)
(* path's.                                                                 *)
(***************************************************************************)
EXTENDS SceneModel

Abs(n) == IF n < 0 THEN -n ELSE n

DistanceSq(p, q) == (p[1] - q[1]) * (p[1] - q[1]) + (p[2] - q[2]) * (p[2] - q[2])

Reversed(seq) == [i \in DOMAIN seq |-> seq[Len(seq) + 1 - i]]

(***************************************************************************)
(* Shoebox images.                                                         *)
(***************************************************************************)
NegWall(axis) == 2 * axis - 1

PosWall(axis) == 2 * axis

AxisOf(wall) == (wall + 1) \div 2

MutantImageCoordinate(order, source, dimension) ==
    IF order % 2 = 0 THEN order * dimension + source
    ELSE order * dimension - source

imageSourceCoordinate(order, source, dimension) ==
    IF order % 2 = 0 THEN order * dimension + source
    ELSE (order + 1) * dimension - source

\* Walls met on an axis, in the order of their planes; orders below zero start
\* with the wall at zero.
AxisWall(axis, order, step) ==
    IF (order > 0) = (step % 2 = 0) THEN PosWall(axis) ELSE NegWall(axis)

wallMask(orders) ==
    UNION {{AxisWall(a, orders[a], step) : step \in 0..(Abs(orders[a]) - 1)} : a \in Axes}

GenerateImageSources(source, dims, maxOrder) ==
    {[pos |-> [a \in Axes |-> imageSourceCoordinate(orders[a], source[a], dims[a])],
      order |-> Abs(orders[1]) + Abs(orders[2]),
      mask |-> wallMask(orders), orders |-> orders, dims |-> dims] :
        orders \in {o \in [Axes -> -maxOrder..maxOrder] : Abs(o[1]) + Abs(o[2]) <= maxOrder}}

\* The planes the line from the receiver to the image crosses on an axis, each
\* at the fraction num/den of the way.
appendAxisCrossings(image, receiver, axis) ==
    LET delta == image.pos[axis] - receiver[axis]
        order == image.orders[axis]
        Plane(step) == (IF order > 0 THEN step + 1 ELSE -step) * image.dims[axis]
    IN  {[num |-> IF delta > 0 THEN Plane(step) - receiver[axis] ELSE receiver[axis] - Plane(step),
          den |-> Abs(delta),
          wall |-> AxisWall(axis, order, step)] : step \in 0..(Abs(order) - 1)}

crossingEvents(image, receiver) ==
    UNION {appendAxisCrossings(image, receiver, a) : a \in Axes}

foldCoordinate(value, dimension) ==
    LET folded == value % (2 * dimension)
    IN  IF folded <= dimension THEN folded ELSE 2 * dimension - folded

\* The folded point lies on its wall, off the edges; everything scaled by den.
pointOnWallInterior(image, receiver, c) ==
    LET At(a) == foldCoordinate(receiver[a] * c.den + (image.pos[a] - receiver[a]) * c.num,
                                image.dims[a] * c.den)
        axis == AxisOf(c.wall)
        across == Other(axis)
    IN  /\ At(axis) = IF c.wall = NegWall(axis) THEN 0 ELSE image.dims[axis] * c.den
        /\ 0 < At(across) /\ At(across) < image.dims[across] * c.den

Earlier(c, d) == c.num * d.den < d.num * c.den

InOrder(crossings) ==
    [k \in 1..Cardinality(crossings) |->
        (CHOOSE c \in crossings : Cardinality({d \in crossings : Earlier(d, c)}) = k - 1).wall]

PathThrough(image, receiver, crossings) ==
    IF /\ image.pos # receiver
       /\ \A a \in Axes : image.orders[a] # 0 => image.pos[a] # receiver[a]
       /\ Cardinality(crossings) = image.order
       /\ \A c, d \in crossings : c # d => Earlier(c, d) \/ Earlier(d, c)
       /\ \A c \in crossings : /\ 0 < c.num /\ c.num < c.den
                               /\ pointOnWallInterior(image, receiver, c)
    THEN <<Reversed(InOrder(crossings))>> ELSE <<>>

\* <<>>, or the walls in source order.
reflectionPath(image, receiver) == PathThrough(image, receiver, crossingEvents(image, receiver))

(***************************************************************************)
(* Events.  A cardioid source points along the first axis and is silent     *)
(* straight behind it; a fully absorbing surface is silent only head on.    *)
(***************************************************************************)
Behind(source, towards) == source.model = "cardioid" /\ towards[1] < 0 /\ towards[2] = 0

HeadOn(from, axis) == from[Other(axis)] = 0

BandSilent(from, gain, b) ==
    \E k \in DOMAIN gain : /\ AbsorptionAt([absorption |-> gain[k].absorption], b) = 100
                           /\ HeadOn(from, gain[k].axis)

GainSilent(s, from, gain) == \A b \in 1..BandCount(s) : BandSilent(from, gain, b)

Event(kind, index, source, from, gain) ==
    [kind |-> kind, source |-> index, voice |-> source.voice, from |-> from, gain |-> gain]

directEvent(index, source, receiver) ==
    IF source.pos = receiver.pos \/ Behind(source, Minus(receiver.pos, source.pos)) THEN {}
    ELSE {Event("direct", index, source, Minus(source.pos, receiver.pos), <<>>)}

\* The source sends towards the first reflection point: straight behind it
\* exactly when the whole path runs along the first axis and starts at its
\* lower wall.
SentBehind(source, from, gain) ==
    source.model = "cardioid" /\ from[2] = 0 /\ gain # <<>> /\ gain[1].side = -1

Reflected(s, index, source, from, gain) ==
    IF SentBehind(source, from, gain) \/ GainSilent(s, from, gain) THEN {}
    ELSE {Event("specular", index, source, from, gain)}

specularEvent(s, index, source, receiver, image, path, room) ==
    Reflected(s, index, source, Minus(image.pos, receiver.pos),
              [k \in DOMAIN path |->
                  [absorption |-> s.materials[room.walls[path[k]]].absorption,
                   axis |-> AxisOf(path[k]),
                   side |-> IF path[k] = NegWall(AxisOf(path[k])) THEN -1 ELSE 1]])

(***************************************************************************)
(* Mesh images.                                                            *)
(***************************************************************************)
PlaneOf(face) == [axis |-> face.axis, at |-> face.at, sign |-> face.sign]

\* Distinct planes; coplanar faces with opposite normals are two planes.
BuildPlanePolygonMap(faces) == {PlaneOf(faces[i]) : i \in DOMAIN faces}

NormalSide(plane, p) == plane.sign * (p[plane.axis] - plane.at) > 0

ReflectPoint(plane, p) == [p EXCEPT ![plane.axis] = 2 * plane.at - p[plane.axis]]

\* Images of each order, mirrored from those of the order below; one that is
\* too far away is neither kept nor mirrored again.
GenerateMeshImageSources(source, planes, maxOrder, maxDistance) ==
    LET Mirrored(c, plane) == [pos |-> ReflectPoint(plane, c.pos),
                               order |-> c.order + 1, hits |-> Append(c.hits, plane)]
        InReach(p) == maxDistance > 0 => DistanceSq(p, source) <= maxDistance * maxDistance
        Level[k \in 0..maxOrder] ==
            IF k = 0 THEN {[pos |-> source, order |-> 0, hits |-> <<>>]}
            ELSE {Mirrored(cp[1], cp[2]) :
                     cp \in {x \in Level[k - 1] \X planes :
                                /\ NormalSide(x[2], x[1].pos)
                                /\ InReach(ReflectPoint(x[2], x[1].pos))}}
    IN  UNION {Level[k] : k \in 0..maxOrder}

\* Where the ray from num/den towards the integer point target meets a face:
\* at the fraction n/d (d > 0) of the way to the target, or nowhere.
FaceHit(face, num, den, target) ==
    LET D(a) == target[a] * den - num[a]
        raw == face.at * den - num[face.axis]
        d == Abs(D(face.axis))
        n == IF D(face.axis) > 0 THEN raw ELSE -raw
        along == num[Other(face.axis)] * d + n * D(Other(face.axis))
    IN  IF d = 0 THEN {}
        ELSE IF n <= 0 \/ along < face.lo * den * d \/ along > face.hi * den * d THEN {}
        ELSE {[n |-> n, d |-> d,
               at |-> [a \in Axes |-> IF a = face.axis THEN face.at * den * d ELSE along]]}

\* The nearest face hit; which of two at the same distance is the tree's choice.
Nearest(hits) ==
    IF hits = {} THEN <<>>
    ELSE <<CHOOSE x \in hits : \A y \in hits : x.hit.n * y.hit.d <= y.hit.n * x.hit.d>>

Intersect(faces, num, den, target) ==
    Nearest(UNION {{[face |-> i, hit |-> h] : h \in FaceHit(faces[i], num, den, target)} :
                       i \in DOMAIN faces})

\* One leg of the way back to the source: it must first hit the plane the image
\* was mirrored across.
NextLeg(leg, expected, found, faces) ==
    IF \/ \A a \in Axes : leg.num[a] = leg.target[a] * leg.den
       \/ found = <<>>
    THEN [leg EXCEPT !.ok = FALSE]
    ELSE IF PlaneOf(faces[found[1].face]) # expected THEN [leg EXCEPT !.ok = FALSE]
    ELSE [ok |-> TRUE, num |-> found[1].hit.at, den |-> leg.den * found[1].hit.d,
          target |-> ReflectPoint(expected, leg.target),
          faces |-> Append(leg.faces, found[1].face)]

\* <<>>, or the faces in source order.
PathOf(leg) == IF leg.ok THEN <<Reversed(leg.faces)>> ELSE <<>>

meshReflectionPath(image, receiver, faces) ==
    LET Following(leg, expected) ==
            IF ~leg.ok THEN leg
            ELSE NextLeg(leg, expected, Intersect(faces, leg.num, leg.den, leg.target), faces)
        Leg[k \in 0..image.order] ==
            IF k = 0 THEN [ok |-> image.order > 0, num |-> receiver, den |-> 1,
                           target |-> image.pos, faces |-> <<>>]
            ELSE Following(Leg[k - 1], image.hits[image.order + 1 - k])
    IN  PathOf(Leg[image.order])

meshSpecularEvent(s, index, source, receiver, image) ==
    LET Heard(path, faces) ==
            IF path = <<>> THEN {}
            ELSE Reflected(s, index, source, Minus(image.pos, receiver.pos),
                     [k \in DOMAIN path[1] |->
                         [absorption |-> MaterialForTriangle(s.room, path[1][k], s.materials).absorption,
                          axis |-> faces[path[1][k]].axis,
                          side |-> -faces[path[1][k]].sign]])
        faces == s.room.mesh[1].faces
    IN  IF image.pos = receiver.pos THEN {}
        ELSE Heard(meshReflectionPath(image, receiver.pos, faces), faces)

(***************************************************************************)
(* The solvers.  A list stands for the images generated from it.           *)
(***************************************************************************)
DefaultSpeed == 100

Speed(cfg) == IF cfg.speed <= 0 THEN DefaultSpeed ELSE cfg.speed

meshMaxDistance(cfg) == 2 * Speed(cfg)

ShoeboxList(pos, s, cfg) ==
    [pos |-> pos, dims |-> s.room.shoebox[1].dims, planes |-> {}, order |-> cfg.maxOrder,
     maxDistance |-> 0]

MeshList(pos, cfg, planes) ==
    [pos |-> pos, dims |-> Zero, planes |-> planes, order |-> cfg.maxOrder,
     maxDistance |-> meshMaxDistance(cfg)]

\* What a call returns: the lists it evaluates and the planes their paths are
\* checked against, always with the scene and the configuration of the call.
Answer(lists, planes) == [ok |-> TRUE, lists |-> lists, planes |-> planes]

Refused == [ok |-> FALSE, lists |-> <<>>, planes |-> {}]

Accepted(s, cfg) ==
    /\ cfg.maxOrder >= 0
    /\ Validate(s)
    /\ s.sources # <<>>
    /\ Len(s.receivers) = 1
    /\ s.room.kind \in {"shoebox", "mesh"}

\* ISMSolver.Solve and solveMesh: everything generated anew.
Fresh(s, cfg) ==
    IF ~Accepted(s, cfg) THEN Refused
    ELSE IF s.room.kind = "shoebox"
    THEN Answer([i \in DOMAIN s.sources |-> ShoeboxList(s.sources[i].pos, s, cfg)], {})
    ELSE LET planes == BuildPlanePolygonMap(s.room.mesh[1].faces)
         IN  Answer([i \in DOMAIN s.sources |-> MeshList(s.sources[i].pos, cfg, planes)],
                    planes)

evaluateShoeboxMultiSource(lists, s) ==
    LET receiver == s.receivers[1]
        room == s.room.shoebox[1]
        Specular(i, image) ==
            LET path == reflectionPath(image, receiver.pos)
            IN  IF image.order = 0 \/ path = <<>> THEN {}
                ELSE specularEvent(s, i, s.sources[i], receiver, image, path[1], room)
        Images(i) == GenerateImageSources(lists[i].pos, lists[i].dims, lists[i].order)
    IN  UNION {directEvent(i, s.sources[i], receiver)
               \cup UNION {Specular(i, image) : image \in Images(i)} : i \in DOMAIN s.sources}

evaluateMeshMultiSource(lists, s) ==
    LET receiver == s.receivers[1]
        Images(i) == GenerateMeshImageSources(lists[i].pos, lists[i].planes, lists[i].order,
                                              lists[i].maxDistance)
    IN  UNION {directEvent(i, s.sources[i], receiver)
               \cup UNION {meshSpecularEvent(s, i, s.sources[i], receiver, image) :
                               image \in {x \in Images(i) : x.order > 0}} :
                  i \in DOMAIN s.sources}

EventsOf(answer, s) ==
    IF s.room.kind = "shoebox" THEN evaluateShoeboxMultiSource(answer.lists, s)
    ELSE evaluateMeshMultiSource(answer.lists, s)
=============================================================================
