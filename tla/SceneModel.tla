---------------------------- MODULE SceneModel ----------------------------
(***************************************************************************)
(* The scene of src/scene: rooms, portals, materials, sources, receivers   *)
(* and bands, what Validate accepts, what RoomHash and GeometryHash tell    *)
(* apart, and what a save and a load make of a scene.                      *)
(*                                                                         *)
(* Space has two axes (the code treats its three alike) and integer        *)
(* coordinates, so the code's tolerances (1e-7, 1e-9) are zero here.        *)
(* NonFinite stands for NaN and the infinities.  Coefficients are in        *)
(* percent.  An optional value is <<>> or <<value>>.  A mesh is a sequence  *)
(* of axis-parallel faces (pairs of coplanar triangles) and an identity,    *)
(* the pointer.  The hashes are the values they are computed from: two      *)
(* scenes that differ in them are taken to hash differently.               *)
(***************************************************************************)
EXTENDS Integers, Sequences, FiniteSets

Axes == 1..2

Zero == <<0, 0>>

NonFinite == 10000

isFinite(v) == v # NonFinite

isFiniteVec(p) == \A a \in Axes : isFinite(p[a])

Plus(p, q) == <<p[1] + q[1], p[2] + q[2]>>

Minus(p, q) == <<p[1] - q[1], p[2] - q[2]>>

AllOf(seq, P(_)) == \A i \in DOMAIN seq : P(seq[i])

(***************************************************************************)
(* Rooms.                                                                  *)
(***************************************************************************)
NoRoom == [kind |-> "", shoebox |-> <<>>, mesh |-> <<>>, meshPath |-> "",
           meshMaterial |-> "", triangleMaterials |-> <<>>]

roomIsSet(room) ==
    \/ room.kind # ""
    \/ room.shoebox # <<>>
    \/ room.mesh # <<>>
    \/ room.meshPath # ""
    \/ room.meshMaterial # ""

RoomCount(s) == IF s.rooms # <<>> THEN Len(s.rooms)
                ELSE IF roomIsSet(s.room) THEN 1 ELSE 0

RoomAt(s, i) == IF s.rooms # <<>> THEN s.rooms[i] ELSE s.room

RoomIndices(s) == 1..RoomCount(s)

NewBox(p, q) ==
    [min |-> [a \in Axes |-> IF p[a] < q[a] THEN p[a] ELSE q[a]],
     max |-> [a \in Axes |-> IF p[a] < q[a] THEN q[a] ELSE p[a]]]

Contains(box, p) == \A a \in Axes : box.min[a] <= p[a] /\ p[a] <= box.max[a]

Other(axis) == 3 - axis

\* The corners of a face: its plane is axis = at, it spans lo..hi on the other axis.
Corner(face, along) == [a \in Axes |-> IF a = face.axis THEN face.at ELSE along]

BoundingBox(mesh) ==
    LET corners == {Corner(mesh.faces[i], mesh.faces[i].lo) : i \in DOMAIN mesh.faces}
                   \cup {Corner(mesh.faces[i], mesh.faces[i].hi) : i \in DOMAIN mesh.faces}
        Least(a) == CHOOSE v \in {c[a] : c \in corners} : \A c \in corners : v <= c[a]
        Greatest(a) == CHOOSE v \in {c[a] : c \in corners} : \A c \in corners : c[a] <= v
    IN  [min |-> [a \in Axes |-> Least(a)], max |-> [a \in Axes |-> Greatest(a)]]

HasVolume(box) == \A a \in Axes : box.min[a] < box.max[a]

IsValid(room) ==
    \/ room.kind = "shoebox" /\ room.shoebox # <<>>
    \/ room.kind = "mesh" /\ room.mesh # <<>>

ShoeboxBounds(box) == NewBox(box.origin, Plus(box.origin, box.dims))

Bounds(room) ==
    IF ~IsValid(room) THEN <<>>
    ELSE IF room.kind = "shoebox" THEN <<ShoeboxBounds(room.shoebox[1])>>
    ELSE IF room.mesh[1].faces = <<>> \/ ~HasVolume(BoundingBox(room.mesh[1])) THEN <<>>
    ELSE <<BoundingBox(room.mesh[1])>>

\* Volume of a mesh is derived only when its surface is closed.
HasVolumeValue(room) ==
    /\ IsValid(room)
    /\ room.kind = "shoebox" => \A a \in Axes : /\ isFinite(room.shoebox[1].dims[a])
                                                /\ room.shoebox[1].dims[a] > 0
    /\ room.kind = "mesh" => room.mesh[1].closed

\* 0 when no room or more than one holds the position.
RoomIndexAt(s, p) ==
    LET matches == {i \in RoomIndices(s) : /\ Bounds(RoomAt(s, i)) # <<>>
                                           /\ Contains(Bounds(RoomAt(s, i))[1], p)}
    IN  IF Cardinality(matches) = 1 THEN CHOOSE i \in matches : TRUE ELSE 0

TriangleMaterialName(room, i) ==
    IF room.triangleMaterials = <<>> THEN room.meshMaterial
    ELSE IF i \notin DOMAIN room.triangleMaterials[1] THEN room.meshMaterial
    ELSE IF room.triangleMaterials[1][i] # "" THEN room.triangleMaterials[1][i]
    ELSE room.meshMaterial

MaterialFullyReflective == [absorption |-> <<0>>, fixed |-> <<0, 0>>, scattering |-> <<0>>,
                            transmission |-> <<>>, reduction |-> <<>>]

MaterialForTriangle(room, i, materials) ==
    IF TriangleMaterialName(room, i) \in DOMAIN materials
    THEN materials[TriangleMaterialName(room, i)]
    ELSE MaterialFullyReflective

(***************************************************************************)
(* Materials.                                                              *)
(***************************************************************************)
coefficientAt(values, band) ==
    IF Len(values) = 1 THEN <<values[1]>>
    ELSE IF band > Len(values) THEN <<>> ELSE <<values[band]>>

AbsorptionAt(m, band) ==
    IF coefficientAt(m.absorption, band) = <<>> THEN 0 ELSE coefficientAt(m.absorption, band)[1]

TransmissionFromSoundReductionIndex(dB) == 100 \div (10 ^ (dB \div 10))

TransmissionAt(m, band) ==
    IF coefficientAt(m.transmission, band) # <<>> THEN coefficientAt(m.transmission, band)[1]
    ELSE IF coefficientAt(m.reduction, band) # <<>>
         THEN TransmissionFromSoundReductionIndex(coefficientAt(m.reduction, band)[1])
    ELSE 0

\* A shorter list is filled with its last coefficient, a longer one cut.
ScatteringCoefficients(m, bandCount) ==
    LET values == IF m.scattering # <<>> THEN m.scattering ELSE m.fixed
    IN  [b \in 1..bandCount |-> values[IF b <= Len(values) THEN b ELSE Len(values)]]

PortalTransmissionAt(portal, materials, band) ==
    IF portal.state = "open" THEN 100
    ELSE IF portal.material \notin DOMAIN materials THEN 0
    ELSE TransmissionAt(materials[portal.material], band)

(***************************************************************************)
(* Validate.                                                               *)
(***************************************************************************)
BandCount(s) == Len(s.bands.centers)

validBand(i, s) ==
    LET c == s.bands.centers
        l == s.bands.lowers
        u == s.bands.uppers
    IN  /\ isFinite(c[i]) /\ isFinite(l[i]) /\ isFinite(u[i])
        /\ 0 < l[i] /\ l[i] < c[i] /\ c[i] < u[i]
        /\ i > 1 => c[i - 1] < c[i] /\ l[i - 1] < l[i] /\ u[i - 1] < u[i]
        /\ s.sampleRate > 0 => 2 * u[i] <= s.sampleRate

validBandSpec(s) ==
    /\ s.bands.centers # <<>>
    /\ Len(s.bands.lowers) = BandCount(s)
    /\ Len(s.bands.uppers) = BandCount(s)
    /\ \A i \in 1..BandCount(s) : validBand(i, s)

validShoeboxRoom(room) ==
    /\ IsValid(room)
    /\ room.triangleMaterials \in {<<>>, <<<<>>>>}
    /\ isFiniteVec(room.shoebox[1].origin)
    /\ \A a \in Axes : isFinite(room.shoebox[1].dims[a]) /\ room.shoebox[1].dims[a] > 0
    /\ AllOf(room.shoebox[1].walls, LAMBDA name : name # "")

MeshFacesSound(mesh) ==
    /\ mesh.faces # <<>>
    /\ AllOf(mesh.faces, LAMBDA f : isFinite(f.at) /\ isFinite(f.lo) /\ isFinite(f.hi) /\ f.lo < f.hi)

validMeshRoom(room) ==
    /\ IsValid(room)
    /\ room.triangleMaterials # <<>> =>
           Len(room.triangleMaterials[1]) = Len(room.mesh[1].faces)
    /\ MeshFacesSound(room.mesh[1])
    /\ HasVolume(BoundingBox(room.mesh[1]))

validRoom(room) ==
    \/ room.kind = "shoebox" /\ validShoeboxRoom(room)
    \/ room.kind = "mesh" /\ validMeshRoom(room)

validSceneRooms(s) ==
    /\ ~(roomIsSet(s.room) /\ s.rooms # <<>>)
    /\ Len(s.rooms) # 1
    /\ s.portals # <<>> => s.rooms # <<>>
    /\ RoomCount(s) > 0
    /\ \A i \in RoomIndices(s) : validRoom(RoomAt(s, i))

Defined(s, name) == name = "" \/ name \in DOMAIN s.materials

validTriangleMaterialReferences(s, room) ==
    room.triangleMaterials # <<>> =>
        AllOf(room.triangleMaterials[1], LAMBDA name : Defined(s, name))

validMaterialReferences(s) ==
    \A i \in RoomIndices(s) :
        LET room == RoomAt(s, i)
        IN  /\ (room.kind = "shoebox" /\ room.shoebox # <<>>) =>
                   AllOf(room.shoebox[1].walls, LAMBDA name : Defined(s, name))
            /\ room.kind = "mesh" => /\ Defined(s, room.meshMaterial)
                                     /\ validTriangleMaterialReferences(s, room)

validUnitCoefficients(values) ==
    AllOf(values, LAMBDA v : isFinite(v) /\ 0 <= v /\ v <= 100)

validMaterialBandCount(values, bandCount) == Len(values) \in {0, 1, bandCount}

validMaterialScattering(m) ==
    validUnitCoefficients(IF m.scattering # <<>> THEN m.scattering ELSE m.fixed)

validMaterialTransmission(m, bandCount) ==
    /\ validMaterialBandCount(m.transmission, bandCount)
    /\ validUnitCoefficients(m.transmission)
    /\ validMaterialBandCount(m.reduction, bandCount)
    /\ AllOf(m.reduction, LAMBDA v : isFinite(v) /\ v >= 0)
    /\ \A b \in 1..bandCount :
           (m.transmission # <<>> /\ m.reduction # <<>>) =>
               coefficientAt(m.transmission, b)[1]
                   = TransmissionFromSoundReductionIndex(coefficientAt(m.reduction, b)[1])

validMaterialEnergy(m, bandCount) ==
    \A b \in 1..bandCount : AbsorptionAt(m, b) + TransmissionAt(m, b) <= 100

validMaterial(m, bandCount) ==
    /\ Len(m.absorption) \in {1, bandCount}
    /\ validUnitCoefficients(m.absorption)
    /\ validMaterialScattering(m)
    /\ validMaterialTransmission(m, bandCount)
    /\ validMaterialEnergy(m, bandCount)

validMaterials(s) ==
    \A name \in DOMAIN s.materials : validMaterial(s.materials[name], BandCount(s))

\* A portal lies in the plane axis = at; its winding points to the side sign.
Center(portal) == Corner(portal.polygon, (portal.polygon.lo + portal.polygon.hi) \div 2)

Normal(portal) == [a \in Axes |-> IF a = portal.polygon.axis THEN portal.polygon.sign ELSE 0]

validPortalReferences(s, portal) ==
    /\ \A k \in 1..2 : portal.rooms[k] \in RoomIndices(s)
    /\ portal.rooms[1] # portal.rooms[2]
    /\ portal.state \in {"open", "closed"}
    /\ portal.material \in DOMAIN s.materials

validPortalPolygon(portal) ==
    /\ portal.polygon.vertices >= 3
    /\ isFinite(portal.polygon.at) /\ isFinite(portal.polygon.lo) /\ isFinite(portal.polygon.hi)
    /\ portal.polygon.lo < portal.polygon.hi
    /\ portal.polygon.planar

portalOnShoeboxBoundary(polygon, box) ==
    /\ polygon.at \in {box.min[polygon.axis], box.max[polygon.axis]}
    /\ box.min[Other(polygon.axis)] <= polygon.lo
    /\ polygon.hi <= box.max[Other(polygon.axis)]

portalOnRoomBoundary(portal, room) ==
    \/ /\ room.kind = "shoebox" /\ room.shoebox # <<>>
       /\ portalOnShoeboxBoundary(portal.polygon, ShoeboxBounds(room.shoebox[1]))
    \/ /\ room.kind = "mesh" /\ room.mesh # <<>>
       /\ \E i \in DOMAIN room.mesh[1].faces :
              /\ room.mesh[1].faces[i].axis = portal.polygon.axis
              /\ room.mesh[1].faces[i].at = portal.polygon.at

\* Twice the signed distance of a box's centre from the portal's plane.
SideOf(portal, box) ==
    portal.polygon.sign *
        (box.min[portal.polygon.axis] + box.max[portal.polygon.axis] - 2 * portal.polygon.at)

validPortalWinding(portal, roomA, roomB) ==
    (Bounds(roomA) # <<>> /\ Bounds(roomB) # <<>>) =>
        SideOf(portal, Bounds(roomA)[1]) < 0 /\ SideOf(portal, Bounds(roomB)[1]) > 0

validPortal(s, portal) ==
    /\ validPortalReferences(s, portal)
    /\ validPortalPolygon(portal)
    /\ \A k \in 1..2 : portalOnRoomBoundary(portal, RoomAt(s, portal.rooms[k]))
    /\ validPortalWinding(portal, RoomAt(s, portal.rooms[1]), RoomAt(s, portal.rooms[2]))

validPositions(s) ==
    /\ AllOf(s.sources, LAMBDA x : isFiniteVec(x.pos) /\ RoomIndexAt(s, x.pos) # 0)
    /\ AllOf(s.receivers, LAMBDA x : isFiniteVec(x.pos) /\ RoomIndexAt(s, x.pos) # 0)

validReceivers(s) ==
    AllOf(s.receivers, LAMBDA r :
        \/ r.type \in {"", "omni"}
        \/ r.type = "binaural" /\ r.hrtf # <<>> /\ r.hrtf[1].rate = s.sampleRate)

Validate(s) ==
    /\ s.sampleRate > 0
    /\ validBandSpec(s)
    /\ validSceneRooms(s)
    /\ validMaterialReferences(s)
    /\ validMaterials(s)
    /\ AllOf(s.portals, LAMBDA p : validPortal(s, p))
    /\ validPositions(s)
    /\ validReceivers(s)

(***************************************************************************)
(* Hashes: room shape, portals and portal states, never the materials.     *)
(***************************************************************************)
writeRoom(room) ==
    [kind |-> room.kind,
     box |-> IF room.shoebox = <<>> THEN <<>>
             ELSE <<room.shoebox[1].origin, room.shoebox[1].dims>>,
     faces |-> IF room.mesh = <<>> THEN <<>> ELSE room.mesh[1].faces]

RoomHash(s) ==
    [rooms |-> [i \in RoomIndices(s) |-> writeRoom(RoomAt(s, i))],
     portals |-> [i \in DOMAIN s.portals |->
                     <<s.portals[i].rooms, s.portals[i].polygon, s.portals[i].state>>]]

GeometryHash(s) ==
    [room |-> RoomHash(s),
     sources |-> [i \in DOMAIN s.sources |-> s.sources[i].pos],
     receivers |-> [i \in DOMAIN s.receivers |-> s.receivers[i].pos]]

(***************************************************************************)
(* Saving (MarshalJSON) and loading (UnmarshalJSON, loadScene).            *)
(***************************************************************************)
HasNonZero(values) == \E i \in DOMAIN values : values[i] # 0

marshalMaterial(m) ==
    [m EXCEPT !.fixed = IF HasNonZero(m.fixed) THEN m.fixed ELSE <<>>,
              !.scattering = IF HasNonZero(m.scattering) THEN m.scattering ELSE <<>>]

\* copy into the array of fixed length: cut or filled with zeros
CopyFixed(values) == [b \in 1..2 |-> IF b <= Len(values) THEN values[b] ELSE 0]

unmarshalMaterial(m) ==
    [m EXCEPT !.fixed = IF m.scattering # <<>>
                        THEN [b \in 1..2 |-> IF b <= Len(m.scattering) THEN m.scattering[b]
                                             ELSE CopyFixed(m.fixed)[b]]
                        ELSE CopyFixed(m.fixed),
              !.scattering = IF m.scattering # <<>> THEN m.scattering ELSE m.fixed]

MutantMarshalShoebox(box) ==      \* the origin is not saved
    [dims |-> box.dims, walls |-> box.walls, origin |-> <<>>]

marshalShoebox(box) ==
    [dims |-> box.dims, walls |-> box.walls,
     origin |-> IF box.origin = Zero THEN <<>> ELSE <<box.origin>>]

unmarshalShoebox(json) ==
    [dims |-> json.dims, walls |-> json.walls,
     origin |-> IF json.origin = <<>> THEN Zero ELSE json.origin[1]]

marshalRoom(room) ==
    [room EXCEPT !.shoebox = IF @ = <<>> THEN <<>> ELSE <<marshalShoebox(@[1])>>,
                 !.triangleMaterials = IF @ = <<<<>>>> THEN <<>> ELSE @]

\* The decoder allocates a new mesh: its identity is fresh.
unmarshalRoom(json, freshMesh) ==
    [json EXCEPT !.shoebox = IF @ = <<>> THEN <<>> ELSE <<unmarshalShoebox(@[1])>>,
                 !.mesh = IF @ = <<>> THEN <<>> ELSE <<[@[1] EXCEPT !.id = freshMesh]>>]

SourceEncodes(src) == src.model \in {"none", "omni", "cardioid"}

ReceiverEncodes(rcv) == rcv.hrtf # <<>> => rcv.hrtf[1].kind \in {"noop", "nearest"}

\* encoding/json refuses NaN and the infinities.
Encodes(s) ==
    /\ AllOf(s.sources, LAMBDA x : SourceEncodes(x) /\ isFiniteVec(x.pos))
    /\ AllOf(s.receivers, LAMBDA x : ReceiverEncodes(x) /\ isFiniteVec(x.pos))

MarshalJSON(s) ==
    [s EXCEPT !.room = IF s.rooms = <<>> THEN marshalRoom(@) ELSE NoRoom,
              !.rooms = [i \in DOMAIN s.rooms |-> marshalRoom(s.rooms[i])],
              !.materials = [name \in DOMAIN s.materials |-> marshalMaterial(s.materials[name])]]

UnmarshalJSON(json, freshMesh) ==
    [json EXCEPT !.room = unmarshalRoom(@, freshMesh),
                 !.rooms = [i \in DOMAIN json.rooms |-> unmarshalRoom(json.rooms[i], freshMesh)],
                 !.materials = [name \in DOMAIN json.materials |->
                                   unmarshalMaterial(json.materials[name])]]

\* A mesh room that names a file and carries no mesh gets the file's mesh.
resolveMesh(room, file) ==
    IF room.kind = "mesh" /\ room.mesh = <<>> /\ room.meshPath # ""
    THEN [room EXCEPT !.mesh = <<file>>] ELSE room

resolveRoomMesh(s, file) ==
    IF s.rooms # <<>>
    THEN [s EXCEPT !.rooms = [i \in DOMAIN s.rooms |-> resolveMesh(s.rooms[i], file)]]
    ELSE [s EXCEPT !.room = resolveMesh(@, file)]

loadScene(json, freshMesh, file) == resolveRoomMesh(UnmarshalJSON(json, freshMesh), file)
=============================================================================
