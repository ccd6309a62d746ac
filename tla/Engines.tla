------------------------------- MODULE Engines -------------------------------
(***************************************************************************)
(* The engines a render is put together from: the one-hop renderer and the  *)
(* filter network for scenes of several rooms (src/crossroom), the choice   *)
(* between them, the low-frequency scene, and the facade that combines      *)
(* early, late, low-frequency and cross-room engines (src/renderer.go,      *)
(* src/internal/pipeline).                                                 *)
(*                                                                         *)
(* A transmitted event is the events of its legs, one per room crossed, and *)
(* the portals between them.  The 1e-5 m by which a secondary source is     *)
(* moved off its portal is one unit.  The network is modelled while no      *)
(* portal is open, every room group a room; MergedRooms has the merged      *)
(* ones, PathSearch the limits of the search and NetworkPlan the ranking.   *)
(* The floor of -80 dB and the cap of 4096 events per path are out of       *)
(* reach.  A render is the fields it is made of, each with the receiver it  *)
(* was computed for.                                                       *)
(***************************************************************************)
EXTENDS ImageSources

PortalOffset == 1

Toward(p, direction, distance) == [a \in Axes |-> p[a] + direction[a] * distance]

Flipped(direction) == [a \in Axes |-> -direction[a]]

Omni(pos) == [pos |-> pos, type |-> "omni", hrtf |-> <<>>]

Secondary(pos) == [pos |-> pos, voice |-> "secondary", model |-> "none"]

Joins(portal, a, b) == portal.rooms \in {<<a, b>>, <<b, a>>}

IsShoebox(room) == room.kind = "shoebox" /\ room.shoebox # <<>>

(***************************************************************************)
(* The choice of the engine.                                               *)
(***************************************************************************)
DifferentRooms(from, to) == IF from = 0 \/ to = 0 \/ from = to THEN <<>> ELSE <<from, to>>

\* <<>>, or the source's and the receiver's room.
transmissionRoomPair(s) ==
    IF Len(s.sources) # 1 \/ Len(s.receivers) # 1 THEN <<>>
    ELSE DifferentRooms(RoomIndexAt(s, s.sources[1].pos), RoomIndexAt(s, s.receivers[1].pos))

ShoeboxPair(s, pair) ==
    pair # <<>> /\ IsShoebox(RoomAt(s, pair[1])) /\ IsShoebox(RoomAt(s, pair[2]))

Linked(s, pair) == {i \in DOMAIN s.portals : Joins(s.portals[i], pair[1], pair[2])}

\* oneHopRoomPair and the portals it needs.
matchesOneHop(s) ==
    LET Matches(pair) == ShoeboxPair(s, pair) /\ Linked(s, pair) # {}
    IN  /\ RoomCount(s) = 2
        /\ AllOf(s.portals, LAMBDA p : p.state # "open")
        /\ Matches(transmissionRoomPair(s))

NewEngine(s) == IF matchesOneHop(s) THEN "onehop" ELSE "network"

(***************************************************************************)
(* Scenes derived from a scene.                                            *)
(***************************************************************************)
singleRoomScene(s, i) == [s EXCEPT !.room = RoomAt(s, i), !.rooms = <<>>, !.portals = <<>>]

Translated(things, offset) ==
    [i \in DOMAIN things |-> [things[i] EXCEPT !.pos = Plus(@, offset)]]

Origin(room) == IF room.shoebox = <<>> THEN Zero ELSE room.shoebox[1].origin

AtOrigin(room) ==
    [room EXCEPT !.shoebox = IF @ = <<>> THEN <<>> ELSE <<[@[1] EXCEPT !.origin = Zero]>>]

localizedISMScene(s, i) == [singleRoomScene(s, i) EXCEPT !.room = AtOrigin(@)]

networkLocalizedScene(s) ==
    [s EXCEPT !.room = AtOrigin(@),
              !.sources = Translated(@, Flipped(Origin(s.room))),
              !.receivers = Translated(@, Flipped(Origin(s.room)))]

(***************************************************************************)
(* Transmitted events.                                                     *)
(***************************************************************************)
Tau(s, i, b) == PortalTransmissionAt(s.portals[i], s.materials, b)

\* Some band passes every leg and every portal.
Audible(s, legs, portals) ==
    \E b \in 1..BandCount(s) :
        /\ \A k \in DOMAIN legs : ~BandSilent(legs[k].from, legs[k].gain, b)
        /\ \A k \in DOMAIN portals : Tau(s, portals[k], b) > 0

\* An event counts every leg and portal in time, phase and pressure.  Its own
\* DistanceMeters and Amplitude count the legs in own; what the other legs left
\* of the pressure is in BandGain, what they added to the way nowhere.
Transmitted(legs, portals, own) ==
    [legs |-> legs, portals |-> portals, distance |-> own, amplitude |-> own]

\* The result of an engine's early part: "no", or who refused: the checks of
\* the engine itself, or a solver it called on a scene it had derived.
Early(refused, events) == [refused |-> refused, events |-> events]

(***************************************************************************)
(* The one-hop renderer.                                                   *)
(***************************************************************************)
MutantDirection(portal, from) == Normal(portal)       \* as the polygon is wound

\* From the source's room to the receiver's, however the polygon is wound.
Direction(portal, from) ==
    IF portal.rooms[1] = from THEN Normal(portal) ELSE Flipped(Normal(portal))

TransmissionContext(s, pair) ==
    IF ~ShoeboxPair(s, pair) THEN <<>>
    ELSE IF Linked(s, pair) = {} THEN <<>>
    ELSE <<[from |-> pair[1], to |-> pair[2], portals |-> Linked(s, pair)]>>

\* <<>>, or the rooms and the portals between them.
prepareTransmission(s) ==
    IF ~Validate(s) \/ RoomCount(s) < 2 THEN <<>>
    ELSE TransmissionContext(s, transmissionRoomPair(s))

Before(s, i, from) ==
    Toward(Center(s.portals[i]), Direction(s.portals[i], from), -PortalOffset)

Beyond(s, i, from) ==
    Toward(Center(s.portals[i]), Direction(s.portals[i], from), PortalOffset)

\* The source's room with a probe in front of the portal.
PortalScene(s, i, from) ==
    LET offset == Flipped(Origin(RoomAt(s, from)))
    IN  [localizedISMScene(s, from) EXCEPT
            !.sources = Translated(s.sources, offset),
            !.receivers = <<Omni(Plus(Before(s, i, from), offset))>>]

\* The receiver's room, with the portal for its source.
SecondaryScene(s, i, from, to) ==
    LET offset == Flipped(Origin(RoomAt(s, to)))
    IN  [localizedISMScene(s, to) EXCEPT
            !.sources = <<Secondary(Plus(Beyond(s, i, from), offset))>>,
            !.receivers = Translated(s.receivers, offset)]

\* <<>>, or the events of a scene of one room.
Solved(s, cfg) == LET Of(answer) == IF answer.ok THEN <<EventsOf(answer, s)>> ELSE <<>>
                  IN  Of(Fresh(s, cfg))

\* What a solve on a derived scene for each of some indices leads to.
Through(solved, Then(_)) ==
    IF \E i \in DOMAIN solved : solved[i] = <<>> THEN Early("derived", {})
    ELSE Then([i \in DOMAIN solved |-> solved[i][1]])

\* SolveSecondary: one solve for each emission that is not silent.  Time, phase
\* and band pressure of the emission are joined to an event of the second room.
SolveSecondary(s, cfg, context, heard) ==
    LET Joined(ends) ==
            UNION {{Transmitted(<<e.event, x>>, <<e.portal>>, <<x>>) : x \in ends[e.portal]} : e \in heard}
        Then(ends) == Early("no", {t \in Joined(ends) : Audible(s, t.legs, t.portals)})
    IN  Through([i \in {e.portal : e \in heard} |->
                    Solved(SecondaryScene(s, i, context.from, context.to), cfg)], Then)

Emissions(s, arriving) ==
    {e \in UNION {{[event |-> x, portal |-> i] : x \in arriving[i]} : i \in DOMAIN arriving} :
        Audible(s, <<e.event>>, <<e.portal>>)}

OneHopSolveEarly(s, cfg) ==
    LET From(context) ==
            IF context = <<>> THEN Early("engine", {})
            ELSE Through([i \in context[1].portals |->
                             Solved(PortalScene(s, i, context[1].from), cfg)],
                         LAMBDA arriving : SolveSecondary(s, cfg, context[1], Emissions(s, arriving)))
    IN  From(prepareTransmission(s))

\* traceLate needs the same context; the tracers take one source, one receiver.
OneHopTraceLate(s) == prepareTransmission(s) # <<>>

OneHopRenderLateBinaural(s, receiver) ==
    LET In(context) == context # <<>> /\ HasVolumeValue(RoomAt(s, context[1].to))
    IN  receiver.hrtf # <<>> /\ In(prepareTransmission(s))

(***************************************************************************)
(* The filter network, while no portal is open.                            *)
(***************************************************************************)
Far(portal, room) == IF portal.rooms[1] = room THEN portal.rooms[2] ELSE portal.rooms[1]

\* The ways without a cycle from the source's room to the receiver's on which
\* some band passes, as [rooms, portals].
NetworkPaths(s) ==
    LET Steps(path) ==
            {i \in DOMAIN s.portals :
                LET last == path.rooms[Len(path.rooms)]
                    next == Far(s.portals[i], last)
                IN  /\ last \in {s.portals[i].rooms[1], s.portals[i].rooms[2]}
                    /\ \A k \in DOMAIN path.rooms : path.rooms[k] # next
                    /\ Audible(s, <<>>, Append(path.portals, i))}
        Extended(path, i) ==
            [rooms |-> Append(path.rooms, Far(s.portals[i], path.rooms[Len(path.rooms)])),
             portals |-> Append(path.portals, i)]
        Long[k \in 0..(RoomCount(s) - 1)] ==
            IF k = 0 THEN {[rooms |-> <<RoomIndexAt(s, s.sources[1].pos)>>, portals |-> <<>>]}
            ELSE UNION {{Extended(path, i) : i \in Steps(path)} : path \in Long[k - 1]}
        to == RoomIndexAt(s, s.receivers[1].pos)
    IN  {path \in UNION {Long[k] : k \in 0..(RoomCount(s) - 1)} :
            path.rooms[Len(path.rooms)] = to}

\* prepare: what it asks of a scene.
NetworkPrepared(s) ==
    /\ Len(s.sources) = 1 /\ Len(s.receivers) = 1
    /\ Validate(s)
    /\ NetworkPaths(s) # {}

\* portalPort: on the near side of the portal, or behind it when entering.
portalPort(s, path, k, entering) ==
    Toward(Center(s.portals[path.portals[k]]),
           Direction(s.portals[path.portals[k]], path.rooms[k]),
           IF entering THEN PortalOffset ELSE -PortalOffset)

\* GroupScene of one shoebox with the ports of a hop for source and receiver.
HopScene(s, path, k) ==
    [singleRoomScene(s, path.rooms[k]) EXCEPT
        !.sources = IF k = 1 THEN <<s.sources[1]>>
                    ELSE <<Secondary(portalPort(s, path, k - 1, TRUE))>>,
        !.receivers = IF k = Len(path.rooms) THEN <<s.receivers[1]>>
                      ELSE <<Omni(portalPort(s, path, k, FALSE))>>]

\* composePathEvents: all combinations of the hops' events, distance and
\* amplitude included, the silent ones cut at every handoff.
composePathEvents(s, path, factors) ==
    LET Running[k \in 1..Len(factors)] ==
            IF k = 1 THEN {<<e>> : e \in factors[1]}
            ELSE {legs \in {Append(x[1], x[2]) : x \in Running[k - 1] \X factors[k]} :
                     Audible(s, legs, SubSeq(path.portals, 1, k - 1))}
    IN  {Transmitted(legs, path.portals, legs) : legs \in Running[Len(factors)]}

SolvePath(s, path, cfg) ==
    Through([k \in DOMAIN path.rooms |-> Solved(networkLocalizedScene(HopScene(s, path, k)), cfg)],
            LAMBDA factors : Early("no", composePathEvents(s, path, factors)))

\* The first path that fails ends the solve.
AllPaths(solved) ==
    IF \E x \in solved : x.refused # "no" THEN Early("derived", {})
    ELSE Early("no", UNION {x.events : x \in solved})

NetworkSolveEarly(s, cfg) ==
    IF ~NetworkPrepared(s) THEN Early("engine", {})
    ELSE AllPaths({SolvePath(s, path, cfg) : path \in NetworkPaths(s)})

(***************************************************************************)
(* The low-frequency scene of several rooms.                               *)
(***************************************************************************)
AllShut(s) == AllOf(s.portals, LAMBDA p : p.state # "open")

\* soleShoeboxRoom: no open portal cuts into the receiver's room.
soleShoeboxRoom(s, room) ==
    /\ IsShoebox(RoomAt(s, room))
    /\ AllOf(s.portals, LAMBDA p : p.state = "open" => room \notin {p.rooms[1], p.rooms[2]})

PathEnergy(s, path) ==
    LET Passed(b) == LET Product[k \in 0..Len(path.portals)] ==
                             IF k = 0 THEN 1 ELSE Product[k - 1] * Tau(s, path.portals[k], b)
                     IN  Product[Len(path.portals)]
        \* to one number of portals, so that paths compare
        Weight == 100 ^ (RoomCount(s) - 1 - Len(path.portals))
        Sum[b \in 0..BandCount(s)] == IF b = 0 THEN 0 ELSE Sum[b - 1] + Passed(b) * Weight
    IN  Sum[BandCount(s)]

\* Of two paths of the same energy the search finds one first.
strongestPath(s, paths) ==
    CHOOSE path \in paths : \A other \in paths : PathEnergy(s, other) <= PathEnergy(s, path)

\* The things in a room, in their order.
InRoom(s, things, room) ==
    LET Kept(here) == [k \in 1..Cardinality(here) |->
                          things[CHOOSE i \in here : Cardinality({j \in here : j < i}) = k - 1]]
    IN  Kept({i \in DOMAIN things : RoomIndexAt(s, things[i].pos) = room})

\* A room at the origin with its receivers and the source that excites it.
Excited(s, room, source) ==
    networkLocalizedScene([singleRoomScene(s, room) EXCEPT
                              !.receivers = InRoom(s, @, room), !.sources = <<source>>])

\* The source moves to the portal by which the strongest path enters.
substituteSource(s, room, path) ==
    [scene |-> Excited(s, room, Secondary(portalPort(s, path, Len(path.portals), TRUE))),
     portals |-> path.portals]

\* <<>>, or the receiver's room at the origin with the source that excites it
\* and the portals whose loss scales the result.
LowFreqScene(s) ==
    LET ByPath(room, paths) == IF paths = {} THEN <<>>
                               ELSE <<substituteSource(s, room, strongestPath(s, paths))>>
        Between(from, to) ==
            IF ~soleShoeboxRoom(s, to) THEN <<>>
            ELSE IF from = to
            THEN <<[scene |-> Excited(s, to, s.sources[1]), portals |-> <<>>]>>
            ELSE ByPath(to, NetworkPaths(s))
    IN  IF s.receivers = <<>> \/ s.sources = <<>> THEN <<>>
        ELSE IF ~Validate(s) THEN <<>>
        ELSE Between(RoomIndexAt(s, s.sources[1].pos), RoomIndexAt(s, s.receivers[1].pos))

(***************************************************************************)
(* The facade.  A renderer says which engines are configured; early and     *)
(* late are image source engines, dense is the ray tracer or an engine      *)
(* without binaural output.                                                *)
(***************************************************************************)
Failed(by) == [ok |-> FALSE, by |-> by, fields |-> {}]

Rendered(fields) == [ok |-> TRUE, by |-> "", fields |-> fields]

Field(engine, receiver) == [engine |-> engine, receiver |-> receiver]

\* The solver takes the scene's only receiver.
generateEvents(r, s, cfg) ==
    IF r.late /\ r.dense # "none" THEN Failed("config")
    ELSE IF (r.early \/ r.late) /\ ~Fresh(s, cfg).ok THEN Failed("engine")
    ELSE Rendered((IF r.early THEN {Field("early", s.receivers[1])} ELSE {})
                  \cup (IF r.late THEN {Field("late", s.receivers[1])} ELSE {}))

\* RaytraceEngine and the tracer it makes: the scene is not validated.
newTracer(s) ==
    /\ Len(s.sources) = 1
    /\ Len(s.receivers) = 1
    /\ IsValid(s.room)

MutantCombineLateBuffer(r, early, late) ==      \* early events only decide alignment
    IF r.early /\ ~r.timeBased THEN Failed("config") ELSE Rendered({late})

\* Without an early engine the late buffer is the whole response.
combineLateBuffer(r, early, late) ==
    IF ~r.early THEN Rendered({late})
    ELSE IF ~r.timeBased THEN Failed("config")
    ELSE Rendered(early \cup {late})

WithLate(r, s, early, ready) ==
    IF ~early.ok \/ r.dense = "none" THEN early
    ELSE IF ~ready THEN Failed("engine")
    ELSE combineLateBuffer(r, early.fields, Field("dense", s.receivers[1]))

\* The modal solver answers for the first source and receiver of a shoebox.
applyLowFreq(r, s, rendered) ==
    IF ~rendered.ok \/ ~r.low THEN rendered
    ELSE IF ~IsShoebox(s.room) \/ s.sources = <<>> \/ s.receivers = <<>> THEN Failed("engine")
    ELSE Rendered(rendered.fields \cup {Field("low", s.receivers[1])})

CrossRoomConfigured(r) == r.cross /\ ~r.early /\ ~r.late /\ r.dense = "none"

\* Both parts of the engine succeed: the early events, and the traces, which
\* ask for nothing more.
CrossRoom(s, cfg) ==
    IF NewEngine(s) = "onehop" THEN OneHopSolveEarly(s, cfg).refused = "no" /\ OneHopTraceLate(s)
    ELSE NetworkSolveEarly(s, cfg).refused = "no"

renderCrossRoomMono(r, s, cfg) ==
    IF ~CrossRoomConfigured(r) THEN Failed("config")
    ELSE IF ~CrossRoom(s, cfg) THEN Failed("engine")
    ELSE IF ~r.low THEN Rendered({Field("cross", s.receivers[1])})
    ELSE IF LowFreqScene(s) = <<>> THEN Failed("engine")
    ELSE Rendered({Field("cross", s.receivers[1]), Field("low", s.receivers[1])})

RenderMono(r, s, cfg) ==
    IF RoomCount(s) > 1 THEN renderCrossRoomMono(r, s, cfg)
    ELSE applyLowFreq(r, s, WithLate(r, s, generateEvents(r, s, cfg), newTracer(s)))

\* <<>>, or the first binaural receiver, when it has an HRTF.
firstBinauralReceiver(s) ==
    LET binaural == {i \in DOMAIN s.receivers : s.receivers[i].type = "binaural"}
        first == CHOOSE i \in binaural : \A j \in binaural : i <= j
    IN  IF binaural = {} THEN <<>>
        ELSE IF s.receivers[first].hrtf = <<>> THEN <<>> ELSE <<s.receivers[first]>>

\* The one-hop renderer simulates for the scene's receiver, the network for the
\* receiver it is given.
renderCrossRoomStereo(r, s, cfg, receiver) ==
    IF ~CrossRoomConfigured(r) THEN Failed("config")
    ELSE IF receiver.hrtf = <<>> \/ ~CrossRoom(s, cfg) THEN Failed("engine")
    ELSE IF NewEngine(s) = "onehop"
    THEN IF OneHopRenderLateBinaural(s, receiver)
         THEN Rendered({Field("cross", s.receivers[1])}) ELSE Failed("engine")
    ELSE IF HasVolumeValue(RoomAt(s, RoomIndexAt(s, receiver.pos)))
         THEN Rendered({Field("cross", receiver)}) ELSE Failed("engine")

renderSingleRoomStereo(r, s, early) ==
    IF early.ok /\ r.dense = "mono" THEN Failed("config")
    ELSE WithLate(r, s, early, newTracer(s) /\ HasVolumeValue(s.room))

\* A low-frequency engine is left out: its transfer function has one channel.
RenderStereo(r, s, cfg) ==
    LET For(receiver) ==
            IF receiver = <<>> THEN Failed("engine")
            ELSE IF RoomCount(s) > 1 THEN renderCrossRoomStereo(r, s, cfg, receiver[1])
            ELSE renderSingleRoomStereo(r, s, generateEvents(r, s, cfg))
    IN  For(firstBinauralReceiver(s))
=============================================================================
