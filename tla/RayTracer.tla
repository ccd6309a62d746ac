------------------------------ MODULE RayTracer ------------------------------
(***************************************************************************)
(* The bounce loop of raytrace/: Trace, TraceSecondary and TraceSurfaces,  *)
(* which share it line for line.                                           *)
(*                                                                         *)
(* The room is left open: every step of a ray may meet any segment length, *)
(* detector, edge and wall within the bounds, so one behaviour is one room *)
(* and one run of the random numbers.  Lengths are in units of SpeedOf-    *)
(* Sound * 1 s, so a length is also a time; the offsets of 1e-6 m that     *)
(* keep a ray off its wall are left out.  The energy of a ray is an order  *)
(* of magnitude: 0 is silence, and air, walls and edges take 0 or 1 of it. *)
(*                                                                         *)
(* travelled, offset and history are not in the code: how far the sound    *)
(* has really come, how much of that led off its rays to edges, and what   *)
(* happened to it on the way.                                              *)
(***************************************************************************)
EXTENDS Integers, Sequences, FiniteSets, SequencesExt

CONSTANTS
  Calls,         \* the calls that may be made: an operation and its LaunchConfig
  Detectors,     \* the receivers of one call; Trace and TraceSecondary use one
  Lengths,       \* lengths of a segment
  Distances,     \* distances from a wall or an edge to a receiver
  Gaps,          \* distances between edges that see each other
  Offsets,       \* how much longer the way to an edge beside a ray is than the way
                 \* along the ray to the point nearest to the edge
  Delays,        \* times of the emissions of TraceSecondary
  Energy,        \* energy of a ray when it is launched
  MaxCone        \* bound on the branches one edge sends out

VARIABLES
  call,      \* the running call
  pc,        \* where its loop is
  states,    \* the stack of RayStates
  cur,       \* the popped state with the loop's locals
  added      \* what the last step put into the histograms

vars == <<call, pc, states, cur, added>>

ASSUME LengthsAssumption ==
  /\ Lengths \subseteq Nat \ {0}
  /\ Distances \cup Gaps \cup Offsets \cup Delays \subseteq Nat
  /\ Energy \in Nat /\ MaxCone \in Nat

\* LaunchConfig is a struct of flags and integers.
ASSUME CallsAssumption ==
  \A c \in Calls :
    /\ c.numRays \in Int /\ c.maxTime \in Int /\ c.threshold \in Int /\ c.depth \in Int
    /\ c.rain \in BOOLEAN /\ c.hybrid.enabled \in BOOLEAN
    /\ c.hybrid.maxIS \in Int /\ c.hybrid.maxPreED \in Int
    /\ c.hybrid.maxEDIS \in Int /\ c.hybrid.maxED \in Int

-----------------------------------------------------------------------------
(* LaunchConfig. *)

\* effectiveDiffractionMode; deprecated: the Keller cone fields are set.
EffectiveDiffractionMode(c) ==
  IF c.mode = "disabled" /\ c.deprecated THEN "keller" ELSE c.mode

\* Only a mesh has an edge index.
Diffracts(c, mode) == c.mesh /\ EffectiveDiffractionMode(c) = mode

\* effectiveMaxDiffractionDepth.
EffectiveMaxDiffractionDepth(c) == IF c.depth > 0 THEN c.depth ELSE 2

\* sceneTracer: a shoebox, or a mesh that NewMeshTracer accepts.
SceneTracer(c) == c.roomOK

\* The checks at the start of the calls.
Accepted(c) ==
  /\ c.numRays > 0 /\ c.maxBounces >= 0 /\ c.maxTime > 0
  /\ SceneTracer(c)

Targets(c) == IF c.op = "TraceSurfaces" THEN Detectors ELSE {CHOOSE d \in Detectors : TRUE}

-----------------------------------------------------------------------------
(* RayState and hybrid_detection.go. *)

NewState(delay) ==
  [energy |-> Energy, path |-> 0, delay |-> delay, bounces |-> 0,
   rainCovered |-> FALSE, hasDiffuse |-> FALSE, allow |-> FALSE,
   reflections |-> 0, preED |-> 0, postED |-> 0, edOrder |-> 0,
   travelled |-> 0, offset |-> 0, history |-> <<>>]

\* DetectionAllowedHybrid.  TraceSurfaces does not ask.
DetectionAllowedHybrid(s, c) ==
  \/ c.op = "TraceSurfaces" \/ ~c.hybrid.enabled
  \/ /\ s.edOrder # 0
     /\ s.hasDiffuse \/ s.preED > c.hybrid.maxPreED
        \/ s.postED > c.hybrid.maxEDIS \/ s.edOrder > c.hybrid.maxED
  \/ s.edOrder = 0 /\ s.reflections > c.hybrid.maxIS

MutantAdvanceStateAfterReflection(s, diffuse) ==     \* all counted before the edge
  [s EXCEPT !.reflections = @ + 1, !.preED = @ + 1,
            !.hasDiffuse = @ \/ diffuse, !.allow = ~diffuse,
            !.history = Append(@, IF diffuse THEN "diffuse" ELSE "specular")]

AdvanceStateAfterReflection(s, diffuse) ==
  [s EXCEPT !.reflections = @ + 1,
            !.preED = IF s.edOrder = 0 THEN @ + 1 ELSE @,
            !.postED = IF s.edOrder = 0 THEN @ ELSE @ + 1,
            !.hasDiffuse = @ \/ diffuse, !.allow = ~diffuse,
            !.history = Append(@, IF diffuse THEN "diffuse" ELSE "specular")]

AdvanceStateAfterDiffraction(s) ==
  [s EXCEPT !.edOrder = @ + 1, !.allow = FALSE, !.history = Append(@, "edge")]

MutantReflectedChildState(s, diffuse, energy, path, bounce) ==   \* path of the parent
  [AdvanceStateAfterReflection(s, diffuse) EXCEPT !.energy = energy, !.bounces = bounce]

\* reflectedChildState with what the caller fills in.
ReflectedChildState(s, diffuse, energy, path, bounce) ==
  [AdvanceStateAfterReflection(s, diffuse) EXCEPT
     !.energy = energy, !.path = path, !.bounces = bounce]

\* diffractedChildState with what spawnDiffractionBranches fills in: the path
\* and the bounces of the state, which the loop does not advance, and edge, the
\* way along the ray.  The branch starts on the edge itself, offset further away.
DiffractedChildState(s, edge, offset, energy) ==
  [AdvanceStateAfterDiffraction(s) EXCEPT
     !.rainCovered = FALSE, !.energy = energy, !.path = @ + edge, !.bounces = @ + 1,
     !.travelled = @ + edge + offset, !.offset = @ + offset]

-----------------------------------------------------------------------------
(* EnergyHistogram.Add, behind the callers' arrivalTime <= MaxTimeSeconds. *)

Deposit(kind, at, true, s) ==
  [kind |-> kind, at |-> at, true |-> true, offset |-> s.offset, history |-> s.history]

Add(deposits) == {d \in deposits : d.at < call.maxTime}

-----------------------------------------------------------------------------
(* The calls. *)

NoCall == [op |-> "none"]
NoRay == [segment |-> 0]

Init ==
  /\ call = NoCall
  /\ pc = "idle"
  /\ states = <<>>
  /\ cur = NoRay
  /\ added = {}

\* LaunchRays, and secondaryLaunchStates: each ray of TraceSecondary takes one
\* of the emissions that are in time, or is dropped with a silent one.
LaunchStates(c) ==
  IF c.op = "TraceSecondary"
  THEN {[i \in 1..n |-> NewState(d[i])] :
          n \in 0..c.numRays, d \in [1..c.numRays -> {t \in Delays : t < c.maxTime}]}
  ELSE {[i \in 1..c.numRays |-> NewState(0)]}

Launch(c) ==
  /\ pc = "idle" /\ Accepted(c)
  /\ call' = c
  /\ states' \in LaunchStates(c)
  /\ pc' = "pop"
  /\ UNCHANGED <<cur, added>>

Refuse(c) ==
  /\ pc = "idle" /\ ~Accepted(c)
  /\ call' = c
  /\ pc' = "failed"
  /\ UNCHANGED <<states, cur, added>>

\* maxPathLength; the delay is 0 in Trace and TraceSurfaces.
MaxPathLength(s) == call.maxTime - s.delay

\* A ray at or below the threshold is dropped.
Pop ==
  /\ pc = "pop" /\ states # <<>>
  /\ states' = Front(states)
  /\ LET s == Last(states) IN
     IF s.energy <= call.threshold \/ MaxPathLength(s) <= 0
     THEN UNCHANGED <<pc, cur>>
     ELSE /\ cur' = [state |-> s, path |-> s.path, bounce |-> s.bounces,
                     rainCovered |-> s.rainCovered, segment |-> 0,
                     travelled |-> s.travelled]
          /\ pc' = "segment"
  /\ added' = {}
  /\ UNCHANGED call

Return ==
  /\ pc = "pop" /\ states = <<>>
  /\ pc' = "returned"
  /\ cur' = NoRay
  /\ added' = {}
  /\ UNCHANGED <<call, states>>

InLoop == cur.bounce <= call.maxBounces /\ cur.path < MaxPathLength(cur.state)

\* The loop condition fails, or the ray leaves an open mesh.
LeaveLoop ==
  /\ pc = "segment"
  /\ InLoop => call.mesh
  /\ pc' = "pop"
  /\ added' = {}
  /\ UNCHANGED <<call, states, cur>>

-----------------------------------------------------------------------------
(* One bounce. *)

MutantDetected(t) ==       \* forgets that the rain has delivered the energy
  {Deposit("direct", cur.state.delay + cur.path + t[d],
           cur.state.delay + cur.travelled + t[d], cur.state) :
     d \in {e \in DOMAIN t : t[e] > 0 /\ DetectionAllowedHybrid(cur.state, call)}}

\* The receivers the segment meets, at distance t (0 if it misses one).
Detected(t) ==
  {Deposit("direct", cur.state.delay + cur.path + t[d],
           cur.state.delay + cur.travelled + t[d], cur.state) :
     d \in {e \in DOMAIN t : /\ t[e] > 0 /\ ~cur.rainCovered
                             /\ DetectionAllowedHybrid(cur.state, call)}}

\* NextHit of a ShoeboxTracer, from anywhere to anywhere.
NextHit == Lengths

\* SphereReceiver.Intersects within the segment.
Intersects(length) == [Targets(call) -> 0..length]

\* The detection on the segment.
Segment(length, t) ==
  /\ pc = "segment" /\ InLoop
  /\ cur' = [cur EXCEPT !.segment = length]
  /\ added' = Add(Detected(t))
  /\ pc' = "edges"
  /\ UNCHANGED <<call, states>>

\* After the switch over the diffraction mode: the segment is behind the ray.
Advance(state) ==
  LET path == cur.path + cur.segment IN
  /\ cur' = [cur EXCEPT !.state = state, !.path = path,
                        !.travelled = @ + cur.segment]
  /\ pc' = IF path >= MaxPathLength(cur.state) THEN "pop" ELSE "wall"

\* closestApproach and RayOpenFiniteCylinder: an edge strictly inside the segment.
Edges == 1..(cur.segment - 1)

NoEdge ==
  /\ pc = "edges"
  /\ Advance(cur.state)
  /\ added' = {}
  /\ UNCHANGED <<call, states>>

\* spawnDiffractionBranches: n cone samples survive the culling, each of them
\* carrying what its share of the energy at the edge is.
SpawnDiffractionBranches(edge, offset, n, loss) ==
  LET s == [cur.state EXCEPT !.travelled = cur.travelled]
      energy == cur.state.energy - loss IN
  /\ pc = "edges" /\ Diffracts(call, "keller") /\ edge \in Edges
  /\ energy > 0
  /\ states' = states \o [i \in 1..n |-> DiffractedChildState(s, edge, offset, energy)]
  /\ Advance(cur.state)
  /\ added' = {}
  /\ UNCHANGED call

\* dapdfForward: the ways from a cylinder to the receivers it sees, and over
\* further edges until the depth is used up.
DapdfForward(depth) ==
  LET F[k \in 1..depth] ==
        IF k = depth THEN Distances
        ELSE Distances \cup {g + w : g \in Gaps, w \in F[k + 1]} IN F[1]

\* dapdfRainForSegment: the nearest cylinder forwards the energy, from the edge
\* in its axis, on some of these ways.  The ray itself goes on beside the edge.
DapdfRainForSegment(edge, offset, reach) ==
  LET s == AdvanceStateAfterDiffraction(cur.state)
      atEdge == [s EXCEPT !.offset = @ + offset]
      deposits == {Deposit("diffracted", cur.state.delay + cur.state.path + edge + r,
                           cur.state.delay + cur.travelled + edge + offset + r, atEdge) : r \in reach}
      inTime == {d \in deposits : d.at <= call.maxTime} IN
  /\ pc = "edges" /\ Diffracts(call, "dapdf") /\ edge \in Edges
  /\ added' = Add(deposits)
  /\ Advance(IF inTime = {} THEN cur.state ELSE s)
  /\ UNCHANGED <<call, states>>

\* The switch over the diffraction mode.
Diffraction ==
  \/ NoEdge
  \/ \E edge \in Edges, offset \in Offsets, n \in 1..MaxCone, loss \in 0..1 :
       SpawnDiffractionBranches(edge, offset, n, loss)
  \/ /\ pc = "edges"
     /\ \E edge \in Edges, offset \in Offsets,
           reach \in SUBSET DapdfForward(EffectiveMaxDiffractionDepth(call)) :
          DapdfRainForSegment(edge, offset, reach)

\* splitReflectionEnergy; scatter is 0 (none), 1 (some) or 2 (all of it).
Remaining(absorbed) == IF cur.state.energy > absorbed THEN cur.state.energy - absorbed ELSE 0
Specular(remaining, scatter) == IF scatter = 2 THEN 0 ELSE remaining
Diffuse(remaining, scatter) == IF scatter = 0 THEN 0 ELSE remaining

\* computeSurfaceRain looks for the detectors that face the wall and are in
\* sight, at distance r, 0 for a hidden one.
InSight(r) == {d \in DOMAIN r : r[d] > 0}

\* computeDiffuseRain: the scattered energy, straight to the receivers.
Rain(remaining, scatter, r) ==
  IF call.rain /\ Diffuse(remaining, scatter) > 0
  THEN Add({Deposit("rain", cur.state.delay + cur.path + r[d],
                    cur.state.delay + cur.travelled + r[d], cur.state) :
              d \in InSight(r)})
  ELSE {}

\* The rest of the loop after a reflection of the same ray.
Continue(state, energy, covered) ==
  /\ cur' = [cur EXCEPT !.state = [state EXCEPT !.energy = energy],
                        !.rainCovered = covered, !.bounce = @ + 1]
  /\ pc' = IF energy <= call.threshold THEN "pop" ELSE "segment"

ReflectBlend(absorbed, scatter, r) ==
  /\ pc = "wall" /\ call.strategy = "blend"
  /\ added' = Rain(Remaining(absorbed), scatter, r)
  /\ Continue(AdvanceStateAfterReflection(cur.state, scatter > 0),
              Remaining(absorbed), call.rain)
  /\ UNCHANGED <<call, states>>

\* sampleProbabilisticReflection.
ReflectSampled(absorbed, scatter, r, diffuse) ==
  /\ pc = "wall" /\ call.strategy = "probabilistic"
  /\ scatter = 2 => diffuse
  /\ scatter = 0 => ~diffuse
  /\ added' = Rain(Remaining(absorbed), scatter, r)
  /\ Continue(AdvanceStateAfterReflection(cur.state, diffuse),
              Remaining(absorbed), diffuse /\ call.rain)
  /\ UNCHANGED <<call, states>>

\* russianRouletteEnergy: the energies a branch may go on with, none if it dies.
\* What survives below the threshold is scaled up to it.
RussianRouletteEnergy(energy) ==
  IF call.threshold <= 0 \/ energy > call.threshold THEN {<<energy>>}
  ELSE {<<>>, IF energy = 0 THEN <<0>> ELSE <<call.threshold>>}

\* The specular and the diffuse branch; the ray itself becomes the empty ray,
\* which hits nothing and ends the loop.
ReflectRoulette(absorbed, scatter, r) ==
  LET s == [cur.state EXCEPT !.travelled = cur.travelled]
      left == Remaining(absorbed)
      Child(diffuse, energy) ==
        [i \in DOMAIN energy |->
           [ReflectedChildState(s, diffuse, energy[i], cur.path, cur.bounce + 1)
              EXCEPT !.rainCovered = diffuse /\ call.rain]] IN
  /\ pc = "wall" /\ call.strategy = "roulette"
  /\ added' = Rain(left, scatter, r)
  /\ \E specular \in RussianRouletteEnergy(Specular(left, scatter)),
        diffuse \in RussianRouletteEnergy(Diffuse(left, scatter)) :
       states' = states \o Child(FALSE, specular) \o Child(TRUE, diffuse)
  /\ cur' = NoRay
  /\ pc' = "pop"
  /\ UNCHANGED call

-----------------------------------------------------------------------------
Wall(absorbed, scatter, r) ==
  \/ ReflectBlend(absorbed, scatter, r)
  \/ \E diffuse \in BOOLEAN : ReflectSampled(absorbed, scatter, r, diffuse)
  \/ ReflectRoulette(absorbed, scatter, r)

Step ==
  \/ Pop \/ Return \/ LeaveLoop
  \/ \E length \in NextHit : \E t \in Intersects(length) : Segment(length, t)
  \/ Diffraction
  \/ \E absorbed \in 0..1, scatter \in 0..2 :
       \E r \in [Targets(call) -> {0} \cup Distances] : Wall(absorbed, scatter, r)

Done == pc \in {"returned", "failed"} /\ UNCHANGED vars

Next == (\E c \in Calls : Launch(c) \/ Refuse(c)) \/ Step \/ Done

Spec == Init /\ [][Next]_vars

-----------------------------------------------------------------------------
(* Properties. *)

Reflections(h) == {i \in DOMAIN h : h[i] # "edge"}
EdgesOf(h) == {i \in DOMAIN h : h[i] = "edge"}

\* Sound that was reflected before it met an edge.
ReflectedBeforeEdge(h) == \E i \in Reflections(h), j \in EdgesOf(h) : i < j

\* No deposit is late.  It is early by exactly the offsets of the edges it came
\* over, none if it met no edge, unless it was reflected before it met an edge, in
\* a strategy that keeps the ray in its loop: then it is early by more.
EarlyOnlyBehindEdges ==
  \A d \in added :
    /\ d.at + d.offset <= d.true
    /\ call.strategy = "roulette" \/ ~ReflectedBeforeEdge(d.history) => d.at + d.offset = d.true
    /\ EdgesOf(d.history) = {} => d.offset = 0

\* The walls do not cost a deposit any of its way: a particle "carries its complete
\* propagation state", CurrentTime being the "Accumulated travel time"
\* (docs/raven.md:563, 570), on either side of an edge.
ReflectedWayCounts == \A d \in added : d.at + d.offset = d.true

\* Energy that the diffuse rain of a wall has sent to the receivers is not
\* detected a second time with the scattered ray that leaves this wall.
RainOrRay ==
  \A d \in added :
    d.kind = "direct" /\ call.rain /\ d.history # <<>> => Last(d.history) # "diffuse"

\* What the image sources already deliver, told from the way of the sound.
CoveredByImages(h, c) ==
  IF EdgesOf(h) = {} THEN Len(h) <= c.maxIS
  ELSE LET first == CHOOSE i \in EdgesOf(h) : \A j \in EdgesOf(h) : i <= j IN
       /\ \A i \in DOMAIN h : h[i] # "diffuse"
       /\ Cardinality({i \in Reflections(h) : i < first}) <= c.maxPreED
       /\ Cardinality({i \in Reflections(h) : i > first}) <= c.maxEDIS
       /\ Cardinality(EdgesOf(h)) <= c.maxED

\* With the hybrid gate, the detector of Trace and TraceSecondary adds nothing
\* the image source method covers, whatever branches and loops the counters of
\* the ray went through.
GateKeepsImagesOut ==
  \A d \in added :
    d.kind = "direct" /\ call.op # "TraceSurfaces" /\ call.hybrid.enabled =>
      ~CoveredByImages(d.history, call.hybrid)

-----------------------------------------------------------------------------
(* The inductive invariant. *)

Histories == Seq({"specular", "diffuse", "edge"})

RayStates ==
  [energy : Nat, path : Nat, delay : Nat, bounces : Nat,
   rainCovered : BOOLEAN, hasDiffuse : BOOLEAN, allow : BOOLEAN,
   reflections : Nat, preED : Nat, postED : Nat, edOrder : Nat,
   travelled : Nat, offset : Nat, history : Histories]

\* The counters of a ray count what happened to its sound.
BeforeEdges(h) == {i \in Reflections(h) : \A j \in EdgesOf(h) : i < j}
BehindEdge(h) == {i \in Reflections(h) : \E j \in EdgesOf(h) : j < i}

Counted(s) ==
  /\ s.reflections = Cardinality(Reflections(s.history))
  /\ s.preED = Cardinality(BeforeEdges(s.history))
  /\ s.postED = Cardinality(BehindEdge(s.history))
  /\ s.edOrder = Cardinality(EdgesOf(s.history))
  /\ s.hasDiffuse <=> \E i \in DOMAIN s.history : s.history[i] = "diffuse"

\* A path is what the sound has travelled but for the offsets, or less behind edges.
Timed(path, travelled, offset, h) ==
  /\ path + offset <= travelled
  /\ call.strategy = "roulette" \/ ~ReflectedBeforeEdge(h) => path + offset = travelled
  /\ EdgesOf(h) = {} => offset = 0

\* Who leaves a wall that has rained is marked.
Marked(covered, h) == call.rain /\ h # <<>> /\ Last(h) = "diffuse" => covered

Rays ==
  {s \in RayStates : /\ Counted(s) /\ Marked(s.rainCovered, s.history)
                     /\ Timed(s.path, s.travelled, s.offset, s.history)}

Locals ==
  [state : RayStates, path : Nat, bounce : Nat, rainCovered : BOOLEAN, segment : Nat,
   travelled : Nat]

\* The loop advances its own copies.  The state it was given keeps the path of the
\* launch, which is the present one until the first wall.
LoopInv ==
  pc \in {"segment", "edges", "wall"} =>
    /\ cur \in Locals
    /\ Counted(cur.state)
    /\ Timed(cur.path, cur.travelled, cur.state.offset, cur.state.history)
    /\ Marked(cur.rainCovered, cur.state.history)
    /\ cur.state.path <= cur.path
    /\ pc # "wall" /\ (call.strategy = "roulette" \/ Reflections(cur.state.history) = {})
         => cur.path = cur.state.path

RayTypeOK ==
  /\ pc \in {"idle", "pop", "segment", "edges", "wall", "returned", "failed"}
  /\ pc = "idle" \/ call \in Calls
  /\ pc \in {"idle", "failed"} => added = {}
  /\ pc \notin {"idle", "failed"} => states \in Seq(Rays)

RayIInv == RayTypeOK /\ LoopInv /\ EarlyOnlyBehindEdges /\ RainOrRay /\ GateKeepsImagesOut
=============================================================================
