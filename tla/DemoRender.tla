----------------------------- MODULE DemoRender -----------------------------
(***************************************************************************)
(* The WASM side of the web demo, web/wasm/*.go: the session the exported  *)
(* API keeps (api.go), the normalisation of a request and its memory       *)
(* budget (render.go, limits.go, memory.go), and a render through its      *)
(* tiers under a cooperative deadline (render.go, tiers.go, heatmap.go).   *)
(*                                                                         *)
(* A render is one synchronous call; its steps are the solver stages       *)
(* between two progress reports, because a report calls back into          *)
(* JavaScript, which may set the cancel flag, and because the clock        *)
(* advances while a stage runs.  Times are in units of 10 ms for the knobs *)
(* of a request and in whole clock units for the deadline.  One coordinate *)
(* stands for the three of a position or a room, and the material of one   *)
(* wall for the six.                                                       *)
(***************************************************************************)
EXTENDS Integers, Sequences, FiniteSets, FiniteSetsExt

CONSTANTS
  Payloads,      \* the JSON payloads of renderScene and simulate, as partial requests
  Rooms,         \* the rooms createRoom is called with
  Points,        \* the coordinates setSource and setReceiver are called with
  Names,         \* the surface ids setMaterial is called with
  Texts,         \* the strings of requests: kinds, modes and material names
  Meshes,        \* the uploaded meshes: [triangles, faces]; NoMesh for none
  NoMesh,
  StageCosts,    \* what a solver stage may cost, in clock units
  Timeout,       \* demoRenderTimeout, in clock units
  MaxCalls,      \* bound on the API calls
  MaxTurns,      \* bound on the turns of the loop over the knobs
  MaxDemoSurfaces, MaxDemoMeshTriangles, MaxDemoMaterials

ASSUME DemoAssumption ==
  /\ NoMesh \notin Meshes
  /\ \A mesh \in Meshes : mesh.triangles \in Nat /\ mesh.vertices \in Nat
  /\ Rooms \subseteq [kind : Texts, width : Int, mesh : Meshes \cup {NoMesh}]
  /\ Points \subseteq Int /\ Names \subseteq Texts /\ StageCosts \subseteq Nat
  /\ {Timeout, MaxCalls, MaxTurns, MaxDemoSurfaces, MaxDemoMaterials} \subseteq Nat
  /\ MaxDemoMeshTriangles \in Nat /\ MaxDemoMeshTriangles <= 20000

VARIABLES
  demo,       \* currentDemoAPIState: roomID, request, result (NoResult before the first)
  library,    \* the names in materialLibrary
  render,     \* the render in progress
  clock,      \* clock units since it started
  cancel,     \* algoAcousticsDemoCancelRequested
  tiers,      \* the tiers pushed to the page during this render
  answer,     \* what the last render returned
  calls

demoVars == <<demo, library, render, clock, cancel, tiers, answer, calls>>

Clamp(value, lo, hi) == Max({lo, Min({value, Max({lo, hi})})})
Clamped(value, fallback, lo, hi) == Clamp(IF value <= 0 THEN fallback ELSE value, lo, hi)

BuiltinMaterials == {"defaultMaterial", "smoothConcrete", "plywoodPanels", "glassWindow",
                     "pileCarpet", "thinCarpet", "heavyCurtain", "perforatedWood"}

\* The room, one coordinate of it in decimetres, and the knobs of the render.
DefaultDemoRequest ==
  [kind |-> "shoebox", width |-> 64, mesh |-> NoMesh, west |-> "perforatedWood",
   source |-> 14, receiver |-> 48, portal |-> FALSE, receiverWidth |-> 64,
   mode |-> "hybrid", order |-> 4, rays |-> 3072, duration |-> 135, crossover |-> 22]

-----------------------------------------------------------------------------
(* limits.go: structural limits reject a request. *)

\* The plane of a face, with its normal flipped into the canonical hemisphere.
Canonical(face) ==
  LET n == face.normal
      flip == n[1] < 0 \/ (n[1] = 0 /\ (n[2] < 0 \/ (n[2] = 0 /\ n[3] < 0)))
      m == IF flip THEN [i \in 1 .. 3 |-> -n[i]] ELSE n
  IN <<m, m[1] * face.vertex[1] + m[2] * face.vertex[2] + m[3] * face.vertex[3]>>

\* Distinct planes of the faces that are not degenerate; six when there are none.
CountDemoSurfaces(kind, mesh) ==
  IF kind # "mesh" \/ mesh = NoMesh THEN 6
  ELSE LET planes == {Canonical(f) : f \in {g \in mesh.faces : g.normal # <<0, 0, 0>>}}
       IN IF planes = {} THEN 6 ELSE Cardinality(planes)

\* The triangle limit reads a mesh whatever the kind of the room is.
ValidateDemoStructure(r) ==
  /\ r.mesh # NoMesh => r.mesh.triangles <= MaxDemoMeshTriangles
  /\ CountDemoSurfaces(r.kind, r.mesh) <= MaxDemoSurfaces

-----------------------------------------------------------------------------
(* memory.go: the projected peak of a request and the reductions it causes. *)

MiB == 1024 * 1024
MinRays == 128
MaxRays == 16384
MaxPortalRays == 4096
MinOrder == 1
MinDuration == 25
EstimateCap == 224 * MiB

IsmImageCount(n) == (4 * n * n * n + 6 * n * n + 8 * n + 3) \div 3

DemoEventCount(r) ==
  IF r.mode = "late" THEN 0
  ELSE IF r.portal THEN IsmImageCount(r.order) * IsmImageCount(r.order)
  ELSE IsmImageCount(r.order)

\* 480 samples and one histogram bin per unit of 10 ms; a portal render keeps
\* stereo pairs, traces twice and has one histogram per directivity group.
EstimateDemoMemoryBytes(r) ==
  LET passes == IF r.portal THEN 2 ELSE 1 IN
  96 * MiB
    + r.duration * 480 * (IF r.portal THEN 116 ELSE 34)
    + DemoEventCount(r) * 2048
    + (IF r.kind = "mesh" /\ r.mesh # NoMesh THEN r.mesh.triangles * 768 ELSE 0)
    + r.rays * 512 * passes
    + r.duration * 64 * (IF r.portal THEN 72 * passes ELSE 1)

\* One turn of the loop: rays are halved, then the order and the duration drop.
ReduceKnob(r) ==
  IF r.rays > MinRays THEN [r EXCEPT !.rays = Max({MinRays, @ \div 2})]
  ELSE IF r.order > MinOrder THEN [r EXCEPT !.order = @ - 1]
  ELSE [r EXCEPT !.duration = Max({MinDuration, (@ * 3) \div 4})]

AtMinimum(r) == r.rays <= MinRays /\ r.order <= MinOrder /\ r.duration <= MinDuration

\* The loop runs until the projection fits; minimum settings that do not fit
\* return at once, without the final clamp of the crossover.
FitEstimate(r) ==
  LET after[n \in Nat] == IF n = 0 THEN r ELSE ReduceKnob(after[n - 1])
      Fits(q) == EstimateDemoMemoryBytes(q) <= EstimateCap
      Fitted(q) == [q EXCEPT !.crossover = Clamp(@, 3, (q.duration * 85) \div 100)]
  IN IF Fits(r) THEN Fitted(r)
     ELSE LET turns == {n \in 1 .. MaxTurns : Fits(after[n]) \/ AtMinimum(after[n])}
              last == IF AtMinimum(r) THEN r ELSE after[Min(turns)]
          IN IF Fits(last) THEN Fitted(last) ELSE last

MutantApplyDemoMemoryBudget(r) ==        \* the order of a portal render is not capped
  FitEstimate(IF r.portal THEN [r EXCEPT !.rays = Min({@, MaxPortalRays}), !.order = Min({@, 6}),
                                         !.duration = Min({@, 120})] ELSE r)

ApplyDemoMemoryBudget(r) ==
  FitEstimate(IF r.portal THEN [r EXCEPT !.rays = Min({@, MaxPortalRays}), !.order = Min({@, 5}),
                                         !.duration = Min({@, 120})] ELSE r)

-----------------------------------------------------------------------------
(* render.go: normalizeDemoRequest. *)

NormalizeMaterialName(name, fallback) == IF name \in library THEN name ELSE fallback

Accepts(r) ==
  /\ ValidateDemoStructure(r)
  /\ r.portal => r.kind = "shoebox"
  /\ r.mode \in {"", "early", "late", "hybrid"}

\* The envelope of an accepted request: unusable values fall back to the
\* defaults, the others are clamped, positions stay 15 cm from the walls of the
\* room they are in.  The room of the receiver is not clamped: in one narrower
\* than two margins the receiver comes 15 cm behind its first wall, whatever is there.
NormalizeDemoRequest(r) ==
  LET d == DefaultDemoRequest
      width == Clamped(r.width, d.width, 20, 500)
      other == IF r.receiverWidth <= 0 THEN width ELSE r.receiverWidth
      duration == Clamped(r.duration, d.duration, MinDuration, 300)
  IN ApplyDemoMemoryBudget(
       [r EXCEPT
          !.kind = IF r.kind = "mesh" THEN "mesh" ELSE "shoebox",
          !.width = width,
          !.receiverWidth = other,
          !.west = NormalizeMaterialName(r.west, d.west),
          !.mode = IF r.mode = "" THEN d.mode ELSE r.mode,
          !.order = Clamped(r.order, d.order, MinOrder, 12),
          !.rays = Clamped(r.rays, d.rays, MinRays, MaxRays),
          !.duration = duration,
          !.crossover = Clamped(r.crossover, d.crossover, 3, (duration * 85) \div 100),
          !.source = Clamp(r.source, 2, width - 2),
          !.receiver = Clamp(r.receiver, 2, (IF r.portal THEN other ELSE width) - 2)])

\* The kind is normalised before the structure is validated.
Kinded(r) == [r EXCEPT !.kind = IF r.kind = "mesh" THEN "mesh" ELSE "shoebox"]

-----------------------------------------------------------------------------
(* tiers.go: the preview tier and the deadline. *)

PreviewTierRequest(r) ==
  LET duration == Min({r.duration, 100}) IN
  [r EXCEPT !.order = Min({@, 2}), !.rays = Min({@, 384}), !.duration = duration,
            !.crossover = Clamp(@, 3, (duration * 85) \div 100)]

WorthPreviewing(r) ==
  /\ ~r.portal
  /\ LET p == PreviewTierRequest(r) IN
     p.rays < r.rays \/ p.order < r.order \/ p.duration < r.duration

Exceeded == clock >= Timeout

ProjectFullRenderCost(cost, preview, full) ==
  (cost * full.rays * full.duration) \div (preview.rays * preview.duration)

\* overrunTolerance is 1.5.
Affords(cost) == cost <= 0 \/ 2 * cost <= 3 * Max({Timeout - clock, 0})

\* previewFallbackNotice is not empty.
StopAtPreview(r, cost) ==
  Exceeded \/ ~Affords(ProjectFullRenderCost(cost, PreviewTierRequest(r), r))

-----------------------------------------------------------------------------
(* heatmap.go: how many probes, each a solve of its own. *)

MeshHeatmapProbes(vertices) ==
  LET stride == IF vertices > 256 THEN (vertices + 255) \div 256 ELSE 1
  IN (vertices + stride - 1) \div stride

\* A grid of 7 by 5 on six walls, or the vertices of the mesh; the loft that
\* stands in for a missing mesh has six of them.
HeatmapProbes(r) ==
  IF r.kind # "mesh" THEN 6 * 7 * 5
  ELSE MeshHeatmapProbes(IF r.mesh = NoMesh THEN 6 ELSE r.mesh.vertices)

-----------------------------------------------------------------------------
(* The session and its setters, api.go. *)

RequestType ==
  [kind : Texts, width : Int, mesh : Meshes \cup {NoMesh}, west : Texts,
   source : Int, receiver : Int, portal : BOOLEAN, receiverWidth : Int,
   mode : Texts, order : Int, rays : Int, duration : Int, crossover : Int]

NoJob == [pc |-> "idle"]
NoResult == [tier |-> "none"]
NoAnswer == [outcome |-> "none"]

DemoInit ==
  /\ demo = [roomID |-> 0, request |-> DefaultDemoRequest, result |-> NoResult]
  /\ library = BuiltinMaterials
  /\ render = NoJob /\ clock = 0 /\ cancel = FALSE
  /\ tiers = {} /\ answer = NoAnswer /\ calls = 0

Call == render.pc = "idle" /\ calls < MaxCalls /\ calls' = calls + 1
Setter == Call /\ UNCHANGED <<render, clock, cancel, tiers, answer>>

\* The room replaces the old one, mesh included, without validation.
CreateRoom(room) ==
  /\ Setter
  /\ demo' = [demo EXCEPT !.roomID = @ + 1, !.request.kind = room.kind,
                                !.request.width = room.width, !.request.mesh = room.mesh]
  /\ UNCHANGED library

\* A new name needs room in the library; the name of a wall is also assigned.
SetMaterial(name) ==
  /\ Setter
  /\ name \in library \/ Cardinality(library) < MaxDemoMaterials
  /\ library' = library \cup {name}
  /\ demo' = IF name = "west" THEN [demo EXCEPT !.request.west = "west"] ELSE demo

\* ... and is refused otherwise.
RefuseMaterial(name) ==
  /\ Setter
  /\ name \notin library /\ Cardinality(library) >= MaxDemoMaterials
  /\ UNCHANGED <<demo, library>>

SetSource(x) ==
  /\ Setter
  /\ demo' = [demo EXCEPT !.request.source = x]
  /\ UNCHANGED library

SetReceiver(x) ==
  /\ Setter
  /\ demo' = [demo EXCEPT !.request.receiver = x]
  /\ UNCHANGED library

\* storeResult and storeRequest: the request that was rendered, with the tier
\* it was rendered at, becomes the start of the next one.
Store(r, tier) ==
  demo' = [demo EXCEPT !.request = r, !.result = [tier |-> tier, request |-> r]]

-----------------------------------------------------------------------------
(* A render. *)

\* json.Unmarshal into a copy of the session's request.
Merge(r, payload) == [f \in DOMAIN r |-> IF f \in DOMAIN payload THEN payload[f] ELSE r[f]]

\* A value of the wrong type does not decode.
ASSUME PayloadAssumption ==
  /\ {"shoebox", "mesh", "hybrid", "west"} \cup BuiltinMaterials \subseteq Texts
  /\ \A payload \in Payloads : Merge(DefaultDemoRequest, payload) \in RequestType

\* A report to the page runs JavaScript, which may ask for the cancel.
Report == cancel' \in {cancel, TRUE}

Spend == \E cost \in StageCosts : clock' = Min({clock + cost, Timeout})
Returns(tier) ==
  render' = NoJob /\ answer' = [outcome |-> "result", tier |-> tier, call |-> calls']
Ends(outcome) == render' = NoJob /\ answer' = [outcome |-> outcome, call |-> calls']

\* runDemoRenderJSON: a payload that does not decode leaves the session alone.
RejectPayload ==
  /\ Call
  /\ Ends("rejected")
  /\ clock' = 0 /\ tiers' = {}
  /\ UNCHANGED <<demo, library, cancel>>

\* runDemoRender up to the scene.  The page resets the cancel flag or does not.
\* session is not in the code: the session the render found.
BeginRender(payload) ==
  LET asked == Merge(demo.request, payload) IN
  /\ Call
  /\ clock' = 0 /\ tiers' = {} /\ cancel' \in BOOLEAN
  /\ IF ~Accepts(Kinded(asked)) THEN Ends("rejected")
     ELSE IF cancel' THEN Ends("cancelled")
     ELSE /\ render' = [pc |-> "scene", asked |-> asked,
                     request |-> NormalizeDemoRequest(asked), preview |-> FALSE,
                     session |-> demo]
          /\ answer' = NoAnswer
  /\ UNCHANGED <<demo, library>>

\* A tier of renderDemoMono starts with an abort check of its own.
StartTier(tier) ==
  render' = [pc |-> "mono", tier |-> tier, stage |-> 0, spent |-> 0, asked |-> render.asked,
          request |-> render.request, preview |-> render.preview, session |-> render.session]

\* The room of the receiver: the second one of a connected scene.
ReceiverRoomWidth(r) == IF r.portal THEN r.receiverWidth ELSE r.width

\* validatePositions.  An uploaded mesh may end before its room does: whether its
\* own bounds hold the positions is left open.
PositionsInRooms(r) == r.source <= r.width /\ r.receiver <= ReceiverRoomWidth(r)

\* buildDemoScene and the statistical tier, which only a shoebox has; a
\* connected scene has no single room.
BuildDemoScene ==
  /\ render.pc = "scene"
  /\ Report
  /\ UNCHANGED <<demo, library, clock, calls>>
  /\ \/ Ends("failed") /\ UNCHANGED tiers
     \/ /\ cancel' /\ ~render.request.portal /\ PositionsInRooms(render.request)
        /\ Ends("cancelled")
        /\ UNCHANGED tiers
     \/ /\ render.request.portal /\ PositionsInRooms(render.request)
        /\ render' = [render EXCEPT !.pc = "closed"]
        /\ UNCHANGED <<tiers, answer>>
     \/ /\ ~render.request.portal /\ PositionsInRooms(render.request) /\ ~cancel'
        /\ tiers' = IF render.request.kind = "shoebox" THEN {"statistical"} ELSE {}
        /\ StartTier(IF WorthPreviewing(render.request) THEN "preview" ELSE "full")
        /\ UNCHANGED answer

\* The solver stages of renderDemoMono and the ones it checks for an abort
\* after; the last stage and the start are always checked.
Stages(mode) ==
  CASE mode = "early" -> <<"early", "render">>
    [] mode = "late" -> <<"late">>
    [] mode = "hybrid" -> <<"early", "render", "late", "blend">>

Checked(mode, stage) ==
  stage \in {0, Len(Stages(mode))}
    \cup {i \in DOMAIN Stages(mode) : Stages(mode)[i] \in {"early", "late"}}

LastStage == render.stage = Len(Stages(render.request.mode))

\* checkDemoRenderAborted: the preview has no deadline.
Aborted == cancel' \/ (render.tier = "full" /\ clock' >= Timeout)

RunStage ==
  /\ render.pc = "mono"
  /\ Report
  /\ IF render.stage = 0 THEN UNCHANGED clock ELSE Spend
  /\ UNCHANGED <<demo, library, calls>>

\* The next stage of the tier.
StageDone ==
  /\ RunStage
  /\ ~LastStage
  /\ ~(Checked(render.request.mode, render.stage) /\ Aborted)
  /\ render' = [render EXCEPT !.stage = @ + 1, !.spent = @ + (clock' - clock)]
  /\ UNCHANGED <<tiers, answer>>

MutantTierDone ==                        \* a preview is stored when it is pushed
  /\ render.pc = "mono"
  /\ Report
  /\ IF render.stage = 0 THEN UNCHANGED clock ELSE Spend
  /\ LastStage /\ ~Aborted
  /\ IF render.tier = "preview"
     THEN /\ tiers' = tiers \cup {"preview"}
          /\ Store(PreviewTierRequest(render.request), "preview")
          /\ render' = [render EXCEPT !.pc = "decide", !.preview = TRUE, !.spent = @ + (clock' - clock)]
     ELSE render' = [render EXCEPT !.pc = "finish"] /\ UNCHANGED <<tiers, demo>>
  /\ UNCHANGED <<library, answer, calls>>

\* The last one: a preview is pushed to the page, a full render is finished.
TierDone ==
  /\ RunStage
  /\ LastStage /\ ~Aborted
  /\ IF render.tier = "preview"
     THEN /\ tiers' = tiers \cup {"preview"}
          /\ render' = [render EXCEPT !.pc = "decide", !.preview = TRUE, !.spent = @ + (clock' - clock)]
     ELSE render' = [render EXCEPT !.pc = "finish"] /\ UNCHANGED tiers
  /\ UNCHANGED answer

\* A stage fails.  A preview that fails is not fatal.
StageFails ==
  /\ RunStage
  /\ render.stage > 0
  /\ IF render.tier = "preview" THEN StartTier("full") /\ UNCHANGED answer ELSE Ends("failed")
  /\ UNCHANGED tiers

MutantStageAborts ==                     \* the preview is forgotten on expiry
  /\ RunStage
  /\ Checked(render.request.mode, render.stage) /\ Aborted
  /\ IF render.tier = "preview" THEN StartTier("full") /\ UNCHANGED answer
     ELSE IF cancel' THEN Ends("cancelled")
     ELSE Ends("deadline")
  /\ UNCHANGED tiers

\* An abort check fails.  On expiry the preview answers, if there is one.
StageAborts ==
  /\ RunStage
  /\ Checked(render.request.mode, render.stage) /\ Aborted
  /\ IF render.tier = "preview" THEN StartTier("full") /\ UNCHANGED answer
     ELSE IF cancel' THEN Ends("cancelled")
     ELSE IF render.preview
     THEN render' = [render EXCEPT !.pc = "finish", !.tier = "preview"] /\ UNCHANGED answer
     ELSE Ends("deadline")
  /\ UNCHANGED tiers

\* Is there time for the full render?
DecideFullRender ==
  /\ render.pc = "decide"
  /\ IF StopAtPreview(render.request, render.spent)
     THEN render' = [render EXCEPT !.pc = "finish"]
     ELSE StartTier("full")
  /\ UNCHANGED <<demo, library, clock, cancel, tiers, answer, calls>>

\* finishDemoResult: heatmap, encoding and the last look at the cancel flag.
FinishDemoResult ==
  LET r == IF render.tier = "preview" THEN PreviewTierRequest(render.request) ELSE render.request IN
  /\ render.pc = "finish"
  /\ Report
  /\ UNCHANGED <<library, clock, tiers, calls>>
  /\ \/ Ends("failed") /\ UNCHANGED demo
     \/ cancel' /\ Ends("cancelled") /\ UNCHANGED demo
     \/ ~cancel' /\ Returns(render.tier) /\ Store(r, render.tier)

-----------------------------------------------------------------------------
(* runDemoPortalRender: two full binaural responses, no preview. *)

\* renderDemoPortalBRIR has no abort check inside: one step, whatever the mode.
RenderDemoPortalBRIR(next) ==
  /\ Report
  /\ Spend
  /\ UNCHANGED <<demo, library, tiers, calls>>
  /\ \/ Ends("failed")
     \/ cancel' /\ Ends("cancelled")
     \/ ~cancel' /\ render' = [render EXCEPT !.pc = next] /\ UNCHANGED answer

RenderClosed == render.pc = "closed" /\ RenderDemoPortalBRIR("closedDone")
RenderOpen == render.pc = "open" /\ RenderDemoPortalBRIR("openDone")

\* After the closed response the deadline decides whether the open one is
\* rendered or replaced by it.
DecideOpen ==
  /\ render.pc = "closedDone"
  /\ render' = [render EXCEPT !.pc = IF Exceeded THEN "closedOnly" ELSE "open"]
  /\ UNCHANGED <<demo, library, clock, cancel, tiers, answer, calls>>

\* Crossfade, encoding and storing; the cancel flag is not read any more.
FinishPortalRender ==
  /\ render.pc \in {"openDone", "closedOnly"}
  /\ Report
  /\ UNCHANGED <<library, clock, tiers, calls>>
  /\ \/ Ends("failed") /\ UNCHANGED demo
     \/ LET tier == IF render.pc = "openDone" THEN "full" ELSE "closedOnly" IN
        Returns(tier) /\ Store(render.request, tier)

RenderStep ==
  \/ BuildDemoScene \/ StageDone \/ TierDone \/ StageFails \/ StageAborts
  \/ DecideFullRender \/ FinishDemoResult
  \/ RenderClosed \/ DecideOpen \/ RenderOpen \/ FinishPortalRender

DemoNext ==
  \/ \E room \in Rooms : CreateRoom(room)
  \/ \E name \in Names : SetMaterial(name) \/ RefuseMaterial(name)
  \/ \E x \in Points : SetSource(x) \/ SetReceiver(x)
  \/ RejectPayload
  \/ \E payload \in Payloads : BeginRender(payload)
  \/ RenderStep

DemoSpec == DemoInit /\ [][DemoNext]_demoVars

-----------------------------------------------------------------------------
(* Properties. *)

\* "On expiry the demo returns the best tier it has finished instead of an
\* error" (limits.go): once a preview was pushed to the page, running out of
\* time never makes the render fail.
ExpiryHasAnswer == answer.outcome = "deadline" => "preview" \notin tiers

\* A render that does not return a result (rejected, cancelled, failed or out
\* of time) leaves the session as the call found it, whatever it did in between
\* and at whatever stage it stopped: the next call starts from the request of the
\* last result and of the setters.
FailureKeepsSession ==
  [][ answer' # answer /\ answer'.outcome # "result"
        => demo' = (IF render.pc = "idle" THEN demo ELSE render.session) ]_demoVars

\* Within the envelope the reductions of the connected rooms are enough: the
\* loop over the knobs never has to touch an accepted request, so no user
\* loses rays or order to the projection, and the projection fits.
ReducedOnlyByCaps ==
  render.pc # "idle" =>
    LET wanted == Clamped(render.asked.rays, DefaultDemoRequest.rays, MinRays, MaxRays) IN
    /\ EstimateDemoMemoryBytes(render.request) <= EstimateCap
    /\ render.request.rays = IF render.request.portal THEN Min({wanted, MaxPortalRays}) ELSE wanted

\* Both tiers of a render are renderable: the crossover lies inside the
\* response, the preview never costs more than the full render in any knob, the
\* heatmap stays within its probe cap, and the source is inside its room.  The
\* receiver can be outside of its own only in a connected room narrower than the
\* margin, and such a render gets no further than its scene.
TiersRenderable ==
  render.pc # "idle" =>
    LET r == render.request
        p == PreviewTierRequest(r) IN
    /\ \A t \in {r, p} : t.crossover < t.duration
    /\ p.rays <= r.rays /\ p.order <= r.order /\ p.duration <= r.duration
    /\ HeatmapProbes(r) <= 256
    /\ 0 < r.source /\ r.source < r.width /\ 0 < r.receiver
    /\ r.receiver > ReceiverRoomWidth(r) =>
         r.portal /\ r.receiverWidth < 2 /\ render.pc = "scene"

\* The walls of a scene that is being built are in the material library, in
\* whatever order materials were set, refused and overwritten.
WallsKnown == render.pc # "idle" => render.request.west \in library

\* What a render starts from is renderable as it stands: nothing but the caps of
\* the connected rooms was taken from it, both of its tiers make sense, and its
\* walls are in the library.
RequestRenderable == ReducedOnlyByCaps /\ TiersRenderable /\ WallsKnown

-----------------------------------------------------------------------------
(* The inductive invariant. *)

Results == [tier : {"preview", "full", "closedOnly"}, request : RequestType]
DemoSessions == [roomID : Nat, request : RequestType, result : {NoResult} \cup Results]

\* A render that has no tier yet, or never has: the connected rooms.
WholeRenders ==
  [pc : {"scene", "closed", "closedDone", "open", "openDone", "closedOnly"},
   asked : RequestType, request : RequestType, preview : {FALSE}, session : DemoSessions]

TierRenders ==
  [pc : {"mono", "decide", "finish"}, tier : {"preview", "full"}, stage : Nat, spent : Nat,
   asked : RequestType, request : RequestType, preview : BOOLEAN, session : DemoSessions]

Answers ==
  {NoAnswer}
    \cup [outcome : {"rejected", "cancelled", "failed", "deadline"}, call : 0 .. MaxCalls]
    \cup [outcome : {"result"}, tier : {"preview", "full", "closedOnly"}, call : 0 .. MaxCalls]

DemoTypeOK ==
  /\ demo \in DemoSessions /\ library \subseteq Texts
  /\ render \in {NoJob} \cup WholeRenders \cup TierRenders
  /\ clock \in 0 .. Timeout /\ cancel \in BOOLEAN /\ calls \in 0 .. MaxCalls
  /\ tiers \subseteq {"statistical", "preview"}
  /\ answer \in Answers

\* A solver that runs without a preview to fall back on has pushed none.
NoPreviewPushed == render.pc \in {"mono", "decide"} /\ ~render.preview => "preview" \notin tiers

\* An answer is given when the render ends, and withdrawn when the next begins.
AnswerAtEnd == render.pc # "idle" => answer = NoAnswer

\* What a render is given, of what was asked.
Renderable(asked, r) ==
  LET wanted == Clamped(asked.rays, DefaultDemoRequest.rays, MinRays, MaxRays) IN
  /\ EstimateDemoMemoryBytes(r) <= EstimateCap
  /\ r.rays = IF r.portal THEN Min({wanted, MaxPortalRays}) ELSE wanted
  /\ r.crossover < r.duration /\ 25 <= r.duration
  /\ 0 < r.source /\ r.source < r.width /\ 0 < r.receiver
  /\ r.receiver > ReceiverRoomWidth(r) => r.portal /\ r.receiverWidth < 2

\* The session does not change while a render is under way, and what is solved
\* is a scene that was accepted.
RenderInv ==
  /\ render.pc # "idle" => Renderable(render.asked, render.request) /\ render.session = demo
  /\ render.pc \notin {"idle", "scene"} => PositionsInRooms(render.request)

DemoIInv ==
  /\ DemoTypeOK /\ BuiltinMaterials \subseteq library
  /\ NoPreviewPushed /\ AnswerAtEnd /\ ExpiryHasAnswer
  /\ WallsKnown /\ RenderInv
=============================================================================
