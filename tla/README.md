# TLA+ models of algo-acoustics

algo-acoustics computes room impulse responses: image sources, ray tracing, a
wave solver (on the CPU or on a GPU server process), rooms joined by portals,
progressive previews, and a browser demo that renders in a WASM worker and
auralizes the result. This project models what in it depends on control: what
runs concurrently, what is cached and when it is stale, what is cancelled or
fails half way, which of several engines and algorithms gives an answer, and
what must happen in the end. `PROJECT.json` maps every definition to the lines it
models; paths below are relative to the repository root.

## 1. Inventory

| Component | State it keeps | Operations | Interaction |
|---|---|---|---|
| Preview debouncer, `internal/preview/debounce.go` | generation, timer, cancel function | `Trigger`, `Cancel`, the callback `invoke` | client and timer goroutines share it under one mutex; `renderFn` runs outside it |
| Progressive preview, `internal/preview/progressive.go`, `preset.go` | tier reached, rays traced | `RenderProgressive` | is the debouncer's `renderFn`, polls its context |
| GPU client, `gpu/worker` | bounded call queue, closed channel, socket, segments | `AllocGrid`, `UploadFields`, `RunFDTD`, `FreeGrid`, `AllocBVH`, `TraceRays`, `FreeBVH`, `Ping`, `Close` | goroutines enqueue, `loop` alone owns the socket, a context may end each wait |
| GPU server, `gpu/server/server.cu` | grids and BVHs by handle, three fields of a grid | one handler per request | one request, one response |
| Scene graph, `scene/graph*.go`, `scene/hash.go` | portal states, groups in two tables, geometry and BVH caches | `SetPortalState`, `UpdateRoomGroups`, `GroupGeometry`, `GroupBVH` | concurrent readers under a cache mutex; a mutation excludes readers by contract |
| Merged boundary, `scene/graph_geometry.go`, `geometry/face_cut.go` | none | `GroupGeometry` | cuts the open portals out of the walls |
| Response cache, `crossroom/cache.go` | LRU list, entries, byte count | `get`, `put`, `evictLocked` | shared by several renderers |
| Network renderer, `crossroom/network.go`, `paths.go`, `factors.go` | memo of a plan; factor objects reachable from the cache | `SolveEarly`, `RenderMono`, `RenderLateMono`, `RenderBinaural`, `RenderLateBinaural` | renders overlap and exchange factors through the cache |
| Plans, `crossroom/dynamic.go` | plan, scene, signatures | `Prepare`, `Apply`, renders, `PortalCache` | over search, ranking and cache |
| Path search, `scene/path_search.go` | explicit stack, nodes, truncation flag | `SearchPaths` | called by `prepare` |
| Scene, `scene` | the scene | `Validate`, `RoomHash`, `GeometryHash`, marshal, load | input of everything |
| Image sources, `ism` | the cached solver's lists and what they were made from; a stored list | `Solve`, `Invalidate`, `ValidFor`, `Evaluate` | used by the facade, the pipeline, the one-hop renderer and the network |
| Facade, one-hop renderer, pipeline: `renderer*.go`, `crossroom/onehop.go`, `engine.go`, `events.go`, `lowfreq.go`, `internal/pipeline` | none between calls | `Render`, `RenderBinaural`, `SolveEarly` | choose and combine engines |
| Ray tracer, `raytrace` | stack of ray states during a call | `Trace`, `TraceSecondary`, `TraceSurfaces` | feeds the late fields |
| Demo module, `web/wasm` | request of the session, cancel flag, deadline | setters, `createRoom`, `renderScene`, `simulate`, `cancel` | called by the worker; reports progress back into JavaScript |
| Render session, `web/app.js`, `render-worker-controller.mjs`, `worker.js` | session, request number, generation, readiness | render, cancel, worker messages | cancelling is replacing the worker |
| Auralization, `web/app.js`, `auralization-engine.mjs` | version, buffers, decodings, audio graph, timers | play, stop, install after a render | asynchronous functions interleave at every `await` |

The rest (numerical kernels, geometry, signal processing, file formats, tools)
keeps no state between calls; `PROJECT.json` lists each part with the reason it
is left out.

What is hard, and what correct means:

* **Preview.** `timer.Stop` loses races against callbacks that wait for the
  mutex; deferred cleanups run late; a cancel finds a render inside a solver.
  One live render, always cancellable, in order, the latest request served, at
  most one late update.
* **GPU.** A call can be abandoned in the queue, on the wire or while it is
  answered, and the server can die. Answers reach their own call, fields stay
  consecutive, handles are owned, calls and `Close` return.
* **Scene graph.** Long sequences of changes, caches keyed by hashes, concurrent
  builds. Groups are components, cached equals fresh, eviction is exact.
* **Networks.** Factors shared by pointer and filled in later, keys that must
  cover all a factor depends on, changes that fail half way, searches cut at a
  bound. Paths are composed from complete and current factors, a plan is the
  plan of its scene, a missing path is reported.
* **Image sources and engines.** The same sound is computed in several ways
  (closed form and mirroring, cached and fresh, one-hop and network); the ways
  must agree.
* **Ray tracer.** One loop with three strategies, two diffraction models, rain
  and a gate against double counting. Sound arrives on time and once.
* **Web.** Messages of terminated workers, cancels racing results, decodings
  settling out of order, expiry between tiers. No session waits for nothing, a
  failed render leaves the session alone, the latest response plays alone.

The hazards in `PROJECT.json` give the line at which each of these bites and the
properties that cover it.

## 2. Modules

| Module | Models | Extends |
|---|---|---|
| `Debouncer` | `debounce.go` | |
| `Progressive`, `MCProgressive` | `RenderProgressive` inside the debouncer | `Debouncer` |
| `GpuWorker` | Go client and server loop | |
| `SceneGraph`, `MCSceneGraph` | groups, caches, readers | |
| `ResponseCache` | `crossroom/cache.go` | |
| `CrossroomNetwork`, `MCCrossroomNetwork` | renders over a shared cache | `ResponseCache` |
| `PathSearch` | `scene/path_search.go` | |
| `NetworkPlan`, `MCNetworkPlan` | `dynamic.go`, `prepare`, `rankPaths` | `PathSearch` |
| `SceneModel` | scene, validation, hashes, save and load | |
| `ImageSources` | both image source solvers | `SceneModel` |
| `FreshISM` | abstract: a solver without memory | |
| `CachedISM` | `ism/cached_solver.go`; instantiates `FreshISM` | `ImageSources` |
| `Engines` | one-hop renderer, network, low frequencies, facade | `ImageSources` |
| `MergedRooms` | merged boundary of a group | |
| `Library`, `MCLibrary` | a program that uses all of these | `CachedISM`, `Engines`, `MergedRooms` |
| `RayTracer`, `MCRayTracer` | the bounce loop | |
| `DemoRender`, `MCDemoRender` | the WASM module | |
| `RenderPage`, `Auralization`, `WebDemo` | page, workers, audio; joined by the result of a render | |
| `PreviewProofs`, `GpuWorkerProofs`, `SceneGraphProofs`, `CrossroomNetworkProofs`, `NetworkPlanProofs`, `LibraryProofs`, `RayTracerProofs`, `WebDemoProofs` | theorems | the module named; `Progressive`; `WebDemoProofs` also `DemoRender` |

Operators named `Mutant...` are deliberately wrong variants of the definition
that follows them. They are part of no specification; each documents a bug that
a property is able to find.

**Debouncer, Progressive.** A generation names all that one `Trigger` creates:
timer, goroutine, context, render. `Trigger` and `Cancel` are one step (they hold
`d.mu`); the callback is split where the mutex is released. `Progressive`
replaces the abstract `renderFn` by the tiers of `RenderProgressive`, one step
between two looks at the context.

**GpuWorker.** `call[p]` is where a goroutine is in its call (either select of
`do`, or a phase of `Close`), `queue` is `w.queue`, `wire` the socket. `RunFDTD`
is split on the server because it rotates the fields before it opens the result
segment. A grid is the timestep each of its fields holds. Failed allocations,
ending contexts and the death of the server happen wherever the code can meet
them. So do failures of the device: the copies of the fallback without pinned
memory are checked and answered with `STATUS_CUDA`, while the pinned copies and
the launches of a run are not checked and are answered with `STATUS_OK`. The
auxiliary field `silent` of a grid remembers such a failure until the next upload
that succeeds. What a segment holds after one is not modelled.

**SceneGraph.** `UpdateRoomGroups` takes one loop iteration per step; the FIFO of
the search is a set, so every order is explored. Readers look up, build and store
in separate steps, since the code releases the mutex while it builds. A hash is
the record of what it hashes.

**ResponseCache, CrossroomNetwork.** A factor is a pointer; its fields live in
`heap` and are read and written one per step, since no lock is held. The eviction
loop takes one step per entry. A field's value is the receiver it was computed
for.

**PathSearch, NetworkPlan.** The search takes one step per edge, with one action
per outcome (cycle, depth, node and audibility limits, arrival, descent); levels
are whole tens of dB. `Apply` changes the portal, rebuilds and searches, and
rolls back at each point that can fail. Evictions appear as lookups that miss.

**SceneModel, ImageSources, Engines, MergedRooms, Library.** Pure functions of
the scene over exact arithmetic: integer coordinates on two axes (three in
`MergedRooms`), so that the tolerances of the code are zero. An event is its
source, the vector to its image and the surfaces it met. A transmitted event is
its legs, all of which count in its time, phase and pressure, and of these the
legs its `DistanceMeters` and its `Amplitude` count: the last one in the one-hop
renderer, which leaves the first one's pressure to `BandGain` and its way out,
all of them in the network. A rendered field is its engine and the receiver it
was computed for. An aperture of a merged room keeps the portal it belongs to, so
that two doors in one place overlap as in the code.
`Library` is a program that makes the calls in any order; only the cached solver
and one stored list carry state from call to call.

**RayTracer.** The room is left open: each step of a ray may meet any segment,
detector, edge or wall within the bounds, an edge on the ray or at a distance
from it. `travelled`, `offset` and `history` are auxiliary: how far the sound has
really come, how much of that was between a ray and an edge, and what happened to
it.

**DemoRender.** A render is one synchronous call; its steps are the stages
between two progress reports, because a report may set the cancel flag and the
clock advances while a stage runs. Requests are normalised with all limits and
the memory projection. The receiver's room is normalised as the code does it, with
no limits of its own; `validatePositions` refuses a scene whose receiver is outside
it. The auxiliary field `session` of a render is the session the call found.

**RenderPage, Auralization, WebDemo.** A task of the page is one step with the
continuations that run before the next task. A worker is named by the generation
`replace()` drew for it. `awaits` says which task waits for which decoding;
`Quiet` keeps the browser's order.

## 3. Runs

| Run | Instance | Properties |
|---|---|---|
| `preview` | three `Trigger` or `Cancel` calls, four configurations (the draft preset, no or a negative batch size, no rays), three scenes | `LiveIsCancellable`, `StartsInOrder`, `LatestIsRendered`, `OneLateUpdate`, `ImplementsDebouncer` |
| `gpu_worker` | a grid client with contexts that may end, a ray client, a closer; the server may die | `AnswersMatch`, `FieldsInStep`, `HandlesOwned`, `NoDanglingRequest`, `CallsReturnWhileOpen`, `CloseReturns` |
| `gpu_close_pending` (violation) | one call and one `Close` | `EveryCallReturns` |
| `scene_graph` | three rooms, two portals, two materials, two readers, two changes | `GroupsExact`, `GroupTables`, `ReadersFresh`, `EvictionExact` |
| `network` | two overlapping renders, two paths sharing a hop, two receivers, a cache of four units | `ServedComplete`, `ServedForOwnReceiver`, `SimulatedOnce`, `CacheSound`, `RenderEnds` |
| `network_torn` (violation) | two renders of one hop, one of them `RenderBinaural` | `ServedComplete` |
| `network_plan` | four rooms in a ring, five portals, two bands, two sets of limits, three calls | `SearchHonest`, `PlanCurrent`, `FactorsFresh`, `ToggleIsLocal` |
| `web_demo` | three renders, two workers, play and stop at any time | `SessionServed`, `InstallsLatest`, `OneResponseSounds` |
| `demo_render` | three API calls, requests and receiver rooms inside and outside the envelope, stages of any cost | `ExpiryHasAnswer`, `RequestRenderable`, `FailureKeepsSession` |
| `raytrace` | fourteen calls, one ray and all its branches, up to three segments, edges on and off the ray | `EarlyOnlyBehindEdges`, `RainOrRay`, `GateKeepsImagesOut` |
| `raytrace_early` (violation) | the same | `ReflectedWayCounts` |
| `library` | thirteen scenes and four configurations for the solver, halls of one to three rooms for the engines, 43 buildings | `ImplementsFresh`, `SolversAgree`, `EnginesAgree`, `RenderSound`, `StoredServes`, `SaveLoadKeeps`, `MergedSound` |

Each property is stated in words in front of its definition. Three kinds carry
most of the weight:

* **Refinements.** `ImplementsDebouncer`: the debouncer with the real progressive
  render still is the debouncer, its fairness included, so the assumption that
  `renderFn` returns is discharged for every accepted configuration.
  `ImplementsFresh`: the cached solver is a solver without memory.
* **Two algorithms, one answer.** `SolversAgree` (closed-form images against
  mirrored meshes), `EnginesAgree` (one-hop against network), `SearchHonest` (the
  bounded search against the set of simple paths), `PlanCurrent` (the plan after
  any history against a fresh one), `MergedSound` (cut walls against the boundary
  of the union of the boxes), `GroupsExact` (breadth-first search against
  components). `SolversAgree` is about rooms at the origin and images within the
  reach of the mesh solver. `EnginesAgree` compares events in everything but
  `DistanceMeters`, in which the engines do differ (section 5).
* **Progress.** `LatestIsRendered`, `CallsReturnWhileOpen`, `CloseReturns` and
  `RenderEnds` are temporal; `SessionServed` states progress as an invariant:
  somebody always works on what ends a session.

### Bounds and why they are enough

* Preview: the races involve a superseded callback, its successor and a late
  cleanup, three generations; the theorems remove the bounds.
* GPU: two clients of different kinds, three grid and two ray calls, two objects,
  a queue of one. An abandoned call, its successor and a call of the other client
  suffice for an answer or a segment to be confused; the queue fills up. The
  allocator returns the lowest free address, so that addresses are reused at
  once. Any copy and any run may fail on the device, in silence or not. The owner of a grid client defers `Close` to its end, as callers in the
  repository do; the ray client may be hit by `Close` anywhere. The theorems
  remove these bounds for the four invariants.
* Scene graph: every portal leads to room 1 (side by side or in a chain), all
  open or all closed at first, so both changes touch one group. Portals and
  readers are interchangeable, which makes the symmetry sound; no liveness is
  checked there. The theorems cover all four properties for every graph.
* Network: both paths share `h3`; the cache is smaller than all factors and one
  factor is larger than it, so it evicts under a render in progress. `Exclusive`
  excludes the situation `network_torn` shows. `OwnReceiver` excludes the binaural
  call for a foreign receiver of section 5, so `ServedForOwnReceiver` shows that
  the key separates the receivers of different scenes, and nothing about that call. The theorems remove the bounds for all but `RenderEnds`.
* Plans: a ring has two ways around, cycles and, with a parallel portal, two
  paths over the same rooms; one set of limits cuts nothing, the other cuts at
  depth, nodes, floor and path count. Three calls allow a change, its failure or
  reversal, and a render. The theorems remove the bounds for all four properties.
* Web: three renders are the fewest for two crossfades to overlap in one
  playback; two workers give one cancellation with a stale worker. The theorems
  remove both bounds.
* Demo: a stage may take nothing, some or all of the time left; payloads lie
  below, at and above each limit, receiver rooms also below two margins, where
  the clamp of the receiver turns around. `MaxTurns` bounds the loop over the knobs, which
  needs at most 27 turns. The theorems remove the bounds for all three properties.
* Ray tracer: two bounces after an edge or a wall are enough for every pair of
  counters to be out of step. An edge lies on the ray or one unit off it, enough
  for a way that lacks it to be told from one that does not. The theorems remove the bounds.
* Library: scenes differ pairwise in one thing a cache key has to notice (room
  size, source, number of sources, faces edited in place, mesh identity,
  material, order, speed).

`CHECK_DEADLOCK FALSE` is set where the system may stop because its clients make
no more calls.

### Fairness

* Preview: each callback and each render that can step does: the runtime fires
  timers and schedules goroutines, and a solver call ends. Clients are under no
  fairness.
* GPU: weak fairness of `loop`, of the server, and of each process where it is
  able to run. The contexts of clients need never end; that of `Close` expires
  after 3 s.
* Network: a call that has begun and the eviction loop go on; the mutex is held
  only across steps that end.
* Elsewhere none: those specifications are checked for safety only.

## 4. Disagreements between the code and its comments

1. `gpu_close_pending`: `do` "blocks until the response arrives"
   (`gpu/worker/worker.go:117`), but a call queued when `loop` picks `w.closed`
   is never answered.
2. `network_torn`: "a stored factor must never be written through"
   (`crossroom/paths.go:53`), but `RenderBinaural` fills in its late pass the
   object its early pass has put in the cache; a concurrent render may copy it
   before and read its needs after that write, and drops the path.
3. `raytrace_early`: a ray "carries its complete propagation state"
   (`docs/raven.md:563`), but the bounce loop advances local variables and the
   diffraction code reads the state the ray was launched with: sound reflected
   before it meets an edge is deposited too early. This is one of two ways for a
   deposit to come at the wrong time; the other is in section 5.

## 5. Observations

Met while modelling; no run is devoted to them. The first of *Preview and GPU*, of
*Ray tracer* and of *Demo* are part of the models, and the properties named there
say how far their effect goes.

*Preview and GPU.* `handle_upload_fields` does not look at the results of its
pinned copies (`server.cu:247-250`), nor `handle_run_fdtd` at those of its launches
(`server.cu:310-326`): both answer `STATUS_OK` after a failure, although
`docs/gpu-deployment.md:83` says that `IsGPUError` "detects runtime GPU failures
(OOM, kernel crash)". The client goes on with fields that are not there.
`FieldsInStep` excepts these grids until their next successful upload, and shows
that nothing else puts client and fields out of step. A second `Close` panics on `close(w.closed)`
(`worker.go:107`). Two `Start`s of one process share a socket path
(`worker.go:58`). The server is killed when the context of `Start` ends, although
`worker.go:46` speaks of the initial connection only. No handler answers
`STATUS_BAD_HANDLE`.

*Scene.* Opening a portal between shoebox rooms whose touching walls differ in
outline is refused ("group boundary is not closed", `graph_geometry.go:125`): the
grid cut into the wall subdivides its rim while the adjoining walls keep whole
edges. The authoring rules of `docs/scene-graph.md:53` do not mention it.
`RoomGroupHash` hashes names of materials, not values. For meshes
`portalOnRoomBoundary` accepts any coplanar triangle. A material with a nonzero
fixed scattering and an all-zero list by band comes back from JSON with nonzero
values (`material.go:45-51`, `81-84`; the exception `ShadowedScattering` of
`SaveLoadKeeps`). A scene with both `room` and `rooms`, which is invalid, is valid
after a save and a load. The number of scattering bands is not validated.

*Image sources.* `GenerateImageSources` ignores the origin of the shoebox, and
`Validate` accepts a nonzero origin in a scene of one room. `reflectionPath` drops
images whose wall crossings coincide. The direct event is never tested for
occlusion in a mesh room.

*Multi-room.* The receiver given to `RenderBinaural` is not part of `endpointHash`
(`network.go:374`; the model shows the effect with `OwnReceiver = FALSE`). The
histograms of directivity groups are not counted in the cache budget
(`cache.go:189`). Two renders that miss the same key may replace a fuller entry
(`paths.go:77`), which costs a simulation. A door that blocks every band is
silence for the one-hop renderer and an error for the network. The depth limit
defaults to 4 in the network and 6 in the search; `prepare` never sets
`MaxNodes`. `LowFreqScene` reads its gain from the path with the most energy over
all bands, so a path strong only in high bands can silence the low-frequency
field. `DistanceMeters` of a one-hop event is the length of its last leg although
its time covers both (`secondary.go:63-66`); the network adds the legs
(`events.go:99`). `network_test.go:85-92` describes the difference and calls the
field export metadata. `hybrid/portal.go` says that a fully open portal returns an exact copy of
the merged response; the code returns its all-passed form. `crossroom/engine.go:21`
says the tools use `EarlyEngine` for event dumps; `dump_events.go` calls
`ISMSolver`.

*Ray tracer.* What an edge sends out starts on the edge (`diffraction_spawn.go:82`,
`diffracted_rain.go:97`) with the distance along the ray (`diffraction_spawn.go:87`,
`diffracted_rain.go:94`); the way from the ray to the edge, up to several
wavelengths, is never added. `EarlyOnlyBehindEdges` shows that a deposit without a
reflection before an edge is early by exactly these offsets, and one without an
edge is on time. Survivors of the roulette are scaled to exactly the threshold and
then dropped when they are popped. The deterministic blend marks a ray as covered
by rain at a wall without scattering. A deposit exactly at `MaxTimeSeconds` passes
the callers' test and is dropped by `Add`. `PathCache.ValidFor` ignores the
`MaxBounces` and `MaxPathLength` it stores.

*Demo.* The dimensions of the receiver room are only made positive
(`render.go:847-855`), although `docs/web-demo-limits.md:40` and `limits.go:91` bound
every room to 2–50 m. A room narrower than two margins is refused with its scene,
since the receiver is outside it (`RequestRenderable`); any other is rendered. After a timeout the session keeps the request of the preview tier
(`render.go:573`). The last abort check of `renderDemoMono` discards a finished
buffer. A response
decoded while playback starts is not replaced by that of a render that finishes
meanwhile (`app.js:1306`; `late` excepts it from `InstallsLatest`). The 120 ms
timer of one installation clears the error status of a later one (`app.js:1273`).
A task that waits for portal responses dereferences null after a render without
them (`app.js:1223`). `setPortalResponses` with an ended source leaves the
branches (`auralization-engine.mjs:156`).

## 6. Theorems

Assumptions are the `ASSUME`s of the modules and nothing else; TLC evaluates them
in the runs.

* **`DebouncerSafe`**: `Spec => [](TypeOK /\ LiveIsCancellable /\
  SingleLiveRender)` for every number of calls. `SingleLiveRender` is not
  inductive: a stale callback could start beside a live one. `IInv` adds that
  `d.cancelFn` and `d.timer` are nil or of the current generation, that
  generations not drawn yet are untouched, and that a current callback that has
  not rendered has a live context. Two live renders would both have to be
  `d.cancelFn`.
* **`DebouncerStartsInOrder`**: `Spec => StartsInOrder`, from the same `IInv`: a
  render starts only from `"fired"` with the current generation, all later
  generations are unused, and its context is live.
* **`PreviewRefinesDebouncer`**: `PreviewSpec => Init /\ [][Next]_vars`, the safety
  half of `ImplementsDebouncer`, so that all of the above holds with
  `RenderProgressive` as the `renderFn`. **`CancelledRenderEnds`**: `OneLateUpdate` and
  `LiveIsCancellable` for every configuration, number of rays and batch size.
  `PreviewIInv` adds to `IInv` that a render exists exactly while its callback is inside
  `renderFn`, and that one that has delivered late is in no solver: the next look at the
  context ends it.
* **`GroupsAreComponents`**, **`GroupTablesAgree`**: for every number of rooms and
  every set of portals, the published groups are exactly the components of the
  open portals, and the two tables agree and are numbered by lowest room. `IInv`
  describes both loops: between groups (`ScanInv`) every group found is closed
  under open portals; inside a group (`BfsInv`) only rooms still queued may have
  ungrouped neighbours; in both (`SearchCommon`) a closed set that holds a member
  holds the group, which is minimality without paths. `NeighboursSymmetric`: an
  open portal leads both ways.
* **`ReadersAreFresh`**, **`EvictionIsExact`**: for every number of rooms, portals,
  readers and changes, a reader returns the geometry a fresh build would give, and
  a change leaves in the caches what present groups use, keeping every geometry
  whose rooms and portals are as they were. `CacheIInv` adds `CachesInv`: an entry is
  what its key says (`GeometryOf`), and its key is the hash of a set of rooms that
  was a component at the portal states the key records (`KeyOfGroup`). The first
  half makes entries of past scenes safe to return and two builds of one key
  harmless; the second is why an unchanged entry survives: if the states are back
  to what the key records, its rooms are a component again, hence a group
  (`GroupsAreComponents`). `ReadersInv` says that readers run between two changes.
* **`HopsSimulatedOnce`**, **`FactorsForOwnReceiver`**, **`PathsServedComplete`**: for
  every set of renders, hops, paths and cache sizes, a render simulates each half
  of a hop at most once; the factors at the end of a path were computed for the
  receiver of the call (under `OwnReceiver`); and a path is composed from factors
  that carry all its pass needs (under `Exclusive` and `OwnReceiver`; without
  `Exclusive` the statement is false, see `network_torn`). `NetworkIInv` goes by the
  creator of an object: a call writes only objects of its own, and what it finds in
  the cache was stored in the memo of a call with the same endpoint (`NamesInv`);
  what has been simulated is recorded where the next pass looks (`SimulationInv`);
  methods of one pass never come back to an object they have published
  (`OnePassOf`), so a clone in progress agrees with its original (`FilledOf`). The
  byte count and the order of eviction are not used: any lookup may miss.
* **`CacheIsSound`**: for every set of renders and every budget, the list and the map
  of the response cache hold the same keys, `c.bytes` is the sum of the sizes of its
  entries, and whoever takes the mutex finds it within the budget. `CacheIInv` adds that
  the entries are finitely many and that an absent key has no size. What
  `MapThenSumSet` computes is recursive: `TableExists` and `TablesAgree` show that it is
  defined and does not depend on the set it is started from, `SumTakesOut` that any
  element may be taken out first, each by a smallest set for which it would be wrong.
  `EvictionFindsAnEntry`: the early return of `evictLocked` is never taken.
* **`FactorsAreFresh`**, **`PlansAreCurrent`**, **`TogglesAreLocal`**: for every graph
  of rooms and portals, every number of calls and every limit of the search, a factor
  that a plan renders with was simulated for the groups and the portal states it
  renders; between two calls the plan is the plan of its scene; a change gives two
  groups at most a new signature, both at the portal. `PlanIInv` says which states each
  plan was made for (`PlansInv`): `p.plan` for those of the scene, while `Apply` runs for
  those the roll back would restore; the plan of a render for those it prepared. A
  response found in the cache may come from a plan long replaced, under group numbers
  that mean nothing now; `CacheInv` with `KeyTellsFactor` says why it may be used: its
  key holds all that `solveHop` reads, since an open portal inside a group is one of
  those `RoomGroupHash` covers. A group is the least set of rooms closed under open
  portals (`WithinIsLeast`), so a set away from the changed portal that is closed before
  is closed after it (`AwayFromPortal`) and at most the two groups at its ends are new.
  That the paths of a new plan are what they should be (`NewPathsFor`) follows from the
  search, from `NodeLoss` (a node carries the loss of its path, although the code cuts
  every sum off at an opaque band) and `RankedIs` (`Sorted` under an order that is total
  holds every leaf once and puts no weaker one first, `Lines`).
* **`SearchIsHonest`**: for every graph, portal state, loss and limit, a search that is
  over has found every simple path at most once, only simple paths, and is marked as
  truncated exactly when one is missing. `SearchInv` is the invariant of the explicit
  stack: a node hangs on an edge of its parent that was tried and leads to a group that
  is not on its way (`NodesInv`); the stack is the way to its top, its cursors say what
  was tried and `onPath` are its groups (`StackInv`); the mark is set exactly if an edge
  that was tried and closes no cycle has no child (`TruncationInv`). At the end every
  edge of every node was tried, so that a path of k portals is found if its first k - 1
  are (`AllFound`); conversely the edge at which the tree was cut is a simple path no
  node stands for (`OneMissed`), short enough to be among those of the reference since a
  path without repetition visits at most as many groups as there are (`ShortPaths`).
  The numbering of groups, edges and nodes enters only through `Lines`.
* **`GpuInvariant`** and with it **`AnswersAreForTheCall`**,
  **`RequestsNameLiveObjects`**, **`NothingLeaksUnlessAbandoned`** and
  **`RunsContinueInStep`**: for every set of clients and closers, every queue
  length, every number of calls and of timesteps, with contexts that end and a
  server that dies anywhere. None of the four is inductive. `GpuIInv` adds
  * `WireInv`: one frame at a time; between two calls of `loop` the socket is empty,
    so the answer that is read is that of the request that was sent;
  * `SentInv`: what waits or travels carries the number of a call of its sender and
    at most the current one, so an abandoned call is told from its successor;
  * `CallOf`: the phases of a call; in the end phases of `Close` the worker is
    closed;
  * `AnswerOf`: an answer is for the present call, and says that it failed on the
    socket only if the worker is closed or the server is gone;
  * `HandleInv`: an address has one owner and a request on its way names an object
    that lives, because a free of it can neither precede nor overtake it;
  * `LeakOf`: an object that is alive is held by its client, is being handed to it
    or freed by it, or its client lost it by abandoning a call;
  * `FieldsOf`: the three fields of a grid hold consecutive timesteps, and the
    client knows which one as long as no answer is missing, or the device has failed
    without one; a silent grid stays silent until it is uploaded again. What the time march
    does to them is proved by taking a smallest number of steps for which it would
    be wrong (`Smallest`, from `WFMin`), which needs no operator as a parameter.
* **`NoSessionWaitsForNothing`**, **`OneResponseIsHeard`**,
  **`LatestResponseIsInstalled`**: for every number of renders, workers, plays and
  decodings, in any order of promises and timers, a session that waits has somebody
  working on its end, an engine without a crossfade sounds exactly its response,
  and what is installed is the latest response unless it is being replaced or could
  not be decoded. `PageIInv` lists the shapes the page's worker can have, from
  loading to the last message of a render (`Loads`, `Rests`, `Renders`, `Rendered`):
  what the page still has to receive is exactly what ends the session, and messages
  of replaced workers cannot touch it. `AudioIInv` says that a promise settles once
  and for its own task (`AwaitsInv`), that a task that passed the version check holds
  buffers of the current version until its next `await` (`TasksInv`), that only what
  the armed timer will remove sounds beside the response (`EngineInv`), and that a
  response that is behind has a task on its way or one that failed (`LatestInv`).
* **`DepositsArriveInTime`**, **`ScatteredEnergyCountsOnce`**, **`ImagesCountOnce`**:
  for every room, set of calls, number of rays, bounces and branches, and every limit
  of the hybrid gate. None of the three says what a ray carries from step to step;
  `RayIInv` does: the counters of a ray are the numbers of walls before and behind its
  first edge and of edges in its history (`Counted`); a path and the offsets of its
  edges are what the sound has travelled, or less where a wall comes before an edge
  (`Timed`); a ray that leaves a
  wall that rained is marked (`Marked`); and the state the loop was given keeps the
  path of the launch, which equals the loop's until the first wall (`LoopInv`), the
  reason why only sound reflected before an edge lacks more than its offsets. `DapdfForward` is recursive;
  `ForwardLengths` gives it a closed form (`Ways`, over chains of edges) and takes a
  smallest depth at which it would return no length.
* **`CachedSolverIsFresh`**: `Spec => ImplementsFresh`, the refinement itself, for
  every set of scenes and configurations, the only assumption being that the
  sources of a scene are a list. The invariant is `MemoryOfOneCall`: what the
  solver keeps is what one accepted call from nothing would have left. It is
  needed because a list is reused for the current scene although it was made for
  another; `HashTellsRooms` shows that `RoomHash` of accepted scenes determines
  all that lists and planes are generated from (kind, dimensions, faces), and
  `KeptShoeboxIsFresh`, `KeptPlanesAreFresh` and `KeptMeshIsFresh` that every
  reused list or plane map is the one that would be generated. Collisions of the
  64-bit hash are outside the model.
* **`StoredListServes`**: `LibrarySpec => []StoredServes`, for every set of scenes and
  configurations. `StoredInv` remembers of a stored list, and of an answer made from
  one, the accepted call that generated it; `HashTellsLists` shows that
  `GeometryHash` of an accepted scene determines the lists of a fresh solve.

* **`ExpiryAnswers`**, **`RequestsAreRenderable`**, **`FailuresKeepTheSession`**: for
  every set of payloads, rooms, positions, meshes within the triangle limit of the code
  and stage costs, a render that runs out of time after its preview was pushed still
  answers; what a render starts from fits the memory projection, with nothing but the
  caps of the connected rooms taken from it, and once its scene is accepted source and
  receiver lie each in their own room; and a render without a result leaves the
  session it found, compared at the two ends of the call and not step by step.
  `DemoIInv` adds that the session stays as it was found while a render runs and that
  only accepted scenes are solved (`RenderInv`), that a tier in progress with no preview to
  fall back on has pushed none (`NoPreviewPushed`), and that no answer stands while a
  render runs (`AnswerAtEnd`). That the projection fits is arithmetic at the corner of
  the envelope (`RoomFits` at order 12, `PortalFits` at order 5, from
  `ImagesBounded`), so the loop over the knobs ends before its first turn
  (`BudgetTakesCapsOnly`). The assumption on the size of a mesh is the value of
  `maxDemoMeshTriangles`.

Only model-checked: liveness and its fairness (out of the prover's reach), and everything
computed by recursion or counting over a list and compared with a reference
(`SolversAgree`, `EnginesAgree`, `RenderSound`, `SaveLoadKeeps`, `MergedSound`).

## 7. Not modelled

* Numbers: pressures, energies, gains, filters, durations. A field, an event or a
  factor is what it was computed from and for. Floating-point tolerances are zero
  on integer coordinates. Hash collisions.
* Edge diffraction in the image source method; in the ray tracer it is modelled
  as control.
* Mesh rooms in a merged group; networks with open portals in `Engines`
  (`NetworkPlan` and `MergedRooms` have them).
* The connection phase of the GPU client, the texts, percentages and badges of
  the page, `setPortalAperture`, the offline export, the delay of the natural stop.
* `invalidateSignature`, which only tests call.
* The components marked `not_modelled` in `PROJECT.json`: they keep no state and
  their correctness is numerical, so TLC has nothing to explore in them.

## 8. Open

Models: the start of the GPU client joined with `GpuWorker`, and `DemoRender`
joined with `RenderPage`.
