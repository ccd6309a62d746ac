----------------------------- MODULE NetworkPlan -----------------------------
(***************************************************************************)
(* Prepared multi-room renders that survive portal toggles: Plan and       *)
(* PortalCache of crossroom/dynamic.go over prepare and rankPaths of       *)
(* crossroom/network.go, the path search and the response cache.           *)
(*                                                                         *)
(* A plan is used by one goroutine.  A call runs in steps: the portal      *)
(* change, the graph, the path search edge by edge, the ranking, and for a *)
(* render one step per hop.  A simulated factor is what it was simulated   *)
(* from.  The response cache may have evicted any entry, so a lookup of a  *)
(* stored key may miss; ResponseCache and CrossroomNetwork have the rest.  *)
(***************************************************************************)
EXTENDS PathSearch

CONSTANTS
  Scenes,       \* the portal states a scene is given with
  NoPlan,       \* the nil *Plan
  MaxCalls      \* bound on the calls after Prepare

\* The state of a portal is a string, known or not.
States == {"open", "closed", "ajar"}

ASSUME PlanAssumption == Scenes \subseteq [Portals -> States]

VARIABLES
  scene,     \* the portal states of p.scene
  plan,      \* p.plan with its signatures
  inner,     \* the pathPlan of the call that is running, when it is not p.plan
  cache,     \* the responses in the renderer's cache
  call,      \* the call that is running and where it is
  calls      \* calls made so far

planVars == <<state, limits, search, scene, plan, inner, cache, call, calls>>

Idle == [op |-> "none", at |-> "idle"]

-----------------------------------------------------------------------------
(* Signatures, keys and factors. *)

Incident(rooms) == {p \in Portals : Range(Ends[p]) \cap rooms # {}}

MutantGroupSignature(rooms, st) ==     \* every portal of the scene is hashed
  [rooms |-> rooms, portals |-> {<<p, st[p]>> : p \in Portals}]

\* GroupSignature: the hash of the rooms and of the portals on them.
GroupSignature(rooms, st) ==
  [rooms |-> rooms, portals |-> {<<p, st[p]>> : p \in Incident(rooms)}]

\* GroupSignatures of a graph, by group number.
GroupSignatures(groups, st) == [g \in DOMAIN groups |-> GroupSignature(groups[g], st)]

\* hopKeyAt: group number, entry and exit portal, 0 for the real endpoints.
HopKeyAt(path, i) ==
  [group |-> path.groups[i],
   entry |-> IF i > 1 THEN path.portals[i - 1] ELSE 0,
   exit |-> IF i < Len(path.groups) THEN path.portals[i] ELSE 0]

\* solveHop on GroupScene: the merged rooms with the open portals between them.
SolveHop(key, groups, st) ==
  LET rooms == groups[key.group] IN
  [rooms |-> rooms, entry |-> key.entry, exit |-> key.exit,
   apertures |-> {p \in Portals : st[p] = "open" /\ Range(Ends[p]) \subseteq rooms}]

\* groupResponseKey; the endpoint and the configuration are the plan's own.
GroupResponseKey(key, groups, st) ==
  [signature |-> GroupSignature(groups[key.group], st),
   entry |-> key.entry, exit |-> key.exit]

-----------------------------------------------------------------------------
(* prepare. *)

\* pathEnergy, the sum over the bands, in units of the smallest transmission.
PathEnergy(loss) ==
  LET Power[k \in 0 .. Opaque] == IF k = 0 THEN 1 ELSE 10 * Power[k - 1]
      Total[b \in 0 .. NumBands] ==
        IF b = 0 THEN 0
        ELSE Total[b - 1] + (IF loss[b] = Opaque THEN 0 ELSE Power[Opaque - loss[b]])
  IN Total[NumBands]

Leaves == {n \in DOMAIN search.nodes : Node(n).group = GroupOf(ReceiverRoom, search.groups)}

\* The leaves in the receiver's group, strongest first, ties in search order.
Ranked ==
  Sorted(Leaves, LAMBDA a, b :
    LET ea == PathEnergy(Node(a).loss)
        eb == PathEnergy(Node(b).loss) IN ea > eb \/ (ea = eb /\ a < b))

PathOf(n) ==
  [groups |-> [i \in DOMAIN PathTo(n) |-> Node(PathTo(n)[i]).group],
   portals |-> PortalSequence(n), energy |-> PathEnergy(Node(n).loss)]

\* rankPaths: the first MaxPaths of them, 32 when it is not set.
RankPaths ==
  LET kept == SubSeq(Ranked, 1, Min({Len(Ranked), Default(limits.maxPaths, 32)})) IN
  [i \in DOMAIN kept |-> PathOf(kept[i])]

\* The pathPlan prepare returns, with its truncation report.
NewPathPlan ==
  [groups |-> search.groups, paths |-> RankPaths, factors |-> {},
   signatures |-> GroupSignatures(search.groups, state),
   searchTruncated |-> search.truncated, found |-> Cardinality(Leaves)]

Truncated(p) == p.searchTruncated \/ Len(p.paths) < p.found

\* NewAcousticSceneGraph validates the scene, portal states included.
ValidStates(st) == \A p \in Portals : st[p] \in {"open", "closed"}

StartSearch ==
  /\ call.at = "prepare" /\ ValidStates(state)
  /\ search' = NewSearch(state)
  /\ call' = [call EXCEPT !.at = "search"]
  /\ UNCHANGED <<state, limits, scene, plan, inner, cache, calls>>

SearchStep ==
  /\ call.at = "search"
  /\ ExpandPaths
  /\ UNCHANGED <<state, limits, scene, plan, inner, cache, call, calls>>

Prepared == call.at = "search" /\ search.stack = <<>> /\ Leaves # {}
PrepareFailed ==
  \/ call.at = "prepare" /\ ~ValidStates(state)
  \/ call.at = "search" /\ search.stack = <<>> /\ Leaves = {}

-----------------------------------------------------------------------------
(* The calls. *)

\* maxPathHops and bandFloorDB, the limits prepare hands to the search; it
\* leaves MaxNodes to the search's default, which an instance scales down.
SearchLimits(l) == [l EXCEPT !.maxDepth = Default(@, 4), !.floor = Default(@, 6)]

PlanInit ==
  /\ scene \in Scenes /\ state = scene
  /\ limits \in {SearchLimits(l) : l \in Limits}
  /\ search = NoSearch
  /\ plan = NoPlan /\ inner = NoPlan /\ cache = {}
  /\ call = [op |-> "Prepare", at |-> "prepare"]
  /\ calls = 0

Called(op) == calls < MaxCalls /\ call = Idle /\ plan # NoPlan /\ calls' = calls + 1

\* Network.Prepare returns the plan, or an error and no plan.
Prepare ==
  /\ call.op = "Prepare" /\ (Prepared \/ PrepareFailed)
  /\ plan' = IF Prepared THEN NewPathPlan ELSE NoPlan
  /\ search' = NoSearch
  /\ call' = Idle
  /\ UNCHANGED <<state, limits, scene, inner, cache, calls>>

\* EffectiveState: a partly open portal keeps the closed topology.  The
\* aperture is in percent.
EffectiveState(s, aperture) == IF s = "open" /\ aperture < 100 THEN "closed" ELSE s

\* Apply up to its call of prepare; an index out of range changes nothing.
Apply(p, s, aperture) ==
  /\ Called("Apply")
  /\ scene' = [scene EXCEPT ![p] = EffectiveState(s, aperture)]
  /\ state' = scene'
  /\ call' = [op |-> "Apply", at |-> "prepare", portal |-> p, restore |-> scene[p]]
  /\ UNCHANGED <<limits, search, plan, inner, cache>>

MutantApplyFails ==         \* the new state stays in the scene
  /\ call.op = "Apply" /\ PrepareFailed
  /\ search' = NoSearch
  /\ call' = Idle
  /\ UNCHANGED <<state, limits, scene, plan, inner, cache, calls>>

\* prepare failed: the old state goes back into the scene of the old plan.
ApplyFails ==
  /\ call.op = "Apply" /\ PrepareFailed
  /\ scene' = [scene EXCEPT ![call.portal] = call.restore] /\ state' = scene'
  /\ search' = NoSearch
  /\ call' = Idle
  /\ UNCHANGED <<limits, plan, inner, cache, calls>>

MutantApplied ==            \* the new plan takes over the factors of the old one
  /\ call.op = "Apply" /\ Prepared
  /\ plan' = [NewPathPlan EXCEPT !.factors = plan.factors]
  /\ search' = NoSearch
  /\ call' = Idle
  /\ UNCHANGED <<state, limits, scene, inner, cache, calls>>

\* The new plan and its signatures replace the old ones.
Applied ==
  /\ call.op = "Apply" /\ Prepared
  /\ plan' = NewPathPlan
  /\ search' = NoSearch
  /\ call' = Idle
  /\ UNCHANGED <<state, limits, scene, inner, cache, calls>>

\* Plan.RenderMono renders p.plan.
RenderMono ==
  /\ Called("RenderMono")
  /\ call' = [op |-> "RenderMono", at |-> "hop", path |-> 1, hop |-> 1]
  /\ UNCHANGED <<state, limits, search, scene, plan, inner, cache>>

\* Plan.RenderBinaural prepares p.scene again.
RenderBinaural ==
  /\ Called("RenderBinaural")
  /\ state' = scene
  /\ call' = [op |-> "RenderBinaural", at |-> "prepare"]
  /\ UNCHANGED <<limits, search, scene, plan, inner, cache>>

\* The states PortalCache renders: closed, all-pass (closed and transparent,
\* which no signature and no topology tells from closed) and merged.
PortalStates == <<"closed", "closed", "open">>

\* renderPortalState on a clone of the scene.
PortalCache(p) ==
  /\ Called("PortalCache")
  /\ state' = [scene EXCEPT ![p] = PortalStates[1]]
  /\ call' = [op |-> "PortalCache", at |-> "prepare", portal |-> p, number |-> 1]
  /\ UNCHANGED <<limits, search, scene, plan, inner, cache>>

\* A render prepared a plan of its own.
StartHops ==
  /\ call.op \in {"RenderBinaural", "PortalCache"} /\ Prepared
  /\ inner' = NewPathPlan
  /\ search' = NoSearch
  /\ call' = [x \in DOMAIN call \cup {"path", "hop"} |->
                CASE x = "at" -> "hop" [] x \in {"path", "hop"} -> 1 [] OTHER -> call[x]]
  /\ UNCHANGED <<state, limits, scene, plan, cache, calls>>

\* prepare or a solver failed: the render returns the error.
RenderFails ==
  /\ \/ call.op \in {"RenderBinaural", "PortalCache"} /\ PrepareFailed
     \/ call.at = "hop"
  /\ search' = NoSearch /\ inner' = NoPlan /\ state' = scene
  /\ call' = Idle
  /\ UNCHANGED <<limits, scene, plan, cache, calls>>

-----------------------------------------------------------------------------
(* renderPathFactors, hop by hop. *)

Rendered == IF call.op = "RenderMono" THEN plan ELSE inner
CurrentPath == Rendered.paths[call.path]
HopKey == HopKeyAt(CurrentPath, call.hop)
Memo(key) == {f \in Rendered.factors : f.key = key}
Stored == {e \in cache : e.key = GroupResponseKey(HopKey, Rendered.groups, state)}

\* Where the render goes after a hop: the next hop, the next path, the next
\* portal state of a PortalCache, or its return.
NextHop ==
  /\ call.hop < Len(CurrentPath.groups)
  /\ call' = [call EXCEPT !.hop = @ + 1]
  /\ UNCHANGED state

NextPath ==
  /\ call.hop = Len(CurrentPath.groups) /\ call.path < Len(Rendered.paths)
  /\ call' = [call EXCEPT !.path = @ + 1, !.hop = 1]
  /\ UNCHANGED state

LastHop == call.hop = Len(CurrentPath.groups) /\ call.path = Len(Rendered.paths)

NextPortalState ==
  /\ LastHop /\ call.op = "PortalCache" /\ call.number < 3
  /\ state' = [scene EXCEPT ![call.portal] = PortalStates[call.number + 1]]
  /\ call' = [op |-> "PortalCache", at |-> "prepare", portal |-> call.portal,
              number |-> call.number + 1]

RenderReturns ==
  /\ LastHop
  /\ call.op = "PortalCache" => call.number = 3
  /\ call' = Idle /\ state' = scene

Advance == NextHop \/ NextPath \/ NextPortalState \/ RenderReturns

\* storeFactor in the pathPlan that is rendered.
StoreFactor(factor) ==
  LET With(p) == [p EXCEPT !.factors = (@ \ Memo(HopKey)) \cup {[key |-> HopKey, factor |-> factor]}] IN
  IF call.op = "RenderMono" THEN plan' = With(plan) /\ UNCHANGED inner
  ELSE inner' = With(inner) /\ UNCHANGED plan

HopFromMemo ==
  /\ call.at = "hop" /\ Memo(HopKey) # {}
  /\ Advance
  /\ UNCHANGED <<limits, search, scene, plan, inner, cache, calls>>

HopFromCache ==
  /\ call.at = "hop" /\ Memo(HopKey) = {}
  /\ \E e \in Stored : StoreFactor(e.factor)
  /\ Advance
  /\ UNCHANGED <<limits, search, scene, cache, calls>>

\* The entry is absent or was evicted: the hop is simulated and put.
HopSimulated ==
  /\ call.at = "hop" /\ Memo(HopKey) = {}
  /\ StoreFactor(SolveHop(HopKey, Rendered.groups, state))
  /\ cache' = (cache \ Stored) \cup
       {[key |-> GroupResponseKey(HopKey, Rendered.groups, state), factor |-> SolveHop(HopKey, Rendered.groups, state)]}
  /\ Advance
  /\ UNCHANGED <<limits, search, scene, calls>>

PlanNext ==
  \/ StartSearch \/ SearchStep
  \/ Prepare \/ ApplyFails \/ Applied
  \/ \E p \in Portals, s \in States, a \in {50, 100} : Apply(p, s, a)
  \/ RenderMono \/ RenderBinaural \/ (\E p \in Portals : PortalCache(p))
  \/ StartHops \/ RenderFails
  \/ HopFromMemo \/ HopFromCache \/ HopSimulated

PlanSpec == PlanInit /\ [][PlanNext]_planVars

-----------------------------------------------------------------------------
(* Properties. *)

\* The paths of a plan for portal states and limits: audible simple paths to the
\* receiver, the strongest ones, all of them unless the plan reports truncation.
PathsFor(p, st, l) ==
  LET reach == SimplePathsToReceiver(st)
      planned == {p.paths[i].portals : i \in DOMAIN p.paths} IN
  /\ planned # {} /\ planned \subseteq reach
  /\ \A s \in planned : ActiveBands(PathLoss(s), WithDefaults(l).floor) # {}
  /\ ~Truncated(p) => planned = reach
  /\ \A i, j \in DOMAIN p.paths : i < j => p.paths[i].energy >= p.paths[j].energy
  /\ ~p.searchTruncated =>
       \A s \in reach \ planned : \A i \in DOMAIN p.paths : p.paths[i].energy >= PathEnergy(PathLoss(s))

\* Between two calls the plan is the one a fresh Prepare of its scene would
\* make, whatever changes succeeded, failed half way or were rolled back: its
\* paths are audible simple paths to the receiver, the strongest ones, all of
\* them unless it reports truncation.
PlanCurrent ==
  call = Idle /\ plan # NoPlan =>
    /\ plan.groups = GroupsOf(scene)
    /\ plan.signatures = GroupSignatures(plan.groups, scene)
    /\ PathsFor(plan, scene, limits)

\* A factor a render composes was simulated for the groups and the portal
\* states of the scene it renders: group numbers change with every toggle, the
\* factors stored under them must not outlive it.
FactorsFresh ==
  /\ plan # NoPlan /\ call.op # "Apply" =>
       \A f \in plan.factors : f.factor = SolveHop(f.key, GroupsOf(scene), scene)
  /\ call.at = "hop" => \A f \in Rendered.factors : f.factor = SolveHop(f.key, GroupsOf(state), state)

\* A toggle costs at most two room groups, both at the toggled portal; every
\* other group keeps its signature and with it its cached responses ("including
\* groups on the far side of the toggled portal", dynamic.go:116-117).
ToggleIsLocal ==
  [][ call.op = "Apply" /\ plan' # plan =>
        LET added == Range(plan'.signatures) \ Range(plan.signatures) IN
        /\ Cardinality(added) <= 2
        /\ \A s \in added : s.rooms \cap Range(Ends[call.portal]) # {} ]_planVars

-----------------------------------------------------------------------------
(* The inductive invariant behind the properties. *)

\* A pathPlan made for portal states.
PlanFor(p, st, l) ==
  /\ {"groups", "factors", "signatures", "paths", "searchTruncated", "found"} \subseteq DOMAIN p
  /\ PathsFor(p, st, l) /\ p.groups = GroupsOf(st) /\ p.signatures = GroupSignatures(p.groups, st)
  /\ \A f \in p.factors : f.factor = SolveHop(f.key, p.groups, st)

\* A response key holds all that its factor was simulated from.
FactorOf(key) ==
  [rooms |-> key.signature.rooms, entry |-> key.entry, exit |-> key.exit,
   apertures |-> {p \in Portals : /\ <<p, "open">> \in key.signature.portals
                                  /\ Range(Ends[p]) \subseteq key.signature.rooms}]

\* The fields of the running call.
CallInv ==
  /\ {"op", "at"} \subseteq DOMAIN call
  /\ call.op \in {"none", "Prepare", "Apply", "RenderMono", "RenderBinaural", "PortalCache"}
  /\ call.at \in {"idle", "prepare", "search", "hop"}
  /\ call.op \in {"none", "Prepare", "Apply"} => call.at # "hop"
  /\ call.op = "RenderMono" => call.at = "hop"
  /\ call.op = "Apply" => /\ {"portal", "restore"} \subseteq DOMAIN call
                          /\ call.portal \in Portals /\ call.restore \in States
  /\ call.op = "PortalCache" => {"portal", "number"} \subseteq DOMAIN call

\* What each plan was made for: while Apply runs, p.plan belongs to the scene as it
\* was; a render of its own plan has the states it prepared.
PlansInv ==
  /\ limits \in LimitsType /\ scene \in [Portals -> States]
  /\ call.op # "PortalCache" => state = scene
  /\ call.at = "search" => SearchInv
  /\ call.at # "search" => search = NoSearch
  /\ call.op = "Apply" => plan # NoPlan /\ PlanFor(plan, [scene EXCEPT ![call.portal] = call.restore], limits)
  /\ call.op # "Apply" => plan = NoPlan \/ PlanFor(plan, scene, limits)
  /\ call.at = "hop" => PlanFor(Rendered, state, limits)

CacheInv == \A e \in cache : e.factor = FactorOf(e.key)

PlanIInv == CallInv /\ PlansInv /\ CacheInv
=============================================================================
