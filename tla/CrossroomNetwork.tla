--------------------------- MODULE CrossroomNetwork ---------------------------
(***************************************************************************)
(* The multi-room renderers of crossroom/network.go, paths.go and          *)
(* factors.go, sharing one response cache (SetCache).                      *)
(*                                                                         *)
(* A call is one render: SolveEarly, RenderMono, RenderLateMono,           *)
(* RenderBinaural or RenderLateBinaural, on a plan of its own.  It walks   *)
(* the hops of its paths and gets the factor of each from the memo of its  *)
(* plan, from the shared cache or from a simulation.  A hop stands for a   *)
(* room group and its two ports.  What a simulation computes is reduced to *)
(* the receiver it was computed for; all calls use one solver              *)
(* configuration, so configHash does not tell keys apart.                  *)
(*                                                                         *)
(* A call creates at most one factor object per hop (a clone of the cached *)
(* one or a new one: afterwards the memo holds it), which the pair of call *)
(* and hop names.  The fields of an object are read and written without a  *)
(* lock, one field per step.                                               *)
(***************************************************************************)
EXTENDS ResponseCache

CONSTANTS
  Calls,         \* the render calls
  Kinds,         \* the render methods called
  Paths,         \* the ranked paths of the scene: a sequence of sequences of hops
  Receivers,     \* receivers: position, orientation and HRTF as one value
  Heads,         \* the receivers that have an HRTF
  Exclusive,     \* a RenderBinaural does not overlap with other calls
  OwnReceiver,   \* callers pass the receiver of the scene to the binaural calls
  EarlyBytes, HistogramBytes   \* sizes of an early response and of one histogram

Hops == UNION {Range(p) : p \in Range(Paths)}
Terminal == {Last(p) : p \in Range(Paths)}   \* the hops that end at the receiver
Halves == {"early", "late"}
Fields == {"early", "late", "dg"}    \* Early and Events; LateEnergy; DGDirections and DGHistograms
Methods == {"SolveEarly", "RenderMono", "RenderLateMono", "RenderBinaural", "RenderLateBinaural"}
Probe == "probe"                     \* the omnidirectional probe of a portal

NetworkObjects == Calls \X Hops
NetworkKeys == Hops \X Receivers

ASSUME NetworkAssumption ==
  /\ Heads \subseteq Receivers
  /\ Exclusive \in BOOLEAN /\ OwnReceiver \in BOOLEAN
  /\ {EarlyBytes, HistogramBytes} \subseteq Nat
  /\ {None, Probe} \cap Receivers = {} /\ None \notin Methods \cup {Probe}
  /\ Kinds \subseteq Methods
  /\ Paths \in Seq(Seq(Hops) \ {<<>>}) \ {<<>>}      \* prepare refuses a plan without paths
  /\ Keys = NetworkKeys /\ Objects = NetworkObjects

VARIABLES
  pc,         \* where each call is
  kind,       \* the method it runs
  endpoint,   \* sc.Receivers[0], which plan.endpointHash covers
  receiver,   \* plan.receiver, which the simulations use
  pass,       \* the pass over the paths it is in, and the path and hop of it
  memo,       \* plan.factors: the object and the needs of every stored hop
  cached,     \* the local variable of the same name
  stored,     \* the pointer get returned
  copied,     \* the fields cloneFactor has copied so far
  heap,       \* the factor objects: for which receiver each field was computed
  simulated   \* history: how often each call simulated each half of each hop

callVars == <<pc, kind, endpoint, receiver, pass, memo, cached, stored, copied, heap, simulated>>
vars == <<order, factorOf, bytesOf, bytes, evicting, hits, misses, evictions,
          pc, kind, endpoint, receiver, pass, memo, cached, stored, copied, heap, simulated>>

NoFactor == [object |-> None, needs |-> {}]

\* The factorNeeds of the passes a method makes over the paths.  RenderBinaural
\* solves the early events and then the late field of one plan.
Passes(k) ==
  CASE k = "SolveEarly" -> <<{"early"}>>
    [] k = "RenderMono" -> <<{"early", "late"}>>
    [] k = "RenderLateMono" -> <<{"late"}>>
    [] k = "RenderBinaural" -> <<{"early"}, {"late"}>>
    [] k = "RenderLateBinaural" -> <<{"late"}>>

Binaural == {"RenderBinaural", "RenderLateBinaural"}

Path(c) == Paths[pass[c].path]
Hop(c) == Path(c)[pass[c].index]
Needs(c) == Passes(kind[c])[pass[c].number]

MutantGroupResponseKey(c) == <<Hop(c), CHOOSE r \in Receivers : TRUE>>

\* endpointHash of the scene the plan was prepared from: where its receiver is
\* and how it hears (the source and the bands are the same for all calls).
EndpointHash(c) == endpoint[c]

\* groupResponseKey: the group signature and ports of the hop, and the endpoints.
GroupResponseKey(c) == <<Hop(c), EndpointHash(c)>>

MutantFactorNeedsOf(object) ==       \* a solved factor counts as complete
  IF heap[object]["early"] # None THEN Halves ELSE {h \in Halves : heap[object][h] # None}

\* factorNeedsOf: the halves found on the factor itself.
FactorNeedsOf(object) == {h \in Halves : heap[object][h] # None}

\* groupFactorBytes: the early response and the late histogram.
GroupFactorBytes(object) ==
  (IF heap[object]["early"] # None THEN EarlyBytes ELSE 0)
    + (IF heap[object]["late"] # None THEN HistogramBytes ELSE 0)

Init ==
  /\ CacheInit
  /\ pc = [c \in Calls |-> "idle"]
  /\ kind = [c \in Calls |-> None]
  /\ endpoint = [c \in Calls |-> None]
  /\ receiver = [c \in Calls |-> None]
  /\ pass = [c \in Calls |-> [number |-> 1, path |-> 1, index |-> 1]]
  /\ memo = [c \in Calls |-> [h \in Hops |-> NoFactor]]
  /\ cached = [c \in Calls |-> NoFactor]
  /\ stored = [c \in Calls |-> None]
  /\ copied = [c \in Calls |-> {}]
  /\ heap = [o \in NetworkObjects |-> [f \in Fields |-> None]]
  /\ simulated = [c \in Calls |-> [h \in Hops |-> [x \in Halves |-> 0]]]

-----------------------------------------------------------------------------
(* A render and its walk over the paths. *)

Active == {c \in Calls : pc[c] \notin {"idle", "done", "failed"}}

\* The checks of the method and prepare: the plan starts from the receiver of
\* the scene, and a binaural method replaces it by its argument, which must
\* have an HRTF.
Begin(c) ==
  /\ pc[c] = "idle"
  /\ \E k \in Kinds, own \in Receivers, argument \in Receivers :
       /\ Exclusive => \A d \in Active : "RenderBinaural" \notin {k, kind[d]}
       /\ k \in Binaural => argument \in Heads
       /\ k \notin Binaural \/ OwnReceiver => argument = own
       /\ kind' = [kind EXCEPT ![c] = k]
       /\ endpoint' = [endpoint EXCEPT ![c] = own]
       /\ receiver' = [receiver EXCEPT ![c] = argument]
  /\ pc' = [pc EXCEPT ![c] = "hop"]
  /\ UNCHANGED <<cacheVars, pass, memo, cached, stored, copied, heap, simulated>>

Goto(c, label) == pc' = [pc EXCEPT ![c] = label]

\* The next hop of the path, or the end of renderPathFactors.
Advance(c) ==
  IF pass[c].index < Len(Path(c))
  THEN /\ pass' = [pass EXCEPT ![c].index = @ + 1]
       /\ Goto(c, "hop")
  ELSE /\ pass' = pass
       /\ Goto(c, "compose")

MutantCompose(c) ==          \* the next pass starts with the needs of the first
  /\ pc[c] = "compose"
  /\ IF pass[c].path < Len(Paths)
     THEN /\ pass' = [pass EXCEPT ![c].path = @ + 1, ![c].index = 1]
          /\ Goto(c, "hop")
     ELSE IF pass[c].number < Len(Passes(kind[c]))
     THEN /\ pass' = [pass EXCEPT ![c] = [number |-> 1, path |-> 1, index |-> 1]]
          /\ Goto(c, "hop")
     ELSE /\ pass' = pass
          /\ Goto(c, "done")
  /\ UNCHANGED <<cacheVars, kind, endpoint, receiver, memo, cached, stored, copied, heap, simulated>>

\* The callers of renderPathFactors: the next path, the next pass or the end.
Compose(c) ==
  /\ pc[c] = "compose"
  /\ IF pass[c].path < Len(Paths)
     THEN /\ pass' = [pass EXCEPT ![c].path = @ + 1, ![c].index = 1]
          /\ Goto(c, "hop")
     ELSE IF pass[c].number < Len(Passes(kind[c]))
     THEN /\ pass' = [pass EXCEPT ![c] = [number |-> @.number + 1, path |-> 1, index |-> 1]]
          /\ Goto(c, "hop")
     ELSE /\ pass' = pass
          /\ Goto(c, "done")
  /\ UNCHANGED <<cacheVars, kind, endpoint, receiver, memo, cached, stored, copied, heap, simulated>>

-----------------------------------------------------------------------------
(* renderPathFactors, for one hop. *)

\* cached := plan.factors[key]
UseMemo(c) ==
  /\ pc[c] = "hop"
  /\ memo[c][Hop(c)].object # None
  /\ cached' = [cached EXCEPT ![c] = memo[c][Hop(c)]]
  /\ Goto(c, "decide")
  /\ UNCHANGED <<cacheVars, kind, endpoint, receiver, pass, memo, stored, copied, heap, simulated>>

\* r.Cache().get(respKey) finds the hop.
CacheHit(c) ==
  /\ pc[c] = "hop"
  /\ memo[c][Hop(c)].object = None
  /\ GetHit(GroupResponseKey(c))
  /\ stored' = [stored EXCEPT ![c] = factorOf[GroupResponseKey(c)]]
  /\ copied' = [copied EXCEPT ![c] = {}]
  /\ Goto(c, "clone")
  /\ UNCHANGED <<kind, endpoint, receiver, pass, memo, cached, heap, simulated>>

CacheMiss(c) ==
  /\ pc[c] = "hop"
  /\ memo[c][Hop(c)].object = None
  /\ GetMiss(GroupResponseKey(c))
  /\ cached' = [cached EXCEPT ![c] = NoFactor]
  /\ Goto(c, "decide")
  /\ UNCHANGED <<kind, endpoint, receiver, pass, memo, stored, copied, heap, simulated>>

\* The object cloneFactor returns: a new one.
CloneTarget(c) == <<c, Hop(c)>>

\* clone := *factor, which copies the fields in any order.
CloneFactor(c) ==
  /\ pc[c] = "clone"
  /\ \E f \in Fields \ copied[c] :
       /\ heap' = [heap EXCEPT ![CloneTarget(c)][f] = heap[stored[c]][f]]
       /\ copied' = [copied EXCEPT ![c] = @ \cup {f}]
       /\ Goto(c, IF copied'[c] = Fields THEN "needs" ELSE "clone")
  /\ UNCHANGED <<cacheVars, kind, endpoint, receiver, pass, memo, cached, stored, simulated>>

\* cachedFactor{factor: cloneFactor(stored), needs: factorNeedsOf(stored)}
ReadNeeds(c) ==
  /\ pc[c] = "needs"
  /\ cached' = [cached EXCEPT ![c] =
                  [object |-> CloneTarget(c), needs |-> FactorNeedsOf(stored[c])]]
  /\ Goto(c, "decide")
  /\ UNCHANGED <<cacheVars, kind, endpoint, receiver, pass, memo, stored, copied, heap, simulated>>

\* cached.needs.missing(needs)
Missing(c) == Needs(c) \ cached[c].needs

MutantStoreNoNeeds(c, object, needs) ==       \* the memo forgets what is solved
  memo' = [memo EXCEPT ![c][Hop(c)] = [object |-> object, needs |-> {}]]

StoreFactor(c, object, needs) ==
  memo' = [memo EXCEPT ![c][Hop(c)] = [object |-> object, needs |-> needs]]

\* Nothing is missing: the factor is reused.
Reuse(c) ==
  /\ pc[c] = "decide"
  /\ cached[c].object # None /\ Missing(c) = {}
  /\ StoreFactor(c, cached[c].object, cached[c].needs)
  /\ Advance(c)
  /\ UNCHANGED <<cacheVars, kind, endpoint, receiver, cached, stored, copied, heap, simulated>>

\* solveHop is called for what is missing, with the cached factor or a new one.
Into(c) == IF cached[c].object # None THEN cached[c].object ELSE <<c, Hop(c)>>

SolveHop(c) ==
  /\ pc[c] = "decide"
  /\ cached[c].object = None \/ Missing(c) # {}
  /\ Goto(c, IF "early" \in Missing(c) THEN "solve" ELSE "trace")
  /\ UNCHANGED <<cacheVars, kind, endpoint, receiver, pass, memo, cached, stored, copied, heap, simulated>>

\* factorReceiver: the receiver at the end of the path, a probe at a portal.
FactorReceiver(c) == IF Hop(c) \in Terminal THEN receiver[c] ELSE Probe

Write(c, field) == heap' = [heap EXCEPT ![Into(c)][field] = FactorReceiver(c)]
Simulate(c, half) == simulated' = [simulated EXCEPT ![c][Hop(c)][half] = @ + 1]

\* solveFactorEarly and the assignment of Early and Events.
SolveFactorEarly(c) ==
  /\ pc[c] = "solve"
  /\ Write(c, "early")
  /\ Simulate(c, "early")
  /\ Goto(c, IF "late" \in Missing(c) THEN "trace" ELSE "publish")
  /\ UNCHANGED <<cacheVars, kind, endpoint, receiver, pass, memo, cached, stored, copied>>

\* traceFactorLate: LateEnergy first; a receiver with an HRTF also has its
\* directivity groups traced.
TraceFactorLate(c) ==
  /\ pc[c] = "trace"
  /\ Write(c, "late")
  /\ Simulate(c, "late")
  /\ Goto(c, IF FactorReceiver(c) \in Heads THEN "directions" ELSE "publish")
  /\ UNCHANGED <<cacheVars, kind, endpoint, receiver, pass, memo, cached, stored, copied>>

StoreDirections(c) ==
  /\ pc[c] = "directions"
  /\ Write(c, "dg")
  /\ Goto(c, "publish")
  /\ UNCHANGED <<cacheVars, kind, endpoint, receiver, pass, memo, cached, stored, copied, simulated>>

\* A solver fails: the render returns the error and stores nothing more.
SolveFails(c) ==
  /\ pc[c] \in {"solve", "trace"}
  /\ Goto(c, "failed")
  /\ UNCHANGED <<cacheVars, kind, endpoint, receiver, pass, memo, cached, stored, copied, heap, simulated>>

\* storeFactor with the union of the needs, and r.Cache().put.
Publish(c) ==
  /\ pc[c] = "publish"
  /\ StoreFactor(c, Into(c), cached[c].needs \cup Needs(c))
  /\ Put(GroupResponseKey(c), Into(c), GroupFactorBytes(Into(c)))
  /\ Advance(c)
  /\ UNCHANGED <<kind, endpoint, receiver, cached, stored, copied, heap, simulated>>

\* The eviction loop of the put that holds the mutex.
Evict == EvictOldest /\ UNCHANGED callVars

Step(c) ==
  \/ Compose(c) \/ UseMemo(c) \/ CacheHit(c) \/ CacheMiss(c)
  \/ CloneFactor(c) \/ ReadNeeds(c) \/ Reuse(c) \/ SolveHop(c)
  \/ SolveFactorEarly(c) \/ TraceFactorLate(c) \/ StoreDirections(c) \/ SolveFails(c)
  \/ Publish(c)

Next == Evict \/ \E c \in Calls : Begin(c) \/ Step(c)

\* The goroutines of the calls that began keep running, and a put that holds
\* the mutex finishes its evictions.
Spec == Init /\ [][Next]_vars /\ WF_vars(Evict) /\ \A c \in Calls : WF_vars(Step(c))

-----------------------------------------------------------------------------
(* Properties. *)

\* A path is composed from factors that carry every half its pass needs, and
\* for a binaural late field the arrival directions of the last hop.  A nil
\* LateEnergy would drop the path from the sum without an error.
ServedComplete ==
  \A c \in Calls : pc[c] = "compose" =>
    \A i \in DOMAIN Path(c) :
      LET object == memo[c][Path(c)[i]].object IN
      /\ object # None
      /\ \A half \in Needs(c) : heap[object][half] # None
      /\ (kind[c] \in Binaural /\ "late" \in Needs(c) /\ Path(c)[i] \in Terminal)
           => heap[object]["dg"] # None

\* The factors a path is composed from were simulated for the receiver the
\* call was made with, whoever simulated them.
ServedForOwnReceiver ==
  \A c \in Calls : pc[c] = "compose" =>
    \A half \in Needs(c) \cup (IF kind[c] \in Binaural /\ "late" \in Needs(c) THEN {"dg"} ELSE {}) :
      LET object == memo[c][Last(Path(c))].object IN
      object # None => heap[object][half] \in {receiver[c], None}

\* "Exactly one simulation runs per hop": however many paths and passes of a
\* render share a hop, each half of it is simulated at most once.
SimulatedOnce ==
  \A c \in Calls, h \in Hops, half \in Halves : simulated[c][h][half] <= 1

\* Every render that begins ends, also while others hold the mutex or evict
\* the entries it uses.
RenderEnds == \A c \in Calls : pc[c] = "hop" ~> pc[c] \in {"done", "failed"}

-----------------------------------------------------------------------------
(* The inductive invariant.  It holds for every set of calls, paths and     *)
(* receivers; CompleteInv needs that calls are Exclusive and OwnReceiver.   *)

Labels == {"idle", "hop", "clone", "needs", "decide", "solve", "trace", "directions",
           "publish", "compose", "done", "failed"}
Cloning == {"clone", "needs"}
Solving == {"solve", "trace", "directions", "publish"}
Held == {"decide"} \cup Solving      \* where cached belongs to the hop of the call
Factors == [object : Objects \cup {None}, needs : SUBSET Halves]

TypeOK ==
  /\ factorOf \in [Keys -> Objects \cup {None}]
  /\ pc \in [Calls -> Labels]
  /\ kind \in [Calls -> Kinds \cup {None}]
  /\ endpoint \in [Calls -> Receivers \cup {None}]
  /\ receiver \in [Calls -> Receivers \cup {None}]
  /\ pass \in [Calls -> [number : Nat, path : Nat, index : Nat]]
  /\ memo \in [Calls -> [Hops -> Factors]]
  /\ cached \in [Calls -> Factors]
  /\ stored \in [Calls -> Objects \cup {None}]
  /\ copied \in [Calls -> SUBSET Fields]
  /\ heap \in [Objects -> [Fields -> Receivers \cup {Probe, None}]]
  /\ simulated \in [Calls -> [Hops -> [Halves -> Nat]]]

\* A call stands at a hop of a path, in a pass of its method.
PositionOf(c) ==
  /\ pass[c].path \in 1..Len(Paths)
  /\ pass[c].index \in 1..Len(Path(c))
  /\ pc[c] # "idle" =>
       /\ kind[c] \in Kinds /\ endpoint[c] \in Receivers /\ receiver[c] \in Receivers
       /\ pass[c].number \in 1..Len(Passes(kind[c]))
  /\ pc[c] = "idle" =>
       /\ pass[c].number = 1 /\ pass[c].index = 1
       /\ \A h \in Hops : /\ memo[c][h] = NoFactor
                          /\ \A half \in Halves : simulated[c][h][half] = 0
                          /\ \A f \in Fields : heap[<<c, h>>][f] = None

PositionInv == \A c \in Calls : PositionOf(c)

\* A call that has begun with the endpoint e remembers the object for hop h.
Remembered(object, h, e) ==
  \E d \in Calls : /\ object = <<d, h>>
                   /\ pc[d] # "idle" /\ endpoint[d] = e
                   /\ memo[d][h].object # None

\* Which object a pointer names: a call only holds objects of its own, and what
\* it finds in the cache belongs to a call with the same endpoint that has
\* stored it in its memo as well.
NamesOf(c) ==
  /\ \A h \in Hops : /\ memo[c][h].object \in {None, <<c, h>>}
                     /\ memo[c][h].object = None => memo[c][h].needs = {}
  /\ pc[c] \in Held =>
       /\ cached[c].object \in {None, <<c, Hop(c)>>}
       /\ cached[c].object = None => cached[c].needs = {}
       /\ memo[c][Hop(c)].object # None => cached[c] = memo[c][Hop(c)]
  /\ pc[c] \in Cloning =>
       /\ memo[c][Hop(c)].object = None
       /\ Remembered(stored[c], Hop(c), endpoint[c])

NamesInv ==
  /\ \A c \in Calls : NamesOf(c)
  /\ \A h \in Hops, e \in Receivers :
       factorOf[<<h, e>>] # None => Remembered(factorOf[<<h, e>>], h, e)

\* The halves of a hop that a call knows to be on its object.
Recorded(c, h) ==
  CASE h = Hop(c) /\ pc[c] \in {"decide", "solve"} -> cached[c].needs
    [] h = Hop(c) /\ pc[c] = "trace" -> cached[c].needs \cup (Needs(c) \ {"late"})
    [] h = Hop(c) /\ pc[c] \in {"directions", "publish"} -> cached[c].needs \cup Needs(c)
    [] OTHER -> memo[c][h].needs

\* What has been simulated is recorded, and what is simulated next is not.
SimulationOf(c) ==
  /\ \A h \in Hops, half \in Halves :
       /\ simulated[c][h][half] <= 1
       /\ pc[c] # "failed" /\ simulated[c][h][half] # 0 => half \in Recorded(c, h)
  /\ pc[c] = "solve" => "early" \in Missing(c)
  /\ pc[c] = "trace" => "late" \in Missing(c)

SimulationInv == \A c \in Calls : SimulationOf(c)

\* The factors at the end of a path belong to the receiver of their call.
OwnInv ==
  /\ \A c \in Calls : pc[c] # "idle" => endpoint[c] = receiver[c]
  /\ \A c \in Calls, h \in Terminal, f \in Fields :
       heap[<<c, h>>][f] \in {receiver[c], None}

\* The hops of the path that the pass has behind it.
Walked(c) == {i \in 1..Len(Path(c)) : i < pass[c].index \/ pc[c] = "compose"}

\* A RenderBinaural is alone.
AloneInv ==
  \A c, d \in Active : c # d => kind[c] # "RenderBinaural"

\* Only RenderBinaural comes back to an object it has published: the other
\* methods solve all they need before they store it.
OnePassOf(c) ==
  pc[c] # "idle" /\ kind[c] # "RenderBinaural" =>
    /\ \A h \in Hops : memo[c][h].object # None => Passes(kind[c])[1] \subseteq memo[c][h].needs
    /\ pc[c] \in Solving => memo[c][Hop(c)].object = None

\* What is recorded is there, and a clone agrees with its original.
FilledOf(c) ==
  /\ \A h \in Hops : \A half \in Recorded(c, h) : heap[<<c, h>>][half] # None
  /\ pc[c] = "needs" => copied[c] = Fields
  /\ pc[c] \in Cloning => \A f \in copied[c] : heap[<<c, Hop(c)>>][f] = heap[stored[c]][f]

\* A late field for a head has its arrival directions, except while they are
\* being traced or copied.
DirectionsOf(c) ==
  /\ kind[c] \in Binaural => receiver[c] \in Heads
  /\ \A h \in Terminal :
       receiver[c] \in Heads /\ heap[<<c, h>>]["late"] # None =>
         heap[<<c, h>>]["dg"] # None \/ (pc[c] \in {"clone", "directions"} /\ h = Hop(c))

\* The hops behind the call have what the pass needs.
WalkedOf(c) ==
  pc[c] # "idle" => \A i \in Walked(c) : /\ memo[c][Path(c)[i]].object # None
                                         /\ Needs(c) \subseteq memo[c][Path(c)[i]].needs

CallInv == TypeOK /\ PositionInv /\ NamesInv /\ SimulationInv

CompleteOf(c) == OnePassOf(c) /\ FilledOf(c) /\ DirectionsOf(c) /\ WalkedOf(c)
CompleteInv == AloneInv /\ \A c \in Calls : CompleteOf(c)

NetworkIInv ==
  /\ CallInv
  /\ OwnReceiver => OwnInv
  /\ Exclusive /\ OwnReceiver => CompleteInv

=============================================================================
