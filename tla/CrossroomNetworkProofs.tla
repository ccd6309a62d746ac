------------------------ MODULE CrossroomNetworkProofs ------------------------
(* The renders that share a response cache, for every set of calls, paths   *)
(* and receivers.                                                           *)
EXTENDS CrossroomNetwork, FiniteSetTheorems, SequenceTheorems, WellFoundedInduction, NaturalsInduction, TLAPS

-----------------------------------------------------------------------------
(* Where a call stands. *)

\* The passes of a method, and that only RenderBinaural makes two.
LEMMA PassesTyped ==
  ASSUME NEW k \in Kinds
  PROVE  /\ Len(Passes(k)) \in {1, 2}
         /\ \A n \in 1..Len(Passes(k)) : Passes(k)[n] \in SUBSET Halves /\ Passes(k)[n] # {}
         /\ k # "RenderBinaural" => Len(Passes(k)) = 1
<1>1. k \in Methods
  BY NetworkAssumption
<1>2. CASE k \in {"SolveEarly", "RenderMono"}
  BY <1>2 DEF Passes, Halves
<1>3. CASE k \in {"RenderLateMono", "RenderLateBinaural"}
  BY <1>3 DEF Passes, Halves
<1>4. CASE k = "RenderBinaural"
  BY <1>4 DEF Passes, Halves
<1> QED
  BY <1>1, <1>2, <1>3, <1>4 DEF Methods

\* The paths and their hops.
LEMMA PathsTyped ==
  /\ Len(Paths) \in Nat /\ Len(Paths) >= 1
  /\ \A p \in 1..Len(Paths) :
       /\ Paths[p] \in Seq(Hops)
       /\ Len(Paths[p]) \in Nat /\ Len(Paths[p]) >= 1
       /\ \A i \in 1..Len(Paths[p]) : Paths[p][i] \in Hops
<1>1. Paths \in Seq(Seq(Hops) \ {<<>>}) /\ Paths # <<>>
  BY NetworkAssumption
<1>2. Len(Paths) \in Nat /\ Len(Paths) >= 1
  BY <1>1
<1>3. ASSUME NEW p \in 1..Len(Paths)
      PROVE  Paths[p] \in Seq(Hops) /\ Paths[p] # <<>>
  BY <1>1
<1>4. ASSUME NEW p \in 1..Len(Paths)
      PROVE  /\ Len(Paths[p]) \in Nat /\ Len(Paths[p]) >= 1
             /\ \A i \in 1..Len(Paths[p]) : Paths[p][i] \in Hops
  BY <1>3
<1> QED
  BY <1>2, <1>3, <1>4

\* A call stands at a hop, and a call that has begun needs halves of it.
LEMMA PositionTyped ==
  ASSUME PositionInv, NEW c \in Calls
  PROVE  /\ Path(c) \in Seq(Hops) /\ Len(Path(c)) \in Nat /\ Len(Path(c)) >= 1
         /\ \A i \in 1..Len(Path(c)) : Path(c)[i] \in Hops
         /\ Hop(c) \in Hops
         /\ pc[c] # "idle" => Needs(c) \in SUBSET Halves /\ Needs(c) # {}
<1>1. Path(c) \in Seq(Hops) /\ Len(Path(c)) \in Nat /\ Len(Path(c)) >= 1
  BY PathsTyped DEF PositionInv, PositionOf, Path
<1>2. \A i \in 1..Len(Path(c)) : Path(c)[i] \in Hops
  BY PathsTyped DEF PositionInv, PositionOf, Path
<1>3. Hop(c) \in Hops
  BY <1>2 DEF PositionInv, PositionOf, Hop
<1>4. pc[c] # "idle" => Needs(c) \in SUBSET Halves /\ Needs(c) # {}
  BY PassesTyped DEF PositionInv, PositionOf, Needs
<1> QED
  BY <1>1, <1>2, <1>3, <1>4

\* The last hop of a path ends at the receiver.
LEMMA LastTerminal ==
  ASSUME PositionInv, NEW c \in Calls
  PROVE  Last(Path(c)) \in Terminal /\ Last(Path(c)) = Path(c)[Len(Path(c))]
<1>1. Path(c) \in Range(Paths)
  BY PathsTyped, NetworkAssumption DEF PositionInv, PositionOf, Path, Range
<1> QED
  BY <1>1 DEF Terminal, Last

\* The terminal hops are hops.
LEMMA TerminalHops == Terminal \subseteq Hops
<1>1. ASSUME NEW p \in Range(Paths) PROVE Last(p) \in Hops
  <2>1. PICK n \in 1..Len(Paths) : p = Paths[n]
    BY PathsTyped, NetworkAssumption DEF Range
  <2> QED
    BY <2>1, PathsTyped DEF Last
<1> QED
  BY <1>1 DEF Terminal

\* The object solveHop works on.
LEMMA IntoOwn ==
  ASSUME NamesInv, NEW c \in Calls, pc[c] \in Held
  PROVE  Into(c) = <<c, Hop(c)>>
BY DEF NamesInv, NamesOf, Into

-----------------------------------------------------------------------------
(* Types. *)

\* Factors and objects are what their names say.
LEMMA ObjectsTyped ==
  ASSUME NEW c \in Calls, NEW h \in Hops
  PROVE  /\ <<c, h>> \in Objects /\ <<c, h>> # None
         /\ \A r \in Receivers : <<h, r>> \in Keys
         /\ NoFactor \in Factors
BY CacheAssumption, NetworkAssumption DEF NetworkObjects, NetworkKeys, NoFactor, Factors

\* The cache names objects.
LEMMA PutTyped ==
  ASSUME TypeOK, NEW k \in Keys, NEW o \in Objects, NEW n, Put(k, o, n)
  PROVE  factorOf' \in [Keys -> Objects \cup {None}]
BY DEF TypeOK, Put

\* Removing an entry leaves the other pointers alone.
LEMMA Removed ==
  ASSUME TypeOK, NEW key, RemoveLocked(key)
  PROVE  factorOf' = [k \in Keys |-> IF k = key THEN None ELSE factorOf[k]]
<1>1. factorOf' = [factorOf EXCEPT ![key] = None] /\ factorOf \in [Keys -> Objects \cup {None}]
  BY Zenon DEF RemoveLocked, TypeOK
<1> QED
  BY <1>1

\* Where the actions of a call are.
LEMMA StepPc ==
  ASSUME TypeOK, NEW c \in Calls, Step(c)
  PROVE  /\ pc[c] \notin {"idle", "done", "failed"}
         /\ pc' \in [Calls -> Labels] /\ pc'[c] # "idle"
         /\ \A d \in Calls : d # c => pc'[d] = pc[d]
<1> USE DEF Goto, TypeOK, Labels
<1>1. CASE Compose(c)
  BY <1>1 DEF Compose
<1>2. CASE UseMemo(c)
  BY <1>2 DEF UseMemo
<1>3. CASE CacheHit(c)
  BY <1>3 DEF CacheHit
<1>4. CASE CacheMiss(c)
  BY <1>4 DEF CacheMiss
<1>5. CASE CloneFactor(c)
  BY <1>5 DEF CloneFactor
<1>6. CASE ReadNeeds(c)
  BY <1>6 DEF ReadNeeds
<1>7. CASE Reuse(c)
  BY <1>7 DEF Reuse, Advance
<1>8. CASE SolveHop(c)
  BY <1>8 DEF SolveHop
<1>9. CASE SolveFactorEarly(c)
  BY <1>9 DEF SolveFactorEarly
<1>10. CASE TraceFactorLate(c)
  BY <1>10 DEF TraceFactorLate
<1>11. CASE StoreDirections(c)
  BY <1>11 DEF StoreDirections
<1>12. CASE SolveFails(c)
  BY <1>12 DEF SolveFails
<1>13. CASE Publish(c)
  BY <1>13 DEF Publish, Advance
<1> QED
  BY <1>1, <1>2, <1>3, <1>4, <1>5, <1>6, <1>7, <1>8, <1>9, <1>10, <1>11, <1>12, <1>13 DEF Step

\* A step of a call moves within its paths.
LEMMA StepPass ==
  ASSUME TypeOK, PositionInv, NEW c \in Calls, Step(c)
  PROVE  /\ pass' \in [Calls -> [number : Nat, path : Nat, index : Nat]]
         /\ \A d \in Calls : d # c => pass'[d] = pass[d]
         /\ pass'[c].path \in 1..Len(Paths)
         /\ pass'[c].index \in 1..Len(Paths[pass'[c].path])
         /\ pass'[c].number \in 1..Len(Passes(kind[c]))
         /\ ~Compose(c) => pass'[c].path = pass[c].path /\ pass'[c].number = pass[c].number
<1> DEFINE Positions == [number : Nat, path : Nat, index : Nat]
<1>1. /\ pass \in [Calls -> Positions] /\ pass[c] \in Positions
      /\ pass[c].path \in 1..Len(Paths) /\ pass[c].index \in 1..Len(Path(c))
  BY DEF TypeOK, PositionInv, PositionOf
<1>2. pass[c].number \in 1..Len(Passes(kind[c])) /\ kind[c] \in Kinds
  BY StepPc DEF PositionInv, PositionOf
<1>3. CASE pass' = pass
  BY <1>1, <1>2, <1>3 DEF Path
<1>4. CASE Compose(c)
  <2>1. CASE pass[c].path < Len(Paths)
    <3>1. pass' = [pass EXCEPT ![c] = [number |-> @.number, path |-> @.path + 1, index |-> 1]]
      BY <1>1, <1>4, <2>1 DEF Compose
    <3>2. [number |-> pass[c].number, path |-> pass[c].path + 1, index |-> 1] \in Positions
      BY <1>1
    <3> QED
      BY <1>1, <1>2, <1>4, <2>1, <3>1, <3>2, PathsTyped
  <2>2. CASE ~(pass[c].path < Len(Paths)) /\ pass[c].number < Len(Passes(kind[c]))
    <3>1. pass' = [pass EXCEPT ![c] = [number |-> @.number + 1, path |-> 1, index |-> 1]]
      BY <1>4, <2>2 DEF Compose
    <3>2. [number |-> pass[c].number + 1, path |-> 1, index |-> 1] \in Positions
      BY <1>1
    <3> QED
      BY <1>1, <1>2, <1>4, <2>2, <3>1, <3>2, PathsTyped, PassesTyped
  <2> QED
    BY <1>3, <1>4, <2>1, <2>2 DEF Compose
<1>5. CASE ~Compose(c) /\ Advance(c)
  <2>1. CASE pass[c].index < Len(Path(c))
    <3>1. pass' = [pass EXCEPT ![c] = [number |-> @.number, path |-> @.path, index |-> @.index + 1]]
      BY <1>1, <1>5, <2>1 DEF Advance
    <3>2. [number |-> pass[c].number, path |-> pass[c].path, index |-> pass[c].index + 1] \in Positions
      BY <1>1
    <3> QED
      BY <1>1, <1>2, <1>5, <2>1, <3>1, <3>2, PathsTyped DEF Path
  <2> QED
    BY <1>3, <1>5, <2>1 DEF Advance
<1> QED
  BY <1>3, <1>4, <1>5 DEF Step, UseMemo, CacheHit, CacheMiss, CloneFactor, ReadNeeds, Reuse, SolveHop,
     SolveFactorEarly, TraceFactorLate, StoreDirections, SolveFails, Publish

\* What a step writes into a factor object.
LEMMA WriteTyped ==
  ASSUME TypeOK, PositionInv, NEW c \in Calls, NEW f \in Fields,
         NEW v \in Receivers \cup {Probe, None},
         heap' = [heap EXCEPT ![<<c, Hop(c)>>][f] = v]
  PROVE  /\ heap' \in [Objects -> [Fields -> Receivers \cup {Probe, None}]]
         /\ \A o \in Objects : o # <<c, Hop(c)>> => heap'[o] = heap[o]
         /\ heap'[<<c, Hop(c)>>][f] = v
         /\ \A g \in Fields : g # f => heap'[<<c, Hop(c)>>][g] = heap[<<c, Hop(c)>>][g]
<1> DEFINE Values == [Fields -> Receivers \cup {Probe, None}]
<1>1. <<c, Hop(c)>> \in Objects
  BY ObjectsTyped, PositionTyped
<1>2. heap \in [Objects -> Values] /\ heap[<<c, Hop(c)>>] \in Values
  BY <1>1 DEF TypeOK
<1>3. [heap[<<c, Hop(c)>>] EXCEPT ![f] = v] \in Values
  BY <1>2
<1>4. heap' = [heap EXCEPT ![<<c, Hop(c)>>] = [heap[<<c, Hop(c)>>] EXCEPT ![f] = v]]
  OBVIOUS
<1> QED
  BY <1>1, <1>2, <1>3, <1>4

\* Which receiver a factor is computed for.
LEMMA FactorReceiverTyped ==
  ASSUME PositionInv, NEW c \in Calls, pc[c] # "idle"
  PROVE  FactorReceiver(c) \in (Receivers \cup {Probe}) /\ FactorReceiver(c) # None
BY NetworkAssumption DEF PositionInv, PositionOf, FactorReceiver

\* The simulations write the object of the call and the hop.
LEMMA SimulationWrites ==
  ASSUME TypeOK, PositionInv, NamesInv, NEW c \in Calls, NEW f \in Fields,
         pc[c] \in Held, Write(c, f)
  PROVE  heap' = [heap EXCEPT ![<<c, Hop(c)>>][f] = FactorReceiver(c)]
BY IntoOwn DEF Write

\* Which objects a step may change.
LEMMA StepHeap ==
  ASSUME TypeOK, PositionInv, NamesInv, NEW c \in Calls, Step(c)
  PROVE  /\ heap' \in [Objects -> [Fields -> Receivers \cup {Probe, None}]]
         /\ \A o \in Objects : o # <<c, Hop(c)>> => heap'[o] = heap[o]
         /\ pc[c] \notin {"clone", "solve", "trace", "directions"} => heap' = heap
<1>1. CASE heap' = heap
  BY <1>1 DEF TypeOK
<1>2. CASE CloneFactor(c)
  <2>1. PICK f \in Fields : heap' = [heap EXCEPT ![<<c, Hop(c)>>][f] = heap[stored[c]][f]]
    BY <1>2 DEF CloneFactor, CloneTarget
  <2>2. stored[c] \in Objects
    <3>1. Remembered(stored[c], Hop(c), endpoint[c])
      BY <1>2 DEF NamesInv, NamesOf, Cloning, CloneFactor
    <3> QED
      BY <3>1, PositionTyped, ObjectsTyped DEF Remembered
  <2>3. heap[stored[c]][f] \in Receivers \cup {Probe, None}
    BY <2>2 DEF TypeOK
  <2> QED
    BY <1>2, <2>1, <2>3, WriteTyped DEF CloneFactor
<1>3. ASSUME NEW f \in Fields, Write(c, f), pc[c] \in {"solve", "trace", "directions"}
      PROVE  /\ heap' \in [Objects -> [Fields -> Receivers \cup {Probe, None}]]
             /\ \A o \in Objects : o # <<c, Hop(c)>> => heap'[o] = heap[o]
  <2>1. heap' = [heap EXCEPT ![<<c, Hop(c)>>][f] = FactorReceiver(c)]
    BY <1>3, SimulationWrites DEF Held, Solving
  <2>2. FactorReceiver(c) \in Receivers \cup {Probe, None}
    BY <1>3, FactorReceiverTyped
  <2> QED
    BY <2>1, <2>2, WriteTyped
<1>4. CASE SolveFactorEarly(c) \/ TraceFactorLate(c) \/ StoreDirections(c)
  BY <1>3, <1>4 DEF SolveFactorEarly, TraceFactorLate, StoreDirections, Fields
<1> QED
  BY <1>1, <1>2, <1>4 DEF Step, Compose, UseMemo, CacheHit, CacheMiss, ReadNeeds, Reuse, SolveHop,
     SolveFails, Publish

\* What a call stores in its memo.
LEMMA StoreTyped ==
  ASSUME TypeOK, PositionInv, NEW c \in Calls, NEW needs \in SUBSET Halves,
         StoreFactor(c, <<c, Hop(c)>>, needs)
  PROVE  /\ memo' \in [Calls -> [Hops -> Factors]]
         /\ \A d \in Calls : d # c => memo'[d] = memo[d]
         /\ \A h \in Hops : h # Hop(c) => memo'[c][h] = memo[c][h]
         /\ memo'[c][Hop(c)] = [object |-> <<c, Hop(c)>>, needs |-> needs]
<1>1. Hop(c) \in Hops /\ <<c, Hop(c)>> \in Objects
  BY PositionTyped, ObjectsTyped
<1>2. [object |-> <<c, Hop(c)>>, needs |-> needs] \in Factors
  BY <1>1 DEF Factors
<1>3. memo \in [Calls -> [Hops -> Factors]] /\ memo[c] \in [Hops -> Factors]
  BY DEF TypeOK
<1>4. [memo[c] EXCEPT ![Hop(c)] = [object |-> <<c, Hop(c)>>, needs |-> needs]] \in [Hops -> Factors]
  BY <1>1, <1>2, <1>3
<1>5. memo' = [memo EXCEPT ![c] = [memo[c] EXCEPT ![Hop(c)] = [object |-> <<c, Hop(c)>>, needs |-> needs]]]
  BY DEF StoreFactor
<1> QED
  BY <1>1, <1>3, <1>4, <1>5

\* The two actions that store a factor, and what they store.
LEMMA StepMemo ==
  ASSUME TypeOK, PositionInv, NamesInv, NEW c \in Calls, Step(c)
  PROVE  /\ memo' \in [Calls -> [Hops -> Factors]]
         /\ \A d \in Calls : d # c => memo'[d] = memo[d]
         /\ \A h \in Hops : h # Hop(c) => memo'[c][h] = memo[c][h]
         /\ Reuse(c) => memo'[c][Hop(c)] = cached[c] /\ cached[c].object = <<c, Hop(c)>>
         /\ Publish(c) => memo'[c][Hop(c)] =
              [object |-> <<c, Hop(c)>>, needs |-> cached[c].needs \cup Needs(c)]
         /\ pc[c] \notin {"decide", "publish"} \/ SolveHop(c) => memo' = memo
<1>1. cached[c] \in Factors /\ cached[c].needs \in SUBSET Halves
  BY DEF TypeOK, Factors
<1>2. CASE Reuse(c)
  <2>1. cached[c].object = <<c, Hop(c)>> /\ pc[c] = "decide"
    BY <1>2 DEF Reuse, NamesInv, NamesOf, Held
  <2>2. StoreFactor(c, <<c, Hop(c)>>, cached[c].needs)
    BY <1>2, <2>1 DEF Reuse
  <2>3. [object |-> <<c, Hop(c)>>, needs |-> cached[c].needs] = cached[c]
    BY <1>1, <2>1 DEF Factors
  <2>4. ~Publish(c) /\ ~SolveHop(c)
    BY <1>2, <2>1 DEF Publish, SolveHop, Reuse
  <2> QED
    BY <1>1, <2>1, <2>2, <2>3, <2>4, StoreTyped
<1>3. CASE Publish(c)
  <2>1. Into(c) = <<c, Hop(c)>> /\ pc[c] = "publish"
    BY <1>3, IntoOwn DEF Publish, Held, Solving
  <2>2. cached[c].needs \cup Needs(c) \in SUBSET Halves
    BY <1>1, <2>1, PositionTyped
  <2>3. StoreFactor(c, <<c, Hop(c)>>, cached[c].needs \cup Needs(c))
    BY <1>3, <2>1 DEF Publish
  <2>4. ~Reuse(c) /\ ~SolveHop(c)
    BY <2>1 DEF Reuse, SolveHop
  <2> QED
    BY <2>1, <2>2, <2>3, <2>4, StoreTyped
<1>4. CASE memo' = memo /\ ~Reuse(c) /\ ~Publish(c)
  BY <1>4 DEF TypeOK
<1> QED
  BY <1>2, <1>3, <1>4 DEF Step, Compose, UseMemo, CacheHit, CacheMiss, CloneFactor, ReadNeeds, SolveHop,
     SolveFactorEarly, TraceFactorLate, StoreDirections, SolveFails

\* The other local state of the calls.
LEMMA StepLocals ==
  ASSUME TypeOK, PositionInv, NamesInv, NEW c \in Calls, Step(c)
  PROVE  /\ UNCHANGED <<kind, endpoint, receiver>>
         /\ cached' \in [Calls -> Factors]
         /\ stored' \in [Calls -> Objects \cup {None}]
         /\ copied' \in [Calls -> SUBSET Fields]
         /\ simulated' \in [Calls -> [Hops -> [Halves -> Nat]]]
         /\ \A d \in Calls : d # c => /\ cached'[d] = cached[d] /\ stored'[d] = stored[d]
                                      /\ copied'[d] = copied[d] /\ simulated'[d] = simulated[d]
         /\ \A h \in Hops : h # Hop(c) => simulated'[c][h] = simulated[c][h]
<1> USE DEF Step, Compose, UseMemo, CacheHit, CacheMiss, CloneFactor, ReadNeeds, Reuse, SolveHop,
        SolveFactorEarly, TraceFactorLate, StoreDirections, SolveFails, Publish
<1>1. UNCHANGED <<kind, endpoint, receiver>>
  OBVIOUS
<1>2. Hop(c) \in Hops /\ <<c, Hop(c)>> \in Objects /\ NoFactor \in Factors
  BY PositionTyped, ObjectsTyped
<1>3. cached' \in [Calls -> Factors] /\ \A d \in Calls : d # c => cached'[d] = cached[d]
  <2>1. CASE cached' = cached
    BY <2>1 DEF TypeOK
  <2>2. CASE UseMemo(c)
    <3>1. memo[c][Hop(c)] \in Factors
      BY <1>2 DEF TypeOK
    <3> QED
      BY <2>2, <3>1 DEF TypeOK
  <2>3. CASE CacheMiss(c)
    BY <1>2, <2>3 DEF TypeOK
  <2>4. CASE ReadNeeds(c)
    <3>1. [object |-> CloneTarget(c), needs |-> FactorNeedsOf(stored[c])] \in Factors
      BY <1>2 DEF Factors, CloneTarget, FactorNeedsOf
    <3> QED
      BY <2>4, <3>1 DEF TypeOK
  <2> QED
    BY <2>1, <2>2, <2>3, <2>4
<1>4. stored' \in [Calls -> Objects \cup {None}] /\ \A d \in Calls : d # c => stored'[d] = stored[d]
  <2>1. CASE stored' = stored
    BY <2>1 DEF TypeOK
  <2>2. CASE CacheHit(c)
    <3>1. GroupResponseKey(c) \in Keys
      BY <1>2, <2>2, ObjectsTyped DEF GroupResponseKey, EndpointHash, PositionInv, PositionOf
    <3>2. factorOf[GroupResponseKey(c)] \in Objects \cup {None}
      BY <3>1 DEF TypeOK
    <3> QED
      BY <2>2, <3>2 DEF TypeOK
  <2> QED
    BY <2>1, <2>2
<1>5. copied' \in [Calls -> SUBSET Fields] /\ \A d \in Calls : d # c => copied'[d] = copied[d]
  <2>1. CASE copied' = copied
    BY <2>1 DEF TypeOK
  <2>2. CASE CacheHit(c)
    BY <2>2 DEF TypeOK
  <2>3. CASE CloneFactor(c)
    BY <2>3 DEF TypeOK
  <2> QED
    BY <2>1, <2>2, <2>3
<1>6. /\ simulated' \in [Calls -> [Hops -> [Halves -> Nat]]]
      /\ \A d \in Calls : d # c => simulated'[d] = simulated[d]
      /\ \A h \in Hops : h # Hop(c) => simulated'[c][h] = simulated[c][h]
  <2>1. CASE simulated' = simulated
    BY <2>1 DEF TypeOK
  <2>2. ASSUME NEW half \in Halves, Simulate(c, half)
        PROVE  <1>6!1 /\ <1>6!2 /\ <1>6!3
    <3>1. simulated \in [Calls -> [Hops -> [Halves -> Nat]]] /\ simulated[c] \in [Hops -> [Halves -> Nat]]
      BY DEF TypeOK
    <3>2. simulated[c][Hop(c)] \in [Halves -> Nat]
      BY <1>2, <3>1
    <3>3. [simulated[c][Hop(c)] EXCEPT ![half] = @ + 1] \in [Halves -> Nat]
      BY <3>2
    <3>4. [simulated[c] EXCEPT ![Hop(c)] = [simulated[c][Hop(c)] EXCEPT ![half] = @ + 1]]
            \in [Hops -> [Halves -> Nat]]
      BY <1>2, <3>1, <3>3
    <3>5. simulated' = [simulated EXCEPT ![c] =
            [simulated[c] EXCEPT ![Hop(c)] = [simulated[c][Hop(c)] EXCEPT ![half] = @ + 1]]]
      BY <2>2 DEF Simulate
    <3> QED
      BY <1>2, <3>1, <3>4, <3>5
  <2>3. CASE SolveFactorEarly(c) \/ TraceFactorLate(c)
    BY <2>2, <2>3 DEF Halves
  <2> QED
    BY <2>1, <2>3
<1> QED
  BY <1>1, <1>3, <1>4, <1>5, <1>6

\* Only a put changes what the cache holds for the calls.
LEMMA StepCache ==
  ASSUME TypeOK, PositionInv, NamesInv, NEW c \in Calls, Step(c)
  PROVE  /\ factorOf' \in [Keys -> Objects \cup {None}]
         /\ Publish(c) => factorOf' = [factorOf EXCEPT ![<<Hop(c), endpoint[c]>>] = <<c, Hop(c)>>]
         /\ ~Publish(c) => factorOf' = factorOf
<1>1. CASE Publish(c)
  <2>1. Into(c) = <<c, Hop(c)>> /\ pc[c] = "publish"
    BY <1>1, IntoOwn DEF Publish, Held, Solving
  <2>2. <<Hop(c), endpoint[c]>> \in Keys /\ <<c, Hop(c)>> \in Objects
    BY <2>1, PositionTyped, ObjectsTyped DEF PositionInv, PositionOf
  <2>3. factorOf' = [factorOf EXCEPT ![<<Hop(c), endpoint[c]>>] = <<c, Hop(c)>>]
    BY <1>1, <2>1 DEF Publish, Put, GroupResponseKey, EndpointHash
  <2> QED
    BY <1>1, <2>2, <2>3 DEF TypeOK
<1>2. CASE ~Publish(c)
  <2>1. factorOf' = factorOf
    BY <1>2 DEF Step, Compose, UseMemo, CacheHit, CacheMiss, CloneFactor, ReadNeeds, Reuse, SolveHop,
       SolveFactorEarly, TraceFactorLate, StoreDirections, SolveFails, GetHit, GetMiss, cacheVars
  <2> QED
    BY <1>2, <2>1 DEF TypeOK
<1> QED
  BY <1>1, <1>2

\* A step of a call keeps the types and stays on its paths.
LEMMA StepPosition ==
  ASSUME TypeOK, PositionInv, NamesInv, NEW c \in Calls, Step(c)
  PROVE  TypeOK' /\ PositionInv'
<1>1. TypeOK'
  BY StepPc, StepPass, StepHeap, StepMemo, StepLocals, StepCache DEF TypeOK
<1>2. UNCHANGED <<kind, endpoint, receiver>>
  BY StepLocals
<1>3. ASSUME NEW d \in Calls, d # c
      PROVE  PositionOf(d)'
  <2>1. /\ pc'[d] = pc[d] /\ pass'[d] = pass[d] /\ memo'[d] = memo[d] /\ simulated'[d] = simulated[d]
    <3>1. pc'[d] = pc[d]
      BY <1>3, StepPc
    <3>2. pass'[d] = pass[d]
      BY <1>3, StepPass
    <3>3. memo'[d] = memo[d]
      BY <1>3, StepMemo
    <3>4. simulated'[d] = simulated[d]
      BY <1>3, StepLocals
    <3> QED
      BY <3>1, <3>2, <3>3, <3>4
  <2>2. \A h \in Hops : heap'[<<d, h>>] = heap[<<d, h>>]
    BY <1>3, StepHeap, ObjectsTyped
  <2>3. PositionOf(d)
    BY DEF PositionInv
  <2>4. Path(d)' = Path(d)
    BY <2>1 DEF Path
  <2> QED
    BY <1>2, <2>1, <2>2, <2>3, <2>4 DEF PositionOf, NoFactor
<1>4. PositionOf(c)'
  BY <1>2, StepPc, StepPass DEF PositionInv, PositionOf, Path
<1> QED
  BY <1>1, <1>3, <1>4 DEF PositionInv, PositionOf

\* Beginning a call.
LEMMA BeginPosition ==
  ASSUME TypeOK, PositionInv, NEW c \in Calls, Begin(c)
  PROVE  /\ TypeOK' /\ PositionInv'
         /\ pc[c] = "idle" /\ pc'[c] = "hop"
         /\ UNCHANGED <<cacheVars, pass, memo, cached, stored, copied, heap, simulated>>
         /\ \A d \in Calls : d # c => /\ pc'[d] = pc[d] /\ kind'[d] = kind[d]
                                      /\ endpoint'[d] = endpoint[d] /\ receiver'[d] = receiver[d]
<1>1. PICK k \in Kinds, own \in Receivers, argument \in Receivers :
        /\ kind' = [kind EXCEPT ![c] = k]
        /\ endpoint' = [endpoint EXCEPT ![c] = own]
        /\ receiver' = [receiver EXCEPT ![c] = argument]
  BY DEF Begin
<1>2. /\ pc[c] = "idle" /\ pc' = [pc EXCEPT ![c] = "hop"]
      /\ UNCHANGED <<cacheVars, pass, memo, cached, stored, copied, heap, simulated>>
  BY DEF Begin
<1>3. TypeOK'
  BY <1>1, <1>2 DEF TypeOK, Labels, cacheVars
<1>4. \A d \in Calls : d # c => /\ pc'[d] = pc[d] /\ kind'[d] = kind[d]
                                /\ endpoint'[d] = endpoint[d] /\ receiver'[d] = receiver[d]
  BY <1>1, <1>2 DEF TypeOK
<1>5. pc'[c] = "hop" /\ kind'[c] = k /\ endpoint'[c] = own /\ receiver'[c] = argument
  BY <1>1, <1>2 DEF TypeOK
<1>6. pass[c].number \in 1..Len(Passes(k))
  <2>1. pass[c].number = 1
    BY <1>2 DEF PositionInv, PositionOf
  <2>2. Len(Passes(k)) \in {1, 2}
    BY PassesTyped
  <2>3. 1 \in 1..1 /\ 1 \in 1..2
    OBVIOUS
  <2> QED
    BY <2>1, <2>2, <2>3 DEF Passes
<1>7. PositionInv'
  BY <1>2, <1>4, <1>5, <1>6 DEF PositionInv, PositionOf, Path
<1> QED
  BY <1>2, <1>3, <1>4, <1>5, <1>7

\* An eviction forgets a pointer of the cache and leaves the calls alone.
LEMMA EvictPosition ==
  ASSUME TypeOK, PositionInv, Evict
  PROVE  /\ TypeOK' /\ PositionInv' /\ UNCHANGED callVars
         /\ \A k \in Keys : factorOf'[k] \in {factorOf[k], None}
<1>1. UNCHANGED callVars /\ RemoveLocked(Last(order))
  BY Zenon DEF Evict, EvictOldest
<1>2. factorOf' = [k \in Keys |-> IF k = Last(order) THEN None ELSE factorOf[k]]
  BY <1>1, Removed
<1>3. TypeOK'
  BY <1>1, <1>2 DEF TypeOK, callVars
<1>4. PositionInv'
  BY <1>1 DEF PositionInv, PositionOf, Path, callVars
<1> QED
  BY <1>1, <1>2, <1>3, <1>4

-----------------------------------------------------------------------------
(* Which object a pointer names. *)

\* A call does not forget what it has stored.
LEMMA RememberedStays ==
  ASSUME TypeOK, PositionInv, NamesInv, NEW c \in Calls, Step(c),
         NEW o, NEW h \in Hops, NEW e, Remembered(o, h, e)
  PROVE  Remembered(o, h, e)'
<1>1. PICK d \in Calls : /\ o = <<d, h>> /\ pc[d] # "idle" /\ endpoint[d] = e
                         /\ memo[d][h].object # None
  BY DEF Remembered
<1>2. pc'[d] # "idle" /\ endpoint'[d] = e
  BY <1>1, StepPc, StepLocals
<1>3. memo'[d][h].object # None
  <2>1. CASE d # c \/ h # Hop(c)
    BY <1>1, <2>1, StepMemo
  <2>2. CASE d = c /\ h = Hop(c)
    <3>1. <<c, Hop(c)>> # None
      BY PositionTyped, ObjectsTyped
    <3>2. CASE Reuse(c) \/ Publish(c)
      <4>1. CASE Reuse(c)
        <5>1. memo'[c][Hop(c)] = cached[c] /\ cached[c].object = <<c, Hop(c)>>
          BY <4>1, StepMemo
        <5> QED
          BY <2>2, <3>1, <5>1
      <4>2. CASE Publish(c)
        <5>1. memo'[c][Hop(c)] = [object |-> <<c, Hop(c)>>, needs |-> cached[c].needs \cup Needs(c)]
          BY <4>2, StepMemo
        <5> QED
          BY <2>2, <3>1, <5>1
      <4> QED
        BY <3>2, <4>1, <4>2
    <3>3. CASE ~Reuse(c) /\ ~Publish(c)
      <4>1. memo' = memo
        BY <3>3, StepMemo DEF Step, Compose, UseMemo, CacheHit, CacheMiss, CloneFactor, ReadNeeds,
           SolveHop, SolveFactorEarly, TraceFactorLate, StoreDirections, SolveFails
      <4> QED
        BY <1>1, <4>1
    <3> QED
      BY <3>2, <3>3
  <2> QED
    BY <2>1, <2>2
<1> QED
  BY <1>1, <1>2, <1>3 DEF Remembered

\* A step of another call does not concern the pointers of a call.
LEMMA OthersNames ==
  ASSUME TypeOK, PositionInv, NamesInv, NEW c \in Calls, Step(c), NEW d \in Calls, d # c
  PROVE  /\ NamesOf(d)'
         /\ pc'[d] = pc[d] /\ pass'[d] = pass[d] /\ memo'[d] = memo[d] /\ cached'[d] = cached[d]
         /\ stored'[d] = stored[d] /\ copied'[d] = copied[d] /\ simulated'[d] = simulated[d]
         /\ kind'[d] = kind[d] /\ endpoint'[d] = endpoint[d] /\ receiver'[d] = receiver[d]
         /\ Path(d)' = Path(d) /\ Hop(d)' = Hop(d) /\ Needs(d)' = Needs(d)
         /\ \A h \in Hops : heap'[<<d, h>>] = heap[<<d, h>>]
<1>1. pc'[d] = pc[d]
  BY StepPc
<1>2. pass'[d] = pass[d]
  BY StepPass
<1>3. memo'[d] = memo[d]
  BY StepMemo
<1>4. /\ cached'[d] = cached[d] /\ stored'[d] = stored[d] /\ copied'[d] = copied[d]
      /\ simulated'[d] = simulated[d]
      /\ kind'[d] = kind[d] /\ endpoint'[d] = endpoint[d] /\ receiver'[d] = receiver[d]
  BY StepLocals
<1>5. Path(d)' = Path(d) /\ Hop(d)' = Hop(d) /\ Needs(d)' = Needs(d)
  BY <1>2, <1>4 DEF Path, Hop, Needs
<1>6. \A h \in Hops : heap'[<<d, h>>] = heap[<<d, h>>]
  BY StepHeap, ObjectsTyped
<1>7. NamesOf(d)
  BY DEF NamesInv
<1>8. pc[d] \in Cloning => Remembered(stored[d], Hop(d), endpoint[d])'
  <2>1. SUFFICES ASSUME pc[d] \in Cloning PROVE Remembered(stored[d], Hop(d), endpoint[d])'
    OBVIOUS
  <2>2. PICK o \in Objects \cup {None}, h \in Hops, e \in Receivers \cup {None} :
          o = stored[d] /\ h = Hop(d) /\ e = endpoint[d]
    BY PositionTyped DEF TypeOK
  <2>3. Remembered(o, h, e)
    BY <1>7, <2>1, <2>2 DEF NamesOf
  <2>4. Remembered(o, h, e)'
    BY <2>3, RememberedStays
  <2> QED
    BY <1>4, <1>5, <2>2, <2>4
<1>9. NamesOf(d)'
  BY <1>1, <1>3, <1>4, <1>5, <1>7, <1>8 DEF NamesOf
<1> QED
  BY <1>1, <1>2, <1>3, <1>4, <1>5, <1>6, <1>9

\* The walk only moves on when a hop is done.
LEMMA StepHop ==
  ASSUME TypeOK, PositionInv, NamesInv, NEW c \in Calls, Step(c),
         ~Compose(c), ~Reuse(c), ~Publish(c)
  PROVE  /\ pass' = pass /\ memo' = memo /\ UNCHANGED <<kind, endpoint, receiver>>
         /\ Path(c)' = Path(c) /\ Hop(c)' = Hop(c) /\ Needs(c)' = Needs(c)
         /\ FactorReceiver(c)' = FactorReceiver(c)
<1>1. pass' = pass /\ memo' = memo /\ UNCHANGED <<kind, endpoint, receiver>>
  BY DEF Step, UseMemo, CacheHit, CacheMiss, CloneFactor, ReadNeeds, SolveHop, SolveFactorEarly,
     TraceFactorLate, StoreDirections, SolveFails
<1> QED
  BY <1>1 DEF Path, Hop, Needs, FactorReceiver

\* The labels at which a hop is done.
LEMMA MovesOn ==
  ASSUME TypeOK, NEW c \in Calls, Compose(c) \/ Reuse(c) \/ Publish(c)
  PROVE  pc'[c] \in {"hop", "compose", "done"}
BY DEF Compose, Reuse, Publish, Advance, Goto, TypeOK

\* A step of a call keeps its pointers to objects of its own.
LEMMA OwnNames ==
  ASSUME TypeOK, PositionInv, NamesInv, NEW c \in Calls, Step(c)
  PROVE  NamesOf(c)'
<1>0. /\ Hop(c) \in Hops /\ <<c, Hop(c)>> \in Objects /\ <<c, Hop(c)>> # None
      /\ pc[c] # "idle" /\ NamesOf(c) /\ PositionOf(c)
  BY PositionTyped, ObjectsTyped, StepPc DEF NamesInv, PositionInv
<1>1. \A h \in Hops : /\ memo'[c][h].object \in {None, <<c, h>>}
                      /\ memo'[c][h].object = None => memo'[c][h].needs = {}
  <2>1. ASSUME NEW h \in Hops, h # Hop(c) PROVE memo'[c][h] = memo[c][h]
    BY <2>1, StepMemo
  <2>2. CASE Reuse(c)
    <3>1. memo'[c][Hop(c)] = cached[c] /\ cached[c].object = <<c, Hop(c)>>
      BY <2>2, StepMemo
    <3> QED
      BY <1>0, <2>1, <3>1 DEF NamesOf
  <2>3. CASE Publish(c)
    <3>1. memo'[c][Hop(c)] = [object |-> <<c, Hop(c)>>, needs |-> cached[c].needs \cup Needs(c)]
      BY <2>3, StepMemo
    <3> QED
      BY <1>0, <2>1, <3>1 DEF NamesOf
  <2>4. CASE Compose(c) \/ (~Reuse(c) /\ ~Publish(c))
    <3>1. memo' = memo
      BY <2>4, StepHop DEF Compose
    <3> QED
      BY <1>0, <3>1 DEF NamesOf
  <2> QED
    BY <2>2, <2>3, <2>4
<1>2. CASE Compose(c) \/ Reuse(c) \/ Publish(c)
  BY <1>1, <1>2, MovesOn DEF NamesOf, Held, Solving, Cloning
<1>3. CASE ~Compose(c) /\ ~Reuse(c) /\ ~Publish(c)
  <2>1. memo' = memo /\ endpoint' = endpoint /\ Hop(c)' = Hop(c)
    BY <1>3, StepHop
  <2>2. CASE UseMemo(c)
    <3>1. cached'[c] = memo[c][Hop(c)] /\ pc'[c] = "decide"
      BY <2>2 DEF UseMemo, TypeOK, Goto
    <3> QED
      BY <1>0, <1>1, <2>1, <3>1 DEF NamesOf, Held, Solving, Cloning
  <2>3. CASE CacheMiss(c)
    <3>1. cached'[c] = NoFactor /\ pc'[c] = "decide" /\ memo[c][Hop(c)].object = None
      BY <2>3 DEF CacheMiss, TypeOK, Goto
    <3> QED
      BY <1>0, <1>1, <2>1, <3>1 DEF NamesOf, Held, Solving, Cloning, NoFactor
  <2>4. CASE ReadNeeds(c)
    <3>1. cached'[c] = [object |-> <<c, Hop(c)>>, needs |-> FactorNeedsOf(stored[c])]
      BY <2>4 DEF ReadNeeds, TypeOK, CloneTarget
    <3>2. pc[c] = "needs" /\ pc'[c] = "decide"
      BY <2>4 DEF ReadNeeds, TypeOK, Goto
    <3>3. memo[c][Hop(c)].object = None
      BY <1>0, <3>2 DEF NamesOf, Cloning
    <3> QED
      BY <1>0, <1>1, <2>1, <3>1, <3>2, <3>3 DEF NamesOf, Held, Solving, Cloning
  <2>5. CASE SolveHop(c) \/ SolveFactorEarly(c) \/ TraceFactorLate(c) \/ StoreDirections(c)
    <3>1. cached'[c] = cached[c] /\ pc[c] \in Held /\ pc'[c] \in Held
      BY <2>5 DEF SolveHop, SolveFactorEarly, TraceFactorLate, StoreDirections, TypeOK, Goto, Held, Solving
    <3> QED
      BY <1>0, <1>1, <2>1, <3>1 DEF NamesOf, Held, Solving, Cloning
  <2>6. CASE CacheHit(c)
    <3>1. /\ stored'[c] = factorOf[<<Hop(c), endpoint[c]>>] /\ pc'[c] = "clone"
          /\ factorOf[<<Hop(c), endpoint[c]>>] # None /\ memo[c][Hop(c)].object = None
      BY <2>6 DEF CacheHit, GetHit, Entries, TypeOK, Goto, GroupResponseKey, EndpointHash
    <3>2. PICK o, h, e : o = stored'[c] /\ h = Hop(c) /\ e = endpoint[c]
      OBVIOUS
    <3>3. Remembered(o, h, e)
      BY <1>0, <3>1, <3>2 DEF NamesInv, PositionOf
    <3>4. Remembered(o, h, e)'
      BY <1>0, <3>2, <3>3, RememberedStays
    <3> QED
      BY <1>1, <2>1, <3>1, <3>2, <3>4 DEF NamesOf, Held, Solving, Cloning
  <2>7. CASE CloneFactor(c)
    <3>1. stored' = stored /\ pc[c] = "clone" /\ pc'[c] \in Cloning
      BY <2>7 DEF CloneFactor, TypeOK, Goto, Cloning
    <3>2. PICK o, h, e : o = stored[c] /\ h = Hop(c) /\ e = endpoint[c]
      OBVIOUS
    <3>3. Remembered(o, h, e) /\ memo[c][Hop(c)].object = None
      BY <1>0, <3>1, <3>2 DEF NamesOf, Cloning
    <3>4. Remembered(o, h, e)'
      BY <1>0, <3>2, <3>3, RememberedStays
    <3> QED
      BY <1>1, <2>1, <3>1, <3>2, <3>3, <3>4 DEF NamesOf, Held, Solving, Cloning
  <2>8. CASE SolveFails(c)
    <3>1. pc'[c] = "failed"
      BY <2>8 DEF SolveFails, TypeOK, Goto
    <3> QED
      BY <1>1, <3>1 DEF NamesOf, Held, Solving, Cloning
  <2> QED
    BY <1>3, <2>2, <2>3, <2>4, <2>5, <2>6, <2>7, <2>8 DEF Step
<1> QED
  BY <1>2, <1>3

\* A step of a call keeps the pointers in order.
LEMMA StepNames ==
  ASSUME TypeOK, PositionInv, NamesInv, NEW c \in Calls, Step(c)
  PROVE  NamesInv'
<1>1. \A d \in Calls : NamesOf(d)'
  BY OwnNames, OthersNames
<1>2. ASSUME NEW h \in Hops, NEW e \in Receivers, factorOf'[<<h, e>>] # None
      PROVE  Remembered(factorOf[<<h, e>>], h, e)'
  <2>1. PICK o : o = factorOf'[<<h, e>>]
    OBVIOUS
  <2>2. Remembered(o, h, e)'
    <3>1. CASE factorOf'[<<h, e>>] = factorOf[<<h, e>>]
      <4>1. Remembered(o, h, e)
        BY <1>2, <2>1, <3>1 DEF NamesInv
      <4> QED
        BY <4>1, RememberedStays
    <3>2. CASE factorOf'[<<h, e>>] # factorOf[<<h, e>>]
      <4>1. Publish(c) /\ factorOf' = [factorOf EXCEPT ![<<Hop(c), endpoint[c]>>] = <<c, Hop(c)>>]
        BY <3>2, StepCache
      <4>2. h = Hop(c) /\ e = endpoint[c] /\ o = <<c, h>>
        BY <2>1, <3>2, <4>1, ObjectsTyped DEF TypeOK
      <4>3. pc'[c] # "idle" /\ endpoint'[c] = e
        BY <4>2, StepPc, StepLocals
      <4>4. memo'[c][h].object = <<c, h>> /\ <<c, h>> # None
        <5>1. memo'[c][Hop(c)] = [object |-> <<c, Hop(c)>>, needs |-> cached[c].needs \cup Needs(c)]
          BY <4>1, StepMemo
        <5> QED
          BY <4>2, <5>1, ObjectsTyped
      <4> QED
        BY <4>2, <4>3, <4>4 DEF Remembered
    <3> QED
      BY <3>1, <3>2
  <2> QED
    BY <2>1, <2>2
<1> QED
  BY <1>1, <1>2 DEF NamesInv

\* A call that begins holds no pointer, and others keep theirs.
LEMMA BeginNames ==
  ASSUME TypeOK, PositionInv, NamesInv, NEW c \in Calls, Begin(c)
  PROVE  NamesInv'
<1>1. /\ pc[c] = "idle" /\ pc'[c] = "hop"
      /\ UNCHANGED <<factorOf, pass, memo, cached, stored>>
      /\ \A d \in Calls : d # c => pc'[d] = pc[d] /\ endpoint'[d] = endpoint[d]
  BY BeginPosition DEF cacheVars
<1>2. ASSUME NEW o, NEW h, NEW e, Remembered(o, h, e) PROVE Remembered(o, h, e)'
  <2>1. PICK d \in Calls : /\ o = <<d, h>> /\ pc[d] # "idle" /\ endpoint[d] = e
                           /\ memo[d][h].object # None
    BY <1>2 DEF Remembered
  <2>2. pc'[d] # "idle" /\ endpoint'[d] = e
    BY <1>1, <2>1
  <2> QED
    BY <1>1, <2>1, <2>2 DEF Remembered
<1>3. ASSUME NEW d \in Calls PROVE NamesOf(d)'
  <2>1. NamesOf(d) /\ Hop(d)' = Hop(d)
    BY <1>1 DEF NamesInv, Hop, Path
  <2>2. CASE d = c
    BY <1>1, <2>1, <2>2 DEF NamesOf, Held, Solving, Cloning
  <2>3. CASE d # c
    <3>1. pc'[d] = pc[d] /\ endpoint'[d] = endpoint[d]
      BY <1>1, <2>3
    <3>2. PICK o, h, e : o = stored[d] /\ h = Hop(d) /\ e = endpoint[d]
      OBVIOUS
    <3>3. pc[d] \in Cloning => Remembered(o, h, e)'
      BY <1>2, <2>1, <3>2 DEF NamesOf
    <3> QED
      BY <1>1, <2>1, <3>1, <3>2, <3>3 DEF NamesOf
  <2> QED
    BY <2>2, <2>3
<1>4. ASSUME NEW h \in Hops, NEW e \in Receivers, factorOf'[<<h, e>>] # None
      PROVE  Remembered(factorOf[<<h, e>>], h, e)'
  <2>1. PICK o : o = factorOf[<<h, e>>]
    OBVIOUS
  <2>2. Remembered(o, h, e)'
    BY <1>1, <1>2, <1>4, <2>1 DEF NamesInv
  <2> QED
    BY <1>1, <2>1, <2>2
<1> QED
  BY <1>3, <1>4 DEF NamesInv

\* An eviction makes no pointer.
LEMMA EvictNames ==
  ASSUME TypeOK, PositionInv, NamesInv, Evict
  PROVE  NamesInv'
<1>1. UNCHANGED callVars /\ \A k \in Keys : factorOf'[k] \in {factorOf[k], None}
  BY EvictPosition
<1>2. ASSUME NEW d \in Calls PROVE NamesOf(d)'
  <2>1. NamesOf(d) /\ Hop(d)' = Hop(d)
    BY <1>1 DEF NamesInv, Hop, Path, callVars
  <2>2. pc[d] \in Cloning => Remembered(stored[d], Hop(d), endpoint[d])'
    <3>1. pc[d] \in Cloning => Remembered(stored[d], Hop(d), endpoint[d])
      BY <2>1 DEF NamesOf
    <3> QED
      BY <1>1, <2>1, <3>1 DEF Remembered, callVars
  <2> QED
    BY <1>1, <2>1, <2>2 DEF NamesOf, callVars
<1>3. ASSUME NEW h \in Hops, NEW e \in Receivers, factorOf'[<<h, e>>] # None
      PROVE  Remembered(factorOf[<<h, e>>], h, e)'
  <2>1. <<h, e>> \in Keys
    BY NetworkAssumption DEF NetworkKeys
  <2>2. factorOf'[<<h, e>>] = factorOf[<<h, e>>]
    BY <1>1, <1>3, <2>1
  <2>3. Remembered(factorOf[<<h, e>>], h, e)
    BY <1>3, <2>2 DEF NamesInv
  <2> QED
    BY <1>1, <2>2, <2>3 DEF Remembered, callVars
<1> QED
  BY <1>2, <1>3 DEF NamesInv

-----------------------------------------------------------------------------
(* One simulation per hop. *)

\* The initial state satisfies the invariant of the calls.
LEMMA InitCallInv == Init => CallInv
<1> SUFFICES ASSUME Init PROVE CallInv
  OBVIOUS
<1> USE DEF Init, CacheInit
<1>1. TypeOK
  <2>1. /\ factorOf \in [Keys -> Objects \cup {None}] /\ pc \in [Calls -> Labels]
        /\ kind \in [Calls -> Kinds \cup {None}]
        /\ endpoint \in [Calls -> Receivers \cup {None}] /\ receiver \in [Calls -> Receivers \cup {None}]
    BY DEF Labels
  <2>2. pass \in [Calls -> [number : Nat, path : Nat, index : Nat]]
    OBVIOUS
  <2>3. NoFactor \in Factors
    BY DEF NoFactor, Factors
  <2>4. /\ memo \in [Calls -> [Hops -> Factors]] /\ cached \in [Calls -> Factors]
        /\ stored \in [Calls -> Objects \cup {None}] /\ copied \in [Calls -> SUBSET Fields]
    BY <2>3
  <2>5. /\ heap \in [Objects -> [Fields -> Receivers \cup {Probe, None}]]
        /\ simulated \in [Calls -> [Hops -> [Halves -> Nat]]]
    BY NetworkAssumption
  <2> QED
    BY <2>1, <2>2, <2>4, <2>5 DEF TypeOK
<1>2. PositionInv
  BY PathsTyped DEF PositionInv, PositionOf, Path, NetworkObjects
<1>3. NamesInv
  <2>1. \A c \in Calls : NamesOf(c)
    BY DEF NamesOf, Held, Solving, Cloning, NoFactor
  <2>2. \A h \in Hops, e \in Receivers : factorOf[<<h, e>>] = None
    BY NetworkAssumption DEF NetworkKeys
  <2> QED
    BY <2>1, <2>2 DEF NamesInv
<1>4. SimulationInv
  BY DEF SimulationInv, SimulationOf
<1> QED
  BY <1>1, <1>2, <1>3, <1>4 DEF CallInv

\* What is recorded away from the hop of a call, and where the call is not busy.
LEMMA RecordedElsewhere ==
  ASSUME NEW c \in Calls, NEW h \in Hops, h # Hop(c) \/ pc[c] \notin Held
  PROVE  Recorded(c, h) = memo[c][h].needs
BY DEF Recorded, Held, Solving

\* What a step of a call does to the simulations of its own hop.
LEMMA SimulateTyped ==
  ASSUME TypeOK, PositionInv, NEW c \in Calls, NEW half \in Halves, Simulate(c, half)
  PROVE  /\ simulated'[c][Hop(c)][half] = simulated[c][Hop(c)][half] + 1
         /\ \A x \in Halves : x # half => simulated'[c][Hop(c)][x] = simulated[c][Hop(c)][x]
<1>1. Hop(c) \in Hops
  BY PositionTyped
<1>2. simulated[c] \in [Hops -> [Halves -> Nat]] /\ simulated[c][Hop(c)] \in [Halves -> Nat]
  BY <1>1 DEF TypeOK
<1>3. simulated'[c] = [simulated[c] EXCEPT ![Hop(c)] = [simulated[c][Hop(c)] EXCEPT ![half] = @ + 1]]
  BY DEF Simulate, TypeOK
<1> QED
  BY <1>1, <1>2, <1>3

\* The simulations of a call away from its hop stay recorded.
LEMMA ElsewhereSimulated ==
  ASSUME TypeOK, PositionInv, NamesInv, SimulationInv, NEW c \in Calls, Step(c),
         NEW h \in Hops, h # Hop(c), h # Hop(c)' \/ pc'[c] \notin Held, NEW half \in Halves
  PROVE  /\ simulated'[c][h][half] <= 1
         /\ pc'[c] # "failed" /\ simulated'[c][h][half] # 0 => half \in Recorded(c, h)'
<1>1. simulated'[c][h] = simulated[c][h] /\ memo'[c][h] = memo[c][h]
  BY StepLocals, StepMemo
<1>2. Recorded(c, h) = memo[c][h].needs
  BY RecordedElsewhere
<1>3. Recorded(c, h)' = memo'[c][h].needs
  BY DEF Recorded, Held, Solving
<1>4. pc[c] # "failed"
  BY StepPc
<1>5. simulated[c][h][half] <= 1 /\ (simulated[c][h][half] # 0 => half \in Recorded(c, h))
  BY <1>4 DEF SimulationInv, SimulationOf
<1> QED
  BY <1>1, <1>2, <1>3, <1>5

\* A call simulates a half of its hop once.
LEMMA HopSimulated ==
  ASSUME TypeOK, PositionInv, NamesInv, SimulationInv, NEW c \in Calls, Step(c),
         NEW h \in Hops, h = Hop(c), NEW half \in Halves
  PROVE  /\ simulated'[c][h][half] <= 1
         /\ pc'[c] # "failed" /\ simulated'[c][h][half] # 0 => half \in Recorded(c, h)'
<1>0. /\ Hop(c) \in Hops /\ pc[c] # "idle" /\ pc[c] # "failed" /\ NamesOf(c)
      /\ simulated[c][Hop(c)] \in [Halves -> Nat]
  BY PositionTyped, StepPc DEF NamesInv, TypeOK
<1>1. /\ \A x \in Halves : simulated[c][Hop(c)][x] <= 1
      /\ \A x \in Halves : simulated[c][Hop(c)][x] # 0 => x \in Recorded(c, Hop(c))
  BY <1>0 DEF SimulationInv, SimulationOf
<1>2. CASE Compose(c) \/ Reuse(c) \/ Publish(c)
  <2>1. pc'[c] \in {"hop", "compose", "done"} /\ simulated' = simulated
    BY <1>2, MovesOn DEF Compose, Reuse, Publish
  <2>2. Recorded(c, h)' = memo'[c][h].needs
    BY <2>1 DEF Recorded
  <2>3. Recorded(c, Hop(c)) \subseteq memo'[c][Hop(c)].needs
    <3>1. CASE Compose(c)
      BY <3>1 DEF Compose, Recorded
    <3>2. CASE Reuse(c)
      <4>1. memo'[c][Hop(c)] = cached[c] /\ pc[c] = "decide"
        BY <3>2, StepMemo DEF Reuse
      <4> QED
        BY <4>1 DEF Recorded
    <3>3. CASE Publish(c)
      <4>1. memo'[c][Hop(c)] = [object |-> <<c, Hop(c)>>, needs |-> cached[c].needs \cup Needs(c)]
        BY <3>3, StepMemo
      <4>2. pc[c] = "publish"
        BY <3>3 DEF Publish
      <4> QED
        BY <4>1, <4>2 DEF Recorded
    <3> QED
      BY <1>2, <3>1, <3>2, <3>3
  <2> QED
    BY <1>1, <2>1, <2>2, <2>3
<1>3. CASE ~Compose(c) /\ ~Reuse(c) /\ ~Publish(c)
  <2>1. memo' = memo /\ Hop(c)' = Hop(c) /\ Needs(c)' = Needs(c)
    BY <1>3, StepHop
  <2>2. CASE UseMemo(c)
    <3>1. cached'[c] = memo[c][Hop(c)] /\ pc[c] = "hop" /\ pc'[c] = "decide" /\ simulated' = simulated
      BY <2>2 DEF UseMemo, TypeOK, Goto
    <3> QED
      BY <1>1, <2>1, <3>1 DEF Recorded
  <2>3. CASE CacheMiss(c) \/ ReadNeeds(c)
    <3>1. memo[c][Hop(c)].object = None /\ pc[c] \in {"hop", "needs"} /\ simulated' = simulated
      BY <1>0, <2>3 DEF CacheMiss, ReadNeeds, NamesOf, Cloning
    <3>2. Recorded(c, Hop(c)) = {}
      BY <1>0, <3>1 DEF Recorded, NamesOf
    <3> QED
      BY <1>1, <3>1, <3>2
  <2>4. CASE CacheHit(c) \/ CloneFactor(c)
    <3>1. pc[c] \in {"hop", "clone"} /\ pc'[c] \in Cloning /\ simulated' = simulated
      BY <2>4 DEF CacheHit, CloneFactor, TypeOK, Goto, Cloning
    <3> QED
      BY <1>1, <2>1, <3>1 DEF Recorded, Cloning
  <2>5. CASE SolveHop(c)
    <3>1. /\ pc[c] = "decide" /\ pc'[c] \in {"solve", "trace"}
          /\ cached' = cached /\ simulated' = simulated
      BY <2>5 DEF SolveHop, TypeOK, Goto
    <3> QED
      BY <1>1, <2>1, <3>1 DEF Recorded
  <2>6. CASE SolveFactorEarly(c)
    <3>1. pc[c] = "solve" /\ pc'[c] \in {"trace", "publish"} /\ cached' = cached /\ Simulate(c, "early")
      BY <2>6 DEF SolveFactorEarly, TypeOK, Goto
    <3>2. "early" \in Needs(c) /\ "early" \notin cached[c].needs
      BY <3>1 DEF SimulationInv, SimulationOf, Missing
    <3>3. simulated[c][Hop(c)]["early"] = 0
      BY <1>1, <3>1, <3>2 DEF Recorded, Halves
    <3>4. /\ simulated'[c][Hop(c)]["early"] = 1
          /\ \A x \in Halves : x # "early" => simulated'[c][Hop(c)][x] = simulated[c][Hop(c)][x]
      BY <3>1, <3>3, SimulateTyped DEF Halves
    <3>5. Recorded(c, Hop(c)) \cup {"early"} \subseteq Recorded(c, h)'
      BY <2>1, <3>1, <3>2 DEF Recorded
    <3> QED
      BY <1>1, <3>4, <3>5
  <2>7. CASE TraceFactorLate(c)
    <3>1. pc[c] = "trace" /\ pc'[c] \in {"directions", "publish"} /\ cached' = cached /\ Simulate(c, "late")
      BY <2>7 DEF TraceFactorLate, TypeOK, Goto
    <3>2. "late" \in Needs(c) /\ "late" \notin cached[c].needs
      BY <3>1 DEF SimulationInv, SimulationOf, Missing
    <3>3. simulated[c][Hop(c)]["late"] = 0
      BY <1>1, <3>1, <3>2 DEF Recorded, Halves
    <3>4. /\ simulated'[c][Hop(c)]["late"] = 1
          /\ \A x \in Halves : x # "late" => simulated'[c][Hop(c)][x] = simulated[c][Hop(c)][x]
      BY <3>1, <3>3, SimulateTyped DEF Halves
    <3>5. Recorded(c, Hop(c)) \cup {"late"} \subseteq Recorded(c, h)'
      BY <2>1, <3>1, <3>2 DEF Recorded
    <3> QED
      BY <1>1, <3>4, <3>5
  <2>8. CASE StoreDirections(c)
    <3>1. pc[c] = "directions" /\ pc'[c] = "publish" /\ cached' = cached /\ simulated' = simulated
      BY <2>8 DEF StoreDirections, TypeOK, Goto
    <3> QED
      BY <1>1, <2>1, <3>1 DEF Recorded
  <2>9. CASE SolveFails(c)
    <3>1. pc'[c] = "failed" /\ simulated' = simulated
      BY <2>9 DEF SolveFails, TypeOK, Goto
    <3> QED
      BY <1>1, <3>1
  <2> QED
    BY <1>3, <2>2, <2>3, <2>4, <2>5, <2>6, <2>7, <2>8, <2>9 DEF Step
<1> QED
  BY <1>2, <1>3

\* A step of a call simulates nothing twice.
LEMMA StepSimulation ==
  ASSUME TypeOK, PositionInv, NamesInv, SimulationInv, NEW c \in Calls, Step(c)
  PROVE  SimulationInv'
<1>1. ASSUME NEW d \in Calls, d # c PROVE SimulationOf(d)'
  <2>1. /\ pc'[d] = pc[d] /\ memo'[d] = memo[d] /\ cached'[d] = cached[d] /\ simulated'[d] = simulated[d]
        /\ Hop(d)' = Hop(d) /\ Needs(d)' = Needs(d)
    BY <1>1, OthersNames
  <2>2. \A h \in Hops : Recorded(d, h)' = Recorded(d, h)
    BY <2>1 DEF Recorded
  <2>3. Missing(d)' = Missing(d)
    BY <2>1 DEF Missing
  <2> QED
    BY <2>1, <2>2, <2>3 DEF SimulationInv, SimulationOf
<1>2. SimulationOf(c)'
  <2>1. ASSUME NEW h \in Hops, NEW half \in Halves
        PROVE  /\ simulated'[c][h][half] <= 1
               /\ pc'[c] # "failed" /\ simulated'[c][h][half] # 0 => half \in Recorded(c, h)'
    <3>1. CASE h = Hop(c)
      BY <3>1, HopSimulated
    <3>2. CASE h # Hop(c)
      <4>1. Hop(c)' = Hop(c) \/ pc'[c] \notin Held
        BY MovesOn, StepHop DEF Held, Solving
      <4> QED
        BY <3>2, <4>1, ElsewhereSimulated
    <3> QED
      BY <3>1, <3>2
  <2>2. (pc'[c] = "solve" => "early" \in Missing(c)') /\ (pc'[c] = "trace" => "late" \in Missing(c)')
    <3>1. CASE SolveHop(c)
      <4>1. /\ pc[c] = "decide" /\ cached' = cached
            /\ cached[c].object = None \/ Missing(c) # {}
            /\ pc'[c] = IF "early" \in Missing(c) THEN "solve" ELSE "trace"
        BY <3>1 DEF SolveHop, TypeOK, Goto
      <4>2. Needs(c)' = Needs(c) /\ Needs(c) \in SUBSET Halves /\ Needs(c) # {}
        <5>1. ~Compose(c) /\ ~Reuse(c) /\ ~Publish(c)
          BY <3>1 DEF SolveHop, Compose, Reuse, Publish
        <5> QED
          BY <4>1, <5>1, StepHop, PositionTyped
      <4>3. Missing(c) # {}
        BY <4>1, <4>2 DEF NamesInv, NamesOf, Missing, Held
      <4> QED
        BY <4>1, <4>2, <4>3 DEF Missing, Halves
    <3>2. CASE SolveFactorEarly(c)
      <4>1. cached' = cached /\ pc'[c] = IF "late" \in Missing(c) THEN "trace" ELSE "publish"
        BY <3>2 DEF SolveFactorEarly, TypeOK, Goto
      <4>2. Needs(c)' = Needs(c)
        <5>1. ~Compose(c) /\ ~Reuse(c) /\ ~Publish(c)
          BY <3>2 DEF SolveFactorEarly, Compose, Reuse, Publish
        <5> QED
          BY <5>1, StepHop
      <4> QED
        BY <4>1, <4>2 DEF Missing
    <3>3. CASE Compose(c) \/ Reuse(c) \/ Publish(c)
      BY <3>3, MovesOn
    <3>4. CASE UseMemo(c) \/ CacheHit(c) \/ CacheMiss(c) \/ CloneFactor(c) \/ ReadNeeds(c)
               \/ TraceFactorLate(c) \/ StoreDirections(c) \/ SolveFails(c)
      <4>1. pc'[c] \notin {"solve", "trace"}
        BY <3>4 DEF UseMemo, CacheHit, CacheMiss, CloneFactor, ReadNeeds, TraceFactorLate,
           StoreDirections, SolveFails, TypeOK, Goto
      <4> QED
        BY <4>1
    <3> QED
      BY <3>1, <3>2, <3>3, <3>4 DEF Step
  <2> QED
    BY <2>1, <2>2 DEF SimulationOf
<1> QED
  BY <1>1, <1>2 DEF SimulationInv

\* A call that begins has simulated nothing.
LEMMA BeginSimulation ==
  ASSUME TypeOK, PositionInv, SimulationInv, NEW c \in Calls, Begin(c)
  PROVE  SimulationInv'
<1>1. /\ pc[c] = "idle" /\ pc'[c] = "hop" /\ UNCHANGED <<pass, memo, cached, simulated>>
      /\ \A d \in Calls : d # c => pc'[d] = pc[d] /\ kind'[d] = kind[d]
  BY BeginPosition
<1>2. SimulationOf(c)'
  <2>1. \A h \in Hops, half \in Halves : simulated'[c][h][half] = 0
    BY <1>1 DEF PositionInv, PositionOf
  <2> QED
    BY <1>1, <2>1 DEF SimulationOf
<1>3. ASSUME NEW d \in Calls, d # c PROVE SimulationOf(d)'
  <2>1. pc'[d] = pc[d] /\ Hop(d)' = Hop(d) /\ Needs(d)' = Needs(d)
    BY <1>1, <1>3 DEF Hop, Path, Needs
  <2>2. Missing(d)' = Missing(d) /\ \A h \in Hops : Recorded(d, h)' = Recorded(d, h)
    BY <1>1, <2>1 DEF Missing, Recorded
  <2> QED
    BY <1>1, <2>1, <2>2 DEF SimulationInv, SimulationOf
<1> QED
  BY <1>2, <1>3 DEF SimulationInv

\* A step that leaves the calls and the pointers of the cache alone.
LEMMA CallsFramed ==
  ASSUME CallInv, UNCHANGED callVars, UNCHANGED factorOf
  PROVE  CallInv'
<1>1. TypeOK'
  BY DEF CallInv, TypeOK, callVars
<1>2. /\ \A c \in Calls : Path(c)' = Path(c) /\ Hop(c)' = Hop(c) /\ Needs(c)' = Needs(c)
      /\ \A c \in Calls : Missing(c)' = Missing(c)
      /\ \A c \in Calls, h \in Hops : Recorded(c, h)' = Recorded(c, h)
  BY DEF Path, Hop, Needs, Missing, Recorded, callVars
<1>3. PositionInv'
  BY <1>2 DEF CallInv, PositionInv, PositionOf, callVars
<1>4. NamesInv'
  <2>1. ASSUME NEW c \in Calls PROVE NamesOf(c)'
    <3>1. NamesOf(c)
      BY DEF CallInv, NamesInv
    <3>2. Remembered(stored[c], Hop(c), endpoint[c])' <=> Remembered(stored[c], Hop(c), endpoint[c])
      BY <1>2 DEF Remembered, callVars
    <3> QED
      BY <1>2, <3>1, <3>2 DEF NamesOf, callVars
  <2>2. ASSUME NEW h \in Hops, NEW e \in Receivers, factorOf'[<<h, e>>] # None
        PROVE  Remembered(factorOf[<<h, e>>], h, e)'
    BY <2>2 DEF CallInv, NamesInv, Remembered, callVars
  <2> QED
    BY <2>1, <2>2 DEF NamesInv
<1>5. SimulationInv'
  BY <1>2 DEF CallInv, SimulationInv, SimulationOf, callVars
<1> QED
  BY <1>1, <1>3, <1>4, <1>5 DEF CallInv

\* Every step preserves the invariant of the calls.
LEMMA NextCallInv == CallInv /\ [Next]_vars => CallInv'
<1> SUFFICES ASSUME CallInv, [Next]_vars PROVE CallInv'
  OBVIOUS
<1>1. TypeOK /\ PositionInv /\ NamesInv /\ SimulationInv
  BY DEF CallInv
<1>2. ASSUME NEW c \in Calls, Begin(c) PROVE CallInv'
  BY <1>1, <1>2, BeginPosition, BeginNames, BeginSimulation DEF CallInv
<1>3. ASSUME NEW c \in Calls, Step(c) PROVE CallInv'
  BY <1>1, <1>3, StepPosition, StepNames, StepSimulation DEF CallInv
<1>4. CASE Evict
  <2>1. TypeOK' /\ PositionInv' /\ NamesInv' /\ UNCHANGED callVars
    BY <1>1, <1>4, EvictPosition, EvictNames
  <2>2. /\ \A c \in Calls : Missing(c)' = Missing(c)
        /\ \A c \in Calls, h \in Hops : Recorded(c, h)' = Recorded(c, h)
    BY <2>1 DEF Path, Hop, Needs, Missing, Recorded, callVars
  <2>3. SimulationInv'
    BY <1>1, <2>1, <2>2 DEF SimulationInv, SimulationOf, callVars
  <2> QED
    BY <2>1, <2>3 DEF CallInv
<1>5. CASE UNCHANGED vars
  BY <1>5, CallsFramed DEF vars, callVars
<1> QED
  BY <1>2, <1>3, <1>4, <1>5 DEF Next

\* The calls keep their invariant in every behaviour.
LEMMA CallInvariance == Spec => []CallInv
BY InitCallInv, NextCallInv, PTL DEF Spec

\* "Exactly one simulation runs per hop": a render simulates each half of a hop
\* at most once, however its paths and passes share hops, whatever the other
\* renders put into the cache and whatever the cache evicts meanwhile.
THEOREM HopsSimulatedOnce == Spec => []SimulatedOnce
<1>1. CallInv => SimulatedOnce
  BY DEF CallInv, SimulationInv, SimulationOf, SimulatedOnce
<1> QED
  BY <1>1, CallInvariance, PTL

-----------------------------------------------------------------------------
(* The receiver a factor was simulated for. *)

\* Before any call there are no factors.
LEMMA InitOwnInv == Init => OwnInv
<1> SUFFICES ASSUME Init PROVE OwnInv
  OBVIOUS
<1>1. \A c \in Calls, h \in Terminal, f \in Fields : heap[<<c, h>>][f] = None
  BY TerminalHops DEF Init, NetworkObjects
<1> QED
  BY <1>1 DEF OwnInv, Init

\* A clone is made of a factor for the same receiver.
LEMMA StepOwnInv ==
  ASSUME CallInv, OwnInv, NEW c \in Calls, Step(c)
  PROVE  OwnInv'
<1>0. TypeOK /\ PositionInv /\ NamesInv /\ pc[c] # "idle"
  BY StepPc DEF CallInv
<1>1. UNCHANGED <<kind, endpoint, receiver>> /\ \A d \in Calls : pc'[d] # "idle" <=> pc[d] # "idle"
  BY <1>0, StepLocals, StepPc
<1>2. ASSUME NEW d \in Calls, NEW h \in Terminal, NEW f \in Fields
      PROVE  heap'[<<d, h>>][f] \in {receiver[d], None}
  <2>1. h \in Hops /\ <<d, h>> \in Objects /\ Hop(c) \in Hops
    BY <1>0, TerminalHops, ObjectsTyped, PositionTyped
  <2>2. CASE heap'[<<d, h>>] = heap[<<d, h>>]
    BY <2>2 DEF OwnInv
  <2>3. CASE <<d, h>> = <<c, Hop(c)>> /\ CloneFactor(c)
    <3>1. PICK g \in Fields : heap' = [heap EXCEPT ![<<c, Hop(c)>>][g] = heap[stored[c]][g]]
      BY <2>3 DEF CloneFactor, CloneTarget
    <3>2. PICK e \in Calls : /\ stored[c] = <<e, Hop(c)>> /\ pc[e] # "idle"
                             /\ endpoint[e] = endpoint[c]
      BY <1>0, <2>3 DEF NamesInv, NamesOf, Cloning, CloneFactor, Remembered
    <3>3. receiver[e] = receiver[c]
      BY <1>0, <3>2 DEF OwnInv
    <3>4. d = c /\ h = Hop(c)
      BY <2>3
    <3>5. heap[stored[c]][g] \in {receiver[c], None}
      BY <3>2, <3>3, <3>4 DEF OwnInv
    <3>6. heap[stored[c]][g] \in Receivers \cup {Probe, None}
      BY <1>0, <3>5 DEF PositionInv, PositionOf
    <3>7. f # g => heap'[<<c, Hop(c)>>][f] = heap[<<c, Hop(c)>>][f]
      BY <1>0, <3>1, <3>6, WriteTyped
    <3>8. heap'[<<c, Hop(c)>>][g] = heap[stored[c]][g]
      BY <1>0, <2>1, <2>3, <3>1 DEF TypeOK
    <3> QED
      BY <3>4, <3>5, <3>7, <3>8 DEF OwnInv
  <2>4. ASSUME NEW g \in Fields, Write(c, g), pc[c] \in Held, <<d, h>> = <<c, Hop(c)>>
        PROVE  heap'[<<d, h>>][f] \in {receiver[d], None}
    <3>1. heap' = [heap EXCEPT ![<<c, Hop(c)>>][g] = FactorReceiver(c)]
      BY <1>0, <2>4, SimulationWrites
    <3>2. FactorReceiver(c) \in Receivers \cup {Probe, None}
      BY <1>0, FactorReceiverTyped
    <3>3. d = c /\ h = Hop(c) /\ FactorReceiver(c) = receiver[c]
      BY <2>4 DEF FactorReceiver
    <3>4. f # g => heap'[<<c, Hop(c)>>][f] = heap[<<c, Hop(c)>>][f]
      BY <1>0, <3>1, <3>2, WriteTyped
    <3>5. heap'[<<c, Hop(c)>>][g] = FactorReceiver(c)
      BY <1>0, <2>1, <2>4, <3>1 DEF TypeOK
    <3> QED
      BY <3>3, <3>4, <3>5 DEF OwnInv
  <2>5. CASE SolveFactorEarly(c) \/ TraceFactorLate(c) \/ StoreDirections(c)
    <3>1. pc[c] \in Held /\ \E g \in Fields : Write(c, g)
      BY <2>5 DEF SolveFactorEarly, TraceFactorLate, StoreDirections, Held, Solving, Fields
    <3>2. CASE <<d, h>> = <<c, Hop(c)>>
      BY <2>4, <3>1, <3>2
    <3>3. CASE <<d, h>> # <<c, Hop(c)>>
      BY <1>0, <2>1, <2>2, <3>3, StepHeap
    <3> QED
      BY <3>2, <3>3
  <2>6. CASE <<d, h>> # <<c, Hop(c)>>
    BY <1>0, <2>1, <2>2, <2>6, StepHeap
  <2>7. CASE heap' = heap
    BY <2>2, <2>7
  <2> QED
    BY <2>3, <2>5, <2>6, <2>7 DEF Step, Compose, UseMemo, CacheHit, CacheMiss, ReadNeeds, Reuse,
       SolveHop, SolveFails, Publish
<1> QED
  BY <1>1, <1>2 DEF OwnInv

\* A call that begins has no factors.
LEMMA BeginOwnInv ==
  ASSUME CallInv, OwnInv, OwnReceiver, NEW c \in Calls, Begin(c)
  PROVE  OwnInv'
<1>1. /\ pc[c] = "idle" /\ heap' = heap
      /\ \A d \in Calls : d # c => /\ pc'[d] = pc[d] /\ endpoint'[d] = endpoint[d]
                                   /\ receiver'[d] = receiver[d]
  BY BeginPosition DEF CallInv
<1>2. endpoint'[c] = receiver'[c]
  BY DEF Begin, CallInv, TypeOK
<1>3. \A h \in Terminal, f \in Fields : heap[<<c, h>>][f] = None
  BY <1>1, TerminalHops DEF CallInv, PositionInv, PositionOf
<1> QED
  BY <1>1, <1>2, <1>3 DEF OwnInv

\* Every step preserves the ownership of the factors.
LEMMA NextOwnInv == OwnReceiver /\ CallInv /\ OwnInv /\ [Next]_vars => OwnInv'
<1> SUFFICES ASSUME OwnReceiver, CallInv, OwnInv, [Next]_vars PROVE OwnInv'
  OBVIOUS
<1>1. CASE Evict
  BY <1>1, EvictPosition DEF OwnInv, CallInv, callVars
<1>2. CASE UNCHANGED vars
  BY <1>2 DEF OwnInv, vars
<1> QED
  BY <1>1, <1>2, StepOwnInv, BeginOwnInv DEF Next

\* The factors a path is composed from were simulated for the receiver of the
\* call, whoever put them into the cache: the endpoint hash of the key keeps the
\* responses of different receivers apart, as long as the callers pass the
\* receiver of the scene that the hash covers.
THEOREM FactorsForOwnReceiver ==
  ASSUME OwnReceiver
  PROVE  Spec => []ServedForOwnReceiver
<1>1. CallInv /\ OwnInv => ServedForOwnReceiver
  <2> SUFFICES ASSUME CallInv, OwnInv, NEW c \in Calls, pc[c] = "compose",
                      memo[c][Last(Path(c))].object # None,
                      NEW half \in Fields
               PROVE  heap[memo[c][Last(Path(c))].object][half] \in {receiver[c], None}
    <3>1. ASSUME CallInv, NEW c \in Calls, pc[c] = "compose"
          PROVE  Needs(c) \cup (IF kind[c] \in Binaural /\ "late" \in Needs(c) THEN {"dg"} ELSE {})
                   \subseteq Fields
      <4>1. Needs(c) \in SUBSET Halves
        BY <3>1, PositionTyped DEF CallInv
      <4> QED
        BY <4>1 DEF Halves, Fields
    <3> QED
      BY <3>1 DEF ServedForOwnReceiver
  <2>1. Last(Path(c)) \in Terminal /\ Last(Path(c)) \in Hops
    BY LastTerminal, TerminalHops DEF CallInv
  <2>2. memo[c][Last(Path(c))].object = <<c, Last(Path(c))>>
    BY <2>1 DEF CallInv, NamesInv, NamesOf
  <2> QED
    BY <2>1, <2>2 DEF OwnInv
<1>2. Init => OwnInv
  BY InitOwnInv
<1>3. CallInv /\ OwnInv /\ [Next]_vars => OwnInv'
  BY NextOwnInv
<1> QED
  BY <1>1, <1>2, <1>3, CallInvariance, PTL DEF Spec

-----------------------------------------------------------------------------
(* What a factor carries. *)

\* The original a call clones is remembered by another call.
LEMMA OriginalElsewhere ==
  ASSUME CallInv, NEW c \in Calls, pc[c] \in Cloning
  PROVE  \E e \in Calls : /\ e # c /\ stored[c] = <<e, Hop(c)>> /\ stored[c] \in Objects
                          /\ pc[e] # "idle" /\ endpoint[e] = endpoint[c]
                          /\ memo[e][Hop(c)].object # None
<1>1. Remembered(stored[c], Hop(c), endpoint[c]) /\ memo[c][Hop(c)].object = None
  BY DEF CallInv, NamesInv, NamesOf
<1>2. PICK e \in Calls : /\ stored[c] = <<e, Hop(c)>> /\ pc[e] # "idle" /\ endpoint[e] = endpoint[c]
                         /\ memo[e][Hop(c)].object # None
  BY <1>1 DEF Remembered
<1>3. e # c
  BY <1>1, <1>2
<1>4. stored[c] \in Objects
  BY <1>2, PositionTyped, ObjectsTyped DEF CallInv
<1> QED
  BY <1>2, <1>3, <1>4

\* A call that works on an object it has stored is a RenderBinaural, and alone.
LEMMA RememberedIsDone ==
  ASSUME CallInv, CompleteInv, NEW c \in Calls, NEW d \in Active, c # d,
         memo[c][Hop(c)].object # None
  PROVE  pc[c] \notin {"clone", "solve", "trace", "directions"}
<1> SUFFICES ASSUME pc[c] \in {"clone", "solve", "trace", "directions"} PROVE FALSE
  OBVIOUS
<1>1. pc[c] # "clone"
  BY DEF CallInv, NamesInv, NamesOf, Cloning
<1>2. c \in Active /\ pc[c] \in Solving /\ pc[c] # "idle"
  BY <1>1 DEF Active, Solving
<1>3. kind[c] # "RenderBinaural"
  BY <1>2 DEF CompleteInv, AloneInv
<1> QED
  BY <1>2, <1>3 DEF CompleteInv, CompleteOf, OnePassOf

\* The original does not change while it is cloned.
LEMMA OriginalFrozen ==
  ASSUME CallInv, CompleteInv, NEW c \in Calls, Step(c), NEW d \in Calls, pc[d] \in Cloning
  PROVE  heap'[stored[d]] = heap[stored[d]]
<1>0. TypeOK /\ PositionInv /\ NamesInv
  BY DEF CallInv
<1>1. PICK e \in Calls : /\ e # d /\ stored[d] = <<e, Hop(d)>> /\ stored[d] \in Objects
                         /\ memo[e][Hop(d)].object # None
  BY OriginalElsewhere
<1>2. d \in Active
  BY DEF Active, Cloning
<1>3. CASE stored[d] # <<c, Hop(c)>>
  BY <1>0, <1>1, <1>3, StepHeap
<1>4. CASE stored[d] = <<c, Hop(c)>>
  <2>1. c = e /\ Hop(c) = Hop(d)
    BY <1>1, <1>4
  <2>2. pc[c] \notin {"clone", "solve", "trace", "directions"}
    BY <1>1, <1>2, <2>1, RememberedIsDone
  <2> QED
    BY <1>0, <2>2, StepHeap
<1> QED
  BY <1>3, <1>4

\* What a step of another call leaves of a call.
LEMMA OthersComplete ==
  ASSUME CallInv, CompleteInv, NEW c \in Calls, Step(c), NEW d \in Calls, d # c
  PROVE  CompleteOf(d)'
<1>0. TypeOK /\ PositionInv /\ NamesInv /\ CompleteOf(d)
  BY DEF CallInv, CompleteInv
<1>1. /\ pc'[d] = pc[d] /\ pass'[d] = pass[d] /\ memo'[d] = memo[d] /\ cached'[d] = cached[d]
      /\ stored'[d] = stored[d] /\ copied'[d] = copied[d]
      /\ kind'[d] = kind[d] /\ receiver'[d] = receiver[d]
      /\ Path(d)' = Path(d) /\ Hop(d)' = Hop(d) /\ Needs(d)' = Needs(d)
      /\ \A h \in Hops : heap'[<<d, h>>] = heap[<<d, h>>]
  BY <1>0, OthersNames
<1>2. Hop(d) \in Hops
  BY <1>0, PositionTyped
<1>3. OnePassOf(d)'
  BY <1>0, <1>1 DEF CompleteOf, OnePassOf
<1>4. FilledOf(d)'
  <2>1. \A h \in Hops : Recorded(d, h)' = Recorded(d, h)
    BY <1>1 DEF Recorded
  <2>2. pc[d] \in Cloning => heap'[stored[d]] = heap[stored[d]]
    BY OriginalFrozen
  <2>3. FilledOf(d)
    BY <1>0 DEF CompleteOf
  <2> QED
    BY <1>1, <1>2, <2>1, <2>2, <2>3 DEF FilledOf
<1>5. DirectionsOf(d)'
  BY <1>0, <1>1, TerminalHops DEF CompleteOf, DirectionsOf
<1>6. WalkedOf(d)'
  <2>1. Walked(d)' = Walked(d)
    BY <1>1 DEF Walked
  <2> QED
    BY <1>0, <1>1, <2>1 DEF CompleteOf, WalkedOf
<1> QED
  BY <1>3, <1>4, <1>5, <1>6 DEF CompleteOf

\* A method with one pass has all it needs when it stores a factor.
LEMMA OwnOnePass ==
  ASSUME CallInv, CompleteInv, NEW c \in Calls, Step(c)
  PROVE  OnePassOf(c)'
<1>0. TypeOK /\ PositionInv /\ NamesInv /\ OnePassOf(c) /\ pc[c] # "idle" /\ Hop(c) \in Hops
  BY StepPc, PositionTyped DEF CallInv, CompleteInv, CompleteOf
<1> SUFFICES ASSUME kind'[c] # "RenderBinaural"
             PROVE  /\ \A h \in Hops : memo'[c][h].object # None => Passes(kind'[c])[1] \subseteq memo'[c][h].needs
                    /\ pc'[c] \in Solving => memo'[c][Hop(c)'].object = None
  BY DEF OnePassOf
<1>1. kind'[c] = kind[c] /\ kind[c] # "RenderBinaural"
  BY <1>0, StepLocals
<1>2. Needs(c) = Passes(kind[c])[1]
  <2>1. pass[c].number \in 1..Len(Passes(kind[c])) /\ Len(Passes(kind[c])) = 1
    BY <1>0, <1>1, PassesTyped DEF PositionInv, PositionOf
  <2>2. pass[c].number = 1
    BY <2>1
  <2> QED
    BY <2>2 DEF Needs
<1>3. \A h \in Hops : h # Hop(c) => memo'[c][h] = memo[c][h]
  BY <1>0, StepMemo
<1>4. CASE Compose(c) \/ Reuse(c) \/ Publish(c)
  <2>1. pc'[c] \notin Solving
    BY <1>0, <1>4, MovesOn DEF Solving
  <2>2. CASE Compose(c)
    BY <1>0, <1>1, <2>1, <2>2 DEF Compose, OnePassOf
  <2>3. CASE Reuse(c)
    <3>1. memo'[c][Hop(c)] = cached[c] /\ Missing(c) = {}
      BY <1>0, <2>3, StepMemo DEF Reuse
    <3> QED
      BY <1>0, <1>1, <1>2, <1>3, <2>1, <3>1 DEF Missing, OnePassOf
  <2>4. CASE Publish(c)
    <3>1. memo'[c][Hop(c)] = [object |-> <<c, Hop(c)>>, needs |-> cached[c].needs \cup Needs(c)]
      BY <1>0, <2>4, StepMemo
    <3> QED
      BY <1>0, <1>1, <1>2, <1>3, <2>1, <3>1 DEF OnePassOf
  <2> QED
    BY <1>4, <2>2, <2>3, <2>4
<1>5. CASE ~Compose(c) /\ ~Reuse(c) /\ ~Publish(c)
  <2>1. memo' = memo /\ Hop(c)' = Hop(c)
    BY <1>0, <1>5, StepHop
  <2>2. CASE SolveHop(c)
    <3>1. pc[c] = "decide" /\ (cached[c].object = None \/ Missing(c) # {})
      BY <2>2 DEF SolveHop
    <3>2. memo[c][Hop(c)].object # None => cached[c] = memo[c][Hop(c)]
      BY <1>0, <3>1 DEF NamesInv, NamesOf, Held
    <3>3. memo[c][Hop(c)].object = None
      BY <1>0, <1>1, <1>2, <3>1, <3>2 DEF OnePassOf, Missing
    <3> QED
      BY <1>0, <1>1, <2>1, <3>3 DEF OnePassOf
  <2>3. CASE SolveFactorEarly(c) \/ TraceFactorLate(c) \/ StoreDirections(c)
    <3>1. pc[c] \in Solving
      BY <2>3 DEF SolveFactorEarly, TraceFactorLate, StoreDirections, Solving
    <3> QED
      BY <1>0, <1>1, <2>1, <3>1 DEF OnePassOf
  <2>4. CASE UseMemo(c) \/ CacheHit(c) \/ CacheMiss(c) \/ CloneFactor(c) \/ ReadNeeds(c) \/ SolveFails(c)
    <3>1. pc'[c] \notin Solving
      BY <1>0, <2>4 DEF UseMemo, CacheHit, CacheMiss, CloneFactor, ReadNeeds, SolveFails, Goto, TypeOK, Solving
    <3> QED
      BY <1>0, <1>1, <2>1, <3>1 DEF OnePassOf
  <2> QED
    BY <1>5, <2>2, <2>3, <2>4 DEF Step
<1> QED
  BY <1>4, <1>5

\* Behind the call, every hop of the path has what the pass needs.
LEMMA OwnWalked ==
  ASSUME CallInv, CompleteInv, NEW c \in Calls, Step(c)
  PROVE  WalkedOf(c)'
<1>0. /\ TypeOK /\ PositionInv /\ NamesInv /\ WalkedOf(c) /\ PositionOf(c)
      /\ pc[c] # "idle" /\ Hop(c) \in Hops /\ <<c, Hop(c)>> # None
      /\ Path(c) \in Seq(Hops) /\ Len(Path(c)) \in Nat /\ \A i \in 1..Len(Path(c)) : Path(c)[i] \in Hops
      /\ pass[c] \in [number : Nat, path : Nat, index : Nat]
  BY StepPc, PositionTyped, ObjectsTyped DEF CallInv, CompleteInv, CompleteOf, PositionInv, TypeOK
<1>1. kind' = kind
  BY <1>0, StepLocals
<1>2. CASE Compose(c)
  <2>1. memo' = memo /\ pc'[c] # "compose"
    BY <1>0, <1>2 DEF Compose, Goto, TypeOK
  <2>2. pass'[c].index = 1 \/ pass' = pass
    BY <1>0, <1>2 DEF Compose, TypeOK
  <2>3. CASE pass' = pass
    <3>1. Path(c)' = Path(c) /\ Needs(c)' = Needs(c) /\ Walked(c)' \subseteq Walked(c)
      BY <1>1, <2>1, <2>3 DEF Path, Needs, Walked
    <3> QED
      BY <1>0, <2>1, <3>1 DEF WalkedOf
  <2>4. CASE pass'[c].index = 1
    <3>1. Walked(c)' = {}
      BY <2>1, <2>4 DEF Walked
    <3> QED
      BY <3>1 DEF WalkedOf
  <2> QED
    BY <2>2, <2>3, <2>4
<1>3. CASE Reuse(c) \/ Publish(c)
  <2>1. memo'[c][Hop(c)].object # None /\ Needs(c) \subseteq memo'[c][Hop(c)].needs
    <3>1. CASE Reuse(c)
      <4>1. memo'[c][Hop(c)] = cached[c] /\ Missing(c) = {} /\ cached[c].object # None
        BY <1>0, <3>1, StepMemo DEF Reuse
      <4> QED
        BY <4>1 DEF Missing
    <3>2. CASE Publish(c)
      <4>1. memo'[c][Hop(c)] = [object |-> <<c, Hop(c)>>, needs |-> cached[c].needs \cup Needs(c)]
        BY <1>0, <3>2, StepMemo
      <4> QED
        BY <1>0, <4>1
    <3> QED
      BY <1>3, <3>1, <3>2
  <2>2. ~Compose(c)
    BY <1>3 DEF Compose, Reuse, Publish
  <2>3. Path(c)' = Path(c) /\ Needs(c)' = Needs(c)
    BY <1>0, <1>1, <2>2, StepPass DEF Path, Needs
  <2>4. ASSUME NEW i \in Walked(c)' PROVE i \in 1..Len(Path(c)) /\ (i < pass[c].index \/ i = pass[c].index)
    <3>1. CASE pass[c].index < Len(Path(c))
      <4>1. pass'[c].index = pass[c].index + 1 /\ pc'[c] = "hop"
        BY <1>0, <1>3, <3>1 DEF Reuse, Publish, Advance, Goto, TypeOK
      <4> QED
        BY <1>0, <2>3, <2>4, <4>1 DEF Walked
    <3>2. CASE ~(pass[c].index < Len(Path(c)))
      <4>1. pass[c].index = Len(Path(c))
        BY <1>0, <3>2 DEF PositionOf
      <4> QED
        BY <1>0, <2>3, <2>4, <4>1 DEF Walked
    <3> QED
      BY <3>1, <3>2
  <2>5. ASSUME NEW i \in Walked(c)'
        PROVE  memo'[c][Path(c)[i]].object # None /\ Needs(c) \subseteq memo'[c][Path(c)[i]].needs
    <3>1. CASE Path(c)[i] = Hop(c)
      BY <2>1, <3>1
    <3>2. CASE Path(c)[i] # Hop(c)
      <4>1. Path(c)[i] \in Hops /\ i \in Walked(c)
        BY <1>0, <2>4, <3>2 DEF Walked, Hop
      <4>2. memo'[c][Path(c)[i]] = memo[c][Path(c)[i]]
        BY <1>0, <3>2, <4>1, StepMemo
      <4> QED
        BY <1>0, <4>1, <4>2 DEF WalkedOf
    <3> QED
      BY <3>1, <3>2
  <2> QED
    BY <2>3, <2>5 DEF WalkedOf
<1>4. CASE ~Compose(c) /\ ~Reuse(c) /\ ~Publish(c)
  <2>1. pass' = pass /\ memo' = memo /\ Path(c)' = Path(c) /\ Needs(c)' = Needs(c)
    BY <1>0, <1>4, StepHop
  <2>2. pc'[c] # "compose"
    BY <1>0, <1>4 DEF Step, UseMemo, CacheHit, CacheMiss, CloneFactor, ReadNeeds, SolveHop,
       SolveFactorEarly, TraceFactorLate, StoreDirections, SolveFails, Goto, TypeOK
  <2>3. Walked(c)' \subseteq Walked(c)
    BY <2>1, <2>2 DEF Walked
  <2> QED
    BY <1>0, <2>1, <2>3 DEF WalkedOf
<1> QED
  BY <1>2, <1>3, <1>4

\* What a simulation writes is there, and it takes nothing away.
LEMMA SimulationFills ==
  ASSUME CallInv, NEW c \in Calls, NEW f \in Fields, pc[c] \in Held, Write(c, f)
  PROVE  /\ heap'[<<c, Hop(c)>>][f] # None
         /\ \A g \in Fields : g # f => heap'[<<c, Hop(c)>>][g] = heap[<<c, Hop(c)>>][g]
<1>0. TypeOK /\ PositionInv /\ NamesInv /\ pc[c] # "idle"
  BY DEF CallInv, Held, Solving
<1>1. heap' = [heap EXCEPT ![<<c, Hop(c)>>][f] = FactorReceiver(c)]
  BY <1>0, SimulationWrites
<1>2. FactorReceiver(c) \in Receivers \cup {Probe, None} /\ FactorReceiver(c) # None
  BY <1>0, FactorReceiverTyped
<1>3. <<c, Hop(c)>> \in Objects
  BY <1>0, PositionTyped, ObjectsTyped
<1>4. heap'[<<c, Hop(c)>>][f] = FactorReceiver(c)
  BY <1>0, <1>1, <1>3 DEF TypeOK
<1>5. \A g \in Fields : g # f => heap'[<<c, Hop(c)>>][g] = heap[<<c, Hop(c)>>][g]
  BY <1>0, <1>1, <1>2, WriteTyped
<1> QED
  BY <1>2, <1>4, <1>5

\* What a copying step does.
LEMMA CloneCopies ==
  ASSUME CallInv, CompleteInv, NEW c \in Calls, Step(c), CloneFactor(c)
  PROVE  /\ \A f \in copied'[c] : heap'[<<c, Hop(c)>>][f] = heap'[stored[c]][f]
         /\ heap'[stored[c]] = heap[stored[c]] /\ stored' = stored
         /\ pc'[c] \in Cloning /\ (pc'[c] = "needs" => copied'[c] = Fields)
<1>0. TypeOK /\ PositionInv /\ NamesInv /\ pc[c] = "clone" /\ pc[c] \in Cloning /\ FilledOf(c)
  BY DEF CallInv, CloneFactor, Cloning, CompleteInv, CompleteOf
<1>1. PICK f \in Fields : /\ heap' = [heap EXCEPT ![<<c, Hop(c)>>][f] = heap[stored[c]][f]]
                          /\ copied' = [copied EXCEPT ![c] = @ \cup {f}]
                          /\ pc' = [pc EXCEPT ![c] = IF copied'[c] = Fields THEN "needs" ELSE "clone"]
  BY DEF CloneFactor, CloneTarget, Goto
<1>2. copied'[c] = copied[c] \cup {f} /\ copied[c] \subseteq Fields
  BY <1>0, <1>1 DEF TypeOK
<1>3. PICK e \in Calls : e # c /\ stored[c] = <<e, Hop(c)>> /\ stored[c] \in Objects
  BY <1>0, OriginalElsewhere
<1>4. heap[stored[c]][f] \in Receivers \cup {Probe, None}
  BY <1>0, <1>3 DEF TypeOK
<1>5. heap'[stored[c]] = heap[stored[c]]
  BY <1>0, <1>3, OriginalFrozen
<1>6. <<c, Hop(c)>> \in Objects
  BY <1>0, PositionTyped, ObjectsTyped
<1>7. heap'[<<c, Hop(c)>>][f] = heap[stored[c]][f]
  BY <1>0, <1>1, <1>6 DEF TypeOK
<1>8. \A g \in Fields : g # f => heap'[<<c, Hop(c)>>][g] = heap[<<c, Hop(c)>>][g]
  BY <1>0, <1>1, <1>4, WriteTyped
<1>9. \A g \in copied[c] : heap[<<c, Hop(c)>>][g] = heap[stored[c]][g]
  BY <1>0 DEF FilledOf
<1>10. \A g \in copied'[c] : heap'[<<c, Hop(c)>>][g] = heap'[stored[c]][g]
  BY <1>2, <1>5, <1>7, <1>8, <1>9
<1>11. stored' = stored
  BY DEF CloneFactor
<1>12. pc'[c] \in Cloning /\ (pc'[c] = "needs" => copied'[c] = Fields)
  BY <1>0, <1>1 DEF TypeOK, Cloning
<1> QED
  BY <1>5, <1>10, <1>11, <1>12

\* What a call records about the hop it is at is on its object.
LEMMA HopFilled ==
  ASSUME CallInv, CompleteInv, NEW c \in Calls, Step(c),
         NEW h \in Hops, h = Hop(c), NEW half \in Recorded(c, h)'
  PROVE  heap'[<<c, h>>][half] # None
<1>0. TypeOK /\ PositionInv /\ NamesInv /\ NamesOf(c) /\ FilledOf(c) /\ pc[c] # "idle"
  BY StepPc DEF CallInv, CompleteInv, CompleteOf, NamesInv
<1>1. \A x \in Recorded(c, h) : heap[<<c, h>>][x] # None
  BY <1>0 DEF FilledOf
<1>2. cached[c].needs \in SUBSET Halves /\ Needs(c) \in SUBSET Halves /\ memo[c][h].needs \in SUBSET Halves
  BY <1>0, PositionTyped DEF TypeOK, Factors
<1>3. CASE Compose(c) \/ Reuse(c) \/ Publish(c)
  <2>1. heap' = heap /\ pc'[c] \in {"hop", "compose", "done"}
    BY <1>0, <1>3, MovesOn DEF Compose, Reuse, Publish
  <2>2. Recorded(c, h)' = memo'[c][h].needs
    BY <2>1 DEF Recorded
  <2>3. memo'[c][h].needs = Recorded(c, h)
    <3>1. CASE Compose(c)
      BY <3>1 DEF Compose, Recorded
    <3>2. CASE Reuse(c)
      <4>1. memo'[c][Hop(c)] = cached[c] /\ pc[c] = "decide"
        BY <1>0, <3>2, StepMemo DEF Reuse
      <4> QED
        BY <4>1 DEF Recorded
    <3>3. CASE Publish(c)
      <4>1. memo'[c][Hop(c)] = [object |-> <<c, Hop(c)>>, needs |-> cached[c].needs \cup Needs(c)]
        BY <1>0, <3>3, StepMemo
      <4>2. pc[c] = "publish"
        BY <3>3 DEF Publish
      <4> QED
        BY <4>1, <4>2 DEF Recorded
    <3> QED
      BY <1>3, <3>1, <3>2, <3>3
  <2> QED
    BY <1>1, <2>1, <2>2, <2>3
<1>4. CASE ~Compose(c) /\ ~Reuse(c) /\ ~Publish(c)
  <2>1. memo' = memo /\ Hop(c)' = Hop(c) /\ Needs(c)' = Needs(c)
    BY <1>0, <1>4, StepHop
  <2>2. CASE UseMemo(c)
    <3>1. cached'[c] = memo[c][Hop(c)] /\ pc[c] = "hop" /\ pc'[c] = "decide" /\ heap' = heap
      BY <1>0, <2>2 DEF UseMemo, TypeOK, Goto
    <3> QED
      BY <1>1, <2>1, <3>1 DEF Recorded
  <2>3. CASE CacheMiss(c)
    <3>1. cached'[c] = NoFactor /\ pc'[c] = "decide"
      BY <1>0, <2>3 DEF CacheMiss, TypeOK, Goto
    <3> QED
      BY <2>1, <3>1 DEF Recorded, NoFactor
  <2>4. CASE ReadNeeds(c)
    <3>1. /\ cached'[c] = [object |-> CloneTarget(c), needs |-> FactorNeedsOf(stored[c])]
          /\ pc[c] = "needs" /\ pc'[c] = "decide" /\ heap' = heap
      BY <1>0, <2>4 DEF ReadNeeds, TypeOK, Goto
    <3>2. half \in FactorNeedsOf(stored[c])
      BY <2>1, <3>1 DEF Recorded
    <3>3. copied[c] = Fields /\ \A f \in copied[c] : heap[<<c, h>>][f] = heap[stored[c]][f]
      BY <1>0, <3>1 DEF FilledOf, Cloning
    <3> QED
      BY <3>1, <3>2, <3>3 DEF FactorNeedsOf, Halves, Fields
  <2>5. CASE CacheHit(c) \/ CloneFactor(c)
    <3>1. pc'[c] \in Cloning /\ memo[c][h].object = None
      BY <1>0, <2>5 DEF CacheHit, CloneFactor, TypeOK, Goto, Cloning, NamesOf
    <3>2. Recorded(c, h)' = {}
      BY <1>0, <2>1, <3>1 DEF Recorded, NamesOf, Cloning
    <3> QED
      BY <3>2
  <2>6. CASE SolveHop(c)
    <3>1. /\ pc[c] = "decide" /\ cached' = cached /\ heap' = heap
          /\ pc'[c] = IF "early" \in Missing(c) THEN "solve" ELSE "trace"
      BY <1>0, <2>6 DEF SolveHop, TypeOK, Goto
    <3>2. Recorded(c, h)' \subseteq cached[c].needs
      BY <1>2, <2>1, <3>1 DEF Recorded, Missing, Halves
    <3> QED
      BY <1>1, <3>1, <3>2 DEF Recorded
  <2>7. CASE SolveFactorEarly(c)
    <3>1. /\ pc[c] = "solve" /\ cached' = cached /\ Write(c, "early")
          /\ pc'[c] = IF "late" \in Missing(c) THEN "trace" ELSE "publish"
      BY <1>0, <2>7 DEF SolveFactorEarly, TypeOK, Goto
    <3>2. Recorded(c, h)' \subseteq cached[c].needs \cup {"early"}
      BY <1>2, <2>1, <3>1 DEF Recorded, Missing, Halves
    <3>3. Recorded(c, h) = cached[c].needs
      BY <3>1 DEF Recorded
    <3>4. pc[c] \in Held /\ "early" \in Fields /\ cached[c].needs \subseteq Fields
      BY <1>2, <3>1 DEF Held, Solving, Fields, Halves
    <3>5. /\ heap'[<<c, h>>]["early"] # None
          /\ \A g \in Fields : g # "early" => heap'[<<c, h>>][g] = heap[<<c, h>>][g]
      BY <3>1, <3>4, SimulationFills
    <3> QED
      BY <1>1, <3>2, <3>3, <3>4, <3>5
  <2>8. CASE TraceFactorLate(c)
    <3>1. /\ pc[c] = "trace" /\ cached' = cached /\ Write(c, "late")
          /\ pc'[c] \in {"directions", "publish"}
      BY <1>0, <2>8 DEF TraceFactorLate, TypeOK, Goto
    <3>2. Recorded(c, h)' \subseteq Recorded(c, h) \cup {"late"}
      BY <2>1, <3>1 DEF Recorded
    <3>3. pc[c] \in Held /\ "late" \in Fields /\ Recorded(c, h) \subseteq Fields
      BY <1>2, <3>1 DEF Held, Solving, Fields, Halves, Recorded
    <3>4. /\ heap'[<<c, h>>]["late"] # None
          /\ \A g \in Fields : g # "late" => heap'[<<c, h>>][g] = heap[<<c, h>>][g]
      BY <3>1, <3>3, SimulationFills
    <3> QED
      BY <1>1, <3>2, <3>3, <3>4
  <2>9. CASE StoreDirections(c)
    <3>1. /\ pc[c] = "directions" /\ cached' = cached /\ Write(c, "dg") /\ pc'[c] = "publish"
      BY <1>0, <2>9 DEF StoreDirections, TypeOK, Goto
    <3>2. Recorded(c, h)' = Recorded(c, h)
      BY <2>1, <3>1 DEF Recorded
    <3>3. pc[c] \in Held /\ "dg" \in Fields /\ Recorded(c, h) \subseteq Fields
      BY <1>2, <3>1 DEF Held, Solving, Fields, Halves, Recorded
    <3>4. /\ heap'[<<c, h>>]["dg"] # None
          /\ \A g \in Fields : g # "dg" => heap'[<<c, h>>][g] = heap[<<c, h>>][g]
      BY <3>1, <3>3, SimulationFills
    <3> QED
      BY <1>1, <3>2, <3>3, <3>4
  <2>10. CASE SolveFails(c)
    <3>1. pc[c] \in {"solve", "trace"} /\ pc'[c] = "failed" /\ heap' = heap
      BY <1>0, <2>10 DEF SolveFails, TypeOK, Goto
    <3>2. Recorded(c, h)' = memo[c][h].needs
      BY <2>1, <3>1 DEF Recorded
    <3>3. memo[c][h].needs \subseteq cached[c].needs
      BY <1>0, <3>1 DEF NamesOf, Held, Solving
    <3>4. cached[c].needs \subseteq Recorded(c, h)
      BY <3>1 DEF Recorded
    <3> QED
      BY <1>1, <3>1, <3>2, <3>3, <3>4
  <2> QED
    BY <1>4, <2>2, <2>3, <2>4, <2>5, <2>6, <2>7, <2>8, <2>9, <2>10 DEF Step
<1> QED
  BY <1>3, <1>4

\* What a call records is on its objects, and its clones agree.
LEMMA OwnFilled ==
  ASSUME CallInv, CompleteInv, NEW c \in Calls, Step(c)
  PROVE  FilledOf(c)'
<1>0. TypeOK /\ PositionInv /\ NamesInv /\ FilledOf(c) /\ Hop(c) \in Hops
  BY PositionTyped DEF CallInv, CompleteInv, CompleteOf
<1>1. ASSUME NEW h \in Hops, NEW half \in Recorded(c, h)'
      PROVE  heap'[<<c, h>>][half] # None
  <2>1. CASE h = Hop(c)
    BY <1>1, <2>1, HopFilled
  <2>2. CASE h # Hop(c)
    <3>1. Hop(c)' = Hop(c) \/ pc'[c] \notin Held
      BY <1>0, MovesOn, StepHop DEF Held, Solving
    <3>2. Recorded(c, h)' = memo'[c][h].needs
      BY <2>2, <3>1 DEF Recorded, Held, Solving
    <3>3. memo'[c][h] = memo[c][h] /\ Recorded(c, h) = memo[c][h].needs
      BY <1>0, <2>2, StepMemo, RecordedElsewhere
    <3>4. heap'[<<c, h>>] = heap[<<c, h>>]
      <4>1. <<c, h>> \in Objects /\ <<c, h>> # <<c, Hop(c)>>
        BY <2>2, ObjectsTyped
      <4> QED
        BY <1>0, <4>1, StepHeap
    <3>5. half \in Recorded(c, h)
      BY <1>1, <3>2, <3>3
    <3> QED
      BY <1>0, <3>4, <3>5 DEF FilledOf
  <2> QED
    BY <2>1, <2>2
<1>2. CASE CloneFactor(c)
  <2>1. /\ \A f \in copied'[c] : heap'[<<c, Hop(c)>>][f] = heap'[stored[c]][f]
        /\ stored' = stored /\ (pc'[c] = "needs" => copied'[c] = Fields)
    BY <1>2, CloneCopies
  <2>2. Hop(c)' = Hop(c)
    <3>1. ~Compose(c) /\ ~Reuse(c) /\ ~Publish(c)
      BY <1>2 DEF CloneFactor, Compose, Reuse, Publish
    <3> QED
      BY <1>0, <3>1, StepHop
  <2> QED
    BY <1>1, <2>1, <2>2 DEF FilledOf
<1>3. CASE CacheHit(c)
  <2>1. copied'[c] = {} /\ pc'[c] = "clone"
    BY <1>0, <1>3 DEF CacheHit, TypeOK, Goto
  <2> QED
    BY <1>1, <2>1 DEF FilledOf
<1>4. CASE ~CloneFactor(c) /\ ~CacheHit(c)
  <2>1. pc'[c] \notin Cloning
    BY <1>0, <1>4 DEF Step, Compose, UseMemo, CacheMiss, ReadNeeds, Reuse, SolveHop, SolveFactorEarly,
       TraceFactorLate, StoreDirections, SolveFails, Publish, Advance, TypeOK, Goto, Cloning
  <2> QED
    BY <1>1, <2>1 DEF FilledOf, Cloning
<1> QED
  BY <1>2, <1>3, <1>4

\* A late field for a head keeps its directions.
LEMMA OwnDirections ==
  ASSUME CallInv, OwnInv, CompleteInv, NEW c \in Calls, Step(c)
  PROVE  DirectionsOf(c)'
<1>0. TypeOK /\ PositionInv /\ NamesInv /\ DirectionsOf(c) /\ Hop(c) \in Hops /\ pc[c] # "idle"
  BY PositionTyped, StepPc DEF CallInv, CompleteInv, CompleteOf
<1>1. kind' = kind /\ receiver' = receiver /\ endpoint' = endpoint
  BY <1>0, StepLocals
<1>2. ASSUME NEW h \in Terminal, receiver[c] \in Heads, heap'[<<c, h>>]["late"] # None
      PROVE  heap'[<<c, h>>]["dg"] # None \/ (pc'[c] \in {"clone", "directions"} /\ h = Hop(c)')
  <2>1. h \in Hops /\ <<c, h>> \in Objects
    BY TerminalHops, ObjectsTyped
  <2>2. CASE h # Hop(c)
    <3>1. heap'[<<c, h>>] = heap[<<c, h>>]
      BY <1>0, <2>1, <2>2, StepHeap
    <3> QED
      BY <1>0, <1>2, <2>2, <3>1 DEF DirectionsOf
  <2>3. CASE h = Hop(c) /\ heap' = heap /\ pc[c] \notin {"clone", "directions"}
    BY <1>0, <1>2, <2>3 DEF DirectionsOf
  <2>4. CASE h = Hop(c) /\ CloneFactor(c)
    <3>1. Hop(c)' = Hop(c)
      <4>1. ~Compose(c) /\ ~Reuse(c) /\ ~Publish(c)
        BY <2>4 DEF CloneFactor, Compose, Reuse, Publish
      <4> QED
        BY <1>0, <4>1, StepHop
    <3>2. CASE pc'[c] = "clone"
      BY <2>4, <3>1, <3>2
    <3>3. CASE pc'[c] # "clone"
      <4>1. pc'[c] = "needs" /\ copied'[c] = Fields
        BY <2>4, <3>3, CloneCopies DEF Cloning
      <4>2. \A f \in Fields : heap'[<<c, h>>][f] = heap[stored[c]][f]
        BY <2>4, <4>1, CloneCopies
      <4>3. pc[c] = "clone" /\ pc[c] \in Cloning /\ c \in Active
        BY <2>4 DEF CloneFactor, Cloning, Active
      <4>4. PICK e \in Calls : /\ e # c /\ stored[c] = <<e, Hop(c)>> /\ pc[e] # "idle"
                               /\ endpoint[e] = endpoint[c] /\ memo[e][Hop(c)].object # None
        BY <4>3, OriginalElsewhere
      <4>5. receiver[e] = receiver[c]
        BY <1>0, <4>4 DEF OwnInv
      <4>6. heap[<<e, h>>]["late"] # None
        BY <1>2, <2>4, <4>2, <4>4 DEF Fields
      <4>7. heap[<<e, h>>]["dg"] # None \/ (pc[e] \in {"clone", "directions"} /\ h = Hop(e))
        BY <1>2, <4>5, <4>6 DEF CompleteInv, CompleteOf, DirectionsOf
      <4>8. h = Hop(e) => pc[e] \notin {"clone", "directions"}
        BY <2>4, <4>3, <4>4, RememberedIsDone
      <4> QED
        BY <2>4, <4>2, <4>4, <4>7, <4>8 DEF Fields
    <3> QED
      BY <3>2, <3>3
  <2>5. CASE h = Hop(c) /\ SolveFactorEarly(c)
    <3>1. pc[c] = "solve" /\ pc[c] \in Held /\ Write(c, "early")
      BY <2>5 DEF SolveFactorEarly, Held, Solving
    <3>2. \A g \in Fields : g # "early" => heap'[<<c, Hop(c)>>][g] = heap[<<c, Hop(c)>>][g]
      BY <3>1, SimulationFills DEF Fields
    <3> QED
      BY <1>0, <1>2, <2>5, <3>1, <3>2 DEF DirectionsOf, Fields
  <2>6. CASE h = Hop(c) /\ TraceFactorLate(c)
    <3>1. Hop(c)' = Hop(c)
      <4>1. ~Compose(c) /\ ~Reuse(c) /\ ~Publish(c)
        BY <2>6 DEF TraceFactorLate, Compose, Reuse, Publish
      <4> QED
        BY <1>0, <4>1, StepHop
    <3>2. FactorReceiver(c) \in Heads
      BY <1>2, <2>6 DEF FactorReceiver
    <3>3. pc'[c] = "directions"
      BY <1>0, <2>6, <3>2 DEF TraceFactorLate, TypeOK, Goto
    <3> QED
      BY <2>6, <3>1, <3>3
  <2>7. CASE h = Hop(c) /\ StoreDirections(c)
    <3>1. pc[c] \in Held /\ Write(c, "dg")
      BY <2>7 DEF StoreDirections, Held, Solving
    <3>2. heap'[<<c, Hop(c)>>]["dg"] # None
      BY <3>1, SimulationFills DEF Fields
    <3> QED
      BY <2>7, <3>2
  <2>8. \/ heap' = heap /\ pc[c] \notin {"clone", "directions"}
        \/ CloneFactor(c) \/ SolveFactorEarly(c) \/ TraceFactorLate(c) \/ StoreDirections(c)
    BY DEF Step, Compose, UseMemo, CacheHit, CacheMiss, ReadNeeds, Reuse, SolveHop, SolveFails, Publish
  <2> QED
    BY <2>2, <2>3, <2>4, <2>5, <2>6, <2>7, <2>8
<1> QED
  BY <1>0, <1>1, <1>2 DEF DirectionsOf

\* A call that begins finds everything in order.
LEMMA BeginComplete ==
  ASSUME CallInv, CompleteInv, Exclusive, NEW c \in Calls, Begin(c)
  PROVE  CompleteInv'
<1>0. TypeOK /\ PositionInv
  BY DEF CallInv
<1>1. /\ pc[c] = "idle" /\ pc'[c] = "hop"
      /\ UNCHANGED <<pass, memo, cached, stored, copied, heap>>
      /\ \A d \in Calls : d # c => /\ pc'[d] = pc[d] /\ kind'[d] = kind[d]
                                   /\ endpoint'[d] = endpoint[d] /\ receiver'[d] = receiver[d]
  BY <1>0, BeginPosition
<1>2. PICK k \in Kinds, argument \in Receivers :
        /\ \A d \in Active : "RenderBinaural" \notin {k, kind[d]}
        /\ k \in Binaural => argument \in Heads
        /\ kind'[c] = k /\ receiver'[c] = argument
  BY <1>0 DEF Begin, TypeOK
<1>3. AloneInv'
  <2>1. Active' \subseteq Active \cup {c} /\ c \notin Active
    BY <1>1 DEF Active
  <2>2. ASSUME NEW a \in Active', NEW b \in Active', a # b PROVE kind'[a] # "RenderBinaural"
    <3>1. a \in Calls /\ b \in Calls
      BY <2>2 DEF Active
    <3>2. CASE a = c
      <4>1. b \in Active
        BY <2>1, <2>2, <3>2
      <4> QED
        BY <1>2, <3>2, <4>1
    <3>3. CASE a # c
      <4>1. a \in Active /\ kind'[a] = kind[a]
        BY <1>1, <2>1, <2>2, <3>1, <3>3
      <4> QED
        BY <1>2, <4>1
    <3> QED
      BY <3>2, <3>3
  <2> QED
    BY <2>2 DEF AloneInv
<1>4. CompleteOf(c)'
  <2>1. \A h \in Hops : memo'[c][h] = NoFactor /\ \A f \in Fields : heap'[<<c, h>>][f] = None
    BY <1>0, <1>1 DEF PositionInv, PositionOf
  <2>0. \A h \in Hops : memo'[c][h].object = None /\ memo'[c][h].needs = {}
    <3>1. ASSUME NEW h \in Hops PROVE memo'[c][h] = [object |-> None, needs |-> {}]
      BY <2>1 DEF NoFactor
    <3> QED
      BY <3>1
  <2>2. OnePassOf(c)'
    BY <1>1, <2>0 DEF OnePassOf, Solving
  <2>3. \A h \in Hops : Recorded(c, h)' = {}
    BY <1>1, <2>0 DEF Recorded
  <2>4. FilledOf(c)'
    BY <1>1, <2>3 DEF FilledOf, Cloning
  <2>5. DirectionsOf(c)'
    BY <1>2, <2>1, TerminalHops DEF DirectionsOf, Fields
  <2>6. Walked(c)' = {}
    BY <1>0, <1>1 DEF Walked, PositionInv, PositionOf
  <2>7. WalkedOf(c)'
    BY <2>6 DEF WalkedOf
  <2> QED
    BY <2>2, <2>4, <2>5, <2>7 DEF CompleteOf
<1>5. ASSUME NEW d \in Calls, d # c PROVE CompleteOf(d)'
  <2>1. /\ pc'[d] = pc[d] /\ kind'[d] = kind[d] /\ receiver'[d] = receiver[d]
        /\ Path(d)' = Path(d) /\ Hop(d)' = Hop(d) /\ Needs(d)' = Needs(d) /\ CompleteOf(d)
    BY <1>1, <1>5 DEF Path, Hop, Needs, CompleteInv
  <2>2. Walked(d)' = Walked(d) /\ \A h \in Hops : Recorded(d, h)' = Recorded(d, h)
    BY <1>1, <2>1 DEF Walked, Recorded
  <2>3. OnePassOf(d)' /\ WalkedOf(d)'
    BY <1>1, <2>1, <2>2 DEF CompleteOf, OnePassOf, WalkedOf
  <2>4. FilledOf(d)'
    BY <1>1, <2>1, <2>2 DEF CompleteOf, FilledOf
  <2>5. DirectionsOf(d)'
    BY <1>1, <2>1 DEF CompleteOf, DirectionsOf
  <2> QED
    BY <2>3, <2>4, <2>5 DEF CompleteOf
<1> QED
  BY <1>3, <1>4, <1>5 DEF CompleteInv

\* Every step preserves what the factors carry.
LEMMA NextCompleteInv ==
  Exclusive /\ CallInv /\ OwnInv /\ CompleteInv /\ [Next]_vars => CompleteInv'
<1> SUFFICES ASSUME Exclusive, CallInv, OwnInv, CompleteInv, [Next]_vars PROVE CompleteInv'
  OBVIOUS
<1>1. ASSUME NEW c \in Calls, Step(c) PROVE CompleteInv'
  <2>1. ASSUME NEW d \in Calls PROVE CompleteOf(d)'
    <3>1. CASE d = c
      BY <1>1, <3>1, OwnOnePass, OwnFilled, OwnDirections, OwnWalked DEF CompleteOf
    <3>2. CASE d # c
      BY <1>1, <3>2, OthersComplete
    <3> QED
      BY <3>1, <3>2
  <2>2. Active' \subseteq Active /\ kind' = kind
    BY <1>1, StepPc, StepLocals DEF Active, CallInv
  <2> QED
    BY <2>1, <2>2 DEF CompleteInv, AloneInv
<1>2. CASE UNCHANGED callVars
  <2>1. ASSUME NEW d \in Calls PROVE CompleteOf(d)'
    <3>1. Path(d)' = Path(d) /\ Hop(d)' = Hop(d) /\ Needs(d)' = Needs(d) /\ CompleteOf(d)
      BY <1>2 DEF Path, Hop, Needs, CompleteInv, callVars
    <3>2. Walked(d)' = Walked(d) /\ \A h \in Hops : Recorded(d, h)' = Recorded(d, h)
      BY <1>2, <3>1 DEF Walked, Recorded, callVars
    <3>3. OnePassOf(d)' /\ WalkedOf(d)'
      BY <1>2, <3>1, <3>2 DEF CompleteOf, OnePassOf, WalkedOf, callVars
    <3>4. FilledOf(d)' /\ DirectionsOf(d)'
      BY <1>2, <3>1, <3>2 DEF CompleteOf, FilledOf, DirectionsOf, callVars
    <3> QED
      BY <3>3, <3>4 DEF CompleteOf
  <2>2. AloneInv'
    BY <1>2 DEF CompleteInv, AloneInv, Active, callVars
  <2> QED
    BY <2>1, <2>2 DEF CompleteInv
<1>3. Evict \/ UNCHANGED vars => UNCHANGED callVars
  BY Zenon DEF Evict, vars, callVars
<1> QED
  BY <1>1, <1>2, <1>3, BeginComplete DEF Next

\* Before any call there is nothing to complete.
LEMMA InitCompleteInv == Init => CompleteInv
<1> SUFFICES ASSUME Init PROVE CompleteInv
  OBVIOUS
<1>1. AloneInv
  BY DEF Init, AloneInv, Active
<1>2. ASSUME NEW c \in Calls PROVE CompleteOf(c)
  <2>1. pc[c] = "idle" /\ \A h \in Hops : memo[c][h].needs = {}
    BY DEF Init, NoFactor
  <2>2. \A h \in Hops : Recorded(c, h) = {}
    BY <2>1 DEF Recorded
  <2>3. FilledOf(c)
    BY <2>1, <2>2 DEF FilledOf, Cloning
  <2>4. receiver[c] = None /\ kind[c] = None
    BY DEF Init
  <2>5. \A h \in Terminal : heap[<<c, h>>]["late"] = None
    BY TerminalHops DEF Init, NetworkObjects, Fields
  <2>6. kind[c] \notin Binaural
    BY <2>4, NetworkAssumption DEF Binaural, Methods
  <2> QED
    BY <2>1, <2>3, <2>5, <2>6 DEF CompleteOf, OnePassOf, DirectionsOf, WalkedOf
<1> QED
  BY <1>1, <1>2 DEF CompleteInv

\* A path is composed from factors that carry every half its pass needs, and the
\* arrival directions where a head listens, although the fields of a cached
\* factor are read and written without a lock: a method that solves all it needs
\* before it publishes never touches the object again.  RenderBinaural does, so
\* it must not overlap with other renders on the cache (Exclusive).
THEOREM PathsServedComplete ==
  ASSUME Exclusive, OwnReceiver
  PROVE  Spec => []ServedComplete
<1>1. CallInv /\ CompleteInv => ServedComplete
  <2> SUFFICES ASSUME CallInv, CompleteInv, NEW c \in Calls, pc[c] = "compose", NEW i \in DOMAIN Path(c)
               PROVE  /\ memo[c][Path(c)[i]].object # None
                      /\ \A half \in Needs(c) : heap[memo[c][Path(c)[i]].object][half] # None
                      /\ (kind[c] \in Binaural /\ "late" \in Needs(c) /\ Path(c)[i] \in Terminal)
                           => heap[memo[c][Path(c)[i]].object]["dg"] # None
    BY DEF ServedComplete
  <2>1. CompleteOf(c) /\ NamesOf(c) /\ PositionInv
    BY DEF CompleteInv, CallInv, NamesInv
  <2>2. i \in 1..Len(Path(c)) /\ Path(c)[i] \in Hops
    BY <2>1, PositionTyped
  <2>3. i \in Walked(c)
    BY <2>2 DEF Walked
  <2>4. memo[c][Path(c)[i]].object # None /\ Needs(c) \subseteq memo[c][Path(c)[i]].needs
    BY <2>1, <2>3 DEF CompleteOf, WalkedOf
  <2>5. memo[c][Path(c)[i]].object = <<c, Path(c)[i]>>
    BY <2>1, <2>2, <2>4 DEF NamesOf
  <2>6. Recorded(c, Path(c)[i]) = memo[c][Path(c)[i]].needs
    BY DEF Recorded
  <2>7. \A half \in Needs(c) : heap[<<c, Path(c)[i]>>][half] # None
    BY <2>1, <2>2, <2>4, <2>6 DEF CompleteOf, FilledOf
  <2>8. (kind[c] \in Binaural /\ "late" \in Needs(c) /\ Path(c)[i] \in Terminal)
          => heap[<<c, Path(c)[i]>>]["dg"] # None
    BY <2>1, <2>7 DEF CompleteOf, DirectionsOf
  <2> QED
    BY <2>4, <2>5, <2>7, <2>8
<1>2. Init => OwnInv /\ CompleteInv
  BY InitOwnInv, InitCompleteInv
<1>3. CallInv /\ OwnInv /\ CompleteInv /\ [Next]_vars => OwnInv' /\ CompleteInv'
  BY NextOwnInv, NextCompleteInv
<1> QED
  BY <1>1, <1>2, <1>3, CallInvariance, PTL DEF Spec

-----------------------------------------------------------------------------
(* Sums over finite sets. *)

\* A nonempty set of naturals has a smallest element.
LEMMA SmallestNumber ==
  ASSUME NEW N \in SUBSET Nat, N # {}
  PROVE  \E n \in N : \A m \in N : n <= m
<1>1. IsWellFoundedOn(OpToRel(<, Nat), Nat)
  BY NatLessThanWellFounded
<1>2. PICK n \in N : \A m \in N : ~(<<m, n>> \in OpToRel(<, Nat))
  BY <1>1, WFMin
<1>3. \A m \in N : ~(m < n)
  BY <1>2 DEF OpToRel
<1> QED
  BY <1>3

\* Among finite sets there is a smallest one.
LEMMA SmallestSet ==
  ASSUME NEW T, T # {}, \A s \in T : IsFiniteSet(s)
  PROVE  \E s \in T : \A t \in T : Cardinality(s) <= Cardinality(t)
<1>1. PICK N : N = {Cardinality(s) : s \in T}
  OBVIOUS
<1>2. N \in SUBSET Nat /\ N # {}
  BY <1>1, FS_CardinalityType
<1>3. PICK n \in N : \A m \in N : n <= m
  BY <1>2, SmallestNumber
<1>4. PICK s \in T : n = Cardinality(s)
  BY <1>1
<1>5. \A t \in T : Cardinality(t) \in N
  BY <1>1
<1> QED
  BY <1>3, <1>4, <1>5

\* A subset without one of its elements is smaller.
LEMMA OneLess ==
  ASSUME NEW s, IsFiniteSet(s), NEW x \in s
  PROVE  IsFiniteSet(s \ {x}) /\ Cardinality(s \ {x}) < Cardinality(s)
<1>1. /\ IsFiniteSet(s \ {x}) /\ Cardinality(s \ {x}) = Cardinality(s) - 1
      /\ Cardinality(s) \in Nat
  BY FS_RemoveElement, FS_CardinalityType
<1> QED
  BY <1>1

\* The sum of a function over a set as MapThenSumSet computes it: element by element.
First(s) == CHOOSE x \in s : TRUE
SumBody(f, w, s) == IF s = {} THEN 0 ELSE w[First(s)] + f[s \ {First(s)}]
IsTable(f, w, S) == f = [s \in SUBSET S |-> SumBody(f, w, s)]
Table(w, S) == CHOOSE f : IsTable(f, w, S)
SumOf(w, S) == Table(w, S)[S]

LEMMA SumUnfolds ==
  ASSUME NEW w, NEW S
  PROVE  MapThenSumSet(LAMBDA k : w[k], S) = SumOf(w, S)
BY DEF MapThenSumSet, MapThenFoldSet, SumOf, Table, IsTable, SumBody, First

LEMMA FirstIn ==
  ASSUME NEW s, s # {}
  PROVE  First(s) \in s
BY DEF First

LEMMA TableValues ==
  ASSUME NEW f, NEW w, NEW S, IsTable(f, w, S), NEW s \in SUBSET S
  PROVE  /\ s = {} => f[s] = 0
         /\ s # {} => f[s] = w[First(s)] + f[s \ {First(s)}]
<1>1. f[s] = SumBody(f, w, s)
  BY DEF IsTable
<1> QED
  BY <1>1 DEF SumBody

\* Tables of different sets agree where both are defined.
LEMMA TablesAgree ==
  ASSUME NEW w, NEW S, IsFiniteSet(S), NEW U, NEW f, NEW g, IsTable(f, w, S), IsTable(g, w, U),
         NEW s \in SUBSET S, s \in SUBSET U
  PROVE  f[s] = g[s]
<1> DEFINE T == {t \in SUBSET S : t \in SUBSET U /\ f[t] # g[t]}
<1>1. SUFFICES ASSUME T # {} PROVE FALSE
  OBVIOUS
<1>2. \A t \in T : IsFiniteSet(t)
  BY FS_Subset
<1>3. PICK t \in T : \A u \in T : Cardinality(t) <= Cardinality(u)
  <2> HIDE DEF T
  <2> QED
    BY <1>1, <1>2, SmallestSet
<1>4. t \in SUBSET S /\ t \in SUBSET U /\ f[t] # g[t] /\ IsFiniteSet(t)
  BY <1>2
<1>5. t # {}
  BY <1>4, TableValues
<1>6. PICK x \in t : x = First(t)
  BY <1>5, FirstIn
<1>7. f[t] = w[x] + f[t \ {x}] /\ g[t] = w[x] + g[t \ {x}]
  <2>1. f[t] = w[First(t)] + f[t \ {First(t)}]
    BY <1>4, <1>5, TableValues
  <2>2. g[t] = w[First(t)] + g[t \ {First(t)}]
    BY <1>4, <1>5, TableValues
  <2> QED
    BY <1>6, <2>1, <2>2
<1>8. f[t \ {x}] # g[t \ {x}]
  BY <1>4, <1>7
<1>9. t \ {x} \in T
  BY <1>4, <1>8
<1>10. Cardinality(t \ {x}) < Cardinality(t) /\ Cardinality(t) <= Cardinality(t \ {x})
  BY <1>3, <1>4, <1>6, <1>9, OneLess
<1>11. Cardinality(t) \in Nat /\ Cardinality(t \ {x}) \in Nat
  BY <1>2, <1>4, <1>9, FS_CardinalityType
<1> QED
  BY <1>10, <1>11

\* Every finite set has a table.
LEMMA TableExists ==
  ASSUME NEW w, NEW S, IsFiniteSet(S)
  PROVE  IsTable(Table(w, S), w, S)
<1> DEFINE T == {s \in SUBSET S : ~(\E f : IsTable(f, w, s))}
<1>1. SUFFICES ASSUME T # {} PROVE FALSE
  <2>1. S \notin T
    BY <1>1
  <2>2. \E f : IsTable(f, w, S)
    BY <2>1
  <2> QED
    BY <2>2 DEF Table
<1>2. \A s \in T : IsFiniteSet(s)
  BY FS_Subset
<1>3. PICK s \in T : \A u \in T : Cardinality(s) <= Cardinality(u)
  <2> HIDE DEF T
  <2> QED
    BY <1>1, <1>2, SmallestSet
<1>4. s \in SUBSET S /\ ~(\E f : IsTable(f, w, s)) /\ IsFiniteSet(s)
  BY <1>2
<1>5. ASSUME NEW u, NEW x \in s, u \in SUBSET (s \ {x})
      PROVE  IsFiniteSet(u) /\ IsTable(Table(w, u), w, u)
  <2>1. IsFiniteSet(s \ {x}) /\ Cardinality(s \ {x}) < Cardinality(s)
    BY <1>4, OneLess
  <2>2. IsFiniteSet(u) /\ Cardinality(u) <= Cardinality(s \ {x})
    BY <1>5, <2>1, FS_Subset
  <2>3. Cardinality(u) \in Nat /\ Cardinality(s \ {x}) \in Nat /\ Cardinality(s) \in Nat
    BY <1>4, <2>1, <2>2, FS_CardinalityType
  <2>4. u \notin T
    BY <1>3, <2>1, <2>2, <2>3
  <2>5. \E f : IsTable(f, w, u)
    BY <1>4, <1>5, <2>4
  <2> QED
    BY <2>2, <2>5 DEF Table
<1> DEFINE g == [t \in SUBSET s |-> IF t = {} THEN 0 ELSE w[First(t)] + SumOf(w, t \ {First(t)})]
<1>6. ASSUME NEW t \in SUBSET s
      PROVE  g[t] = SumBody(g, w, t)
  <2>1. CASE t = {}
    BY <2>1 DEF SumBody
  <2>2. CASE t # {}
    <3>1. PICK x \in t : x = First(t)
      BY <2>2, FirstIn
    <3>2. PICK u : u = t \ {x}
      OBVIOUS
    <3>3. u \in SUBSET (s \ {x}) /\ x \in s /\ u \in SUBSET s
      BY <3>1, <3>2
    <3>4. IsFiniteSet(u) /\ IsTable(Table(w, u), w, u)
      BY <1>5, <3>3
    <3>5. SumOf(w, u) = g[u]
      <4>1. CASE u = {}
        BY <3>3, <3>4, <4>1, TableValues DEF SumOf
      <4>2. CASE u # {}
        <5>1. PICK y \in u : y = First(u)
          BY <4>2, FirstIn
        <5>2. PICK v : v = u \ {y}
          OBVIOUS
        <5>3. v \in SUBSET (s \ {x}) /\ v \in SUBSET u
          BY <3>3, <5>2
        <5>4. IsTable(Table(w, v), w, v)
          BY <1>5, <3>3, <5>3
        <5>5. Table(w, u)[v] = Table(w, v)[v]
          BY <3>4, <5>3, <5>4, TablesAgree
        <5>6. Table(w, u)[u] = w[y] + Table(w, u)[v]
          BY <3>4, <4>2, <5>1, <5>2, TableValues
        <5>7. g[u] = w[y] + SumOf(w, v)
          BY <3>3, <4>2, <5>1, <5>2
        <5> QED
          BY <5>5, <5>6, <5>7 DEF SumOf
      <4> QED
        BY <4>1, <4>2
    <3>6. g[t] = w[x] + SumOf(w, u)
      BY <2>2, <3>1, <3>2
    <3>7. SumBody(g, w, t) = w[x] + g[u]
      <4> HIDE DEF g
      <4> QED
        BY <2>2, <3>1, <3>2 DEF SumBody
    <3> QED
      <4> HIDE DEF g
      <4> QED
        BY <3>5, <3>6, <3>7
  <2> QED
    BY <2>1, <2>2
<1>7. g = [t \in SUBSET s |-> g[t]]
  OBVIOUS
<1>8. IsTable(g, w, s)
  <2> HIDE DEF g
  <2> QED
    BY <1>6, <1>7 DEF IsTable
<1> QED
  BY <1>4, <1>8

\* One step of the sum, and the sum over nothing.
LEMMA SumStep ==
  ASSUME NEW w, NEW S, IsFiniteSet(S)
  PROVE  /\ S = {} => SumOf(w, S) = 0
         /\ S # {} => SumOf(w, S) = w[First(S)] + SumOf(w, S \ {First(S)})
<1>1. IsTable(Table(w, S), w, S)
  BY TableExists
<1>2. CASE S = {}
  BY <1>1, <1>2, TableValues DEF SumOf
<1>3. CASE S # {}
  <2>1. PICK x \in S : x = First(S)
    BY <1>3, FirstIn
  <2>2. PICK u : u = S \ {x}
    OBVIOUS
  <2>3. IsFiniteSet(u) /\ u \in SUBSET S
    BY <2>1, <2>2, OneLess
  <2>4. IsTable(Table(w, u), w, u)
    BY <2>3, TableExists
  <2>5. Table(w, S)[u] = Table(w, u)[u]
    <3>1. PICK f, g : f = Table(w, S) /\ g = Table(w, u)
      OBVIOUS
    <3>2. IsTable(f, w, S) /\ IsTable(g, w, u)
      BY <1>1, <2>4, <3>1
    <3>3. \A s \in SUBSET S : s \in SUBSET u => f[s] = g[s]
      BY <3>2, TablesAgree
    <3>4. f[u] = g[u]
      BY <2>3, <3>3
    <3> QED
      BY <3>1, <3>4
  <2>6. Table(w, S)[S] = w[First(S)] + Table(w, S)[S \ {First(S)}]
    BY <1>1, <1>3, TableValues
  <2> QED
    BY <1>3, <2>1, <2>2, <2>5, <2>6 DEF SumOf
<1> QED
  BY <1>2, <1>3

\* A sum of naturals is one.
LEMMA SumIsNat ==
  ASSUME NEW w, NEW S, IsFiniteSet(S), \A x \in S : w[x] \in Nat
  PROVE  SumOf(w, S) \in Nat
<1> DEFINE T == {s \in SUBSET S : SumOf(w, s) \notin Nat}
<1>1. SUFFICES ASSUME T # {} PROVE FALSE
  OBVIOUS
<1>2. \A t \in T : IsFiniteSet(t)
  BY FS_Subset
<1>3. PICK t \in T : \A u \in T : Cardinality(t) <= Cardinality(u)
  <2> HIDE DEF T
  <2> QED
    BY <1>1, <1>2, SmallestSet
<1>4. t \in SUBSET S /\ SumOf(w, t) \notin Nat /\ IsFiniteSet(t)
  BY <1>2
<1>5. t # {}
  <2>1. t = {} => SumOf(w, t) = 0
    BY <1>4, SumStep
  <2> QED
    BY <1>4, <2>1
<1>6. PICK x \in t : x = First(t)
  BY <1>5, FirstIn
<1>7. SumOf(w, t) = w[x] + SumOf(w, t \ {x})
  BY <1>4, <1>5, <1>6, SumStep
<1>8. IsFiniteSet(t \ {x}) /\ Cardinality(t \ {x}) < Cardinality(t)
  BY <1>4, OneLess
<1>9. Cardinality(t) \in Nat /\ Cardinality(t \ {x}) \in Nat
  BY <1>4, <1>8, FS_CardinalityType
<1>10. t \ {x} \notin T
  BY <1>3, <1>8, <1>9
<1>11. SumOf(w, t \ {x}) \in Nat /\ w[x] \in Nat
  BY <1>4, <1>10
<1> QED
  BY <1>4, <1>7, <1>11

\* Any element may be taken out first.
LEMMA SumTakesOut ==
  ASSUME NEW w, NEW S, IsFiniteSet(S), \A x \in S : w[x] \in Nat, NEW e \in S
  PROVE  SumOf(w, S) = w[e] + SumOf(w, S \ {e})
<1> DEFINE T == {s \in SUBSET S : \E x \in s : SumOf(w, s) # w[x] + SumOf(w, s \ {x})}
<1>1. SUFFICES ASSUME T # {} PROVE FALSE
  OBVIOUS
<1>2. \A t \in T : IsFiniteSet(t)
  BY FS_Subset
<1>3. PICK t \in T : \A u \in T : Cardinality(t) <= Cardinality(u)
  <2> HIDE DEF T
  <2> QED
    BY <1>1, <1>2, SmallestSet
<1>4. t \in SUBSET S /\ IsFiniteSet(t)
  BY <1>2
<1>5. PICK x \in t : SumOf(w, t) # w[x] + SumOf(w, t \ {x})
  OBVIOUS
<1>6. PICK y \in t : y = First(t)
  BY FirstIn
<1>7. SumOf(w, t) = w[y] + SumOf(w, t \ {y})
  BY <1>4, <1>6, SumStep
<1>8. x # y
  BY <1>5, <1>7
<1>9. \A z \in t : /\ IsFiniteSet(t \ {z}) /\ Cardinality(t \ {z}) < Cardinality(t)
                   /\ t \ {z} \in SUBSET S /\ t \ {z} \notin T
  <2>1. ASSUME NEW z \in t
        PROVE  /\ IsFiniteSet(t \ {z}) /\ Cardinality(t \ {z}) < Cardinality(t)
               /\ t \ {z} \in SUBSET S /\ t \ {z} \notin T
    <3>1. IsFiniteSet(t \ {z}) /\ Cardinality(t \ {z}) < Cardinality(t)
      BY <1>4, OneLess
    <3>2. Cardinality(t) \in Nat /\ Cardinality(t \ {z}) \in Nat
      BY <1>4, <3>1, FS_CardinalityType
    <3>3. t \ {z} \notin T
      <4> HIDE DEF T
      <4> QED
        BY <1>3, <3>1, <3>2
    <3> QED
      BY <1>4, <3>1, <3>3
  <2> QED
    BY <2>1
<1>10. SumOf(w, t \ {y}) = w[x] + SumOf(w, (t \ {y}) \ {x})
  BY <1>8, <1>9
<1>11. SumOf(w, t \ {x}) = w[y] + SumOf(w, (t \ {x}) \ {y})
  BY <1>8, <1>9
<1>12. PICK rest : rest = (t \ {y}) \ {x}
  OBVIOUS
<1>13. rest = (t \ {x}) \ {y} /\ rest \in SUBSET t
  BY <1>12
<1>14. IsFiniteSet(rest) /\ \A z \in rest : w[z] \in Nat
  BY <1>4, <1>13, FS_Subset
<1>15. SumOf(w, rest) \in Nat
  BY <1>14, SumIsNat
<1>16. w[x] \in Nat /\ w[y] \in Nat
  BY <1>4
<1>17. SumOf(w, t) = w[y] + (w[x] + SumOf(w, rest)) /\ SumOf(w, t \ {x}) = w[y] + SumOf(w, rest)
  BY <1>7, <1>10, <1>11, <1>12, <1>13
<1> QED
  BY <1>5, <1>15, <1>16, <1>17

\* A sum depends on the values at its elements only.
LEMMA SumSame ==
  ASSUME NEW w, NEW v, NEW S, IsFiniteSet(S), \A x \in S : w[x] = v[x]
  PROVE  SumOf(w, S) = SumOf(v, S)
<1> DEFINE T == {s \in SUBSET S : SumOf(w, s) # SumOf(v, s)}
<1>1. SUFFICES ASSUME T # {} PROVE FALSE
  OBVIOUS
<1>2. \A t \in T : IsFiniteSet(t)
  BY FS_Subset
<1>3. PICK t \in T : \A u \in T : Cardinality(t) <= Cardinality(u)
  <2> HIDE DEF T
  <2> QED
    BY <1>1, <1>2, SmallestSet
<1>4. t \in SUBSET S /\ SumOf(w, t) # SumOf(v, t) /\ IsFiniteSet(t)
  BY <1>2
<1>5. t # {}
  BY <1>4, SumStep
<1>6. PICK x \in t : x = First(t)
  BY <1>5, FirstIn
<1>7. SumOf(w, t) = w[x] + SumOf(w, t \ {x})
  BY <1>4, <1>5, <1>6, SumStep
<1>8. SumOf(v, t) = v[x] + SumOf(v, t \ {x})
  BY <1>4, <1>5, <1>6, SumStep
<1>9. IsFiniteSet(t \ {x}) /\ Cardinality(t \ {x}) < Cardinality(t)
  BY <1>4, OneLess
<1>10. Cardinality(t) \in Nat /\ Cardinality(t \ {x}) \in Nat
  BY <1>4, <1>9, FS_CardinalityType
<1>11. t \ {x} \notin T
  BY <1>3, <1>9, <1>10
<1>12. SumOf(w, t \ {x}) = SumOf(v, t \ {x}) /\ w[x] = v[x]
  BY <1>4, <1>11
<1> QED
  BY <1>4, <1>7, <1>8, <1>12

-----------------------------------------------------------------------------
(* Lists of keys. *)

\* The elements of a list and that each is there once.
Holds(s, k) == \E i \in 1 .. Len(s) : s[i] = k
Once(s) == \A i, j \in 1 .. Len(s) : i # j => s[i] # s[j]

\* A list without one of its keys.
LEMMA RemovedFirst ==
  ASSUME NEW K, NEW s \in Seq(K), Once(s), NEW key, NEW r, r = RemoveFirst(s, key)
  PROVE  /\ r \in Seq(K) /\ Once(r)
         /\ \A k : Holds(r, k) <=> Holds(s, k) /\ k # key
<1>1. CASE ~Holds(s, key)
  <2>1. r = s
    BY <1>1 DEF RemoveFirst, Holds
  <2> QED
    BY <1>1, <2>1 DEF Holds
<1>2. CASE Holds(s, key)
  <2>1. PICK i \in 1 .. Len(s) : i = SelectInSeq(s, LAMBDA v : v = key) /\ s[i] = key
    <3>1. PICK I : I = {j \in 1 .. Len(s) : s[j] = key}
      OBVIOUS
    <3>2. I \in SUBSET Nat /\ I # {}
      BY <1>2, <3>1 DEF Holds
    <3>3. \E n \in I : \A m \in I : n <= m
      BY <3>2, SmallestNumber
    <3>4. Min(I) \in I
      BY <3>3 DEF Min
    <3>5. SelectInSeq(s, LAMBDA v : v = key) = Min(I)
      BY <3>1, <3>2 DEF SelectInSeq
    <3> QED
      BY <3>1, <3>4, <3>5
  <2>2. s[i] = key
    BY <2>1
  <2>3. r = RemoveAt(s, i)
    BY <1>2, <2>1 DEF RemoveFirst, Holds
  <2>4. PICK a, b : a = SubSeq(s, 1, i - 1) /\ b = SubSeq(s, i + 1, Len(s))
    OBVIOUS
  <2>5. Len(s) \in Nat /\ i \in Nat
    OBVIOUS
  <2>6. a \in Seq(K) /\ Len(a) = i - 1 /\ \A j \in 1 .. i - 1 : a[j] = s[j]
    BY <2>4, <2>5, SubSeqProperties
  <2>7. b \in Seq(K) /\ Len(b) = Len(s) - i /\ \A j \in 1 .. Len(s) - i : b[j] = s[i + j]
    BY <2>4, <2>5, SubSeqProperties
  <2>8. r = a \o b
    BY <2>3, <2>4 DEF RemoveAt
  <2>9. r \in Seq(K) /\ Len(r) = Len(s) - 1
    BY <2>5, <2>6, <2>7, <2>8
  <2>10. \A j \in 1 .. Len(s) - 1 : r[j] = IF j < i THEN s[j] ELSE s[j + 1]
    BY <2>5, <2>6, <2>7, <2>8
  <2>11. Once(r)
    <3>1. ASSUME NEW m \in 1 .. Len(s) - 1, NEW n \in 1 .. Len(s) - 1, m # n
          PROVE  r[m] # r[n]
      <4>1. PICK x \in 1 .. Len(s), y \in 1 .. Len(s) :
              x = (IF m < i THEN m ELSE m + 1) /\ y = (IF n < i THEN n ELSE n + 1)
        BY <2>5
      <4>2. x # y /\ r[m] = s[x] /\ r[n] = s[y]
        BY <2>5, <2>10, <3>1, <4>1
      <4> QED
        BY <4>2 DEF Once
    <3> QED
      BY <2>9, <3>1 DEF Once
  <2>12. ASSUME NEW k, Holds(r, k) PROVE Holds(s, k) /\ k # key
    BY <2>2, <2>5, <2>9, <2>10, <2>12 DEF Holds, Once
  <2>13. ASSUME NEW k, Holds(s, k), k # key PROVE Holds(r, k)
    <3>1. PICK n \in 1 .. Len(s) : s[n] = k
      BY <2>13 DEF Holds
    <3>2. n # i
      BY <2>2, <2>13, <3>1
    <3>3. CASE n < i
      <4>1. n \in 1 .. Len(r) /\ r[n] = k
        BY <2>5, <2>9, <2>10, <3>1, <3>3
      <4> QED
        BY <4>1 DEF Holds
    <3>4. CASE n > i
      <4>1. n - 1 \in 1 .. Len(r) /\ r[n - 1] = k
        BY <2>5, <2>9, <2>10, <3>1, <3>4
      <4> QED
        BY <4>1 DEF Holds
    <3> QED
      BY <2>5, <3>2, <3>3, <3>4
  <2> QED
    BY <2>9, <2>11, <2>12, <2>13
<1> QED
  BY <1>1, <1>2

\* A key put in front of a list that does not hold it.
LEMMA PutInFront ==
  ASSUME NEW K, NEW s \in Seq(K), Once(s), NEW key \in K, ~Holds(s, key), NEW r, r = <<key>> \o s
  PROVE  /\ r \in Seq(K) /\ Once(r)
         /\ \A k : Holds(r, k) <=> Holds(s, k) \/ k = key
<1>1. r \in Seq(K) /\ Len(r) = Len(s) + 1 /\ Len(s) \in Nat
  OBVIOUS
<1>2. r[1] = key /\ \A j \in 1 .. Len(s) : r[j + 1] = s[j]
  OBVIOUS
<1>3. \A j \in 2 .. Len(s) + 1 : j - 1 \in 1 .. Len(s) /\ r[j] = s[j - 1]
  BY <1>1, <1>2
<1>4. Once(r)
  BY <1>1, <1>2, <1>3 DEF Once, Holds
<1>5. ASSUME NEW k, Holds(r, k) PROVE Holds(s, k) \/ k = key
  BY <1>1, <1>2, <1>3, <1>5 DEF Holds
<1>6. Holds(r, key)
  BY <1>1, <1>2 DEF Holds
<1>7. ASSUME NEW k, Holds(s, k) PROVE Holds(r, k)
  <2>1. PICK n \in 1 .. Len(s) : s[n] = k
    BY <1>7 DEF Holds
  <2>2. n + 1 \in 1 .. Len(r) /\ r[n + 1] = k
    BY <1>1, <1>2, <2>1
  <2> QED
    BY <2>2 DEF Holds
<1> QED
  BY <1>1, <1>4, <1>5, <1>6, <1>7

-----------------------------------------------------------------------------
(* The response cache. *)

\* What the parts of CacheSound say of sums and lists.
LEMMA SoundMeans ==
  ASSUME order \in Seq(Keys)
  PROVE  /\ BytesExact <=> bytes = SumOf(bytesOf, Entries)
         /\ OrderMatchesEntries <=> Once(order) /\ \A k \in Keys : k \in Entries <=> Holds(order, k)
<1>1. MapThenSumSet(LAMBDA k : bytesOf[k], Entries) = SumOf(bytesOf, Entries)
  BY SumUnfolds
<1>2. DOMAIN order = 1 .. Len(order)
  OBVIOUS
<1> QED
  BY <1>1, <1>2 DEF BytesExact, OrderMatchesEntries, Once, Holds

\* The cache after a step, from what the step has to show.
LEMMA SoundAfter ==
  ASSUME order' \in Seq(Keys), bytesOf' \in [Keys -> Nat], evicting' \in BOOLEAN,
         IsFiniteSet(Entries'), \A k \in Keys : factorOf'[k] = None => bytesOf'[k] = 0,
         bytes' = SumOf(bytesOf', Entries'), Once(order'),
         \A k \in Keys : k \in Entries' <=> Holds(order', k),
         ~evicting' => bytes' <= NewResponseCache
  PROVE  CacheIInv'
<1>1. CacheTypes'
  BY DEF CacheTypes
<1>2. BytesExact'
  BY DEF BytesExact, MapThenSumSet, MapThenFoldSet, SumOf, Table, IsTable, SumBody, First
<1>3. OrderMatchesEntries'
  <2>1. DOMAIN order' = 1 .. Len(order')
    OBVIOUS
  <2> QED
    BY <2>1 DEF OrderMatchesEntries, Once, Holds
<1>4. WithinBudget'
  BY DEF WithinBudget, NewResponseCache
<1> QED
  BY <1>1, <1>2, <1>3, <1>4 DEF CacheIInv, CacheSound

\* What the invariant says in the same terms.
LEMMA SoundBefore ==
  ASSUME CacheIInv
  PROVE  /\ order \in Seq(Keys) /\ bytesOf \in [Keys -> Nat] /\ evicting \in BOOLEAN
         /\ IsFiniteSet(Entries) /\ \A k \in Keys : factorOf[k] = None => bytesOf[k] = 0
         /\ bytes = SumOf(bytesOf, Entries) /\ bytes \in Nat /\ Once(order)
         /\ \A k \in Keys : k \in Entries <=> Holds(order, k)
         /\ ~evicting => bytes <= NewResponseCache
<1>1. /\ order \in Seq(Keys) /\ bytesOf \in [Keys -> Nat] /\ evicting \in BOOLEAN
      /\ IsFiniteSet(Entries) /\ \A k \in Keys : factorOf[k] = None => bytesOf[k] = 0
  BY DEF CacheIInv, CacheTypes
<1>2. /\ bytes = SumOf(bytesOf, Entries) /\ Once(order)
      /\ \A k \in Keys : k \in Entries <=> Holds(order, k)
  BY <1>1, SoundMeans DEF CacheIInv, CacheSound
<1>3. \A k \in Entries : bytesOf[k] \in Nat
  BY <1>1 DEF Entries
<1>4. bytes \in Nat
  BY <1>1, <1>2, <1>3, SumIsNat
<1> QED
  BY <1>1, <1>2, <1>4 DEF CacheIInv, CacheSound, WithinBudget

\* The list after MoveToFront.
LEMMA MovedToFront ==
  ASSUME NEW s \in Seq(Keys), Once(s), NEW key \in Keys, NEW r, r = <<key>> \o RemoveFirst(s, key)
  PROVE  /\ r \in Seq(Keys) /\ Once(r)
         /\ \A k : Holds(r, k) <=> Holds(s, k) \/ k = key
<1>1. PICK t : t = RemoveFirst(s, key)
  OBVIOUS
<1>2. /\ t \in Seq(Keys) /\ Once(t)
      /\ \A k : Holds(t, k) <=> Holds(s, k) /\ k # key
  BY <1>1, RemovedFirst
<1>3. ~Holds(t, key) /\ r = <<key>> \o t
  BY <1>1, <1>2
<1>4. /\ r \in Seq(Keys) /\ Once(r)
      /\ \A k : Holds(r, k) <=> Holds(t, k) \/ k = key
  BY <1>1, <1>2, <1>3, PutInFront
<1> QED
  BY <1>2, <1>4

\* The sum without a key, whether it has an entry or not.
LEMMA SumWithout ==
  ASSUME NEW E, IsFiniteSet(E), NEW w, \A k \in E : w[k] \in Nat, NEW key,
         key \notin E => w[key] = 0
  PROVE  /\ IsFiniteSet(E \ {key}) /\ SumOf(w, E \ {key}) \in Nat /\ w[key] \in Nat
         /\ SumOf(w, E) = w[key] + SumOf(w, E \ {key})
<1>1. IsFiniteSet(E \ {key})
  BY FS_Subset
<1>2. SumOf(w, E \ {key}) \in Nat
  BY <1>1, SumIsNat
<1>3. CASE key \in E
  BY <1>1, <1>2, <1>3, SumTakesOut
<1>4. CASE key \notin E
  <2>1. PICK D : D = E \ {key}
    OBVIOUS
  <2>2. D = E /\ w[key] = 0 /\ SumOf(w, D) \in Nat
    BY <1>2, <1>4, <2>1
  <2>3. SumOf(w, E) = w[key] + SumOf(w, D)
    BY <2>2
  <2> QED
    BY <1>1, <1>2, <2>1, <2>2, <2>3
<1> QED
  BY <1>3, <1>4

LEMMA GetHitKeeps ==
  ASSUME CacheIInv, NEW key \in Keys, GetHit(key)
  PROVE  CacheIInv'
<1>1. /\ key \in Entries /\ order' = <<key>> \o RemoveFirst(order, key) /\ factorOf' = factorOf
      /\ bytesOf' = bytesOf /\ bytes' = bytes /\ evicting' = evicting
  BY DEF GetHit, MoveToFront
<1>2. Entries' = Entries
  BY <1>1 DEF Entries
<1>3. /\ order \in Seq(Keys) /\ Once(order) /\ \A k \in Keys : k \in Entries <=> Holds(order, k)
      /\ bytesOf \in [Keys -> Nat] /\ evicting \in BOOLEAN
      /\ IsFiniteSet(Entries) /\ \A k \in Keys : factorOf[k] = None => bytesOf[k] = 0
      /\ bytes = SumOf(bytesOf, Entries) /\ (~evicting => bytes <= NewResponseCache)
  BY SoundBefore
<1>4. /\ order' \in Seq(Keys) /\ Once(order')
      /\ \A k : Holds(order', k) <=> Holds(order, k) \/ k = key
  <2>1. \A s \in Seq(Keys) : \A q : Once(s) /\ q = <<key>> \o RemoveFirst(s, key) =>
          q \in Seq(Keys) /\ Once(q) /\ \A k : Holds(q, k) <=> Holds(s, k) \/ k = key
    BY MovedToFront
  <2> QED
    BY <1>1, <1>3, <2>1
<1>5. \A k \in Keys : k \in Entries' <=> Holds(order', k)
  BY <1>1, <1>2, <1>3, <1>4
<1> QED
  BY <1>1, <1>2, <1>3, <1>4, <1>5, SoundAfter

\* The condition of the loop of evictLocked.
LEMMA EvictingUntilWithin ==
  ASSUME NEW b \in Nat, NEW budget \in Nat, NEW e, e = (b > budget)
  PROVE  e \in BOOLEAN /\ (~e => b <= budget)
<1>1. (b > budget) \in BOOLEAN
  OBVIOUS
<1>2. e \in BOOLEAN
  BY <1>1, Zenon
<1>3. ~e => ~(b > budget)
  BY Zenon
<1>4. ~(b > budget) => b <= budget
  OBVIOUS
<1> QED
  BY <1>2, <1>3, <1>4, Zenon

LEMMA PutKeeps ==
  ASSUME TypeOK, CacheIInv, NEW key \in Keys, NEW o \in Objects, NEW size \in Nat, Put(key, o, size)
  PROVE  CacheIInv'
<1>1. /\ order' = <<key>> \o RemoveFirst(order, key) /\ factorOf' = [factorOf EXCEPT ![key] = o]
      /\ bytesOf' = [bytesOf EXCEPT ![key] = size] /\ bytes' = bytes + (size - bytesOf[key])
      /\ evicting' = (bytes' > NewResponseCache)
  BY DEF Put, MoveToFront
<1>2. /\ order \in Seq(Keys) /\ Once(order) /\ \A k \in Keys : k \in Entries <=> Holds(order, k)
      /\ bytesOf \in [Keys -> Nat] /\ \A k \in Keys : factorOf[k] = None => bytesOf[k] = 0
      /\ IsFiniteSet(Entries) /\ bytes = SumOf(bytesOf, Entries)
  BY SoundBefore
<1>3. o # None /\ factorOf \in [Keys -> Objects \cup {None}]
  BY CacheAssumption DEF TypeOK
<1>4. Entries' = Entries \cup {key}
  BY <1>1, <1>3 DEF Entries
<1>5. IsFiniteSet(Entries')
  BY <1>2, <1>4, FS_AddElement
<1>6. bytesOf' \in [Keys -> Nat] /\ \A k \in Keys : factorOf'[k] = None => bytesOf'[k] = 0
  BY <1>1, <1>2, <1>3
<1>7. /\ order' \in Seq(Keys) /\ Once(order')
      /\ \A k : Holds(order', k) <=> Holds(order, k) \/ k = key
  BY <1>1, <1>2, MovedToFront
<1>8. \A k \in Keys : k \in Entries' <=> Holds(order', k)
  BY <1>2, <1>4, <1>7
<1>9. PICK rest : rest = Entries \ {key}
  OBVIOUS
<1>10. Entries' \ {key} = rest /\ key \in Entries' /\ rest \subseteq Keys /\ key \notin rest
  BY <1>4, <1>9 DEF Entries
<1>11. /\ IsFiniteSet(rest) /\ SumOf(bytesOf, rest) \in Nat /\ bytesOf[key] \in Nat
       /\ SumOf(bytesOf, Entries) = bytesOf[key] + SumOf(bytesOf, rest)
  <2>1. \A k \in Entries : bytesOf[k] \in Nat
    BY <1>2 DEF Entries
  <2>2. key \notin Entries => bytesOf[key] = 0
    BY <1>2 DEF Entries
  <2> QED
    BY <1>2, <1>9, <2>1, <2>2, SumWithout
<1>12. SumOf(bytesOf', Entries') = size + SumOf(bytesOf', rest)
  <2>1. \A k \in Entries' : bytesOf'[k] \in Nat
    BY <1>6 DEF Entries
  <2>2. bytesOf'[key] = size
    BY <1>1, <1>2
  <2> QED
    BY <1>5, <1>10, <2>1, <2>2, SumTakesOut
<1>13. SumOf(bytesOf', rest) = SumOf(bytesOf, rest)
  <2>1. \A k \in rest : bytesOf'[k] = bytesOf[k]
    BY <1>1, <1>2, <1>10
  <2> QED
    BY <1>11, <2>1, SumSame
<1>14. bytes' = SumOf(bytesOf', Entries') /\ bytes' \in Nat
  BY <1>1, <1>2, <1>11, <1>12, <1>13
<1>15. NewResponseCache \in Nat
  BY CacheAssumption DEF NewResponseCache
<1>16. evicting' \in BOOLEAN /\ (~evicting' => bytes' <= NewResponseCache)
  BY <1>1, <1>14, <1>15, EvictingUntilWithin
<1> QED
  BY <1>5, <1>6, <1>7, <1>8, <1>14, <1>16, SoundAfter

\* The loop of evictLocked never finds the list empty, so that its early return is
\* never taken: a byte count over the budget is the size of some entry.
LEMMA EvictionFindsAnEntry ==
  ASSUME CacheIInv, bytes > 0
  PROVE  order # <<>>
<1>1. SUFFICES ASSUME order = <<>> PROVE FALSE
  OBVIOUS
<1>2. /\ \A k \in Keys : k \in Entries <=> Holds(order, k)
      /\ IsFiniteSet(Entries) /\ bytes = SumOf(bytesOf, Entries)
  BY SoundBefore
<1>3. \A k : ~Holds(order, k)
  BY <1>1 DEF Holds
<1>4. Entries = {}
  BY <1>2, <1>3 DEF Entries
<1>5. SumOf(bytesOf, Entries) = 0
  BY <1>2, <1>4, SumStep
<1> QED
  BY <1>2, <1>5

LEMMA EvictKeeps ==
  ASSUME TypeOK, CacheIInv, EvictOldest
  PROVE  CacheIInv'
<1>1. PICK key : key = Last(order)
  OBVIOUS
<1>2. /\ order # <<>> /\ order' = RemoveFirst(order, key) /\ factorOf' = [factorOf EXCEPT ![key] = None]
      /\ bytesOf' = [bytesOf EXCEPT ![key] = 0] /\ bytes' = bytes - bytesOf[key]
      /\ evicting' = (bytes' > NewResponseCache)
  BY <1>1 DEF EvictOldest, RemoveLocked
<1>3. /\ order \in Seq(Keys) /\ Once(order) /\ \A k \in Keys : k \in Entries <=> Holds(order, k)
      /\ bytesOf \in [Keys -> Nat] /\ \A k \in Keys : factorOf[k] = None => bytesOf[k] = 0
      /\ IsFiniteSet(Entries) /\ bytes = SumOf(bytesOf, Entries)
  BY SoundBefore
<1>4. key \in Keys /\ Holds(order, key)
  BY <1>1, <1>2, <1>3 DEF Last, Holds
<1>5. key \in Entries /\ factorOf \in [Keys -> Objects \cup {None}]
  BY <1>3, <1>4 DEF TypeOK
<1>6. Entries' = Entries \ {key}
  BY <1>2, <1>5 DEF Entries
<1>7. bytesOf' \in [Keys -> Nat] /\ \A k \in Keys : factorOf'[k] = None => bytesOf'[k] = 0
  BY <1>2, <1>3, <1>5
<1>8. /\ order' \in Seq(Keys) /\ Once(order')
      /\ \A k : Holds(order', k) <=> Holds(order, k) /\ k # key
  BY <1>2, <1>3, RemovedFirst
<1>9. \A k \in Keys : k \in Entries' <=> Holds(order', k)
  BY <1>3, <1>6, <1>8
<1>10. /\ IsFiniteSet(Entries') /\ SumOf(bytesOf, Entries') \in Nat /\ bytesOf[key] \in Nat
       /\ SumOf(bytesOf, Entries) = bytesOf[key] + SumOf(bytesOf, Entries')
  <2>1. \A k \in Entries : bytesOf[k] \in Nat
    BY <1>3 DEF Entries
  <2> QED
    BY <1>3, <1>5, <1>6, <2>1, SumWithout
<1>11. SumOf(bytesOf', Entries') = SumOf(bytesOf, Entries')
  <2>1. \A k \in Entries' : bytesOf'[k] = bytesOf[k]
    BY <1>2, <1>3, <1>6 DEF Entries
  <2> QED
    BY <1>10, <2>1, SumSame
<1>12. bytes' = SumOf(bytesOf', Entries') /\ bytes' \in Nat
  BY <1>2, <1>3, <1>10, <1>11
<1>13. NewResponseCache \in Nat
  BY CacheAssumption DEF NewResponseCache
<1>14. evicting' \in BOOLEAN /\ (~evicting' => bytes' <= NewResponseCache)
  BY <1>2, <1>12, <1>13, EvictingUntilWithin
<1> QED
  BY <1>7, <1>8, <1>9, <1>10, <1>12, <1>14, SoundAfter

\* A step that only counts hits and misses, or touches no field of the cache.
LEMMA CacheFramed ==
  ASSUME CacheIInv, order' = order, factorOf' = factorOf, bytesOf' = bytesOf, bytes' = bytes,
         evicting' = evicting
  PROVE  CacheIInv'
<1>1. Entries' = Entries
  BY DEF Entries
<1> QED
  BY <1>1, SoundBefore, SoundAfter

LEMMA InitCacheIInv ==
  ASSUME Init
  PROVE  CacheIInv
<1>1. /\ order = <<>> /\ factorOf = [k \in Keys |-> None] /\ bytesOf = [k \in Keys |-> 0]
      /\ bytes = 0 /\ evicting = FALSE
  BY DEF Init, CacheInit
<1>2. Entries = {} /\ IsFiniteSet({})
  BY <1>1, FS_EmptySet DEF Entries
<1>3. CacheTypes
  <2>1. order \in Seq(Keys)
    BY <1>1
  <2>2. bytesOf \in [Keys -> Nat] /\ \A k \in Keys : bytesOf[k] = 0
    BY <1>1
  <2>3. evicting \in BOOLEAN
    BY <1>1
  <2>4. IsFiniteSet(Entries)
    BY <1>2
  <2> QED
    BY <2>1, <2>2, <2>3, <2>4 DEF CacheTypes
<1>4. SumOf(bytesOf, Entries) = 0
  BY <1>2, SumStep
<1>5. Once(order) /\ \A k : ~Holds(order, k)
  BY <1>1 DEF Once, Holds
<1>6. BytesExact /\ OrderMatchesEntries
  BY <1>1, <1>2, <1>3, <1>4, <1>5, SoundMeans DEF CacheTypes
<1>7. WithinBudget
  BY <1>1, CacheAssumption DEF WithinBudget, NewResponseCache
<1> QED
  BY <1>3, <1>6, <1>7 DEF CacheIInv, CacheSound

LEMMA NextCacheIInv == CallInv /\ CacheIInv /\ [Next]_vars => CacheIInv'
<1> SUFFICES ASSUME CallInv, CacheIInv, [Next]_vars PROVE CacheIInv'
  OBVIOUS
<1>1. TypeOK /\ PositionInv /\ NamesInv
  BY DEF CallInv
<1>2. CASE UNCHANGED vars
  BY <1>2, CacheFramed DEF vars
<1>3. CASE Evict
  BY <1>1, <1>3, EvictKeeps DEF Evict
<1>4. ASSUME NEW c \in Calls, Begin(c) PROVE CacheIInv'
  BY <1>4, CacheFramed DEF Begin, cacheVars
<1>5. ASSUME NEW c \in Calls, Step(c) PROVE CacheIInv'
  <2>1. ASSUME pc[c] # "idle" PROVE GroupResponseKey(c) \in Keys
    BY <1>1, <2>1, PositionTyped, ObjectsTyped DEF PositionInv, PositionOf, GroupResponseKey, EndpointHash
  <2>2. CASE CacheHit(c)
    <3>1. PICK key \in Keys : key = GroupResponseKey(c)
      BY <2>1, <2>2 DEF CacheHit
    <3>2. GetHit(key)
      BY <2>2, <3>1 DEF CacheHit
    <3> QED
      BY <3>2, GetHitKeeps
  <2>3. CASE CacheMiss(c)
    BY <2>3, CacheFramed DEF CacheMiss, GetMiss
  <2>4. CASE Publish(c)
    <3>1. PICK key \in Keys : key = GroupResponseKey(c)
      BY <2>1, <2>4 DEF Publish
    <3>2. Into(c) = <<c, Hop(c)>> /\ Hop(c) \in Hops
      BY <1>1, <2>4, IntoOwn, PositionTyped DEF Publish, Held, Solving
    <3>3. PICK o \in Objects : o = Into(c)
      BY <3>2, ObjectsTyped
    <3>4. PICK size \in Nat : size = GroupFactorBytes(o)
      BY NetworkAssumption DEF GroupFactorBytes
    <3>5. Put(key, o, size)
      BY <2>4, <3>1, <3>3, <3>4 DEF Publish
    <3> QED
      BY <1>1, <3>5, PutKeeps
  <2>5. CASE ~CacheHit(c) /\ ~CacheMiss(c) /\ ~Publish(c)
    <3>1. UNCHANGED cacheVars
      BY <1>5, <2>5 DEF Step, Compose, UseMemo, CloneFactor, ReadNeeds, Reuse, SolveHop,
         SolveFactorEarly, TraceFactorLate, StoreDirections, SolveFails
    <3> QED
      BY <3>1, CacheFramed DEF cacheVars
  <2> QED
    BY <2>2, <2>3, <2>4, <2>5
<1> QED
  BY <1>2, <1>3, <1>4, <1>5 DEF Next

\* The response cache of concurrent renders: its list and its map hold the same keys,
\* each once; c.bytes is exactly the sum of the sizes of the entries through
\* replacements and evictions; and whoever takes the mutex finds it within its budget.
THEOREM CacheIsSound == Spec => []CacheSound
<1>1. Init => CacheIInv
  BY InitCacheIInv
<1>2. CallInv /\ CacheIInv /\ [Next]_vars => CacheIInv'
  BY NextCacheIInv
<1>3. CacheIInv => CacheSound
  BY DEF CacheIInv
<1> QED
  BY <1>1, <1>2, <1>3, CallInvariance, PTL DEF Spec

=============================================================================
