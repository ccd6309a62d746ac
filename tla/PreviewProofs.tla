---------------------------- MODULE PreviewProofs ----------------------------
(* The debouncer and the progressive render inside it, for every number of  *)
(* calls, rays and batches.                                                 *)
EXTENDS Progressive, TLAPS

-----------------------------------------------------------------------------
(* The debouncer. *)

\* The initial state satisfies the inductive invariant.
LEMMA InitIInv == Init => IInv
  BY MaxGenerationAssumption
  DEF Init, IInv, TypeOK, LiveIsCancellable, Live, Phases, Generations, Nil

\* Trigger, Cancel and every step of invoke preserve the inductive invariant.
LEMMA NextIInv == IInv /\ [Next]_vars => IInv'
<1> SUFFICES ASSUME IInv, [Next]_vars PROVE IInv'
  OBVIOUS
<1> USE MaxGenerationAssumption DEF Generations, Nil
<1>1. CASE Trigger
  BY <1>1 DEF Trigger, CancelInFlight, StopTimer, IInv, TypeOK, LiveIsCancellable, Live, Phases
<1>2. CASE Cancel
  BY <1>2 DEF Cancel, CancelInFlight, StopTimer, IInv, TypeOK, LiveIsCancellable, Live, Phases
<1>3. ASSUME NEW g \in Generations, Fire(g) PROVE IInv'
  BY <1>3 DEF Fire, IInv, TypeOK, LiveIsCancellable, Live, Phases
<1>4. ASSUME NEW g \in Generations, ReturnStale(g) PROVE IInv'
  BY <1>4 DEF ReturnStale, IInv, TypeOK, LiveIsCancellable, Live, Phases
<1>5. ASSUME NEW g \in Generations, Begin(g) PROVE IInv'
  BY <1>5 DEF Begin, IInv, TypeOK, LiveIsCancellable, Live, Phases
<1>6. ASSUME NEW g \in Generations, Return(g) PROVE IInv'
  BY <1>6 DEF Return, IInv, TypeOK, LiveIsCancellable, Live, Phases
<1>7. ASSUME NEW g \in Generations, Finish(g) PROVE IInv'
  BY <1>7 DEF Finish, IInv, TypeOK, LiveIsCancellable, Live, Phases
<1>8. CASE UNCHANGED vars
  BY <1>8 DEF vars, IInv, TypeOK, LiveIsCancellable, Live
<1> QED
  BY <1>1, <1>2, <1>3, <1>4, <1>5, <1>6, <1>7, <1>8 DEF Next, Callback

\* The inductive invariant holds in every reachable state.
LEMMA Invariance == Spec => []IInv
  BY InitIInv, NextIInv, PTL DEF Spec

\* However many Triggers and Cancels race with their callbacks, at most one
\* render runs with a live context, and a live context is the one d.cancelFn
\* cancels.
THEOREM DebouncerSafe == Spec => [](TypeOK /\ LiveIsCancellable /\ SingleLiveRender)
<1>1. IInv => TypeOK /\ LiveIsCancellable /\ SingleLiveRender
  BY DEF IInv, LiveIsCancellable, SingleLiveRender, Live
<1> QED
  BY <1>1, Invariance, PTL

\* Renders start in the order of their Triggers and never with a context that
\* is already cancelled.
THEOREM DebouncerStartsInOrder == Spec => StartsInOrder
<1>1. ASSUME IInv, [Next]_vars,
             NEW g \in Generations, phase[g] # "rendering", phase'[g] = "rendering"
      PROVE  /\ g \notin cancelled
             /\ \A h \in Generations : h > g => phase[h] = "unused"
  <2> USE <1>1, MaxGenerationAssumption DEF Generations, Nil
  <2>1. g = generation /\ phase[g] = "fired"
    <3>1. ~ UNCHANGED vars
      BY DEF vars
    <3>2. CASE Trigger
      BY <3>2 DEF Trigger, StopTimer, IInv, TypeOK
    <3>3. CASE Cancel
      BY <3>3 DEF Cancel, StopTimer, IInv, TypeOK
    <3>4. ASSUME NEW k \in Generations, Callback(k)
          PROVE  g = generation /\ phase[g] = "fired"
      BY <3>4 DEF Callback, Fire, ReturnStale, Begin, Return, Finish, IInv, TypeOK
    <3> QED
      BY <3>1, <3>2, <3>3, <3>4 DEF Next
  <2> QED
    BY <2>1 DEF IInv
<1>2. IInv /\ [Next]_vars =>
        [ \A g \in Generations :
            phase[g] # "rendering" /\ phase'[g] = "rendering"
              => /\ g \notin cancelled
                 /\ \A h \in Generations : h > g => phase[h] = "unused" ]_vars
  BY <1>1
<1> QED
  BY <1>2, Invariance, PTL DEF Spec, StartsInOrder

-----------------------------------------------------------------------------
(* RenderProgressive inside the debouncer. *)

\* Every step of the composition is a step of the debouncer, or leaves it alone.
LEMMA StepRefines ==
  ASSUME [PreviewNext]_previewVars
  PROVE  [Next]_vars
<1>1. CASE ClientCall
  BY <1>1 DEF ClientCall, Next
<1>2. ASSUME NEW g \in Generations, CallbackStep(g)
      PROVE  Next
  BY <1>2 DEF CallbackStep, Callback, Next
<1>3. ASSUME NEW g \in Generations, RenderStep(g)
      PROVE  [Next]_vars
  <2>1. CASE StartRender(g)
    BY <2>1 DEF StartRender, Callback, Next
  <2>2. CASE ReturnRender(g)
    BY <2>2 DEF ReturnRender, Callback, Next
  <2>3. ASSUME NEW stage, InRender(g, stage)
        PROVE  UNCHANGED vars
    BY <2>3 DEF InRender, vars
  <2> QED
    BY <1>3, <2>1, <2>2, <2>3
    DEF RenderStep, StatisticalTier, RenderPreviewTier, SolveRefined, NextBatch, TraceBatch,
        RefinedDone, RenderFinalTier, TierFails
<1>4. CASE UNCHANGED previewVars
  BY <1>4 DEF previewVars, vars
<1> QED
  BY <1>1, <1>2, <1>3, <1>4 DEF PreviewNext

\* A step of anybody else leaves a render as it is.
LEMMA Untouched ==
  ASSUME NEW g \in Generations, RenderOf(g), render'[g] = render[g], cancelled \subseteq cancelled',
         phase'[g] = "rendering" <=> phase[g] = "rendering"
  PROVE  RenderOf(g)'
BY DEF RenderOf

\* The steps of a render that stay inside renderFn.
LEMMA StageOf ==
  ASSUME NEW g \in Generations, RenderOf(g), NEW stage, InRender(g, stage),
         stage \in Solving \cup {"batch"}
  PROVE  /\ render[g] \in Started /\ render[g].stage = stage
         /\ phase'[g] = "rendering" /\ cancelled' = cancelled
         /\ stage \in Solving => render[g].late = 0
         /\ render[g].late = 1 => g \in cancelled
<1>1. /\ phase[g] = "rendering" /\ render[g].stage = stage /\ phase' = phase /\ cancelled' = cancelled
  BY DEF InRender
<1>2. render[g] \in Renders /\ (render[g].late = 1 => g \in cancelled /\ stage \notin Solving)
  BY <1>1 DEF RenderOf
<1>3. render[g] # Failed
  BY <1>1 DEF Failed, Solving
<1>4. render[g] \in Started
  BY <1>2, <1>3 DEF Renders, Started
<1>5. render[g].late \in 0 .. 1
  BY <1>4 DEF Started
<1> QED
  BY <1>1, <1>2, <1>4, <1>5

\* Where a step has to take the render.
LEMMA Delivered ==
  ASSUME NEW g \in Generations, NEW u, render'[g] = u, u \in Started,
         u.late = 1 => g \in cancelled /\ u.stage \notin Solving,
         phase'[g] = "rendering", cancelled' = cancelled
  PROVE  RenderOf(g)'
BY DEF RenderOf, Renders, Started

\* An update of a render inside a solver is its first late one.
LEMMA TierKeeps ==
  ASSUME NEW g \in Generations, RenderOf(g), DOMAIN render = Generations,
         NEW stage \in Solving, NEW next \in Solving \cup {"batch", "returned"}, InRender(g, stage),
         NEW tier \in {"statistical", "preview", "refined", "final"}, NEW rays \in Nat,
         g \in cancelled => next \notin Solving,
         render' = [render EXCEPT ![g] = [Updated(g, tier, rays) EXCEPT !.stage = next]]
  PROVE  RenderOf(g)'
<1>1. /\ render[g] \in Started /\ render[g].late = 0
      /\ phase'[g] = "rendering" /\ cancelled' = cancelled
  BY StageOf
<1>2. PICK v, u : v = Updated(g, tier, rays) /\ u = [v EXCEPT !.stage = next]
  OBVIOUS
<1>3. render'[g] = u
  BY <1>2
<1>4. u \in Started /\ (u.late = 1 => g \in cancelled /\ u.stage \notin Solving)
  <2>1. PICK r : r = render[g]
    OBVIOUS
  <2>2. r \in Started /\ r.late = 0
    BY <1>1, <2>1
  <2>3. PICK n \in 0 .. 1 : n = IF g \in cancelled THEN r.late + 1 ELSE r.late
    BY <2>2
  <2>4. v = [r EXCEPT !.tier = tier, !.rays = rays, !.late = n]
    BY <1>2, <2>1, <2>3 DEF Updated
  <2>5. v \in Started /\ v.late = n
    BY <2>2, <2>4 DEF Started
  <2>6. u \in Started /\ u.stage = next /\ u.late = n
    BY <1>2, <2>5 DEF Started
  <2> QED
    BY <2>2, <2>3, <2>6
<1> QED
  BY <1>1, <1>3, <1>4, Delivered

\* The steps that deliver nothing.
LEMMA SilentKeeps ==
  ASSUME NEW g \in Generations, RenderOf(g), DOMAIN render = Generations,
         NEW stage \in Solving \cup {"batch"}, NEW next \in Solving \cup {"batch", "returned"},
         InRender(g, stage), g \in cancelled => next \notin Solving,
         render' = [render EXCEPT ![g] = [render[g] EXCEPT !.stage = next]]
  PROVE  RenderOf(g)'
<1>1. /\ render[g] \in Started /\ (render[g].late = 1 => g \in cancelled)
      /\ phase'[g] = "rendering" /\ cancelled' = cancelled
  BY StageOf
<1>2. PICK r, u : r = render[g] /\ u = [r EXCEPT !.stage = next]
  OBVIOUS
<1>3. render'[g] = u
  BY <1>2
<1>4. u \in Started /\ u.stage = next /\ u.late = r.late
  BY <1>1, <1>2 DEF Started
<1>5. u.late = 1 => g \in cancelled /\ u.stage \notin Solving
  BY <1>1, <1>2, <1>4
<1> QED
  BY <1>1, <1>3, <1>4, <1>5, Delivered

\* The checks at the start of RenderProgressive.
LEMMA StartKeeps ==
  ASSUME NEW g \in Generations, DOMAIN render = Generations, phase \in [Generations -> Phases],
         StartRender(g)
  PROVE  RenderOf(g)'
<1>1. phase'[g] = "rendering"
  BY DEF StartRender, Begin
<1>2. PICK sc \in Scenes, c \in Configs :
        \/ render'[g] = Failed
        \/ /\ ValidateProgressiveConfig(sc, FillProgressiveDefaults(c))
           /\ render'[g] = [stage |-> "statistical", numRays |-> FillProgressiveDefaults(c).numRays,
                            perBatch |-> FillProgressiveDefaults(c).perBatch,
                            tier |-> "none", rays |-> 0, late |-> 0]
  BY DEF StartRender
<1>3. CASE render'[g] = Failed
  <2>1. render'[g] \in Renders /\ render'[g].late = 0
    BY <1>3 DEF Renders, Failed
  <2> QED
    BY <1>1, <2>1 DEF RenderOf
<1>4. CASE render'[g] # Failed
  <2>1. PICK n, p : n = FillProgressiveDefaults(c).numRays /\ p = FillProgressiveDefaults(c).perBatch
    OBVIOUS
  <2>2. n > 0 /\ p > 0
    BY <1>2, <1>4, <2>1 DEF ValidateProgressiveConfig
  <2>3. n \in Int /\ p \in Int
    <3>1. n = c.numRays /\ p = IF c.perBatch = 0 THEN 2 ELSE c.perBatch
      BY <2>1, ConfigsAssumption DEF FillProgressiveDefaults
    <3> QED
      BY <3>1, ConfigsAssumption
  <2>4. render'[g] = [stage |-> "statistical", numRays |-> n, perBatch |-> p,
                      tier |-> "none", rays |-> 0, late |-> 0]
    BY <1>2, <1>4, <2>1
  <2>5. render'[g] \in Started /\ render'[g].late = 0
    BY <2>2, <2>3, <2>4 DEF Started, Solving
  <2>6. render'[g] \in Renders
    BY <2>5 DEF Renders, Started
  <2> QED
    BY <1>1, <2>5, <2>6 DEF RenderOf
<1> QED
  BY <1>3, <1>4

\* One case per step of RenderProgressive.
LEMMA RenderStepKeeps ==
  ASSUME NEW g \in Generations, RenderOf(g), DOMAIN render = Generations,
         phase \in [Generations -> Phases], RenderStep(g)
  PROVE  RenderOf(g)'
<1>1. CASE StartRender(g)
  BY <1>1, StartKeeps
<1>2. CASE StatisticalTier(g)
  <2>1. PICK next : next = IF g \in cancelled THEN "returned" ELSE "preview"
    OBVIOUS
  <2>2. /\ InRender(g, "statistical") /\ "statistical" \in Solving
        /\ render' = [render EXCEPT ![g] = [Updated(g, "statistical", 0) EXCEPT !.stage = next]]
        /\ next \in Solving \cup {"batch", "returned"} /\ (g \in cancelled => next \notin Solving)
    BY <1>2, <2>1 DEF StatisticalTier, Unless, Solving
  <2> QED
    BY <2>2, TierKeeps
<1>3. CASE RenderPreviewTier(g)
  <2>1. PICK next, rays : next = (IF g \in cancelled THEN "returned" ELSE "early") /\ rays = render[g].rays
    OBVIOUS
  <2>2. /\ InRender(g, "preview") /\ "preview" \in Solving
        /\ render' = [render EXCEPT ![g] = [Updated(g, "preview", rays) EXCEPT !.stage = next]]
        /\ next \in Solving \cup {"batch", "returned"} /\ (g \in cancelled => next \notin Solving)
    BY <1>3, <2>1 DEF RenderPreviewTier, Unless, Solving
  <2>3. rays \in Nat
    BY <2>1, <2>2, StageOf DEF Started
  <2> QED
    BY <2>2, <2>3, TierKeeps
<1>4. CASE SolveRefined(g)
  <2>1. /\ InRender(g, "early") /\ "early" \in Solving /\ "batch" \notin Solving
        /\ render' = [render EXCEPT ![g] = [render[g] EXCEPT !.stage = "batch"]]
    BY <1>4 DEF SolveRefined, Stage, Solving
  <2> QED
    BY <2>1, SilentKeeps
<1>5. CASE NextBatch(g) \/ RefinedDone(g)
  <2>1. PICK next : /\ InRender(g, "batch")
                    /\ next \in Solving \cup {"batch", "returned"}
                    /\ g \in cancelled => next \notin Solving
                    /\ render' = [render EXCEPT ![g] = [render[g] EXCEPT !.stage = next]]
    <3>1. CASE NextBatch(g)
      <4>1. PICK next : next = IF g \in cancelled THEN "returned" ELSE "trace"
        OBVIOUS
      <4> QED
        BY <3>1, <4>1 DEF NextBatch, Unless, Solving
    <3>2. CASE RefinedDone(g)
      <4>1. PICK next : next = IF g \in cancelled THEN "returned" ELSE "final"
        OBVIOUS
      <4> QED
        BY <3>2, <4>1 DEF RefinedDone, Unless, Solving
    <3> QED
      BY <1>5, <3>1, <3>2
  <2> QED
    BY <2>1, SilentKeeps
<1>6. CASE TraceBatch(g)
  <2>1. PICK rays : rays = Min({render[g].rays + render[g].perBatch, render[g].numRays})
    OBVIOUS
  <2>2. /\ InRender(g, "trace") /\ "trace" \in Solving /\ "batch" \notin Solving
        /\ render' = [render EXCEPT ![g] = [Updated(g, "refined", rays) EXCEPT !.stage = "batch"]]
    BY <1>6, <2>1 DEF TraceBatch, Solving
  <2>3. rays \in Nat
    <3>1. render[g] \in Started
      BY <2>2, StageOf
    <3>2. PICK a, b : a = render[g].rays + render[g].perBatch /\ b = render[g].numRays
      OBVIOUS
    <3>3. a \in Nat /\ b \in Nat
      BY <3>1, <3>2 DEF Started
    <3>4. \E x \in {a, b} : \A y \in {a, b} : x <= y
      BY <3>3
    <3>5. rays = CHOOSE x \in {a, b} : \A y \in {a, b} : x <= y
      BY <2>1, <3>2 DEF Min
    <3> QED
      BY <3>3, <3>4, <3>5
  <2> QED
    BY <2>2, <2>3, TierKeeps
<1>7. CASE RenderFinalTier(g)
  <2>1. PICK rays : rays = render[g].numRays
    OBVIOUS
  <2>2. /\ InRender(g, "final") /\ "final" \in Solving /\ "returned" \notin Solving
        /\ render' = [render EXCEPT ![g] = [Updated(g, "final", rays) EXCEPT !.stage = "returned"]]
    BY <1>7, <2>1 DEF RenderFinalTier, Solving
  <2>3. rays \in Nat
    BY <2>1, <2>2, StageOf DEF Started
  <2> QED
    BY <2>2, <2>3, TierKeeps
<1>8. CASE TierFails(g)
  <2>1. phase'[g] = "rendering" /\ render'[g] = Failed
    BY <1>8 DEF TierFails, InRender
  <2>2. render'[g] \in Renders /\ render'[g].late = 0
    BY <2>1 DEF Renders, Failed
  <2> QED
    BY <2>1, <2>2 DEF RenderOf
<1>9. CASE ReturnRender(g)
  <2>1. phase'[g] = "cleanup" /\ render'[g] = NoRender
    BY <1>9 DEF ReturnRender, Return
  <2> QED
    BY <2>1 DEF RenderOf
<1> QED
  BY <1>1, <1>2, <1>3, <1>4, <1>5, <1>6, <1>7, <1>8, <1>9 DEF RenderStep

\* A step of one render leaves the others alone.
LEMMA OthersUntouched ==
  ASSUME NEW g \in Generations, RenderStep(g), DOMAIN render = Generations,
         phase \in [Generations -> Phases]
  PROVE  /\ DOMAIN render' = Generations /\ cancelled \subseteq cancelled'
         /\ \A h \in Generations \ {g} : render'[h] = render[h] /\ phase'[h] = phase[h]
<1>1. cancelled \subseteq cancelled' /\ \A h \in Generations \ {g} : phase'[h] = phase[h]
  BY DEF RenderStep, StartRender, StatisticalTier, RenderPreviewTier, SolveRefined, NextBatch, TraceBatch,
         RefinedDone, RenderFinalTier, TierFails, ReturnRender, InRender, Begin, Return
<1>2. \E r : render' = [render EXCEPT ![g] = r]
  BY DEF RenderStep, StartRender, StatisticalTier, RenderPreviewTier, SolveRefined, NextBatch, TraceBatch,
         RefinedDone, RenderFinalTier, TierFails, ReturnRender, Unless, Stage
<1> QED
  BY <1>1, <1>2

LEMMA PreviewNextKeeps ==
  ASSUME PreviewIInv, [PreviewNext]_previewVars
  PROVE  PreviewIInv'
<1>1. /\ IInv /\ DOMAIN render = Generations /\ (\A g \in Generations : RenderOf(g))
      /\ phase \in [Generations -> Phases] /\ MaxGeneration \in Nat
  BY MaxGenerationAssumption DEF PreviewIInv, IInv, TypeOK
<1>2. IInv'
  BY <1>1, StepRefines, NextIInv
<1>3. ASSUME render' = render, cancelled \subseteq cancelled',
             \A g \in Generations : phase'[g] = "rendering" <=> phase[g] = "rendering"
      PROVE  PreviewIInv'
  BY <1>1, <1>2, <1>3, Untouched DEF PreviewIInv
<1>4. CASE ClientCall
  <2>1. render' = render /\ cancelled \subseteq cancelled'
    BY <1>4 DEF ClientCall, Trigger, Cancel, CancelInFlight
  <2>2. ASSUME NEW g \in Generations
        PROVE  phase'[g] = "rendering" <=> phase[g] = "rendering"
    <3>1. StopTimer[g] = "rendering" <=> phase[g] = "rendering"
      BY DEF StopTimer
    <3>2. CASE Trigger
      <4>1. generation \in Nat /\ generation' = generation + 1
        BY <1>1, <3>2 DEF Trigger, IInv, TypeOK
      <4>2. g = generation' => phase[g] = "unused" /\ phase'[g] = "armed"
        BY <1>1, <3>2, <4>1 DEF Trigger, IInv, StopTimer, Generations
      <4>3. g # generation' => phase'[g] = StopTimer[g]
        BY <3>2 DEF Trigger, StopTimer
      <4> QED
        BY <3>1, <4>2, <4>3
    <3>3. CASE Cancel
      BY <3>1, <3>3 DEF Cancel
    <3> QED
      BY <1>4, <3>2, <3>3 DEF ClientCall
  <2> QED
    BY <1>3, <2>1, <2>2
<1>5. ASSUME NEW g \in Generations, CallbackStep(g)
      PROVE  PreviewIInv'
  <2>1. render' = render /\ cancelled \subseteq cancelled'
    BY <1>5 DEF CallbackStep, Fire, ReturnStale, Finish
  <2>2. \A h \in Generations : phase'[h] = "rendering" <=> phase[h] = "rendering"
    BY <1>1, <1>5 DEF CallbackStep, Fire, ReturnStale, Finish
  <2> QED
    BY <1>3, <2>1, <2>2
<1>6. ASSUME NEW g \in Generations, RenderStep(g)
      PROVE  PreviewIInv'
  <2>1. RenderOf(g)'
    BY <1>1, <1>6, RenderStepKeeps
  <2>2. /\ DOMAIN render' = Generations /\ cancelled \subseteq cancelled'
        /\ \A h \in Generations \ {g} : render'[h] = render[h] /\ phase'[h] = phase[h]
    BY <1>1, <1>6, OthersUntouched
  <2>3. ASSUME NEW h \in Generations, h # g
        PROVE  RenderOf(h)'
    <3>1. /\ render'[h] = render[h] /\ (phase'[h] = "rendering" <=> phase[h] = "rendering")
          /\ RenderOf(h) /\ cancelled \subseteq cancelled'
      BY <1>1, <2>2, <2>3
    <3> QED
      BY <3>1, Untouched
  <2> QED
    BY <1>2, <2>1, <2>2, <2>3 DEF PreviewIInv
<1>7. CASE UNCHANGED previewVars
  BY <1>3, <1>7 DEF previewVars
<1> QED
  BY <1>4, <1>5, <1>6, <1>7 DEF PreviewNext

LEMMA PreviewInvariance == PreviewSpec => []PreviewIInv
<1>1. PreviewInit => PreviewIInv
  <2> SUFFICES ASSUME PreviewInit PROVE PreviewIInv
    OBVIOUS
  <2>1. IInv
    BY InitIInv DEF PreviewInit
  <2>2. ASSUME NEW g \in Generations
        PROVE  RenderOf(g)
    BY DEF PreviewInit, Init, RenderOf
  <2> QED
    BY <2>1, <2>2 DEF PreviewIInv, PreviewInit
<1> QED
  BY <1>1, PreviewNextKeeps, PTL DEF PreviewSpec

\* With RenderProgressive as its renderFn the debouncer still is the debouncer:
\* every step of the composition is one of Trigger, Cancel and invoke, or invisible.
THEOREM PreviewRefinesDebouncer == PreviewSpec => Init /\ [][Next]_vars
<1>1. PreviewInit => Init
  BY DEF PreviewInit
<1>2. [PreviewNext]_previewVars => [Next]_vars
  BY StepRefines
<1> QED
  BY <1>1, <1>2, PTL DEF PreviewSpec

\* For every configuration, number of rays and batch size, and wherever the cancel
\* finds it, a render delivers at most one update after its context is cancelled,
\* and its context is live only while d.cancelFn can cancel it.
THEOREM CancelledRenderEnds == PreviewSpec => [](OneLateUpdate /\ LiveIsCancellable)
<1>1. PreviewIInv => OneLateUpdate
  <2> SUFFICES ASSUME PreviewIInv, NEW g \in Generations, render[g] # NoRender
               PROVE  render[g].late <= 1
    BY DEF OneLateUpdate
  <2>1. render[g] \in Renders
    BY DEF PreviewIInv, RenderOf
  <2> QED
    BY <2>1 DEF Renders, Started, Failed
<1>2. PreviewIInv => LiveIsCancellable
  BY DEF PreviewIInv, IInv
<1> QED
  BY <1>1, <1>2, PreviewInvariance, PTL
=============================================================================
