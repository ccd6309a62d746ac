----------------------------- MODULE Progressive -----------------------------
(***************************************************************************)
(* RenderProgressive of internal/preview/progressive.go as the renderFn of *)
(* the debouncer: the four tiers, the updates they deliver and the points  *)
(* at which a render looks at its context.                                 *)
(*                                                                         *)
(* A render belongs to the generation whose callback started it and polls  *)
(* the context of that generation.  Between two looks at the context it is *)
(* inside a solver, so a cancel can come before its update.  Ray counts    *)
(* are in units of 500 rays, times in units of 0.5 s; sound fields, events *)
(* and buffers are left out.                                               *)
(***************************************************************************)
EXTENDS Debouncer, Integers, FiniteSetsExt

CONSTANTS
  Configs,   \* the configurations renderFn is called with
  Scenes     \* the scenes: [valid, sources, receivers]

\* ProgressiveConfig is a struct of numbers.
ASSUME ConfigsAssumption ==
  Configs \subseteq [duration : Int, crossover : Int, maxOrder : Int, previewOrder : Int,
                     numRays : Int, maxTime : Int, previewRays : Int, perBatch : Int,
                     bounces : Int, speed : Int, radius : Int]

VARIABLE render    \* the RenderProgressive call of each generation

previewVars == <<generation, timer, cancelFn, phase, cancelled, render>>

NoRender == [stage |-> "none"]
Failed == [stage |-> "returned", tier |-> "none", rays |-> 0, late |-> 0]

-----------------------------------------------------------------------------
(* preset.go and the configuration. *)

Preset(duration, crossover, order, previewOrder, rays, previewRays, perBatch) ==
  [duration |-> duration, crossover |-> crossover, maxOrder |-> order,
   previewOrder |-> previewOrder, numRays |-> rays, maxTime |-> duration,
   previewRays |-> previewRays, perBatch |-> perBatch, bounces |-> 0,
   speed |-> 0, radius |-> 0]

\* PresetConfig: an unknown preset is the preview preset.  The crossover is in
\* units of 10 ms.
PresetConfig(preset) ==
  CASE preset = "draft" -> Preset(2, 5, 2, 1, 2, 1, 1)
    [] preset = "final" -> Preset(6, 10, 5, 3, 100, 5, 5)
    [] OTHER -> Preset(4, 8, 3, 2, 10, 3, 2)

\* fillProgressiveDefaults; the speed in m/s and the radius in centimetres.
FillProgressiveDefaults(c) ==
  LET Default(value, default) == IF value = 0 THEN default ELSE value IN
  [c EXCEPT !.speed = Default(@, 343), !.previewOrder = Default(@, 2),
            !.previewRays = Default(@, 4), !.perBatch = Default(@, 2),
            !.maxTime = Default(@, c.duration), !.radius = Default(@, 25)]

\* validateProgressiveConfig of a configuration with its defaults.  Bands are
\* the scene's, which scene.Validate has checked.
ValidateProgressiveConfig(sc, c) ==
  /\ sc.sources = 1 /\ sc.receivers = 1
  /\ c.duration > 0
  /\ c.maxOrder >= 0 /\ c.previewOrder >= 0
  /\ c.numRays > 0 /\ c.previewRays > 0 /\ c.perBatch > 0
  /\ c.bounces >= 0 /\ c.maxTime > 0 /\ c.speed > 0 /\ c.radius > 0
  /\ c.crossover >= 0

-----------------------------------------------------------------------------
(* The render. *)

PreviewInit ==
  /\ Init
  /\ render = [g \in Generations |-> NoRender]

Stage(g, stage) == render' = [render EXCEPT ![g].stage = stage]

\* update(TierResult{...}): what the caller has seen last of this render, and
\* how many updates reached it after the cancel.
Updated(g, tier, rays) ==
  [render[g] EXCEPT !.tier = tier, !.rays = rays,
                    !.late = IF g \in cancelled THEN @ + 1 ELSE @]

\* The checks at the start of RenderProgressive.
StartRender(g) ==
  /\ Begin(g)
  /\ \E sc \in Scenes, c \in Configs :
       LET config == FillProgressiveDefaults(c) IN
       render' = [render EXCEPT ![g] =
         IF sc.valid /\ ValidateProgressiveConfig(sc, config)
         THEN [stage |-> "statistical", numRays |-> config.numRays,
               perBatch |-> config.perBatch, tier |-> "none", rays |-> 0, late |-> 0]
         ELSE Failed]

InRender(g, stage) ==
  /\ phase[g] = "rendering" /\ render[g].stage = stage
  /\ UNCHANGED <<generation, timer, cancelFn, phase, cancelled>>

\* The next stage, unless ctx.Err() says that the context is cancelled.
Unless(g, updated, next) ==
  render' = [render EXCEPT ![g] =
    [updated EXCEPT !.stage = IF g \in cancelled THEN "returned" ELSE next]]

\* Tier 1 and its update.
StatisticalTier(g) ==
  /\ InRender(g, "statistical")
  /\ Unless(g, Updated(g, "statistical", 0), "preview")

\* Tier 2: low order and few rays.
RenderPreviewTier(g) ==
  /\ InRender(g, "preview")
  /\ Unless(g, Updated(g, "preview", render[g].rays), "early")

\* Tier 3 starts with the early events, which all batches share.
SolveRefined(g) ==
  /\ InRender(g, "early")
  /\ Stage(g, "batch")

MutantNextBatch(g) ==                    \* the loop does not poll the context
  /\ InRender(g, "batch")
  /\ render[g].rays < render[g].numRays
  /\ Stage(g, "trace")

MutantNextBatchSkips(g) ==               \* a cancelled batch is skipped, not the loop
  /\ InRender(g, "batch")
  /\ render[g].rays < render[g].numRays
  /\ Stage(g, IF g \in cancelled THEN "batch" ELSE "trace")

\* The head of the loop over the batches.
NextBatch(g) ==
  /\ InRender(g, "batch")
  /\ render[g].rays < render[g].numRays
  /\ Unless(g, render[g], "trace")

\* One batch: the cumulative ray count is traced anew and delivered.
TraceBatch(g) ==
  /\ InRender(g, "trace")
  /\ LET rays == Min({render[g].rays + render[g].perBatch, render[g].numRays}) IN
     render' = [render EXCEPT ![g] = [Updated(g, "refined", rays) EXCEPT !.stage = "batch"]]

\* The end of tier 3.
RefinedDone(g) ==
  /\ InRender(g, "batch")
  /\ render[g].rays >= render[g].numRays
  /\ Unless(g, render[g], "final")

\* Tier 4: its update is delivered and nil returned, cancelled or not.
RenderFinalTier(g) ==
  /\ InRender(g, "final")
  /\ render' = [render EXCEPT ![g] =
       [Updated(g, "final", render[g].numRays) EXCEPT !.stage = "returned"]]

\* A solver of tiers 2 to 4 fails.
TierFails(g) ==
  /\ \E stage \in {"preview", "early", "trace", "final"} : InRender(g, stage)
  /\ render' = [render EXCEPT ![g] = Failed]

\* RenderProgressive returned, and with it renderFn.
ReturnRender(g) ==
  /\ render[g].stage = "returned"
  /\ Return(g)
  /\ render' = [render EXCEPT ![g] = NoRender]

ClientCall == (Trigger \/ Cancel) /\ UNCHANGED render
CallbackStep(g) == (Fire(g) \/ ReturnStale(g) \/ Finish(g)) /\ UNCHANGED render

RenderStep(g) ==
  \/ StartRender(g) \/ StatisticalTier(g) \/ RenderPreviewTier(g) \/ SolveRefined(g)
  \/ NextBatch(g) \/ TraceBatch(g) \/ RefinedDone(g) \/ RenderFinalTier(g)
  \/ TierFails(g) \/ ReturnRender(g)

PreviewNext == ClientCall \/ \E g \in Generations : CallbackStep(g) \/ RenderStep(g)

\* The runtime schedules timers and goroutines, and a solver returns.
PreviewSpec ==
  /\ PreviewInit /\ [][PreviewNext]_previewVars
  /\ \A g \in Generations : WF_previewVars(CallbackStep(g) \/ RenderStep(g))

-----------------------------------------------------------------------------
(* Properties. *)

\* The composition implements the debouncer, its liveness included: that
\* renderFn returns, which the debouncer assumes, holds of RenderProgressive
\* for every accepted configuration, so no batch size or ray count traps the
\* callback in the loop over the batches.
ImplementsDebouncer == Spec

\* "Cancel ctx to abort": after its context is cancelled a render delivers at
\* most the update it is computing, wherever the cancel finds it.
OneLateUpdate == \A g \in Generations : render[g] # NoRender => render[g].late <= 1

\* The inductive invariant: a render exists while its callback is inside renderFn,
\* and an update after the cancel is its last, for the next look at the context
\* comes before the next solver.
Solving == {"statistical", "preview", "early", "trace", "final"}

Started ==
  [stage : Solving \cup {"batch", "returned"}, numRays : Nat, perBatch : Nat,
   tier : {"none", "statistical", "preview", "refined", "final"}, rays : Nat, late : 0 .. 1]

Renders == Started \cup {Failed}

RenderOf(g) ==
  /\ phase[g] # "rendering" => render[g] = NoRender
  /\ phase[g] = "rendering" => render[g] \in Renders
  /\ phase[g] = "rendering" /\ render[g].late = 1
       => g \in cancelled /\ render[g].stage \notin Solving

PreviewIInv == IInv /\ DOMAIN render = Generations /\ \A g \in Generations : RenderOf(g)
=============================================================================
