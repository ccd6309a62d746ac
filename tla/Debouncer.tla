------------------------------ MODULE Debouncer ------------------------------
(***************************************************************************)
(* The render debouncer of internal/preview/debounce.go.                   *)
(*                                                                         *)
(* Every call of Trigger arms a timer of its own and creates a context of  *)
(* its own; both are named here by the generation the call drew, so a      *)
(* generation stands for the timer, the callback goroutine, the context    *)
(* and the render that belong to one Trigger.  Trigger, Cancel and the two *)
(* critical sections of invoke run under d.mu and are atomic; the callback *)
(* goroutine can be delayed anywhere between them.                         *)
(***************************************************************************)
EXTENDS Naturals

CONSTANT MaxGeneration      \* bound on the calls of Trigger and Cancel

ASSUME MaxGenerationAssumption == MaxGeneration \in Nat

VARIABLES
  generation,   \* d.generation: the number of the last Trigger or Cancel
  timer,        \* d.timer: the generation whose timer it is, or Nil
  cancelFn,     \* d.cancelFn: the generation whose context it cancels, or Nil
  phase,        \* what became of each generation's timer and callback
  cancelled     \* the generations whose context is cancelled

vars == <<generation, timer, cancelFn, phase, cancelled>>

Nil == 0
Generations == 1 .. MaxGeneration

\* "unused": no Trigger drew the generation (yet, or Cancel drew it);
\* "armed": the timer runs; "stopped": Stop came first; "fired": the callback
\* goroutine exists and waits for d.mu; "rendering": renderFn runs;
\* "cleanup": renderFn returned and cancel() ran, the deferred function waits
\* for d.mu; "done": the goroutine returned.
Phases == {"unused", "armed", "stopped", "fired", "rendering", "cleanup", "done"}

TypeOK ==
  /\ generation \in 0 .. MaxGeneration
  /\ timer \in {Nil} \cup Generations
  /\ cancelFn \in {Nil} \cup Generations
  /\ phase \in [Generations -> Phases]
  /\ cancelled \subseteq Generations

Init ==
  /\ generation = 0
  /\ timer = Nil
  /\ cancelFn = Nil
  /\ phase = [g \in Generations |-> "unused"]
  /\ cancelled = {}

-----------------------------------------------------------------------------
(* The two calls of a client. *)

\* if d.cancelFn != nil { d.cancelFn() }
CancelInFlight == cancelled' = cancelled \cup ({cancelFn} \ {Nil})

\* if d.timer != nil { d.timer.Stop() }: only a timer that has not fired yet
\* is stopped; Stop on a fired one returns false and changes nothing.
StopTimer ==
  [g \in Generations |->
     IF g = timer /\ phase[g] = "armed" THEN "stopped" ELSE phase[g]]

Trigger ==
  /\ generation < MaxGeneration
  /\ CancelInFlight
  /\ generation' = generation + 1
  /\ cancelFn' = generation'
  /\ timer' = generation'
  /\ phase' = [StopTimer EXCEPT ![generation'] = "armed"]

MutantCancel ==             \* Cancel does not draw a generation
  /\ generation < MaxGeneration
  /\ UNCHANGED generation
  /\ phase' = StopTimer
  /\ timer' = Nil
  /\ CancelInFlight
  /\ cancelFn' = Nil

Cancel ==
  /\ generation < MaxGeneration
  /\ generation' = generation + 1
  /\ phase' = StopTimer
  /\ timer' = Nil
  /\ CancelInFlight
  /\ cancelFn' = Nil

-----------------------------------------------------------------------------
(* The timer and the callback goroutine, invoke. *)

\* The runtime's timer expires and starts the callback (time.AfterFunc).
Fire(g) ==
  /\ phase[g] = "armed"
  /\ phase' = [phase EXCEPT ![g] = "fired"]
  /\ UNCHANGED <<generation, timer, cancelFn, cancelled>>

MutantReturnStale(g) ==     \* the test of the generation is inverted
  /\ phase[g] = "fired"
  /\ g = generation
  /\ phase' = [phase EXCEPT ![g] = "done"]
  /\ UNCHANGED <<generation, timer, cancelFn, cancelled>>

\* The first critical section, when a newer Trigger or Cancel came between
\* the expiry and the lock: the callback returns without rendering.
ReturnStale(g) ==
  /\ phase[g] = "fired"
  /\ g # generation
  /\ phase' = [phase EXCEPT ![g] = "done"]
  /\ UNCHANGED <<generation, timer, cancelFn, cancelled>>

\* The first critical section, for the current generation: renderFn starts.
Begin(g) ==
  /\ phase[g] = "fired"
  /\ g = generation
  /\ timer' = Nil
  /\ phase' = [phase EXCEPT ![g] = "rendering"]
  /\ UNCHANGED <<generation, cancelFn, cancelled>>

\* renderFn returns and the deferred function calls cancel().
Return(g) ==
  /\ phase[g] = "rendering"
  /\ phase' = [phase EXCEPT ![g] = "cleanup"]
  /\ cancelled' = cancelled \cup {g}
  /\ UNCHANGED <<generation, timer, cancelFn>>

MutantFinish(g) ==          \* the deferred function always clears d.cancelFn
  /\ phase[g] = "cleanup"
  /\ phase' = [phase EXCEPT ![g] = "done"]
  /\ cancelFn' = Nil
  /\ UNCHANGED <<generation, timer, cancelled>>

\* The deferred function's critical section.
Finish(g) ==
  /\ phase[g] = "cleanup"
  /\ phase' = [phase EXCEPT ![g] = "done"]
  /\ cancelFn' = IF g = generation THEN Nil ELSE cancelFn
  /\ UNCHANGED <<generation, timer, cancelled>>

Callback(g) == Fire(g) \/ ReturnStale(g) \/ Begin(g) \/ Return(g) \/ Finish(g)

Next == Trigger \/ Cancel \/ (\E g \in Generations : Callback(g))

\* The runtime fires an expired timer and schedules its goroutine, mutexes are
\* starvation free, and a renderFn returns (it polls its context).  Nothing
\* makes a client call again.
Fairness == \A g \in Generations : WF_vars(Callback(g))

Spec == Init /\ [][Next]_vars /\ Fairness

-----------------------------------------------------------------------------
(* Properties. *)

Live(g) == phase[g] \in {"armed", "fired", "rendering"} /\ g \notin cancelled

\* At most one renderFn runs with a context that is not cancelled: however the
\* callbacks of several Triggers interleave, a superseded render has been told
\* to stop before the next one starts (debounce.go:9-11).
SingleLiveRender ==
  \A g, h \in Generations :
    /\ phase[g] = "rendering" /\ g \notin cancelled
    /\ phase[h] = "rendering" /\ h \notin cancelled
    => g = h

\* A context that is still live is reachable through d.cancelFn, so the next
\* Trigger or Cancel cancels it ("The context passed to renderFn is cancelled
\* when a newer Trigger arrives or Cancel is called", debounce.go:34-36): a
\* stale deferred function never clears the cancelFn of its successor.
LiveIsCancellable == \A g \in Generations : Live(g) => cancelFn = g

\* Renders start in the order of their Triggers and only with a live context:
\* a callback that fired but lost the race for d.mu against a newer Trigger or
\* against Cancel never starts its render.
StartsInOrder ==
  [][ \A g \in Generations :
        phase[g] # "rendering" /\ phase'[g] = "rendering"
          => /\ g \notin cancelled
             /\ \A h \in Generations : h > g => phase[h] = "unused" ]_vars

\* The last Trigger is rendered unless a newer Trigger or Cancel supersedes
\* it: a stopped timer or a stale callback never swallows the newest request.
LatestIsRendered ==
  \A g \in Generations :
    phase[g] = "armed" ~> (phase[g] = "rendering" \/ generation # g)

\* The inductive strengthening behind the safety properties: generations not
\* drawn yet are untouched, d.cancelFn and d.timer belong to the current
\* generation, and a current callback that has not rendered yet has a live
\* context.
IInv ==
  /\ TypeOK
  /\ \A g \in Generations : g > generation => phase[g] = "unused" /\ g \notin cancelled
  /\ cancelFn \in {Nil, generation}
  /\ timer \in {Nil, generation}
  /\ LiveIsCancellable
  /\ \A g \in Generations :
       g = generation /\ phase[g] \in {"armed", "fired"} => g \notin cancelled
=============================================================================
