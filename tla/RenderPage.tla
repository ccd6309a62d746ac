------------------------------ MODULE RenderPage ------------------------------
(***************************************************************************)
(* The render session of the web demo: web/app.js, the controller of       *)
(* web/render-worker-controller.mjs and the worker of web/worker.js.       *)
(*                                                                         *)
(* Page and workers run in parallel and exchange messages.  A task of the  *)
(* page (a click, the delivery of one message) is one step together with   *)
(* the continuations of the promises it settles, which the browser runs    *)
(* before the next task.  A worker is named by the generation replace()    *)
(* drew for it.  Progress percentages and all texts are left out.          *)
(***************************************************************************)
EXTENDS Naturals, Sequences

CONSTANTS
  MaxRenders,   \* bound on the requests
  MaxWorkers,   \* bound on the workers created
  None

VARIABLES
  generation,   \* controller.generation; 0 before start()
  ready,        \* controller.ready
  pageReady,    \* window.algoAcousticsDemoReady
  engine,       \* the engine status shown
  session,      \* renderSession
  renderId,     \* currentRenderId
  button,       \* the render button is enabled
  lastRender,   \* the request whose result is lastRender, or None
  preview,      \* the request whose preview is previewTier, or None
  worker,       \* the state of each worker
  job,          \* the request each worker renders
  outbox,       \* the messages of each worker on their way to the page
  waiter        \* what awaits the ready promise: "init", a request, or None

pageVars == <<generation, ready, pageReady, engine, session, renderId, button,
              lastRender, preview, worker, job, outbox, waiter>>

Workers == 1 .. MaxWorkers
Requests == 1 .. MaxRenders
Sessions == [id : Requests, cancel : BOOLEAN]

ASSUME PageAssumption ==
  /\ MaxRenders \in Nat /\ MaxWorkers \in Nat \ {0}
  /\ None \notin Sessions \cup Requests

PageInit ==
  /\ generation = 0 /\ ready = FALSE /\ pageReady = FALSE
  /\ engine = "loading" /\ session = None /\ renderId = 0 /\ button = TRUE
  /\ lastRender = None /\ preview = None
  /\ worker = [g \in Workers |-> "none"]
  /\ job = [g \in Workers |-> None]
  /\ outbox = [g \in Workers |-> <<>>]
  /\ waiter = [g \in Workers |-> None]

-----------------------------------------------------------------------------
(* The controller. *)

\* replace(): terminate the old worker, create the next one and await it.  What
\* the old one has posted may still arrive.
Replace(awaiting) ==
  /\ generation < MaxWorkers
  /\ generation' = generation + 1
  /\ ready' = FALSE
  /\ worker' = [g \in Workers |->
                  IF g = generation' THEN "loading"
                  ELSE IF g = generation THEN "gone" ELSE worker[g]]
  /\ waiter' = [waiter EXCEPT ![generation'] = awaiting]

\* init(): the page loads and starts the controller.
StartController ==
  /\ generation = 0
  /\ Replace("init")
  /\ UNCHANGED <<pageReady, engine, session, renderId, button, lastRender, preview, job, outbox>>

-----------------------------------------------------------------------------
(* Clicks. *)

\* startRender with a ready controller; without one the page only says so.
StartRender ==
  /\ button /\ session = None /\ ready
  /\ renderId < MaxRenders
  /\ renderId' = renderId + 1
  /\ session' = [id |-> renderId', cancel |-> FALSE]
  /\ preview' = None
  /\ worker' = [worker EXCEPT ![generation] = "rendering"]
  /\ job' = [job EXCEPT ![generation] = renderId']
  /\ UNCHANGED <<generation, ready, pageReady, engine, button, lastRender, outbox, waiter>>

\* requestRenderCancel, from the render button or from "reset scene", which is
\* never disabled: the worker is replaced at once.
RequestRenderCancel ==
  /\ session # None /\ ~session.cancel
  /\ session' = [session EXCEPT !.cancel = TRUE]
  /\ Replace(session.id)
  /\ pageReady' = FALSE
  /\ engine' = "loading"
  /\ button' = FALSE
  /\ job' = [job EXCEPT ![generation] = None]
  /\ UNCHANGED <<renderId, lastRender, preview, outbox>>

-----------------------------------------------------------------------------
(* The worker. *)

Post(g, message) == outbox' = [outbox EXCEPT ![g] = Append(@, message)]

\* init: the WASM module is instantiated, or is not.
InitWasm(g) ==
  /\ worker[g] = "loading"
  /\ \E ok \in BOOLEAN :
       /\ Post(g, IF ok THEN <<"ready", None>> ELSE <<"error", None>>)
       /\ worker' = [worker EXCEPT ![g] = IF ok THEN "idle" ELSE "gone"]
  /\ UNCHANGED <<generation, ready, pageReady, engine, session, renderId, button,
                 lastRender, preview, job, waiter>>

\* renderScene pushes a preview out in the middle of the render.
ReportTier(g) ==
  /\ worker[g] = "rendering"
  /\ \A i \in DOMAIN outbox[g] : outbox[g][i][1] # "tier"
  /\ preview # job[g]
  /\ Post(g, <<"tier", job[g]>>)
  /\ UNCHANGED <<generation, ready, pageReady, engine, session, renderId, button,
                 lastRender, preview, worker, job, waiter>>

\* renderScene returns a result or an error, or the worker dies in it.
FinishRender(g) ==
  /\ worker[g] = "rendering"
  /\ \E outcome \in {"result", "error", "crash"} :
       /\ Post(g, <<outcome, job[g]>>)
       /\ worker' = [worker EXCEPT ![g] = IF outcome = "crash" THEN "gone" ELSE "idle"]
  /\ job' = [job EXCEPT ![g] = None]
  /\ UNCHANGED <<generation, ready, pageReady, engine, session, renderId, button,
                 lastRender, preview, waiter>>

-----------------------------------------------------------------------------
(* The messages the page gets. *)

Take(g, type) ==
  /\ outbox[g] # <<>>
  /\ Head(outbox[g])[1] = type
  /\ outbox' = [outbox EXCEPT ![g] = Tail(@)]
  /\ UNCHANGED <<generation, renderId, worker, job>>

\* generation === this.generation, the first test of both listeners.
Current(g) == g = generation

\* The messages of a worker that was replaced.
DropStale(g) ==
  /\ ~Current(g)
  /\ \E type \in {"ready", "tier", "result", "error", "crash"} : Take(g, type)
  /\ UNCHANGED <<ready, pageReady, engine, session, button, lastRender, preview, waiter>>

FinalizeRenderSession == session' = None /\ button' = TRUE

\* "ready" resolves the promise; initWasm or restartWorkerAfterCancel goes on.
OnReady(g) ==
  /\ Current(g) /\ Take(g, "ready")
  /\ ready' = TRUE /\ pageReady' = TRUE /\ engine' = "ready"
  /\ waiter' = [waiter EXCEPT ![g] = None]
  /\ IF session # None /\ waiter[g] = session.id
     THEN FinalizeRenderSession
     ELSE UNCHANGED <<session, button>>
  /\ UNCHANGED <<lastRender, preview>>

\* An error before "ready", or the error event of the worker: reject and
\* onError, and then the handler of whoever awaited the promise.
OnEngineError(g) ==
  /\ Current(g)
  /\ Take(g, "crash") \/ (~ready /\ Take(g, "error"))
  /\ ready' = FALSE /\ pageReady' = FALSE /\ engine' = "failed"
  /\ waiter' = [waiter EXCEPT ![g] = None]
  /\ IF session # None THEN FinalizeRenderSession ELSE UNCHANGED <<session, button>>
  /\ UNCHANGED <<lastRender, preview>>

ForSession(g) == session # None /\ Head(outbox[g])[2] = session.id

OnTier(g) ==
  /\ Current(g) /\ Take(g, "tier")
  /\ preview' = IF ForSession(g) THEN session.id ELSE preview
  /\ UNCHANGED <<ready, pageReady, engine, session, button, lastRender, waiter>>

MutantOnRenderError(g) ==    \* the session is not finalized
  /\ Current(g) /\ ready /\ Take(g, "error")
  /\ UNCHANGED <<ready, pageReady, engine, session, button, lastRender, preview, waiter>>

OnRenderError(g) ==
  /\ Current(g) /\ ready /\ Take(g, "error")
  /\ IF ForSession(g) THEN FinalizeRenderSession ELSE UNCHANGED <<session, button>>
  /\ UNCHANGED <<ready, pageReady, engine, lastRender, preview, waiter>>

\* A result for the session; a cancelled session only ends.
OnResult(g) ==
  /\ Current(g) /\ Take(g, "result")
  /\ IF ForSession(g)
     THEN /\ lastRender' = IF session.cancel THEN lastRender ELSE session.id
          /\ preview' = IF session.cancel THEN preview ELSE None
          /\ FinalizeRenderSession
     ELSE UNCHANGED <<lastRender, preview, session, button>>
  /\ UNCHANGED <<ready, pageReady, engine, waiter>>

-----------------------------------------------------------------------------
(* Properties. *)

\* No session waits for something that nobody does.  The current worker renders
\* its request or the message that ends it is on its way; once it is cancelled,
\* the next worker loads, or has said that it is ready or has failed.
SessionServed ==
  LET onItsWay(types) == \E i \in DOMAIN outbox[generation] : outbox[generation][i][1] \in types
  IN
  session # None =>
    IF session.cancel
    THEN worker[generation] = "loading" \/ onItsWay({"ready", "error"})
    ELSE \/ worker[generation] = "rendering" /\ job[generation] = session.id
         \/ /\ onItsWay({"result", "error", "crash"})
            /\ \A i \in DOMAIN outbox[generation] : outbox[generation][i][2] = session.id

-----------------------------------------------------------------------------
(* The inductive invariant. *)

MessageTypes == {"ready", "tier", "result", "error", "crash"}

PageTypeOK ==
  /\ generation \in 0 .. MaxWorkers
  /\ ready \in BOOLEAN /\ pageReady \in BOOLEAN /\ button \in BOOLEAN
  /\ engine \in {"loading", "ready", "failed"}
  /\ session \in Sessions \cup {None}
  /\ renderId \in 0 .. MaxRenders
  /\ lastRender \in Requests \cup {None} /\ preview \in Requests \cup {None}
  /\ worker \in [Workers -> {"none", "loading", "idle", "rendering", "gone"}]
  /\ job \in [Workers -> Requests \cup {None}]
  /\ outbox \in [Workers -> Seq(MessageTypes \X (Requests \cup {None}))]
  /\ DOMAIN waiter = Workers      \* its values: "init", a request or None

\* Only the current worker runs, and the next ones have said nothing yet.
WorkersInv ==
  /\ \A g \in Workers : g < generation => worker[g] = "gone"
  /\ \A g \in Workers : g > generation => worker[g] = "none" /\ outbox[g] = <<>>
  /\ generation = 0 => session = None /\ ~ready

\* A session that lives while the current worker loads was cancelled, and the
\* promise of the worker ends it.
Restarting(g) == session # None => session.cancel /\ waiter[g] = session.id

Loads(g) ==
  /\ ~ready /\ Restarting(g)
  /\ \/ worker[g] = "loading" /\ outbox[g] = <<>>
     \/ worker[g] = "idle" /\ outbox[g] = <<<<"ready", None>>>>
     \/ worker[g] = "gone" /\ outbox[g] = <<<<"error", None>>>>

Rests(g) ==
  /\ session = None /\ outbox[g] = <<>>
  /\ worker[g] = IF ready THEN "idle" ELSE "gone"

\* The worker renders for the session: nothing but a preview is on its way.
Renders(g) ==
  /\ ready /\ session # None /\ ~session.cancel
  /\ worker[g] = "rendering" /\ job[g] = session.id
  /\ outbox[g] \in {<<>>, <<<<"tier", session.id>>>>}

\* It has rendered: the last message on its way ends the session.
Rendered(g) ==
  /\ ready /\ session # None /\ ~session.cancel
  /\ \E last \in {"result", "error", "crash"} :
       /\ worker[g] = IF last = "crash" THEN "gone" ELSE "idle"
       /\ outbox[g] \in {<<<<last, session.id>>>>, <<<<"tier", session.id>>, <<last, session.id>>>>}

CurrentInv ==
  generation \in Workers =>
    Loads(generation) \/ Rests(generation) \/ Renders(generation) \/ Rendered(generation)

PageIInv == PageTypeOK /\ WorkersInv /\ CurrentInv
=============================================================================
