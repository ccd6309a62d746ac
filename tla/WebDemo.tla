------------------------------- MODULE WebDemo -------------------------------
(***************************************************************************)
(* The web demo: the render session and the auralization, joined by        *)
(* handleWorkerMessage, which hands the result of a render to updateAudio. *)
(***************************************************************************)
EXTENDS RenderPage, Auralization

vars == <<pageVars, audioVars>>

Init == PageInit /\ AudioInit

\* The result of a session that was not cancelled is handed to updateAudio.
Result(g) ==
  /\ OnResult(g)
  /\ IF ForSession(g) /\ ~session.cancel
     THEN \E portal \in BOOLEAN : UpdateAudio(portal)
     ELSE UNCHANGED audioVars

Deliver(g) ==
  DropStale(g) \/ OnReady(g) \/ OnEngineError(g) \/ OnTier(g) \/ OnRenderError(g)

PageTask ==
  \/ StartController \/ StartRender \/ RequestRenderCancel
  \/ \E g \in Workers : InitWasm(g) \/ ReportTier(g) \/ FinishRender(g)
  \/ \E g \in Workers : Deliver(g)

Next ==
  \/ PageTask /\ UNCHANGED audioVars
  \/ \E g \in Workers : Result(g)
  \/ AudioStep /\ UNCHANGED pageVars

Spec == Init /\ [][Next]_vars
=============================================================================
