---------------------------- MODULE WebDemoProofs ----------------------------
(* The render session and the auralization, for every number of renders,   *)
(* workers and versions, and the renderer behind them, for every payload,  *)
(* room, position and cost.                                                *)
EXTENDS WebDemo, DemoRender, SequenceTheorems, TLAPS

-----------------------------------------------------------------------------
(* The render session. *)

\* Short sequences of messages.
LEMMA Letters ==
  ASSUME NEW a, NEW b
  PROVE  /\ Append(<<>>, a) = <<a>> /\ Append(<<a>>, b) = <<a, b>>
         /\ Head(<<a>>) = a /\ Tail(<<a>>) = <<>>
         /\ Head(<<a, b>>) = a /\ Tail(<<a, b>>) = <<b>>
         /\ <<a>> # <<>> /\ <<a, b>> # <<>>
         /\ DOMAIN <<a>> = {1} /\ DOMAIN <<a, b>> = {1, 2}
<1>1. Append(<<>>, a) = <<a>>
  OBVIOUS
<1>2. Append(<<a>>, b) = <<a, b>>
  <2>1. PICK s, t : s = Append(<<a>>, b) /\ t = <<a, b>>
    OBVIOUS
  <2>2. s \in Seq({a, b}) /\ Len(s) = 2 /\ s[1] = a /\ s[2] = b
    BY <2>1
  <2>3. t \in Seq({a, b}) /\ Len(t) = 2 /\ t[1] = a /\ t[2] = b
    BY <2>1
  <2>4. \A i \in 1 .. Len(s) : s[i] = t[i]
    BY <2>2, <2>3
  <2> QED
    BY <2>1, <2>2, <2>3, <2>4, SeqEqual
<1>3. Head(<<a>>) = a
  OBVIOUS
<1>4. Tail(<<a>>) = <<>>
  OBVIOUS
<1>5. Head(<<a, b>>) = a
  OBVIOUS
<1>6. Tail(<<a, b>>) = <<b>>
  OBVIOUS
<1>7. <<a>> # <<>> /\ <<a, b>> # <<>>
  OBVIOUS
<1>8. DOMAIN <<a>> = {1} /\ DOMAIN <<a, b>> = {1, 2}
  OBVIOUS
<1> QED
  BY <1>1, <1>2, <1>3, <1>4, <1>5, <1>6, <1>7, <1>8

LEMMA PageInitInv ==
  ASSUME PageInit
  PROVE  PageIInv
<1>1. PageTypeOK
  <2>1. outbox \in [Workers -> Seq(MessageTypes \X (Requests \cup {None}))]
    BY DEF PageInit
  <2>2. generation \in 0 .. MaxWorkers /\ renderId \in 0 .. MaxRenders
    BY PageAssumption DEF PageInit, Workers
  <2> QED
    BY <2>1, <2>2 DEF PageInit, PageTypeOK
<1>2. WorkersInv
  BY DEF PageInit, WorkersInv
<1>3. CurrentInv
  BY DEF PageInit, CurrentInv, Workers
<1> QED
  BY <1>1, <1>2, <1>3 DEF PageIInv

LEMMA StartControllerInv ==
  ASSUME PageIInv, StartController
  PROVE  PageIInv'
<1>0. PageTypeOK /\ WorkersInv /\ generation = 0 /\ generation' = 1 /\ 1 \in Workers
  BY PageAssumption DEF PageIInv, PageTypeOK, StartController, Replace, Workers
<1>1. PageTypeOK'
  <2>1. worker' \in [Workers -> {"none", "loading", "idle", "rendering", "gone"}]
    BY <1>0 DEF PageTypeOK, StartController, Replace
  <2>2. DOMAIN waiter' = Workers /\ generation' \in 0 .. MaxWorkers
    BY <1>0 DEF PageTypeOK, StartController, Replace, Workers
  <2> QED
    BY <1>0, <2>1, <2>2 DEF PageTypeOK, StartController, Replace
<1>2. WorkersInv'
  BY <1>0 DEF PageTypeOK, WorkersInv, StartController, Replace, Workers
<1>3. Loads(1)'
  BY <1>0 DEF PageTypeOK, WorkersInv, StartController, Replace, Loads, Restarting, Workers
<1> QED
  BY <1>0, <1>1, <1>2, <1>3 DEF PageIInv, CurrentInv

LEMMA StartRenderInv ==
  ASSUME PageIInv, StartRender
  PROVE  PageIInv'
<1>0. PageTypeOK /\ WorkersInv /\ CurrentInv
  BY DEF PageIInv
<1>a. generation \in Workers /\ ready /\ generation' = generation
  BY <1>0 DEF PageTypeOK, WorkersInv, StartRender, Workers
<1>b. Rests(generation)
  BY <1>0, <1>a DEF CurrentInv, StartRender, Loads, Renders, Rendered
<1>c. renderId' \in Requests /\ renderId' = renderId + 1
  BY <1>0, PageAssumption DEF PageTypeOK, StartRender, Requests
<1>1. session' \in Sessions /\ session' # None /\ session'.id = renderId' /\ ~session'.cancel
  <2>1. PICK s : s = [id |-> renderId', cancel |-> FALSE]
    OBVIOUS
  <2>2. s \in Sessions /\ s.id = renderId' /\ ~s.cancel
    BY <1>c, <2>1 DEF Sessions
  <2> QED
    BY <2>1, <2>2, PageAssumption DEF StartRender
<1>2. PageTypeOK'
  BY <1>0, <1>a, <1>c, <1>1 DEF PageTypeOK, StartRender, Requests
<1>3. WorkersInv'
  BY <1>0, <1>a, <1>1 DEF PageTypeOK, WorkersInv, StartRender, Workers
<1>4. Renders(generation)'
  BY <1>0, <1>a, <1>b, <1>c, <1>1 DEF PageTypeOK, StartRender, Renders, Rests
<1> QED
  BY <1>2, <1>3, <1>4 DEF PageIInv, CurrentInv

LEMMA RequestRenderCancelInv ==
  ASSUME PageIInv, RequestRenderCancel
  PROVE  PageIInv'
<1>a. PageTypeOK /\ WorkersInv /\ generation \in Nat /\ session \in Sessions
  BY DEF PageIInv, PageTypeOK, RequestRenderCancel
<1>b. generation' = generation + 1 /\ generation' \in Workers
  BY <1>a, PageAssumption DEF RequestRenderCancel, Replace, Workers
<1>0. /\ PageTypeOK /\ WorkersInv /\ session \in Sessions /\ generation \in Nat
      /\ generation' = generation + 1 /\ generation' \in Workers
  BY <1>a, <1>b
<1>1. session' \in Sessions /\ session'.id = session.id /\ session'.cancel /\ session' # None
  BY <1>0, PageAssumption DEF RequestRenderCancel, Sessions
<1>2. PageTypeOK'
  <2>1. worker' \in [Workers -> {"none", "loading", "idle", "rendering", "gone"}]
    BY <1>0 DEF PageTypeOK, RequestRenderCancel, Replace
  <2>2. DOMAIN waiter' = Workers /\ generation' \in 0 .. MaxWorkers
    BY <1>0 DEF PageTypeOK, RequestRenderCancel, Replace, Workers
  <2>3. job' \in [Workers -> Requests \cup {None}]
    BY <1>0 DEF PageTypeOK, RequestRenderCancel
  <2> QED
    BY <1>0, <1>1, <2>1, <2>2, <2>3 DEF PageTypeOK, RequestRenderCancel, Replace
<1>3. WorkersInv'
  BY <1>0, <1>1 DEF PageTypeOK, WorkersInv, RequestRenderCancel, Replace, Workers
<1>4. Loads(generation)'
  BY <1>0, <1>1 DEF PageTypeOK, WorkersInv, RequestRenderCancel, Replace, Loads, Restarting, Workers
<1> QED
  BY <1>2, <1>3, <1>4 DEF PageIInv, CurrentInv

\* Only the current worker works.
LEMMA WorkingIsCurrent ==
  ASSUME PageIInv, NEW g \in Workers, worker[g] \in {"loading", "rendering"}
  PROVE  g = generation
BY DEF PageIInv, PageTypeOK, WorkersInv, Workers

LEMMA InitWasmInv ==
  ASSUME PageIInv, NEW g \in Workers, InitWasm(g)
  PROVE  PageIInv'
<1>0. PageTypeOK /\ WorkersInv /\ CurrentInv /\ generation \in Workers /\ g = generation
  BY WorkingIsCurrent DEF PageIInv, InitWasm
<1>1. Loads(g) /\ outbox[g] = <<>>
  BY <1>0 DEF CurrentInv, InitWasm, Loads, Rests, Renders, Rendered
<1>2. PICK ok \in BOOLEAN :
        /\ Post(g, IF ok THEN <<"ready", None>> ELSE <<"error", None>>)
        /\ worker' = [worker EXCEPT ![g] = IF ok THEN "idle" ELSE "gone"]
  BY DEF InitWasm
<1>3. PICK m \in MessageTypes \X (Requests \cup {None}) :
        m = IF ok THEN <<"ready", None>> ELSE <<"error", None>>
  BY DEF MessageTypes
<1>4. outbox' = [outbox EXCEPT ![g] = <<m>>]
  BY <1>0, <1>1, <1>2, <1>3, Letters DEF Post, PageTypeOK
<1>5. PageTypeOK'
  <2>1. outbox' \in [Workers -> Seq(MessageTypes \X (Requests \cup {None}))]
    BY <1>0, <1>3, <1>4 DEF PageTypeOK
  <2>2. worker' \in [Workers -> {"none", "loading", "idle", "rendering", "gone"}]
    BY <1>0, <1>2 DEF PageTypeOK
  <2> QED
    BY <1>0, <2>1, <2>2 DEF PageTypeOK, InitWasm
<1>6. WorkersInv'
  BY <1>0, <1>2, <1>4 DEF PageTypeOK, WorkersInv, InitWasm, Workers
<1>7. Loads(g)'
  BY <1>0, <1>1, <1>2, <1>3, <1>4 DEF PageTypeOK, InitWasm, Loads, Restarting
<1> QED
  BY <1>0, <1>5, <1>6, <1>7 DEF PageIInv, CurrentInv, InitWasm

LEMMA ReportTierInv ==
  ASSUME PageIInv, NEW g \in Workers, ReportTier(g)
  PROVE  PageIInv'
<1>0. PageTypeOK /\ WorkersInv /\ CurrentInv /\ generation \in Workers /\ g = generation
  BY WorkingIsCurrent DEF PageIInv, ReportTier
<1>1. Renders(g) /\ session \in Sessions
  BY <1>0 DEF CurrentInv, ReportTier, Loads, Rests, Renders, Rendered, PageTypeOK
<1>2. outbox[g] = <<>>
  <2>1. ASSUME outbox[g] = <<<<"tier", session.id>>>> PROVE FALSE
    <3>1. 1 \in DOMAIN outbox[g] /\ outbox[g][1] = <<"tier", session.id>>
      BY <2>1
    <3> QED
      BY <3>1 DEF ReportTier
  <2> QED
    BY <1>1, <2>1 DEF Renders
<1>3. PICK m \in MessageTypes \X (Requests \cup {None}) : m = <<"tier", session.id>>
  BY <1>1 DEF MessageTypes, Sessions
<1>4. outbox' = [outbox EXCEPT ![g] = <<m>>]
  BY <1>0, <1>1, <1>2, <1>3, Letters DEF Post, PageTypeOK, ReportTier, Renders
<1>5. PageTypeOK'
  <2>1. outbox' \in [Workers -> Seq(MessageTypes \X (Requests \cup {None}))]
    BY <1>0, <1>3, <1>4 DEF PageTypeOK
  <2> QED
    BY <1>0, <2>1 DEF PageTypeOK, ReportTier
<1>6. WorkersInv'
  BY <1>0, <1>4 DEF PageTypeOK, WorkersInv, ReportTier, Workers
<1>7. Renders(g)'
  BY <1>0, <1>1, <1>3, <1>4 DEF PageTypeOK, ReportTier, Renders
<1> QED
  BY <1>0, <1>5, <1>6, <1>7 DEF PageIInv, CurrentInv, ReportTier

LEMMA FinishRenderInv ==
  ASSUME PageIInv, NEW g \in Workers, FinishRender(g)
  PROVE  PageIInv'
<1>0. PageTypeOK /\ WorkersInv /\ CurrentInv /\ generation \in Workers /\ g = generation
  BY WorkingIsCurrent DEF PageIInv, FinishRender
<1>1. Renders(g) /\ session \in Sessions
  BY <1>0 DEF CurrentInv, FinishRender, Loads, Rests, Renders, Rendered, PageTypeOK
<1>2. PICK last \in {"result", "error", "crash"} :
        /\ Post(g, <<last, session.id>>)
        /\ worker' = [worker EXCEPT ![g] = IF last = "crash" THEN "gone" ELSE "idle"]
  BY <1>1 DEF FinishRender, Renders
<1>3. PICK m, t \in MessageTypes \X (Requests \cup {None}) :
        m = <<last, session.id>> /\ t = <<"tier", session.id>>
  BY <1>1 DEF MessageTypes, Sessions
<1>4. PICK box \in {<<m>>, <<t, m>>} :
        /\ outbox' = [outbox EXCEPT ![g] = box]
        /\ box \in Seq(MessageTypes \X (Requests \cup {None}))
  <2>1. outbox' = [outbox EXCEPT ![g] = Append(outbox[g], m)]
    BY <1>0, <1>2, <1>3 DEF Post, PageTypeOK
  <2>2. Append(outbox[g], m) \in {<<m>>, <<t, m>>}
    BY <1>1, <1>3, Letters DEF Renders
  <2>3. Append(outbox[g], m) \in Seq(MessageTypes \X (Requests \cup {None}))
    BY <1>0, <1>3 DEF PageTypeOK
  <2> QED
    BY <2>1, <2>2, <2>3
<1>5. PageTypeOK'
  <2>1. outbox' \in [Workers -> Seq(MessageTypes \X (Requests \cup {None}))]
    BY <1>0, <1>4 DEF PageTypeOK
  <2>2. worker' \in [Workers -> {"none", "loading", "idle", "rendering", "gone"}]
    BY <1>0, <1>2 DEF PageTypeOK
  <2>3. job' \in [Workers -> Requests \cup {None}]
    BY <1>0 DEF PageTypeOK, FinishRender
  <2> QED
    BY <1>0, <2>1, <2>2, <2>3 DEF PageTypeOK, FinishRender
<1>6. WorkersInv'
  BY <1>0, <1>2, <1>4 DEF PageTypeOK, WorkersInv, FinishRender, Workers
<1>7. Rendered(g)'
  BY <1>0, <1>1, <1>2, <1>3, <1>4 DEF PageTypeOK, FinishRender, Renders, Rendered
<1> QED
  BY <1>0, <1>5, <1>6, <1>7 DEF PageIInv, CurrentInv, FinishRender

\* The messages of one worker are taken from the front.
LEMMA TakeTyped ==
  ASSUME PageTypeOK, NEW g \in Workers, NEW type, Take(g, type)
  PROVE  /\ outbox' \in [Workers -> Seq(MessageTypes \X (Requests \cup {None}))]
         /\ outbox'[g] = Tail(outbox[g])
         /\ \A h \in Workers : h # g => outbox'[h] = outbox[h]
         /\ outbox[g] # <<>> /\ Head(outbox[g])[1] = type
         /\ UNCHANGED <<generation, renderId, worker, job>>
<1>1. outbox[g] \in Seq(MessageTypes \X (Requests \cup {None})) /\ outbox[g] # <<>>
  BY DEF PageTypeOK, Take
<1>2. Tail(outbox[g]) \in Seq(MessageTypes \X (Requests \cup {None}))
  BY <1>1
<1>3. outbox' = [outbox EXCEPT ![g] = Tail(outbox[g])]
  BY DEF Take, PageTypeOK
<1>4. outbox' \in [Workers -> Seq(MessageTypes \X (Requests \cup {None}))]
  BY <1>2, <1>3 DEF PageTypeOK
<1>5. outbox'[g] = Tail(outbox[g]) /\ \A h \in Workers : h # g => outbox'[h] = outbox[h]
  BY <1>3 DEF PageTypeOK
<1> QED
  BY <1>1, <1>4, <1>5 DEF Take

LEMMA DropStaleInv ==
  ASSUME PageIInv, NEW g \in Workers, DropStale(g)
  PROVE  PageIInv'
<1>0. PageTypeOK /\ WorkersInv /\ CurrentInv /\ g # generation
  BY DEF PageIInv, DropStale, Current
<1>1. PICK type \in MessageTypes : Take(g, type)
  BY DEF DropStale, MessageTypes
<1>2. /\ outbox' \in [Workers -> Seq(MessageTypes \X (Requests \cup {None}))]
      /\ \A h \in Workers : h # g => outbox'[h] = outbox[h]
      /\ outbox[g] # <<>> /\ UNCHANGED <<generation, renderId, worker, job>>
  BY <1>0, <1>1, TakeTyped
<1>3. UNCHANGED <<ready, pageReady, engine, session, button, lastRender, preview, waiter>>
  BY DEF DropStale
<1>4. PageTypeOK'
  BY <1>0, <1>2, <1>3 DEF PageTypeOK
<1>5. WorkersInv'
  BY <1>0, <1>2, <1>3 DEF WorkersInv, PageTypeOK, Workers
<1>6. CurrentInv'
  <2> SUFFICES ASSUME generation \in Workers PROVE CurrentInv'
    BY <1>2 DEF CurrentInv
  <2>1. outbox'[generation] = outbox[generation]
    BY <1>0, <1>2
  <2> QED
    BY <1>0, <1>2, <1>3, <2>1 DEF CurrentInv, Loads, Restarting, Rests, Renders, Rendered
<1> QED
  BY <1>4, <1>5, <1>6 DEF PageIInv

\* What a message of the current worker says of the session.
LEMMA FirstMessage ==
  ASSUME PageIInv, NEW g \in Workers, NEW type, Current(g), Take(g, type)
  PROVE  \/ /\ type = "ready" /\ Loads(g) /\ worker[g] = "idle" /\ outbox'[g] = <<>>
         \/ /\ type = "error" /\ Loads(g) /\ worker[g] = "gone" /\ outbox'[g] = <<>>
         \/ /\ type = "tier" /\ session # None /\ Head(outbox[g])[2] = session.id
            /\ Renders(g) /\ outbox'[g] = <<>>
         \/ /\ type = "tier" /\ session # None /\ Head(outbox[g])[2] = session.id
            /\ Rendered(g)
            /\ \E last \in {"result", "error", "crash"} :
                 /\ worker[g] = IF last = "crash" THEN "gone" ELSE "idle"
                 /\ outbox'[g] = <<<<last, session.id>>>>
         \/ /\ type \in {"result", "error", "crash"} /\ session # None
            /\ Head(outbox[g])[2] = session.id
            /\ Rendered(g) /\ outbox'[g] = <<>>
            /\ worker[g] = IF type = "crash" THEN "gone" ELSE "idle"
<1>0. PageTypeOK /\ CurrentInv /\ g = generation
  BY DEF PageIInv, Current
<1>1. outbox'[g] = Tail(outbox[g]) /\ outbox[g] # <<>> /\ Head(outbox[g])[1] = type
  BY <1>0, TakeTyped
<1>2. CASE Loads(g)
  <2>1. CASE worker[g] = "idle" /\ outbox[g] = <<<<"ready", None>>>>
    BY <1>1, <1>2, <2>1, Letters
  <2>2. CASE worker[g] = "gone" /\ outbox[g] = <<<<"error", None>>>>
    BY <1>1, <1>2, <2>2, Letters
  <2> QED
    BY <1>1, <1>2, <2>1, <2>2 DEF Loads
<1>3. CASE Rests(g)
  BY <1>1, <1>3 DEF Rests
<1>4. CASE Renders(g)
  <2>1. outbox[g] = <<<<"tier", session.id>>>> /\ session # None
    BY <1>1, <1>4 DEF Renders
  <2>2. type = "tier" /\ Head(outbox[g])[2] = session.id /\ outbox'[g] = <<>>
    BY <1>1, <2>1, Letters
  <2> QED
    BY <1>4, <2>1, <2>2
<1>5. CASE Rendered(g)
  <2>1. session # None
    BY <1>5 DEF Rendered
  <2>2. PICK last \in {"result", "error", "crash"} :
          /\ worker[g] = IF last = "crash" THEN "gone" ELSE "idle"
          /\ outbox[g] \in {<<<<last, session.id>>>>, <<<<"tier", session.id>>, <<last, session.id>>>>}
    BY <1>5 DEF Rendered
  <2>3. CASE outbox[g] = <<<<last, session.id>>>>
    <3>1. type = last /\ Head(outbox[g])[2] = session.id /\ outbox'[g] = <<>>
      BY <1>1, <2>3, Letters
    <3> QED
      BY <1>5, <2>1, <2>2, <3>1
  <2>4. CASE outbox[g] = <<<<"tier", session.id>>, <<last, session.id>>>>
    <3>1. type = "tier" /\ Head(outbox[g])[2] = session.id /\ outbox'[g] = <<<<last, session.id>>>>
      BY <1>1, <2>4, Letters
    <3> QED
      BY <1>5, <2>1, <2>2, <3>1
  <2> QED
    BY <2>2, <2>3, <2>4
<1> QED
  BY <1>0, <1>2, <1>3, <1>4, <1>5 DEF CurrentInv

\* A message that leaves the current worker without a session.
LEMMA SessionEnds ==
  ASSUME PageIInv, NEW g \in Workers, NEW type, Current(g), Take(g, type),
         ready' \in BOOLEAN, pageReady' \in BOOLEAN, engine' \in {"loading", "ready", "failed"},
         session' = None, button' \in BOOLEAN, DOMAIN waiter' = Workers,
         lastRender' \in Requests \cup {None}, preview' \in Requests \cup {None},
         outbox'[g] = <<>>, worker[g] = IF ready' THEN "idle" ELSE "gone"
  PROVE  PageIInv'
<1>0. PageTypeOK /\ WorkersInv /\ g = generation
  BY DEF PageIInv, Current
<1>1. /\ outbox' \in [Workers -> Seq(MessageTypes \X (Requests \cup {None}))]
      /\ \A h \in Workers : h # g => outbox'[h] = outbox[h]
      /\ UNCHANGED <<generation, renderId, worker, job>>
  BY <1>0, TakeTyped
<1>2. PageTypeOK'
  BY <1>0, <1>1 DEF PageTypeOK
<1>3. WorkersInv'
  BY <1>0, <1>1 DEF WorkersInv, Workers
<1>4. Rests(g)'
  BY <1>0, <1>1 DEF Rests
<1> QED
  BY <1>0, <1>1, <1>2, <1>3, <1>4 DEF PageIInv, CurrentInv

LEMMA OnReadyInv ==
  ASSUME PageIInv, NEW g \in Workers, OnReady(g)
  PROVE  PageIInv'
<1>0. PageTypeOK /\ Current(g) /\ Take(g, "ready")
  BY DEF PageIInv, OnReady
<1>1. Loads(g) /\ worker[g] = "idle" /\ outbox'[g] = <<>>
  BY <1>0, FirstMessage
<1>2. session' = None /\ button' \in BOOLEAN
  BY <1>0, <1>1 DEF OnReady, Loads, Restarting, FinalizeRenderSession, PageTypeOK
<1>3. /\ ready' = TRUE /\ pageReady' \in BOOLEAN /\ engine' \in {"loading", "ready", "failed"}
      /\ lastRender' \in Requests \cup {None} /\ preview' \in Requests \cup {None}
      /\ DOMAIN waiter' = Workers
  BY <1>0 DEF OnReady, PageTypeOK
<1>4. ready' \in BOOLEAN /\ worker[g] = IF ready' THEN "idle" ELSE "gone"
  BY <1>1, <1>3
<1> QED
  BY <1>0, <1>1, <1>2, <1>3, <1>4, SessionEnds

LEMMA OnEngineErrorInv ==
  ASSUME PageIInv, NEW g \in Workers, OnEngineError(g)
  PROVE  PageIInv'
<1>0. PageTypeOK /\ Current(g)
  BY DEF PageIInv, OnEngineError
<1>1. PICK type \in {"crash", "error"} : Take(g, type) /\ (type = "error" => ~ready)
  BY DEF OnEngineError
<1>2. worker[g] = "gone" /\ outbox'[g] = <<>>
  BY <1>0, <1>1, FirstMessage DEF Rendered
<1>3. session' = None /\ button' \in BOOLEAN
  BY <1>0 DEF OnEngineError, FinalizeRenderSession, PageTypeOK
<1>4. /\ ready' = FALSE /\ pageReady' \in BOOLEAN /\ engine' \in {"loading", "ready", "failed"}
      /\ lastRender' \in Requests \cup {None} /\ preview' \in Requests \cup {None}
      /\ DOMAIN waiter' = Workers
  BY <1>0 DEF OnEngineError, PageTypeOK
<1>5. ready' \in BOOLEAN /\ worker[g] = IF ready' THEN "idle" ELSE "gone"
  BY <1>2, <1>4
<1> QED
  BY <1>0, <1>1, <1>2, <1>3, <1>4, <1>5, SessionEnds

LEMMA OnRenderErrorInv ==
  ASSUME PageIInv, NEW g \in Workers, OnRenderError(g)
  PROVE  PageIInv'
<1>0. PageTypeOK /\ Current(g) /\ Take(g, "error") /\ ready
  BY DEF PageIInv, OnRenderError
<1>1. worker[g] = "idle" /\ outbox'[g] = <<>> /\ ForSession(g)
  BY <1>0, FirstMessage DEF Loads, ForSession
<1>2. session' = None /\ button' \in BOOLEAN
  BY <1>1 DEF OnRenderError, FinalizeRenderSession
<1>3. /\ ready' = ready /\ pageReady' \in BOOLEAN /\ engine' \in {"loading", "ready", "failed"}
      /\ lastRender' \in Requests \cup {None} /\ preview' \in Requests \cup {None}
      /\ DOMAIN waiter' = Workers
  BY <1>0 DEF OnRenderError, PageTypeOK
<1>4. ready' \in BOOLEAN /\ worker[g] = IF ready' THEN "idle" ELSE "gone"
  BY <1>0, <1>1, <1>3
<1> QED
  BY <1>0, <1>1, <1>2, <1>3, <1>4, SessionEnds

LEMMA OnResultInv ==
  ASSUME PageIInv, NEW g \in Workers, OnResult(g)
  PROVE  PageIInv'
<1>0. PageTypeOK /\ Current(g) /\ Take(g, "result")
  BY DEF PageIInv, OnResult
<1>1. worker[g] = "idle" /\ outbox'[g] = <<>> /\ ForSession(g) /\ ready
  BY <1>0, FirstMessage DEF Rendered, ForSession
<1>2. session' = None /\ button' \in BOOLEAN
  BY <1>1 DEF OnResult, FinalizeRenderSession
<1>3. ready' = ready /\ pageReady' \in BOOLEAN /\ engine' \in {"loading", "ready", "failed"}
      /\ DOMAIN waiter' = Workers
  BY <1>0 DEF OnResult, PageTypeOK
<1>4. lastRender' \in Requests \cup {None} /\ preview' \in Requests \cup {None}
  <2>1. session \in Sessions
    BY <1>0, <1>1 DEF PageTypeOK, ForSession
  <2> QED
    BY <1>0, <1>1, <2>1 DEF OnResult, PageTypeOK, Sessions
<1>5. ready' \in BOOLEAN /\ worker[g] = IF ready' THEN "idle" ELSE "gone"
  BY <1>0, <1>1, <1>3
<1> QED
  BY <1>0, <1>1, <1>2, <1>3, <1>4, <1>5, SessionEnds

LEMMA OnTierInv ==
  ASSUME PageIInv, NEW g \in Workers, OnTier(g)
  PROVE  PageIInv'
<1>0. PageTypeOK /\ WorkersInv /\ Current(g) /\ Take(g, "tier") /\ g = generation
  BY DEF PageIInv, OnTier, Current
<1>1. /\ outbox' \in [Workers -> Seq(MessageTypes \X (Requests \cup {None}))]
      /\ \A h \in Workers : h # g => outbox'[h] = outbox[h]
      /\ UNCHANGED <<generation, renderId, worker, job>>
  BY <1>0, TakeTyped
<1>2. UNCHANGED <<ready, pageReady, engine, session, button, lastRender, waiter>>
  BY DEF OnTier
<1>3. PageTypeOK'
  <2>1. preview' \in Requests \cup {None}
    BY <1>0 DEF OnTier, PageTypeOK, ForSession, Sessions
  <2> QED
    BY <1>0, <1>1, <1>2, <2>1 DEF PageTypeOK
<1>4. WorkersInv'
  BY <1>0, <1>1, <1>2 DEF WorkersInv, Workers
<1>5. \/ Renders(g) /\ outbox'[g] = <<>>
      \/ Rendered(g) /\ \E last \in {"result", "error", "crash"} :
           /\ worker[g] = IF last = "crash" THEN "gone" ELSE "idle"
           /\ outbox'[g] = <<<<last, session.id>>>>
  BY <1>0, FirstMessage
<1>6. CASE Renders(g) /\ outbox'[g] = <<>>
  <2>1. Renders(g)'
    BY <1>0, <1>1, <1>2, <1>6 DEF Renders
  <2> QED
    BY <1>0, <1>1, <1>3, <1>4, <2>1 DEF PageIInv, CurrentInv
<1>7. CASE Rendered(g) /\ \E last \in {"result", "error", "crash"} :
             /\ worker[g] = IF last = "crash" THEN "gone" ELSE "idle"
             /\ outbox'[g] = <<<<last, session.id>>>>
  <2>1. Rendered(g)'
    BY <1>0, <1>1, <1>2, <1>7 DEF Rendered
  <2> QED
    BY <1>0, <1>1, <1>3, <1>4, <2>1 DEF PageIInv, CurrentInv
<1> QED
  BY <1>5, <1>6, <1>7

LEMMA PageTaskInv ==
  ASSUME PageIInv, PageTask
  PROVE  PageIInv'
<1>1. ASSUME NEW g \in Workers, Deliver(g) PROVE PageIInv'
  BY <1>1, DropStaleInv, OnReadyInv, OnEngineErrorInv, OnTierInv, OnRenderErrorInv DEF Deliver
<1> QED
  BY <1>1, StartControllerInv, StartRenderInv, RequestRenderCancelInv, InitWasmInv,
     ReportTierInv, FinishRenderInv DEF PageTask

LEMMA PageStutters ==
  ASSUME PageIInv, UNCHANGED pageVars
  PROVE  PageIInv'
BY DEF PageIInv, pageVars, PageTypeOK, WorkersInv, CurrentInv, Loads, Restarting, Rests,
       Renders, Rendered

LEMMA PageInvariance == Spec => []PageIInv
<1>1. Init => PageIInv
  BY PageInitInv DEF Init
<1>2. PageIInv /\ [Next]_vars => PageIInv'
  BY PageTaskInv, OnResultInv, PageStutters DEF Next, Result, vars
<1> QED
  BY <1>1, <1>2, PTL DEF Spec

\* The shapes the messages of the current worker can have leave no session
\* waiting for nothing.
LEMMA PageIInvServes == PageIInv => SessionServed
<1> SUFFICES ASSUME PageIInv, session # None PROVE SessionServed
  BY DEF SessionServed
<1>0. generation \in Workers /\ CurrentInv
  BY DEF PageIInv, PageTypeOK, WorkersInv, Workers
<1>1. PICK g \in Workers : g = generation
  BY <1>0
<1>2. CASE Loads(g)
  <2>1. session.cancel
    BY <1>2 DEF Loads, Restarting
  <2>2. ASSUME NEW m, outbox[g] = <<m>>, m[1] \in {"ready", "error"}
        PROVE  \E i \in DOMAIN outbox[g] : outbox[g][i][1] \in {"ready", "error"}
    <3>1. 1 \in DOMAIN outbox[g] /\ outbox[g][1] = m
      BY <2>2
    <3> QED
      BY <2>2, <3>1
  <2>3. \/ worker[g] = "loading"
        \/ \E i \in DOMAIN outbox[g] : outbox[g][i][1] \in {"ready", "error"}
    <3>1. CASE outbox[g] = <<<<"ready", None>>>>
      BY <2>2, <3>1
    <3>2. CASE outbox[g] = <<<<"error", None>>>>
      BY <2>2, <3>2
    <3> QED
      BY <1>2, <3>1, <3>2 DEF Loads
  <2> QED
    BY <1>1, <2>1, <2>3 DEF SessionServed
<1>3. CASE Renders(g)
  BY <1>1, <1>3 DEF Renders, SessionServed
<1>4. CASE Rendered(g)
  <2>1. PICK last \in {"result", "error", "crash"} :
          outbox[g] \in {<<<<last, session.id>>>>, <<<<"tier", session.id>>, <<last, session.id>>>>}
    BY <1>4 DEF Rendered
  <2>2. PICK l, t : l = <<last, session.id>> /\ t = <<"tier", session.id>>
    OBVIOUS
  <2>3. outbox[g] = <<l>> \/ outbox[g] = <<t, l>>
    BY <2>1, <2>2
  <2>4. l[1] = last /\ l[2] = session.id /\ t[2] = session.id
    BY <2>2
  <2>5. /\ \E i \in DOMAIN outbox[g] : outbox[g][i] = l
        /\ \A i \in DOMAIN outbox[g] : outbox[g][i] \in {l, t}
    <3>1. CASE outbox[g] = <<l>>
      BY <3>1
    <3>2. CASE outbox[g] = <<t, l>>
      BY <3>2
    <3> QED
      BY <2>3, <3>1, <3>2
  <2>6. /\ \E i \in DOMAIN outbox[g] : outbox[g][i][1] \in {"result", "error", "crash"}
        /\ \A i \in DOMAIN outbox[g] : outbox[g][i][2] = session.id
    BY <2>4, <2>5
  <2>7. ~session.cancel
    BY <1>4 DEF Rendered
  <2> QED
    BY <1>1, <2>6, <2>7 DEF SessionServed
<1> QED
  BY <1>0, <1>1, <1>2, <1>3, <1>4 DEF CurrentInv, Rests

\* No session of the page waits for something that nobody does, however cancels,
\* crashes, previews and the messages of workers long replaced interleave.
THEOREM NoSessionWaitsForNothing == Spec => []SessionServed
BY PageInvariance, PageIInvServes, PTL

-----------------------------------------------------------------------------
(* The auralization. *)

LEMMA AudioConstants ==
  /\ Start \in Tasks /\ Tasks = 0 .. MaxVersions /\ Versions \subseteq Tasks
  /\ Orphan \notin Tasks /\ (0 .. Orphan) \ {Orphan} = Tasks /\ MaxVersions \in Nat
  /\ Waiting # Absent /\ Absent \notin Tasks /\ Waiting \notin Versions
  /\ Idle \in TaskStates /\ Idle.ir = Absent /\ Idle.portal = Absent /\ Idle.dry = Absent
  /\ Idle["ir"] = Absent /\ Idle["portal"] = Absent /\ \A k \in Kinds : Idle[k] = Absent
<1>1. MaxVersions \in Nat /\ Absent \notin 0 .. MaxVersions
  BY AuralizationAssumption
<1>2. Start \in Tasks /\ Tasks = 0 .. MaxVersions /\ Versions \subseteq Tasks
  BY <1>1 DEF Start, Tasks, Versions
<1>3. Orphan \notin Tasks /\ (0 .. Orphan) \ {Orphan} = Tasks
  BY <1>1, <1>2 DEF Orphan
<1>4. Waiting # Absent /\ Absent \notin Tasks /\ Waiting \notin Versions
  BY <1>1, <1>2 DEF Waiting, Versions
<1>5. Idle \in TaskStates /\ Idle.ir = Absent /\ Idle.portal = Absent /\ Idle.dry = Absent
  BY DEF Idle, TaskStates
<1>6. \A k \in Kinds : Idle[k] = Absent
  BY <1>5 DEF Kinds, Idle
<1> QED
  BY <1>1, <1>2, <1>3, <1>4, <1>5, <1>6

LEMMA AudioInitInv ==
  ASSUME AudioInit
  PROVE  AudioIInv
<1>1. AudioTypeOK
  <2>1. awaits \in [Kinds -> [Versions -> SUBSET (0 .. Orphan)]]
    BY DEF AudioInit
  <2>2. irVersion \in 0 .. MaxVersions /\ task \in [Tasks -> TaskStates]
    BY AudioConstants DEF AudioInit
  <2> QED
    BY <2>1, <2>2 DEF AudioInit, AudioTypeOK
<1>2. AwaitsInv
  BY DEF AudioInit, AwaitsInv
<1>3. TasksInv
  BY DEF AudioInit, TasksInv
<1>4. EngineInv /\ LatestInv
  BY DEF AudioInit, EngineInv, LatestInv
<1> QED
  BY <1>1, <1>2, <1>3, <1>4 DEF AudioIInv

\* What a task is given does not stop it.
Given(t, k, value) == [task[t] EXCEPT ![k] = value]

LEMMA GivenTask ==
  ASSUME AudioIInv, NEW t \in Tasks, NEW k \in Kinds, NEW value \in Versions, task[t][k] = Waiting,
         NEW r, r = Given(t, k, value)
  PROVE  /\ r \in TaskStates /\ r.ir # Absent /\ r # Idle /\ Running(t)
         /\ r[k] = value /\ \A j \in Kinds : j # k => r[j] = task[t][j]
<1>0. task[t] \in TaskStates /\ (task[t].ir = Absent => task[t] = Idle) /\ value \in 0 .. MaxVersions
  BY AudioConstants DEF AudioIInv, AudioTypeOK, TasksInv
<1>1. task[t] # Idle /\ value # Absent /\ task[t].ir # Absent
  BY <1>0, AudioConstants
<1>2. CASE k = "ir"
  <2>1. r \in TaskStates /\ r.ir = value /\ r.portal = task[t].portal
    BY <1>0, <1>2 DEF TaskStates, Given
  <2> QED
    BY <1>1, <1>2, <2>1, AudioConstants DEF Kinds, Running
<1>3. CASE k = "portal"
  <2>1. r \in TaskStates /\ r.portal = value /\ r.ir = task[t].ir
    BY <1>0, <1>3 DEF TaskStates, Given
  <2> QED
    BY <1>1, <1>3, <2>1, AudioConstants DEF Kinds, Running
<1> QED
  BY <1>2, <1>3 DEF Kinds

\* Decoded buffers of the current version reach those who await them.
LEMMA ReturnInv ==
  ASSUME AudioIInv, NEW k \in Kinds, NEW v \in Versions, irVersion \in Versions,
         awaits' = [awaits EXCEPT ![k][v] = {}], Return(k, awaits[k][v], irVersion),
         UNCHANGED <<renderVars, decodeOf>>, buffer' \in [Kinds -> Versions \cup {Absent}],
         \A j \in Kinds : buffer'[j] \in {Absent, irVersion}
  PROVE  AudioIInv'
<1>0. AudioTypeOK /\ AwaitsInv /\ TasksInv /\ EngineInv /\ LatestInv
  BY DEF AudioIInv
<1>1. UNCHANGED <<irVersion, portalWavs, decodeOf, starting, playing, response, source, branches,
                  cleanup, naturalStop, late, failed>>
  BY DEF Return, renderVars, engineVars
<1>2. \A j \in Kinds, w \in Versions : awaits'[j][w] = IF j = k /\ w = v THEN {} ELSE awaits[j][w]
  BY <1>0 DEF AudioTypeOK
<1>3. ASSUME NEW t \in Tasks, t \in awaits[k][v]
      PROVE  /\ task'[t] \in TaskStates /\ task'[t].ir # Absent /\ task'[t] # Idle /\ Running(t)
             /\ task'[t][k] = irVersion /\ \A j \in Kinds : j # k => task'[t][j] = task[t][j]
  <2>1. PICK r : r = Given(t, k, irVersion)
    OBVIOUS
  <2>2. task'[t] = r
    BY <1>3, <2>1 DEF Return, Given
  <2>3. task[t][k] = Waiting
    BY <1>0, <1>3 DEF AwaitsInv
  <2>4. /\ r \in TaskStates /\ r.ir # Absent /\ r # Idle /\ Running(t)
        /\ r[k] = irVersion /\ \A j \in Kinds : j # k => r[j] = task[t][j]
    BY <2>1, <2>3, GivenTask
  <2> QED
    BY <2>2, <2>4
<1>4. \A t \in Tasks : t \notin awaits[k][v] => task'[t] = task[t]
  BY DEF Return
<1>5. AudioTypeOK'
  <2>1. awaits' \in [Kinds -> [Versions -> SUBSET (0 .. Orphan)]]
    BY <1>0 DEF AudioTypeOK
  <2>2. task' \in [Tasks -> TaskStates]
    <3>1. \A t \in Tasks : task'[t] \in TaskStates
      BY <1>0, <1>3, <1>4 DEF AudioTypeOK
    <3>2. task' = [t \in Tasks |-> task'[t]]
      BY DEF Return
    <3> QED
      BY <3>1, <3>2
  <2> QED
    BY <1>0, <1>1, <2>1, <2>2 DEF AudioTypeOK
<1>6. AwaitsInv'
  <2>1. ASSUME NEW j \in Kinds, NEW w \in Versions, NEW t \in Tasks, t \in awaits'[j][w]
        PROVE  task'[t][j] = Waiting /\ \A x \in Versions : t \in awaits'[j][x] => x = w
    <3>1. t \in awaits[j][w] /\ ~(j = k /\ w = v)
      BY <1>2, <2>1
    <3>2. task[t][j] = Waiting /\ \A x \in Versions : t \in awaits[j][x] => x = w
      BY <1>0, <3>1 DEF AwaitsInv
    <3>3. j = k => t \notin awaits[k][v]
      BY <3>1, <3>2
    <3>4. task'[t][j] = Waiting
      BY <1>3, <1>4, <3>2, <3>3
    <3> QED
      BY <1>2, <3>2, <3>4
  <2>2. \A j \in Kinds, w \in Versions : w > irVersion' => awaits'[j][w] = {}
    BY <1>0, <1>1, <1>2 DEF AwaitsInv
  <2> QED
    BY <2>1, <2>2 DEF AwaitsInv
<1>7. TasksInv'
  <2>1. ASSUME NEW t \in Tasks
        PROVE  /\ task'[t].ir = Absent => task'[t] = Idle
               /\ t > irVersion => task'[t] = Idle
    <3>1. CASE t \in awaits[k][v]
      BY <1>0, <1>3, <3>1 DEF TasksInv, Running
    <3>2. CASE t \notin awaits[k][v]
      BY <1>0, <1>4, <3>2 DEF TasksInv
    <3> QED
      BY <3>1, <3>2
  <2>2. \A j \in Kinds : task'[irVersion][j] \in {Absent, Waiting, irVersion}
    <3>1. irVersion \in Tasks /\ \A j \in Kinds : task[irVersion][j] \in {Absent, Waiting, irVersion}
      BY <1>0, AudioConstants DEF TasksInv, Versions
    <3>2. CASE irVersion \in awaits[k][v]
      BY <1>3, <3>1, <3>2
    <3>3. CASE irVersion \notin awaits[k][v]
      BY <1>4, <3>1, <3>3
    <3> QED
      BY <3>2, <3>3
  <2> QED
    BY <1>0, <1>1, <2>1, <2>2 DEF TasksInv
<1>8. EngineInv'
  BY <1>0, <1>1 DEF EngineInv
<1>9. LatestInv'
  <2>1. Running(irVersion) => Running(irVersion)'
    <3>1. irVersion \in Tasks
      BY AudioConstants
    <3> QED
      BY <1>1, <1>3, <1>4, <3>1 DEF Running
  <2> QED
    BY <1>0, <1>1, <2>1 DEF LatestInv
<1> QED
  BY <1>5, <1>6, <1>7, <1>8, <1>9 DEF AudioIInv

\* A rejected promise ends the tasks that await it.
LEMMA FailInv ==
  ASSUME AudioIInv, NEW callers \in SUBSET Tasks, NEW queues,
         queues \in [Kinds -> [Versions -> SUBSET (0 .. Orphan)]],
         \A k \in Kinds, v \in Versions : queues[k][v] \subseteq awaits[k][v],
         Fail(callers, queues), UNCHANGED <<renderVars, buffer>>,
         decodeOf' \in [Kinds -> Versions \cup {Absent}]
  PROVE  AudioIInv'
<1>0. AudioTypeOK /\ AwaitsInv /\ TasksInv /\ EngineInv /\ LatestInv
  BY DEF AudioIInv
<1>1. /\ UNCHANGED <<irVersion, portalWavs, buffer>>
      /\ task' = [t \in Tasks |-> IF t \in callers THEN Idle ELSE task[t]]
      /\ failed' = (failed \/ irVersion \in callers)
  BY DEF Fail, renderVars
<1>2. \/ /\ starting' = FALSE /\ playing' = FALSE /\ source' = "none" /\ branches' = {}
         /\ cleanup' = Absent /\ naturalStop' = FALSE /\ late' = FALSE /\ response' = response
      \/ UNCHANGED <<starting, playing, response, source, branches, cleanup, naturalStop, late>>
  BY DEF Fail, StopEngine, engineVars
<1>3. ASSUME NEW k \in Kinds, NEW v \in Versions
      PROVE  /\ awaits'[k][v] = IF queues[k][v] \cap callers = {} THEN queues[k][v]
                                ELSE (queues[k][v] \ callers) \cup {Orphan}
             /\ awaits'[k][v] \in SUBSET (0 .. Orphan)
             /\ \A t \in Tasks : t \in awaits'[k][v] => t \in awaits[k][v] /\ t \notin callers
             /\ v > irVersion => awaits'[k][v] = {}
  <2>1. awaits'[k][v] = IF queues[k][v] \cap callers = {} THEN queues[k][v]
                        ELSE (queues[k][v] \ callers) \cup {Orphan}
    BY DEF Fail
  <2>2. Orphan \in 0 .. Orphan /\ Orphan \notin Tasks
    BY AudioConstants DEF Orphan
  <2>3. v > irVersion => queues[k][v] = {}
    BY <1>0 DEF AwaitsInv
  <2> QED
    BY <2>1, <2>2, <2>3
<1>4. AudioTypeOK'
  <2>1. awaits' \in [Kinds -> [Versions -> SUBSET (0 .. Orphan)]]
    <3>1. \A k \in Kinds : awaits'[k] = [v \in Versions |-> awaits'[k][v]]
      BY DEF Fail
    <3>2. ASSUME NEW k \in Kinds PROVE awaits'[k] \in [Versions -> SUBSET (0 .. Orphan)]
      <4>1. PICK f : f = awaits'[k]
        OBVIOUS
      <4>2. f = [v \in Versions |-> f[v]] /\ \A v \in Versions : f[v] \in SUBSET (0 .. Orphan)
        BY <1>3, <3>1, <4>1
      <4> QED
        BY <4>1, <4>2
    <3>3. awaits' = [k \in Kinds |-> awaits'[k]]
      BY DEF Fail
    <3> QED
      BY <3>2, <3>3
  <2>2. task' \in [Tasks -> TaskStates]
    BY <1>0, <1>1, AudioConstants DEF AudioTypeOK
  <2>3. failed' \in BOOLEAN
    BY <1>0, <1>1 DEF AudioTypeOK
  <2> QED
    BY <1>0, <1>1, <1>2, <2>1, <2>2, <2>3 DEF AudioTypeOK
<1>5. AwaitsInv'
  <2>1. ASSUME NEW k \in Kinds, NEW v \in Versions, NEW t \in Tasks, t \in awaits'[k][v]
        PROVE  task'[t][k] = Waiting /\ \A w \in Versions : t \in awaits'[k][w] => w = v
    <3>1. t \in awaits[k][v] /\ t \notin callers
      BY <1>3, <2>1
    <3>2. task'[t] = task[t] /\ \A w \in Versions : t \in awaits'[k][w] => t \in awaits[k][w]
      BY <1>1, <1>3, <3>1
    <3> QED
      BY <1>0, <3>1, <3>2 DEF AwaitsInv
  <2>2. \A k \in Kinds, v \in Versions : v > irVersion' => awaits'[k][v] = {}
    BY <1>1, <1>3
  <2> QED
    BY <2>1, <2>2 DEF AwaitsInv
<1>6. TasksInv'
  <2>1. \A t \in Tasks : task'[t] = Idle \/ task'[t] = task[t]
    BY <1>1
  <2>2. starting' => starting
    BY <1>2
  <2>3. irVersion > 0 => irVersion \in Tasks
    BY <1>0, AudioConstants DEF AudioTypeOK
  <2> QED
    BY <1>0, <1>1, <2>1, <2>2, <2>3, AudioConstants DEF TasksInv
<1>7. EngineInv'
  BY <1>0, <1>2 DEF EngineInv
<1>8. LatestInv'
  <2>1. irVersion \in Tasks
    BY <1>0, AudioConstants DEF AudioTypeOK
  <2>2. irVersion \notin callers => (Running(irVersion)' <=> Running(irVersion))
    BY <1>1, <2>1 DEF Running
  <2> QED
    BY <1>0, <1>1, <1>2, <2>2 DEF LatestInv
<1> QED
  BY <1>4, <1>5, <1>6, <1>7, <1>8 DEF AudioIInv

\* A superseded decoding: its callers turn to that of the current version.
LEMMA TurnToCurrent ==
  ASSUME AudioIInv, NEW k \in Kinds, NEW v \in Versions, irVersion \in Versions, v # irVersion,
         awaits' = [[awaits EXCEPT ![k][v] = {}] EXCEPT ![k][irVersion] = @ \cup awaits[k][v]],
         decodeOf' = [decodeOf EXCEPT ![k] = irVersion],
         UNCHANGED <<renderVars, buffer, task, starting, playing, engineVars, failed>>
  PROVE  AudioIInv'
<1>0. AudioTypeOK /\ AwaitsInv /\ TasksInv /\ EngineInv /\ LatestInv
  BY DEF AudioIInv
<1>1. UNCHANGED <<irVersion, portalWavs, buffer, task, starting, playing, response, source, branches,
                  cleanup, naturalStop, late, failed>>
  BY DEF renderVars, engineVars
<1>2. /\ awaits' \in [Kinds -> [Versions -> SUBSET (0 .. Orphan)]]
      /\ \A j \in Kinds, w \in Versions : awaits'[j][w] =
           IF j = k /\ w = v THEN {} ELSE
           IF j = k /\ w = irVersion THEN awaits[k][w] \cup awaits[k][v] ELSE awaits[j][w]
  <2>1. PICK rest : rest = [awaits EXCEPT ![k][v] = {}]
    OBVIOUS
  <2>2. /\ rest \in [Kinds -> [Versions -> SUBSET (0 .. Orphan)]]
        /\ \A j \in Kinds, w \in Versions : rest[j][w] = IF j = k /\ w = v THEN {} ELSE awaits[j][w]
    BY <1>0, <2>1 DEF AudioTypeOK
  <2>3. awaits' = [rest EXCEPT ![k][irVersion] = rest[k][irVersion] \cup awaits[k][v]]
    BY <2>1, <2>2
  <2>4. awaits[k][v] \in SUBSET (0 .. Orphan)
    BY <1>0 DEF AudioTypeOK
  <2>5. awaits' \in [Kinds -> [Versions -> SUBSET (0 .. Orphan)]]
    BY <2>2, <2>3, <2>4
  <2>6. ASSUME NEW j \in Kinds, NEW w \in Versions
        PROVE  awaits'[j][w] = IF j = k /\ w = irVersion THEN rest[j][w] \cup awaits[k][v] ELSE rest[j][w]
    <3>1. PICK x, y : x = rest[k][irVersion] /\ y = awaits[k][v]
      OBVIOUS
    <3>2. awaits' = [rest EXCEPT ![k][irVersion] = x \cup y]
      BY <2>3, <3>1
    <3>3. j # k => awaits'[j] = rest[j]
      BY <2>2, <3>2
    <3>4. awaits'[k] = [rest[k] EXCEPT ![irVersion] = x \cup y] /\ rest[k] \in [Versions -> SUBSET (0 .. Orphan)]
      BY <2>2, <3>2
    <3>5. awaits'[k][w] = IF w = irVersion THEN x \cup y ELSE rest[k][w]
      BY <3>4
    <3>6. CASE j # k
      BY <3>3, <3>6
    <3>7. CASE j = k /\ w = irVersion
      BY <3>1, <3>5, <3>7
    <3>8. CASE j = k /\ w # irVersion
      BY <3>5, <3>8
    <3> QED
      BY <3>6, <3>7, <3>8
  <2>7. ASSUME NEW j \in Kinds, NEW w \in Versions
        PROVE  awaits'[j][w] =
                 IF j = k /\ w = v THEN {} ELSE
                 IF j = k /\ w = irVersion THEN awaits[k][w] \cup awaits[k][v] ELSE awaits[j][w]
    <3>1. rest[j][w] = IF j = k /\ w = v THEN {} ELSE awaits[j][w]
      BY <2>2
    <3>2. CASE j = k /\ w = irVersion
      BY <2>6, <3>1, <3>2
    <3>3. CASE ~(j = k /\ w = irVersion)
      BY <2>6, <3>1, <3>3
    <3> QED
      BY <3>2, <3>3
  <2> QED
    BY <2>5, <2>7
<1>3. AudioTypeOK'
  BY <1>0, <1>1, <1>2 DEF AudioTypeOK
<1>4. AwaitsInv'
  <2>1. ASSUME NEW j \in Kinds, NEW w \in Versions, NEW t \in Tasks, t \in awaits'[j][w]
        PROVE  task'[t][j] = Waiting /\ \A x \in Versions : t \in awaits'[j][x] => x = w
    <3>1. PICK y \in Versions : t \in awaits[j][y]
      BY <1>2, <2>1
    <3>2. task[t][j] = Waiting /\ \A x \in Versions : t \in awaits[j][x] => x = y
      BY <1>0, <3>1 DEF AwaitsInv
    <3>3. ASSUME NEW x \in Versions, t \in awaits'[j][x]
          PROVE  x = IF j = k /\ y = v THEN irVersion ELSE y
      BY <1>2, <3>2, <3>3
    <3> QED
      BY <1>1, <2>1, <3>2, <3>3
  <2>2. \A j \in Kinds, w \in Versions : w > irVersion' => awaits'[j][w] = {}
    <3> SUFFICES ASSUME NEW j \in Kinds, NEW w \in Versions, w > irVersion PROVE awaits'[j][w] = {}
      BY <1>1
    <3>1. w # irVersion /\ awaits[j][w] = {}
      BY <1>0, AudioConstants DEF AwaitsInv, Versions
    <3> QED
      BY <1>2, <3>1
  <2> QED
    BY <2>1, <2>2 DEF AwaitsInv
<1>5. TasksInv' /\ EngineInv' /\ LatestInv'
  BY <1>0, <1>1 DEF TasksInv, EngineInv, LatestInv, Running
<1> QED
  BY <1>3, <1>4, <1>5 DEF AudioIInv

LEMMA DecodedInv ==
  ASSUME AudioIInv, NEW k \in Kinds, NEW v \in Versions, Decoded(k, v)
  PROVE  AudioIInv'
<1>0. AudioTypeOK /\ AwaitsInv /\ TasksInv
  BY DEF AudioIInv
<1>1. irVersion \in Versions
  BY <1>0, AudioConstants DEF AudioTypeOK, AwaitsInv, Decoded, Versions
<1>2. PICK rest : rest = [awaits EXCEPT ![k][v] = {}]
  OBVIOUS
<1>3. /\ rest \in [Kinds -> [Versions -> SUBSET (0 .. Orphan)]]
      /\ \A j \in Kinds, w \in Versions : rest[j][w] \subseteq awaits[j][w]
  BY <1>0, <1>2 DEF AudioTypeOK
<1>4. awaits[k][v] \ {Orphan} \in SUBSET Tasks
  BY <1>0, AudioConstants DEF AudioTypeOK
<1>5. UNCHANGED renderVars
  BY DEF Decoded
<1>6. CASE /\ v = irVersion
           /\ buffer' = [buffer EXCEPT ![k] = v]
           /\ awaits' = rest
           /\ Return(k, awaits[k][v], v)
           /\ UNCHANGED decodeOf
  <2>1. /\ buffer' \in [Kinds -> Versions \cup {Absent}]
        /\ \A j \in Kinds : buffer'[j] \in {Absent, irVersion}
    BY <1>0, <1>6 DEF AudioTypeOK, TasksInv
  <2>2. Return(k, awaits[k][v], irVersion) /\ UNCHANGED decodeOf /\ awaits' = [awaits EXCEPT ![k][v] = {}]
    BY <1>2, <1>6
  <2> QED
    BY <1>1, <1>5, <2>1, <2>2, ReturnInv
<1>7. CASE /\ decodeOf' = [decodeOf EXCEPT ![k] = Absent]
           /\ Fail(awaits[k][v] \ {Orphan}, rest)
           /\ UNCHANGED buffer
  <2>1. decodeOf' \in [Kinds -> Versions \cup {Absent}]
    BY <1>0, <1>7 DEF AudioTypeOK
  <2> QED
    BY <1>3, <1>4, <1>5, <1>7, <2>1, FailInv
<1>8. CASE /\ buffer[k] # Absent
           /\ awaits' = rest
           /\ Return(k, awaits[k][v], buffer[k])
           /\ UNCHANGED <<buffer, decodeOf>>
  <2>1. buffer[k] = irVersion
    BY <1>0, <1>8 DEF TasksInv
  <2>2. /\ buffer' \in [Kinds -> Versions \cup {Absent}]
        /\ \A j \in Kinds : buffer'[j] \in {Absent, irVersion}
    BY <1>0, <1>8 DEF AudioTypeOK, TasksInv
  <2>3. Return(k, awaits[k][v], irVersion) /\ UNCHANGED decodeOf /\ awaits' = [awaits EXCEPT ![k][v] = {}]
    BY <1>2, <1>8, <2>1
  <2> QED
    BY <1>1, <1>5, <2>2, <2>3, ReturnInv
<1>9. CASE /\ v # irVersion
           /\ decodeOf' = [decodeOf EXCEPT ![k] = irVersion]
           /\ awaits' = [rest EXCEPT ![k][irVersion] = @ \cup awaits[k][v]]
           /\ UNCHANGED <<buffer, task, starting, playing, engineVars, failed>>
  <2>1. awaits' = [[awaits EXCEPT ![k][v] = {}] EXCEPT ![k][irVersion] = @ \cup awaits[k][v]]
    BY <1>2, <1>9
  <2> QED
    BY <1>1, <1>5, <1>9, <2>1, TurnToCurrent
<1>10. CASE /\ Fail(awaits[k][v] \ {Orphan}, rest)
            /\ UNCHANGED <<buffer, decodeOf>>
  <2>1. decodeOf' \in [Kinds -> Versions \cup {Absent}]
    BY <1>0, <1>10 DEF AudioTypeOK
  <2> QED
    BY <1>3, <1>4, <1>5, <1>10, <2>1, FailInv
<1> QED
  BY <1>2, <1>6, <1>7, <1>8, <1>9, <1>10 DEF Decoded, Keep

\* A task begins, and awaits the decodings of some kinds for the current version.
LEMMA TaskBegins ==
  ASSUME AudioIInv, NEW n \in Tasks, task[n] = Idle, NEW r \in TaskStates, NEW wanted \in SUBSET Kinds,
         \A k \in wanted : r[k] = Waiting, irVersion' \in Versions, irVersion' >= irVersion,
         task' = [task EXCEPT ![n] = r],
         awaits' = [k \in Kinds |-> [v \in Versions |->
                      IF k \in wanted /\ v = irVersion' THEN awaits[k][v] \cup {n} ELSE awaits[k][v]]]
  PROVE  /\ AwaitsInv' /\ task' \in [Tasks -> TaskStates]
         /\ awaits' \in [Kinds -> [Versions -> SUBSET (0 .. Orphan)]]
<1>0. AudioTypeOK /\ AwaitsInv
  BY DEF AudioIInv
<1>1. /\ task' \in [Tasks -> TaskStates] /\ task'[n] = r
      /\ \A t \in Tasks : t # n => task'[t] = task[t]
  BY <1>0 DEF AudioTypeOK
<1>2. \A k \in Kinds, v \in Versions : n \notin awaits[k][v]
  BY <1>0, AudioConstants DEF AwaitsInv
<1>3. \A k \in Kinds, v \in Versions : awaits'[k][v] =
        IF k \in wanted /\ v = irVersion' THEN awaits[k][v] \cup {n} ELSE awaits[k][v]
  OBVIOUS
<1>4. n \in 0 .. Orphan
  BY AudioConstants DEF Orphan
<1>5. \A k \in Kinds, v \in Versions : awaits'[k][v] \in SUBSET (0 .. Orphan)
  BY <1>0, <1>3, <1>4 DEF AudioTypeOK
<1>6. awaits' \in [Kinds -> [Versions -> SUBSET (0 .. Orphan)]]
  <2>1. ASSUME NEW k \in Kinds PROVE awaits'[k] \in [Versions -> SUBSET (0 .. Orphan)]
    <3>1. PICK f : f = awaits'[k]
      OBVIOUS
    <3>2. f = [v \in Versions |-> f[v]] /\ \A v \in Versions : f[v] \in SUBSET (0 .. Orphan)
      BY <1>5, <3>1
    <3> QED
      BY <3>1, <3>2
  <2> QED
    BY <2>1
<1>7. ASSUME NEW k \in Kinds, NEW v \in Versions, NEW t \in Tasks, t \in awaits'[k][v]
      PROVE  task'[t][k] = Waiting /\ \A w \in Versions : t \in awaits'[k][w] => w = v
  <2>1. CASE t = n
    BY <1>1, <1>2, <1>3, <1>7, <2>1
  <2>2. CASE t # n
    <3>1. \A w \in Versions : t \in awaits'[k][w] => t \in awaits[k][w]
      BY <1>3, <2>2
    <3>2. task[t][k] = Waiting /\ \A w \in Versions : t \in awaits[k][w] => w = v
      BY <1>0, <1>7, <3>1 DEF AwaitsInv
    <3> QED
      BY <1>1, <2>2, <3>1, <3>2
  <2> QED
    BY <2>1, <2>2
<1>8. ASSUME NEW k \in Kinds, NEW v \in Versions, v > irVersion' PROVE awaits'[k][v] = {}
  <2>1. v > irVersion /\ v # irVersion'
    BY <1>0, <1>8, AudioConstants DEF Versions, AudioTypeOK
  <2> QED
    BY <1>0, <1>3, <2>1 DEF AwaitsInv
<1> QED
  BY <1>1, <1>6, <1>7, <1>8 DEF AwaitsInv

LEMMA UpdateAudioInv ==
  ASSUME AudioIInv, NEW portal \in BOOLEAN, UpdateAudio(portal)
  PROVE  AudioIInv'
<1>0. AudioTypeOK /\ AwaitsInv /\ TasksInv /\ EngineInv /\ LatestInv
  BY DEF AudioIInv
<1>1. /\ irVersion' = irVersion + 1 /\ irVersion' \in Versions /\ irVersion' \in Tasks
      /\ irVersion \in Nat /\ irVersion' > irVersion /\ irVersion' # 0
  BY <1>0, AudioConstants DEF UpdateAudio, AudioTypeOK, Versions
<1>2. PICK n \in Versions : n = irVersion'
  BY <1>1
<1>3. task[n] = Idle /\ \A k \in Kinds : awaits[k][n] = {}
  BY <1>0, <1>1, <1>2 DEF TasksInv, AwaitsInv
<1>4. /\ UNCHANGED <<starting, playing, response, source, branches, cleanup, naturalStop, late>>
      /\ failed' = FALSE /\ portalWavs' \in BOOLEAN /\ buffer' = [k \in Kinds |-> Absent]
  BY DEF UpdateAudio, engineVars
<1>5. EngineInv'
  BY <1>0, <1>4 DEF EngineInv
<1>t. irVersion' \in 0 .. MaxVersions /\ buffer' \in [Kinds -> Versions \cup {Absent}]
  BY <1>1, <1>4, AudioConstants
<1>6. CASE /\ source = "none" /\ decodeOf' = [k \in Kinds |-> Absent] /\ UNCHANGED <<awaits, task>>
  <2>1. AudioTypeOK'
    <3>1. decodeOf' \in [Kinds -> Versions \cup {Absent}]
      BY <1>6
    <3> QED
      BY <1>0, <1>t, <1>4, <1>6, <3>1 DEF AudioTypeOK
  <2>2. AwaitsInv'
    <3>1. \A v \in Versions : v > irVersion' => v > irVersion
      BY <1>1, AudioConstants DEF Versions
    <3> QED
      BY <1>0, <1>6, <3>1 DEF AwaitsInv
  <2>3. TasksInv'
    <3>1. \A t \in Tasks : t > irVersion' => t > irVersion
      BY <1>1, AudioConstants
    <3>2. \A k \in Kinds : task'[irVersion'][k] \in {Absent, Waiting, irVersion'}
      BY <1>2, <1>3, <1>6, AudioConstants
    <3> QED
      BY <1>0, <1>1, <1>4, <1>6, <3>1, <3>2 DEF TasksInv
  <2>4. LatestInv'
    BY <1>4, <1>6 DEF LatestInv
  <2> QED
    BY <1>5, <2>1, <2>2, <2>3, <2>4 DEF AudioIInv
<1>7. ASSUME NEW enabled \in BOOLEAN, NEW wanted, wanted = IF enabled THEN Kinds ELSE {"ir"},
             decodeOf' = [k \in Kinds |-> IF k \in wanted THEN n ELSE Absent],
             awaits' = [k \in Kinds |-> IF k \in wanted THEN [awaits[k] EXCEPT ![n] = {n}] ELSE awaits[k]],
             task' = [task EXCEPT ![n] = [ir |-> Waiting, portal |-> IF enabled THEN Waiting ELSE Absent,
                                          dry |-> Absent]]
      PROVE  AudioIInv'
  <2>1. PICK r : r = [ir |-> Waiting, portal |-> IF enabled THEN Waiting ELSE Absent, dry |-> Absent]
    OBVIOUS
  <2>2. /\ r \in TaskStates /\ r.ir # Absent /\ r # Idle /\ wanted \in SUBSET Kinds
        /\ \A k \in wanted : r[k] = Waiting
        /\ \A k \in Kinds : r[k] \in {Absent, Waiting}
    <3>1. Waiting \in 0 .. MaxVersions
      BY AudioConstants DEF Waiting
    <3>2. r \in TaskStates /\ r.ir = Waiting /\ r.portal = IF enabled THEN Waiting ELSE Absent
      BY <2>1, <3>1 DEF TaskStates
    <3> QED
      BY <1>7, <3>2, AudioConstants DEF Kinds
  <2>3. task' = [task EXCEPT ![n] = r] /\ irVersion' >= irVersion /\ n \in Tasks
    BY <1>1, <1>2, <1>7, <2>1
  <2>4. awaits' = [k \in Kinds |-> [v \in Versions |->
                     IF k \in wanted /\ v = irVersion' THEN awaits[k][v] \cup {n} ELSE awaits[k][v]]]
    <3>1. ASSUME NEW k \in Kinds
          PROVE  awaits'[k] = [v \in Versions |->
                     IF k \in wanted /\ v = irVersion' THEN awaits[k][v] \cup {n} ELSE awaits[k][v]]
      <4>1. awaits[k] \in [Versions -> SUBSET (0 .. Orphan)] /\ awaits[k][n] = {}
        BY <1>0, <1>3 DEF AudioTypeOK
      <4>2. CASE k \in wanted
        <5>1. awaits'[k] = [awaits[k] EXCEPT ![n] = {n}]
          BY <1>7, <4>2
        <5>2. PICK a : a = awaits[k]
          OBVIOUS
        <5>3. a \in [Versions -> SUBSET (0 .. Orphan)] /\ a[n] \cup {n} = {n}
          BY <4>1, <5>2
        <5>4. [a EXCEPT ![n] = {n}] = [v \in Versions |-> IF v = n THEN a[v] \cup {n} ELSE a[v]]
          BY <5>3
        <5> QED
          BY <1>2, <4>2, <5>1, <5>2, <5>4
      <4>3. CASE k \notin wanted
        BY <1>7, <4>1, <4>3
      <4> QED
        BY <4>2, <4>3
    <3>2. awaits' = [k \in Kinds |-> awaits'[k]]
      BY <1>7
    <3> QED
      BY <3>1, <3>2
  <2>5. /\ AwaitsInv' /\ task' \in [Tasks -> TaskStates]
        /\ awaits' \in [Kinds -> [Versions -> SUBSET (0 .. Orphan)]]
    BY <1>1, <1>3, <2>2, <2>3, <2>4, TaskBegins
  <2>6. AudioTypeOK'
    <3>1. decodeOf' \in [Kinds -> Versions \cup {Absent}]
      BY <1>7
    <3> QED
      BY <1>0, <1>t, <1>4, <2>5, <3>1 DEF AudioTypeOK
  <2>7. task'[n] = r /\ \A t \in Tasks : t # n => task'[t] = task[t]
    BY <1>0, <2>3 DEF AudioTypeOK
  <2>8. TasksInv'
    <3>1. \A t \in Tasks : t > n => t > irVersion /\ t # n
      BY <1>1, <1>2, AudioConstants
    <3> QED
      BY <1>0, <1>1, <1>2, <1>4, <2>2, <2>7, <3>1 DEF TasksInv
  <2>9. LatestInv'
    BY <1>1, <1>2, <2>2, <2>7 DEF LatestInv, Running
  <2> QED
    BY <1>5, <2>5, <2>6, <2>8, <2>9 DEF AudioIInv
<1>8. CASE \E enabled \in {FALSE, portal} :
             LET wanted == IF enabled THEN Kinds ELSE {"ir"} IN
             /\ decodeOf' = [k \in Kinds |-> IF k \in wanted THEN irVersion' ELSE Absent]
             /\ awaits' = [k \in Kinds |->
                             IF k \in wanted THEN [awaits[k] EXCEPT ![irVersion'] = {irVersion'}]
                             ELSE awaits[k]]
             /\ task' = [task EXCEPT ![irVersion'] =
                           [ir |-> Waiting, portal |-> IF enabled THEN Waiting ELSE Absent,
                            dry |-> Absent]]
  <2>1. PICK enabled \in BOOLEAN :
             LET wanted == IF enabled THEN Kinds ELSE {"ir"} IN
             /\ decodeOf' = [k \in Kinds |-> IF k \in wanted THEN n ELSE Absent]
             /\ awaits' = [k \in Kinds |-> IF k \in wanted THEN [awaits[k] EXCEPT ![n] = {n}] ELSE awaits[k]]
             /\ task' = [task EXCEPT ![n] = [ir |-> Waiting, portal |-> IF enabled THEN Waiting ELSE Absent,
                                             dry |-> Absent]]
    BY <1>2, <1>8
  <2> QED
    BY <1>7, <2>1
<1> QED
  BY <1>6, <1>8 DEF UpdateAudio

LEMMA ContextRunsInv ==
  ASSUME AudioIInv, ContextRuns
  PROVE  AudioIInv'
<1>0. AudioTypeOK /\ AwaitsInv /\ TasksInv /\ EngineInv /\ LatestInv
  BY DEF AudioIInv
<1>1. irVersion \in Versions /\ irVersion \in Tasks /\ irVersion # Start /\ task[Start] = Idle
  BY <1>0, AudioConstants DEF ContextRuns, Running, TasksInv, AudioTypeOK, Versions, Start
<1>2. UNCHANGED <<irVersion, portalWavs, buffer, starting, playing, response, source, branches,
                  cleanup, naturalStop, late, failed>>
  BY DEF ContextRuns, renderVars, engineVars
<1>3. PICK enabled \in BOOLEAN :
       LET wanted == IF enabled THEN Kinds ELSE {"ir"}
           decode == {k \in wanted : buffer[k] = Absent}
           got(k) == IF k \in decode THEN Waiting ELSE IF k \in wanted THEN buffer[k] ELSE Absent
       IN
       /\ decodeOf' = [k \in Kinds |-> IF k \in decode THEN irVersion ELSE decodeOf[k]]
       /\ awaits' = [k \in Kinds |->
                       IF k \in decode THEN [awaits[k] EXCEPT ![irVersion] = @ \cup {Start}]
                       ELSE awaits[k]]
       /\ task' = [task EXCEPT ![Start] =
                     [ir |-> got("ir"), portal |-> got("portal"), dry |-> Waiting]]
  <2>1. \A enabled \in {FALSE, portalWavs} : enabled \in BOOLEAN
    BY <1>0 DEF AudioTypeOK
  <2> QED
    BY <2>1, Zenon DEF ContextRuns
<1>4. PICK decode, i, p :
        /\ decode \in SUBSET Kinds
        /\ i = IF "ir" \in decode THEN Waiting ELSE buffer["ir"]
        /\ "ir" \in decode <=> buffer["ir"] = Absent
        /\ "portal" \in decode => p = Waiting
        /\ "portal" \notin decode => p = buffer["portal"] \/ p = Absent
        /\ decodeOf' = [k \in Kinds |-> IF k \in decode THEN irVersion ELSE decodeOf[k]]
        /\ awaits' = [k \in Kinds |->
                        IF k \in decode THEN [awaits[k] EXCEPT ![irVersion] = @ \cup {Start}]
                        ELSE awaits[k]]
        /\ task' = [task EXCEPT ![Start] = [ir |-> i, portal |-> p, dry |-> Waiting]]
  <2> DEFINE wanted == IF enabled THEN Kinds ELSE {"ir"}
             decode == {k \in wanted : buffer[k] = Absent}
             got(k) == IF k \in decode THEN Waiting ELSE IF k \in wanted THEN buffer[k] ELSE Absent
  <2>1. decode \in SUBSET Kinds /\ "ir" \in wanted /\ ("ir" \in decode <=> buffer["ir"] = Absent)
    BY DEF Kinds
  <2>2. /\ decodeOf' = [k \in Kinds |-> IF k \in decode THEN irVersion ELSE decodeOf[k]]
        /\ awaits' = [k \in Kinds |->
                        IF k \in decode THEN [awaits[k] EXCEPT ![irVersion] = @ \cup {Start}]
                        ELSE awaits[k]]
        /\ task' = [task EXCEPT ![Start] = [ir |-> got("ir"), portal |-> got("portal"), dry |-> Waiting]]
    BY <1>3
  <2>3. /\ got("ir") = IF "ir" \in decode THEN Waiting ELSE buffer["ir"]
        /\ "portal" \in decode => got("portal") = Waiting
        /\ "portal" \notin decode => got("portal") = buffer["portal"] \/ got("portal") = Absent
    BY <2>1
  <2> HIDE DEF got, decode, wanted
  <2> QED
    BY <2>1, <2>2, <2>3
<1>5. PICK r : r = [ir |-> i, portal |-> p, dry |-> Waiting]
  OBVIOUS
<1>6. r \in TaskStates /\ r.ir # Absent /\ \A k \in decode : r[k] = Waiting
  <2>1. Waiting \in 0 .. MaxVersions /\ Versions \subseteq 0 .. MaxVersions
    BY AudioConstants DEF Waiting
  <2>2. buffer["ir"] \in Versions \cup {Absent} /\ buffer["portal"] \in Versions \cup {Absent}
    BY <1>0 DEF AudioTypeOK, Kinds
  <2>3. i \in 0 .. MaxVersions \cup {Absent} /\ i # Absent /\ p \in 0 .. MaxVersions \cup {Absent}
    BY <1>4, <2>1, <2>2, AudioConstants
  <2>4. r \in TaskStates /\ r.ir = i /\ r.portal = p
    BY <1>5, <2>3 DEF TaskStates
  <2> QED
    BY <1>4, <2>3, <2>4 DEF Kinds
<1>7. task' = [task EXCEPT ![Start] = r] /\ irVersion' \in Versions /\ irVersion' >= irVersion
  BY <1>1, <1>2, <1>4, <1>5, AudioConstants DEF Versions
<1>8. awaits' = [k \in Kinds |-> [v \in Versions |->
                   IF k \in decode /\ v = irVersion' THEN awaits[k][v] \cup {Start} ELSE awaits[k][v]]]
  <2>1. ASSUME NEW k \in Kinds
        PROVE  awaits'[k] = [v \in Versions |->
                   IF k \in decode /\ v = irVersion' THEN awaits[k][v] \cup {Start} ELSE awaits[k][v]]
    <3>1. awaits[k] \in [Versions -> SUBSET (0 .. Orphan)]
      BY <1>0 DEF AudioTypeOK
    <3>2. CASE k \in decode
      <4>1. PICK a : a = awaits[k]
        OBVIOUS
      <4>2. awaits'[k] = [a EXCEPT ![irVersion] = a[irVersion] \cup {Start}]
        BY <1>4, <3>2, <4>1
      <4>3. [a EXCEPT ![irVersion] = a[irVersion] \cup {Start}]
              = [v \in Versions |-> IF v = irVersion THEN a[v] \cup {Start} ELSE a[v]]
        BY <3>1, <4>1
      <4> QED
        BY <1>2, <3>2, <4>1, <4>2, <4>3
    <3>3. CASE k \notin decode
      BY <1>4, <3>1, <3>3
    <3> QED
      BY <3>2, <3>3
  <2>2. awaits' = [k \in Kinds |-> awaits'[k]]
    BY <1>4
  <2> QED
    BY <2>1, <2>2
<1>9. /\ AwaitsInv' /\ task' \in [Tasks -> TaskStates]
      /\ awaits' \in [Kinds -> [Versions -> SUBSET (0 .. Orphan)]]
  <2>1. decode \in SUBSET Kinds /\ Start \in Tasks
    BY <1>4, AudioConstants
  <2> QED
    BY <1>1, <1>6, <1>7, <1>8, <2>1, TaskBegins
<1>10. AudioTypeOK'
  <2>1. decodeOf' \in [Kinds -> Versions \cup {Absent}]
    BY <1>0, <1>1, <1>4 DEF AudioTypeOK
  <2> QED
    BY <1>0, <1>2, <1>9, <2>1 DEF AudioTypeOK
<1>11. task'[Start] = r /\ \A t \in Tasks : t # Start => task'[t] = task[t]
  BY <1>0, <1>7, AudioConstants DEF AudioTypeOK
<1>12. TasksInv'
  <2>1. ~(Start > irVersion)
    BY <1>1, AudioConstants DEF Start, Versions
  <2> QED
    BY <1>0, <1>1, <1>2, <1>6, <1>11, <2>1 DEF TasksInv
<1>13. EngineInv'
  BY <1>0, <1>2 DEF EngineInv
<1>14. LatestInv'
  BY <1>0, <1>1, <1>2, <1>11 DEF LatestInv, Running
<1> QED
  BY <1>9, <1>10, <1>12, <1>13, <1>14 DEF AudioIInv

LEMMA ContextFailsInv ==
  ASSUME AudioIInv, ContextFails
  PROVE  AudioIInv'
<1>1. AudioTypeOK /\ {Start} \in SUBSET Tasks
  BY AudioConstants DEF AudioIInv
<1>2. /\ awaits \in [Kinds -> [Versions -> SUBSET (0 .. Orphan)]]
      /\ \A k \in Kinds, v \in Versions : awaits[k][v] \subseteq awaits[k][v]
      /\ Fail({Start}, awaits) /\ UNCHANGED <<renderVars, buffer>>
      /\ decodeOf' \in [Kinds -> Versions \cup {Absent}]
  BY <1>1 DEF AudioTypeOK, ContextFails
<1> QED
  BY <1>1, <1>2, FailInv

LEMMA DryLoadedInv ==
  ASSUME AudioIInv, DryLoaded
  PROVE  AudioIInv'
<1>0. AudioTypeOK /\ AwaitsInv /\ TasksInv /\ EngineInv /\ LatestInv
  BY DEF AudioIInv
<1>1. CASE Fail({Start}, awaits)
  <2>1. /\ awaits \in [Kinds -> [Versions -> SUBSET (0 .. Orphan)]]
        /\ \A k \in Kinds, v \in Versions : awaits[k][v] \subseteq awaits[k][v]
        /\ UNCHANGED <<renderVars, buffer>>
        /\ decodeOf' \in [Kinds -> Versions \cup {Absent}]
    BY <1>0 DEF AudioTypeOK, DryLoaded
  <2>2. {Start} \in SUBSET Tasks
    BY AudioConstants
  <2> QED
    BY <1>1, <2>1, <2>2, FailInv
<1>2. CASE Return("dry", {Start}, Absent) /\ UNCHANGED awaits
  <2>1. UNCHANGED <<irVersion, portalWavs, buffer, decodeOf, awaits, starting, playing, response, source,
                    branches, cleanup, naturalStop, late, failed>>
    BY <1>2 DEF DryLoaded, Return, renderVars, engineVars
  <2>2. PICK r : r = [task[Start] EXCEPT !["dry"] = Absent]
    OBVIOUS
  <2>3. task' = [t \in Tasks |-> IF t = Start THEN r ELSE task[t]]
    BY <1>2, <2>2 DEF Return
  <2>4. task[Start] \in TaskStates /\ task[Start].ir # Absent /\ Running(Start)
    BY <1>0, AudioConstants DEF AudioTypeOK, DryLoaded, TasksInv, Running
  <2>5. r \in TaskStates /\ r.ir = task[Start].ir /\ r.portal = task[Start].portal
    BY <2>2, <2>4 DEF TaskStates
  <2>6. r # Idle /\ r.ir # Absent /\ \A k \in Kinds : r[k] = task[Start][k]
    BY <2>4, <2>5, AudioConstants DEF Kinds
  <2>7. AudioTypeOK'
    BY <1>0, <2>1, <2>3, <2>5 DEF AudioTypeOK
  <2>8. \A t \in Tasks, k \in Kinds : task'[t][k] = task[t][k]
    BY <2>3, <2>6
  <2>9. AwaitsInv'
    BY <1>0, <2>1, <2>8 DEF AwaitsInv
  <2>10. TasksInv'
    <3>1. \A t \in Tasks : t > irVersion => task'[t] = task[t]
      BY <1>0, <2>3, <2>4 DEF TasksInv, Running
    <3>2. \A t \in Tasks : task'[t].ir = Absent => task'[t] = Idle
      BY <1>0, <2>3, <2>6 DEF TasksInv
    <3>3. irVersion > 0 => irVersion \in Tasks
      BY <1>0, AudioConstants DEF AudioTypeOK
    <3> QED
      BY <1>0, <2>1, <2>8, <3>1, <3>2, <3>3 DEF TasksInv
  <2>11. EngineInv'
    BY <1>0, <2>1 DEF EngineInv
  <2>12. LatestInv'
    <3>1. irVersion > 0 /\ Running(irVersion) => Running(irVersion)'
      <4>1. irVersion \in Tasks
        BY <1>0, AudioConstants DEF AudioTypeOK
      <4> QED
        BY <2>1, <2>3, <2>6, <4>1 DEF Running
    <3> QED
      BY <1>0, <2>1, <3>1 DEF LatestInv
  <2> QED
    BY <2>7, <2>9, <2>10, <2>11, <2>12 DEF AudioIInv
<1> QED
  BY <1>1, <1>2 DEF DryLoaded

\* A task that has all it awaits waits for no decoding, and ends.
LEMMA TaskEnds ==
  ASSUME AudioIInv, NEW t \in Tasks, Awaited(t), task' = [task EXCEPT ![t] = Idle],
         UNCHANGED <<renderVars, decodeVars>>, starting' => starting
  PROVE  /\ AwaitsInv' /\ TasksInv' /\ task' \in [Tasks -> TaskStates]
         /\ UNCHANGED <<irVersion, portalWavs, buffer, decodeOf, awaits>>
         /\ task'[t] = Idle /\ \A u \in Tasks : u # t => task'[u] = task[u]
<1>0. AudioTypeOK /\ AwaitsInv /\ TasksInv
  BY DEF AudioIInv
<1>1. UNCHANGED <<irVersion, portalWavs, buffer, decodeOf, awaits>>
  BY DEF renderVars, decodeVars
<1>2. task'[t] = Idle /\ \A u \in Tasks : u # t => task'[u] = task[u]
  BY <1>0 DEF AudioTypeOK
<1>3. task' \in [Tasks -> TaskStates]
  BY <1>0, AudioConstants DEF AudioTypeOK
<1>4. task[t].ir # Waiting /\ task[t].portal # Waiting
  <2>1. task[t] \in TaskStates
    BY <1>0 DEF AudioTypeOK
  <2>2. "ir" \in DOMAIN task[t] /\ "portal" \in DOMAIN task[t]
    BY <2>1 DEF TaskStates
  <2> QED
    BY <2>2 DEF Awaited
<1>5. \A k \in Kinds, v \in Versions : t \notin awaits[k][v]
  BY <1>0, <1>4 DEF AwaitsInv, Kinds
<1>6. AwaitsInv'
  BY <1>0, <1>1, <1>2, <1>5 DEF AwaitsInv
<1>7. TasksInv'
  <2>1. \A u \in Tasks : task'[u] = Idle \/ task'[u] = task[u]
    BY <1>2
  <2>2. irVersion > 0 => irVersion \in Tasks
    BY <1>0, AudioConstants DEF AudioTypeOK
  <2> QED
    BY <1>0, <1>1, <2>1, <2>2, AudioConstants DEF TasksInv
<1> QED
  BY <1>1, <1>2, <1>3, <1>6, <1>7

\* What it has makes up a response, that of its version if it is the latest task.
LEMMA BuffersOf ==
  ASSUME AudioIInv, NEW t \in Tasks, Awaited(t)
  PROVE  /\ Buffers(t) \in Responses
         /\ (t = irVersion /\ t # Start) => Buffers(t)[2] = irVersion
<1>0. AudioTypeOK /\ TasksInv
  BY DEF AudioIInv
<1>1. task[t] \in TaskStates
  BY <1>0 DEF AudioTypeOK
<1>2. task[t].ir # Waiting /\ task[t].portal # Waiting /\ task[t].ir # Absent
  <2>1. "ir" \in DOMAIN task[t] /\ "portal" \in DOMAIN task[t]
    BY <1>1 DEF TaskStates
  <2> QED
    BY <1>0, <2>1 DEF Awaited, Running, TasksInv
<1>3. task[t].ir \in Versions /\ task[t].portal \in Versions \cup {Absent}
  <2>1. task[t].ir \in 0 .. MaxVersions \cup {Absent} /\ task[t].portal \in 0 .. MaxVersions \cup {Absent}
    BY <1>1 DEF TaskStates
  <2>2. \A x \in 0 .. MaxVersions : x # Waiting => x \in Versions
    BY AudioConstants DEF Waiting, Versions
  <2> QED
    BY <1>2, <2>1, <2>2
<1>4. Buffers(t) \in Responses
  BY <1>3 DEF Buffers, Responses, Kinds
<1>5. ASSUME t = irVersion, t # Start PROVE Buffers(t)[2] = irVersion
  <2>1. irVersion > 0
    BY <1>0, <1>5 DEF AudioTypeOK, Start
  <2>2. task[t].ir \in {Absent, Waiting, irVersion} /\ task[t].portal \in {Absent, Waiting, irVersion}
    BY <1>0, <1>5, <2>1 DEF TasksInv, Kinds
  <2> QED
    BY <1>2, <2>2 DEF Buffers
<1> QED
  BY <1>4, <1>5

LEMMA BranchFacts ==
  ASSUME NEW r \in Responses
  PROVE  /\ Branch(r) \in Branches /\ ~Branch(r).fading
         /\ \A set \in SUBSET Branches :
              Faded(set) \in SUBSET Branches /\ \A b \in Faded(set) : b.fading
<1>1. Branch(r) \in Branches /\ ~Branch(r).fading
  BY DEF Branch, Branches
<1>2. ASSUME NEW set \in SUBSET Branches, NEW b \in Faded(set)
      PROVE  b \in Branches /\ b.fading
  BY DEF Faded, Branches
<1> QED
  BY <1>1, <1>2

LEMMA PlaybackStartsInv ==
  ASSUME AudioIInv, PlaybackStarts
  PROVE  AudioIInv'
<1>0. AudioTypeOK /\ Start \in Tasks /\ Awaited(Start)
  BY AudioConstants DEF AudioIInv, PlaybackStarts
<1>1. PICK r \in Responses : r = Buffers(Start)
  BY <1>0, BuffersOf
<1>2. task' = [task EXCEPT ![Start] = Idle] /\ UNCHANGED <<renderVars, decodeVars>> /\ (starting' => starting)
  BY DEF PlaybackStarts
<1>3. /\ AwaitsInv' /\ TasksInv' /\ task' \in [Tasks -> TaskStates]
      /\ UNCHANGED <<irVersion, portalWavs, buffer, decodeOf, awaits>>
  BY <1>0, <1>2, TaskEnds
<1>4. /\ response' = r /\ source' = "active" /\ branches' = {Branch(r)} /\ cleanup' = Absent
      /\ naturalStop' = TRUE /\ late' = (r[2] # irVersion)
      /\ playing' = TRUE /\ starting' = FALSE /\ failed' = failed
  BY <1>1 DEF PlaybackStarts, SetAndPlay
<1>5. AudioTypeOK'
  <2>1. branches' \in SUBSET Branches /\ late' \in BOOLEAN
    BY <1>4, BranchFacts
  <2> QED
    BY <1>0, <1>3, <1>4, <2>1 DEF AudioTypeOK
<1>6. EngineInv'
  BY <1>4 DEF EngineInv
<1>7. LatestInv'
  BY <1>3, <1>4 DEF LatestInv
<1> QED
  BY <1>3, <1>5, <1>6, <1>7 DEF AudioIInv

\* Only what fades out is left to the timer.
LEMMA SetResponseInv ==
  ASSUME AudioTypeOK, EngineInv, NEW r \in Responses, SetResponse(r)
  PROVE  /\ EngineInv' /\ response' = r /\ source' = source /\ late' = FALSE
         /\ branches' \in SUBSET Branches /\ naturalStop' \in BOOLEAN
         /\ cleanup' = Absent \/ cleanup' \in SUBSET Branches
<1>1. response' = r /\ source' = source /\ late' = FALSE
  BY DEF SetResponse
<1>2. /\ Branch(r) \in Branches /\ ~Branch(r).fading
      /\ Faded(branches) \in SUBSET Branches /\ \A b \in Faded(branches) : b.fading
  BY BranchFacts DEF AudioTypeOK
<1>3. CASE source # "active"
  <2>1. UNCHANGED <<branches, cleanup, naturalStop>>
    BY <1>3 DEF SetResponse
  <2> QED
    BY <1>1, <1>3, <2>1 DEF EngineInv, AudioTypeOK
<1>4. CASE source = "active" /\ r[1] = "ir"
  <2>1. /\ branches' = {Branch(r)} \cup Faded(branches) /\ cleanup' = Faded(branches)
        /\ naturalStop' = TRUE
    BY <1>4 DEF SetResponse, OldBranches
  <2>2. cleanup' # Absent /\ Branch(r) \in Branches
    BY <1>2, <2>1, AuralizationAssumption
  <2>3. EngineInv'
    BY <1>1, <1>2, <2>1, <2>2 DEF EngineInv
  <2> QED
    BY <1>1, <1>2, <2>1, <2>3
<1>5. CASE source = "active" /\ r[1] # "ir"
  <2>1. branches' = {Branch(r)} /\ cleanup' = cleanup /\ naturalStop' = TRUE
    BY <1>5 DEF SetResponse
  <2>2. EngineInv'
    BY <1>1, <2>1 DEF EngineInv
  <2> QED
    BY <1>1, <1>2, <2>1, <2>2 DEF AudioTypeOK
<1> QED
  BY <1>3, <1>4, <1>5

LEMMA InstallInv ==
  ASSUME AudioIInv, NEW t \in Tasks, Install(t)
  PROVE  AudioIInv'
<1>0. AudioTypeOK /\ EngineInv /\ LatestInv /\ Awaited(t) /\ t # Start
  BY DEF AudioIInv, Install
<1>1. task' = [task EXCEPT ![t] = Idle] /\ UNCHANGED <<renderVars, decodeVars>> /\ (starting' => starting)
  BY DEF Install
<1>2. /\ AwaitsInv' /\ TasksInv' /\ task' \in [Tasks -> TaskStates]
      /\ UNCHANGED <<irVersion, portalWavs, buffer, decodeOf, awaits>>
      /\ \A u \in Tasks : u # t => task'[u] = task[u]
  BY <1>0, <1>1, TaskEnds
<1>3. UNCHANGED <<starting, playing, failed>>
  BY DEF Install
<1>4. CASE t = irVersion
  <2>1. PICK r \in Responses : r = Buffers(t) /\ r[2] = irVersion
    BY <1>0, <1>4, BuffersOf
  <2>2. SetResponse(r)
    BY <1>4, <2>1 DEF Install
  <2>3. /\ EngineInv' /\ response' = r /\ source' = source /\ late' = FALSE
        /\ branches' \in SUBSET Branches /\ naturalStop' \in BOOLEAN
        /\ cleanup' = Absent \/ cleanup' \in SUBSET Branches
    BY <1>0, <2>2, SetResponseInv
  <2>4. AudioTypeOK'
    BY <1>0, <1>2, <1>3, <2>3 DEF AudioTypeOK
  <2>5. LatestInv'
    BY <1>2, <2>1, <2>3 DEF LatestInv
  <2> QED
    BY <1>2, <2>3, <2>4, <2>5 DEF AudioIInv
<1>5. CASE t # irVersion
  <2>1. UNCHANGED <<response, source, branches, cleanup, naturalStop, late>>
    BY <1>5 DEF Install, engineVars
  <2>2. AudioTypeOK'
    BY <1>0, <1>2, <1>3, <2>1 DEF AudioTypeOK
  <2>3. EngineInv'
    BY <1>0, <2>1 DEF EngineInv
  <2>4. irVersion > 0 /\ Running(irVersion) => Running(irVersion)'
    <3>1. irVersion \in Tasks
      BY <1>0, AudioConstants DEF AudioTypeOK
    <3> QED
      BY <1>2, <1>5, <3>1 DEF Running
  <2>5. LatestInv'
    BY <1>0, <1>2, <1>3, <2>1, <2>4 DEF LatestInv
  <2> QED
    BY <1>2, <2>2, <2>3, <2>5 DEF AudioIInv
<1> QED
  BY <1>4, <1>5

\* Clicks, timers and the end of the source change nothing but the engine.
LEMMA EngineStepInv ==
  ASSUME AudioIInv, StartPlayback \/ StopPlayback \/ FadeEnds \/ SourceEnded \/ NaturalStop
  PROVE  AudioIInv'
<1>0. AudioTypeOK /\ AwaitsInv /\ TasksInv /\ EngineInv /\ LatestInv
  BY DEF AudioIInv
<1>1. UNCHANGED <<irVersion, portalWavs, buffer, decodeOf, awaits, task, failed>>
  BY DEF StartPlayback, StopPlayback, FadeEnds, SourceEnded, NaturalStop, renderVars, decodeVars
<1>2. AwaitsInv'
  BY <1>0, <1>1 DEF AwaitsInv
<1>3. TasksInv'
  <2>1. starting' => irVersion > 0
    BY <1>0 DEF StartPlayback, StopPlayback, FadeEnds, SourceEnded, NaturalStop, TasksInv
  <2> QED
    BY <1>0, <1>1, <2>1 DEF TasksInv
<1>4. CASE StartPlayback
  <2>1. UNCHANGED <<playing, response, source, branches, cleanup, naturalStop, late>> /\ starting' = TRUE
    BY <1>4 DEF StartPlayback, engineVars
  <2> QED
    BY <1>0, <1>1, <1>2, <1>3, <2>1 DEF AudioIInv, AudioTypeOK, EngineInv, LatestInv, Running
<1>5. CASE StopPlayback \/ NaturalStop
  <2>1. /\ source' = "none" /\ branches' = {} /\ cleanup' = Absent /\ naturalStop' = FALSE
        /\ late' = FALSE /\ response' = response /\ playing' = FALSE /\ starting' = starting
    BY <1>5 DEF StopPlayback, NaturalStop, StopEngine
  <2> QED
    BY <1>0, <1>1, <1>2, <1>3, <2>1 DEF AudioIInv, AudioTypeOK, EngineInv, LatestInv
<1>6. CASE FadeEnds
  <2>1. /\ cleanup # Absent /\ cleanup' = Absent /\ branches' = branches \ cleanup
        /\ UNCHANGED <<starting, playing, response, source, naturalStop, late>>
    BY <1>6 DEF FadeEnds
  <2>2. EngineInv'
    <3>1. ASSUME source = "active"
          PROVE  /\ response \in Responses /\ Branch(response) \in branches'
                 /\ branches' \subseteq {Branch(response)}
      <4>1. ~Branch(response).fading
        BY <1>0, <3>1, BranchFacts DEF EngineInv
      <4> QED
        BY <1>0, <2>1, <3>1, <4>1 DEF EngineInv
    <3> QED
      BY <2>1, <3>1 DEF EngineInv
  <2>3. AudioTypeOK'
    BY <1>0, <1>1, <2>1 DEF AudioTypeOK
  <2>4. LatestInv'
    BY <1>0, <1>1, <2>1 DEF LatestInv, Running
  <2> QED
    BY <1>2, <1>3, <2>2, <2>3, <2>4 DEF AudioIInv
<1>7. CASE SourceEnded
  <2>1. /\ source' = "ended"
        /\ UNCHANGED <<starting, playing, response, branches, cleanup, naturalStop, late>>
    BY <1>7 DEF SourceEnded
  <2> QED
    BY <1>0, <1>1, <1>2, <1>3, <2>1 DEF AudioIInv, AudioTypeOK, EngineInv, LatestInv
<1> QED
  BY <1>4, <1>5, <1>6, <1>7

LEMMA AudioStutters ==
  ASSUME AudioIInv, UNCHANGED audioVars
  PROVE  AudioIInv'
<1>1. UNCHANGED <<irVersion, portalWavs, buffer, decodeOf, awaits, task, starting, playing, response,
                  source, branches, cleanup, naturalStop, failed, late>>
  BY DEF audioVars
<1> QED
  BY <1>1 DEF AudioIInv, AudioTypeOK, AwaitsInv, TasksInv, EngineInv, LatestInv, Running

LEMMA AudioInvariance == Spec => []AudioIInv
<1>1. Init => AudioIInv
  BY AudioInitInv DEF Init
<1>2. ASSUME AudioIInv, AudioStep PROVE AudioIInv'
  BY <1>2, DecodedInv, ContextRunsInv, ContextFailsInv, DryLoadedInv, PlaybackStartsInv,
     InstallInv, EngineStepInv DEF AudioStep
<1>3. AudioIInv /\ [Next]_vars => AudioIInv'
  BY <1>2, UpdateAudioInv, AudioStutters DEF Next, Result, vars
<1> QED
  BY <1>1, <1>3, PTL DEF Spec

\* Once a crossfade is cleaned up, the engine sounds with the response it holds and
\* nothing else, however many installations and timers overlapped before.
THEOREM OneResponseIsHeard == Spec => []OneResponseSounds
<1>1. AudioIInv => OneResponseSounds
  BY DEF AudioIInv, EngineInv, OneResponseSounds
<1> QED
  BY <1>1, AudioInvariance, PTL

\* In whatever order the decodings of several versions settle or fail, a playing
\* engine is left with the response of the latest render.
THEOREM LatestResponseIsInstalled == Spec => []InstallsLatest
<1>1. AudioIInv => InstallsLatest
  <2>1. AudioIInv => (irVersion > 0 => irVersion \in Tasks)
    BY AudioConstants DEF AudioIInv, AudioTypeOK
  <2> QED
    BY <2>1 DEF AudioIInv, LatestInv, InstallsLatest, PlaysLatest
<1> QED
  BY <1>1, AudioInvariance, PTL

-----------------------------------------------------------------------------
(* The demo renderer: what a request becomes. *)

LEMMA Least ==
  ASSUME NEW a \in Int, NEW b \in Int
  PROVE  Min({a, b}) = IF a <= b THEN a ELSE b
<1>1. PICK m : m = IF a <= b THEN a ELSE b
  OBVIOUS
<1>2. m \in {a, b} /\ \A y \in {a, b} : m <= y
  BY <1>1
<1>3. \A x \in {a, b} : (\A y \in {a, b} : x <= y) => x = m
  BY <1>2
<1>4. Min({a, b}) \in {a, b} /\ \A y \in {a, b} : Min({a, b}) <= y
  BY <1>2 DEF Min
<1> QED
  BY <1>1, <1>3, <1>4

LEMMA Greatest ==
  ASSUME NEW a \in Int, NEW b \in Int
  PROVE  Max({a, b}) = IF a >= b THEN a ELSE b
<1>1. PICK m : m = IF a >= b THEN a ELSE b
  OBVIOUS
<1>2. m \in {a, b} /\ \A y \in {a, b} : m >= y
  BY <1>1
<1>3. \A x \in {a, b} : (\A y \in {a, b} : x >= y) => x = m
  BY <1>2
<1>4. Max({a, b}) \in {a, b} /\ \A y \in {a, b} : Max({a, b}) >= y
  BY <1>2 DEF Max
<1> QED
  BY <1>1, <1>3, <1>4

\* clamp with bounds in order: what is inside stays, the rest goes to a bound.
LEMMA ClampIs ==
  ASSUME NEW v \in Int, NEW lo \in Int, NEW hi \in Int, lo <= hi
  PROVE  Clamp(v, lo, hi) = IF v <= lo THEN lo ELSE IF v <= hi THEN v ELSE hi
<1>1. Max({lo, hi}) = hi
  BY Greatest
<1>2. PICK m \in Int : m = Min({v, hi}) /\ m = IF v <= hi THEN v ELSE hi
  BY Least
<1>3. Max({lo, m}) = IF lo >= m THEN lo ELSE m
  BY Greatest
<1> QED
  BY <1>1, <1>2, <1>3 DEF Clamp

LEMMA ClampInside ==
  ASSUME NEW v \in Int, NEW lo \in Int, NEW hi \in Int, lo <= hi
  PROVE  Clamp(v, lo, hi) \in Int /\ lo <= Clamp(v, lo, hi) /\ Clamp(v, lo, hi) <= hi
BY ClampIs

LEMMA ClampedInside ==
  ASSUME NEW v \in Int, NEW d \in Int, NEW lo \in Int, NEW hi \in Int, lo <= hi
  PROVE  Clamped(v, d, lo, hi) \in Int /\ lo <= Clamped(v, d, lo, hi) /\ Clamped(v, d, lo, hi) <= hi
<1>1. PICK u \in Int : u = IF v <= 0 THEN d ELSE v
  OBVIOUS
<1> QED
  BY <1>1, ClampInside DEF Clamped

\* A mesh in steps of its stride has no more than 256 probes.
LEMMA ProbesBounded ==
  ASSUME NEW n \in Nat
  PROVE  MeshHeatmapProbes(n) <= 256
<1>1. CASE n <= 256
  <2>1. (n + 1 - 1) \div 1 = n
    OBVIOUS
  <2> QED
    BY <1>1, <2>1 DEF MeshHeatmapProbes
<1>2. CASE n > 256
  <2>1. PICK s : s = (n + 255) \div 256
    OBVIOUS
  <2>2. s \in Nat /\ s > 1 /\ n <= 256 * s
    BY <1>2, <2>1
  <2>3. PICK q : q = (n + s - 1) \div s
    OBVIOUS
  <2>4. q \in Int /\ q * s <= n + s - 1
    BY <2>2, <2>3
  <2>5. ~(q >= 257)
    <3>1. SUFFICES ASSUME q >= 257 PROVE FALSE
      OBVIOUS
    <3>2. q * s >= 257 * s
      BY <2>2, <2>4, <3>1
    <3> QED
      BY <2>2, <2>4, <3>2
  <2>6. MeshHeatmapProbes(n) = q
    BY <1>2, <2>1, <2>3 DEF MeshHeatmapProbes
  <2> QED
    BY <2>4, <2>5, <2>6
<1> QED
  BY <1>1, <1>2

LEMMA HeatmapBounded ==
  ASSUME NEW r \in RequestType
  PROVE  HeatmapProbes(r) <= 256
<1>1. MeshHeatmapProbes(6) <= 256
  BY ProbesBounded
<1>2. r.mesh # NoMesh => MeshHeatmapProbes(r.mesh.vertices) <= 256
  BY DemoAssumption, ProbesBounded DEF RequestType
<1>3. 6 * 7 * 5 <= 256
  OBVIOUS
<1> QED
  BY <1>1, <1>2, <1>3 DEF HeatmapProbes

\* The images of a room up to the highest order of a request.
LEMMA ImagesBounded ==
  ASSUME NEW n \in 1 .. 12
  PROVE  /\ IsmImageCount(n) \in Nat /\ IsmImageCount(n) <= 2625
         /\ n <= 5 => IsmImageCount(n) <= 231
<1>1. n \in {1, 2, 3, 4, 5, 6, 7, 8, 9, 10, 11, 12}
  OBVIOUS
<1>2. n \in {1, 2, 3, 4, 5} => IsmImageCount(n) \in Nat /\ IsmImageCount(n) <= 231
  BY DEF IsmImageCount
<1>3. n \in {6, 7, 8, 9, 10, 11, 12} => IsmImageCount(n) \in Nat /\ IsmImageCount(n) <= 2625
  BY DEF IsmImageCount
<1> QED
  BY <1>1, <1>2, <1>3

\* The most a single room can project: all in the envelope at once.
LEMMA RoomFits ==
  ASSUME NEW d \in Nat, NEW e \in Nat, NEW m \in Nat, NEW n \in Nat,
         d <= 300, e <= 2625, m <= 20000, n <= MaxRays
  PROVE  96 * MiB + d * 480 * 34 + e * 2048 + m * 768 + n * 512 * 1 + d * 64 * 1 <= EstimateCap
BY DEF EstimateCap, MiB, MaxRays

\* The most connected rooms can.
LEMMA PortalFits ==
  ASSUME NEW d \in Nat, NEW i \in Nat, NEW n \in Nat,
         d <= 120, i <= 231, n <= MaxPortalRays
  PROVE  96 * MiB + d * 480 * 116 + (i * i) * 2048 + 0 + n * 512 * 2 + d * 64 * (72 * 2) <= EstimateCap
<1>1. PICK e : e = i * i
  OBVIOUS
<1>2. e \in Nat /\ e <= 231 * 231
  <2>1. i * i <= 231 * i /\ 231 * i <= 231 * 231
    OBVIOUS
  <2> QED
    BY <1>1, <2>1
<1>3. ASSUME NEW x \in Nat, x <= 231 * 231
      PROVE  96 * MiB + d * 480 * 116 + x * 2048 + 0 + n * 512 * 2 + d * 64 * (72 * 2) <= EstimateCap
  BY <1>3 DEF EstimateCap, MiB, MaxPortalRays
<1> QED
  BY <1>1, <1>2, <1>3

\* What the normalisation and the caps of the connected rooms let through.
InEnvelope(r) ==
  /\ 1 <= r.order /\ r.order <= 12
  /\ MinRays <= r.rays /\ r.rays <= MaxRays
  /\ 25 <= r.duration /\ r.duration <= 300
  /\ r.mesh # NoMesh => r.mesh.triangles <= MaxDemoMeshTriangles

Capped(r) == r.kind = "shoebox" /\ r.order <= 5 /\ r.rays <= MaxPortalRays /\ r.duration <= 120

\* A request inside the envelope, connected rooms inside their caps, never
\* projects more than the cap.
LEMMA EnvelopeFits ==
  ASSUME NEW r \in RequestType, InEnvelope(r), r.portal => Capped(r)
  PROVE  EstimateDemoMemoryBytes(r) <= EstimateCap
<1>0. /\ r.order \in 1 .. 12
      /\ r.duration \in Nat /\ r.duration <= 300
      /\ r.rays \in Nat /\ r.rays <= MaxRays
  BY DEF RequestType, InEnvelope, MinRays
<1>1. PICK i : i = IsmImageCount(r.order)
  OBVIOUS
<1>2. i \in Nat /\ i <= 2625 /\ (r.order <= 5 => i <= 231)
  BY <1>0, <1>1, ImagesBounded
<1>3. CASE r.portal
  <2>1. i <= 231
    BY <1>2, <1>3 DEF Capped
  <2>2. DemoEventCount(r) = i * i \/ DemoEventCount(r) = 0 * 0
    BY <1>1, <1>3 DEF DemoEventCount
  <2>3. PICK j \in Nat : j <= 231 /\ DemoEventCount(r) = j * j
    BY <1>2, <2>1, <2>2
  <2>4. PICK d, n : d = r.duration /\ n = r.rays
    OBVIOUS
  <2>5. d \in Nat /\ n \in Nat /\ d <= 120 /\ n <= MaxPortalRays
    BY <1>0, <1>3, <2>4 DEF Capped
  <2>6. EstimateDemoMemoryBytes(r)
          = 96 * MiB + d * 480 * 116 + (j * j) * 2048 + 0 + n * 512 * 2 + d * 64 * (72 * 2)
    BY <1>3, <2>3, <2>4 DEF EstimateDemoMemoryBytes, Capped
  <2>7. 96 * MiB + d * 480 * 116 + (j * j) * 2048 + 0 + n * 512 * 2 + d * 64 * (72 * 2) <= EstimateCap
    BY <2>3, <2>5, PortalFits
  <2> QED
    BY <2>6, <2>7
<1>4. CASE ~r.portal
  <2>1. PICK e : e = DemoEventCount(r)
    OBVIOUS
  <2>2. e \in Nat /\ e <= 2625
    BY <1>1, <1>2, <1>4, <2>1 DEF DemoEventCount
  <2>3. PICK m : m = IF r.kind = "mesh" /\ r.mesh # NoMesh THEN r.mesh.triangles ELSE 0
    OBVIOUS
  <2>4. m \in Nat /\ m <= 20000
    BY <2>3, DemoAssumption DEF RequestType, InEnvelope
  <2>5. m * 768 = IF r.kind = "mesh" /\ r.mesh # NoMesh THEN r.mesh.triangles * 768 ELSE 0
    BY <2>3
  <2>6. EstimateDemoMemoryBytes(r)
          = 96 * MiB + r.duration * 480 * 34 + e * 2048 + m * 768 + r.rays * 512 * 1
              + r.duration * 64 * 1
    BY <1>4, <2>1, <2>5 DEF EstimateDemoMemoryBytes
  <2> QED
    BY <1>0, <2>2, <2>4, <2>6, RoomFits
<1> QED
  BY <1>3, <1>4

\* A request that fits is not reduced: only its crossover is brought inside.
LEMMA FittedAtOnce ==
  ASSUME NEW r \in RequestType, EstimateDemoMemoryBytes(r) <= EstimateCap
  PROVE  FitEstimate(r) = [r EXCEPT !.crossover = Clamp(@, 3, (r.duration * 85) \div 100)]
BY DEF FitEstimate

\* The estimate does not read the crossover.
LEMMA EstimateOfFitted ==
  ASSUME NEW r \in RequestType, NEW x \in Int
  PROVE  EstimateDemoMemoryBytes([r EXCEPT !.crossover = x]) = EstimateDemoMemoryBytes(r)
<1>1. PICK q : q = [r EXCEPT !.crossover = x]
  OBVIOUS
<1>2. /\ q.duration = r.duration /\ q.portal = r.portal /\ q.order = r.order /\ q.mode = r.mode
      /\ q.kind = r.kind /\ q.mesh = r.mesh /\ q.rays = r.rays
  BY <1>1 DEF RequestType
<1> QED
  BY <1>1, <1>2 DEF EstimateDemoMemoryBytes, DemoEventCount

\* The caps of the connected rooms.
PortalCaps(r) ==
  [r EXCEPT !.rays = Min({@, MaxPortalRays}), !.order = Min({@, 5}), !.duration = Min({@, 120})]

LEMMA CapsKeepEnvelope ==
  ASSUME NEW r \in RequestType, InEnvelope(r), r.kind = "shoebox"
  PROVE  LET c == PortalCaps(r) IN
         /\ c \in RequestType /\ InEnvelope(c) /\ Capped(c)
         /\ c.rays = Min({r.rays, MaxPortalRays})
         /\ c.crossover = r.crossover /\ c.portal = r.portal
         /\ c.source = r.source /\ c.width = r.width /\ c.west = r.west
         /\ c.receiver = r.receiver /\ c.receiverWidth = r.receiverWidth
<1>1. PICK a, b, d : a = Min({r.rays, MaxPortalRays}) /\ b = Min({r.order, 5}) /\ d = Min({r.duration, 120})
  OBVIOUS
<1>2. a \in Int /\ MinRays <= a /\ a <= MaxPortalRays /\ a <= MaxRays
  BY <1>1, Least DEF RequestType, InEnvelope, MinRays, MaxRays, MaxPortalRays
<1>3. b \in Int /\ d \in Int /\ 1 <= b /\ b <= 5 /\ 25 <= d /\ d <= 120
  BY <1>1, Least DEF RequestType, InEnvelope
<1>5. PICK c : c = [r EXCEPT !.rays = a, !.order = b, !.duration = d]
  OBVIOUS
<1>6. PortalCaps(r) = c
  BY <1>1, <1>5 DEF PortalCaps
<1>7. c \in RequestType
  BY <1>2, <1>3, <1>5 DEF RequestType
<1>8. c.rays = a /\ c.order = b /\ c.duration = d /\ c.mesh = r.mesh /\ c.kind = r.kind
  BY <1>5 DEF RequestType
<1>9. /\ c.crossover = r.crossover /\ c.portal = r.portal
      /\ c.source = r.source /\ c.width = r.width /\ c.west = r.west
      /\ c.receiver = r.receiver /\ c.receiverWidth = r.receiverWidth
  BY <1>5 DEF RequestType
<1>10. InEnvelope(c)
  BY <1>2, <1>3, <1>8 DEF InEnvelope
<1>11. Capped(c)
  BY <1>2, <1>3, <1>8 DEF Capped
<1> QED
  BY <1>1, <1>6, <1>7, <1>8, <1>9, <1>10, <1>11

LEMMA ClampIsInt ==
  ASSUME NEW v \in Int, NEW lo \in Int, NEW hi \in Int
  PROVE  Clamp(v, lo, hi) \in Int
<1>1. PICK h \in Int : h = Max({lo, hi})
  BY Greatest
<1>2. PICK m \in Int : m = Min({v, h})
  BY Least
<1>3. Max({lo, m}) \in Int
  BY Greatest
<1> QED
  BY <1>1, <1>2, <1>3 DEF Clamp

\* A position kept 15 cm from the walls is behind the first wall, and before the
\* second in any room that is wide enough for the margin.
LEMMA ClampIntoRoom ==
  ASSUME NEW u \in Int, NEW b \in Int, NEW lo \in Int, NEW hi \in Int, lo = 2, hi = b - 2
  PROVE  /\ Clamp(u, lo, hi) \in Int /\ lo <= Clamp(u, lo, hi)
         /\ Clamp(u, lo, hi) > b => b < 2
<1>1. PICK h \in Int : h = Max({lo, hi}) /\ h = IF lo >= hi THEN lo ELSE hi
  BY Greatest
<1>2. PICK m \in Int : m = Min({u, h}) /\ m = IF u <= h THEN u ELSE h
  BY Least
<1>3. PICK y \in Int : y = Max({lo, m}) /\ y = IF lo >= m THEN lo ELSE m
  BY Greatest
<1>4. Clamp(u, lo, hi) = y
  BY <1>1, <1>2, <1>3 DEF Clamp
<1>5. /\ h = IF lo >= hi THEN lo ELSE hi
      /\ m = IF u <= h THEN u ELSE h
      /\ y = IF lo >= m THEN lo ELSE m
  BY <1>1, <1>2, <1>3
<1> HIDE <1>1, <1>2, <1>3
<1>6. (b < 4 => h = 2) /\ (b >= 4 => h = b - 2)
  BY <1>5
<1>7. 2 <= y /\ (y <= 2 \/ y <= h)
  BY <1>5
<1>8. lo <= y /\ (y > b => b < 2)
  BY <1>6, <1>7
<1> QED
  BY <1>4, <1>8

\* A request with other values, and the one before the memory budget.
Setting(r, k, w, v, m, h, o, n, t, x, s, y) ==
  [r EXCEPT !.kind = k, !.width = w, !.receiverWidth = v, !.west = m, !.mode = h, !.order = o,
            !.rays = n, !.duration = t, !.crossover = x, !.source = s, !.receiver = y]

Wanted(r) ==
  LET d == DefaultDemoRequest
      width == Clamped(r.width, d.width, 20, 500)
      other == IF r.receiverWidth <= 0 THEN width ELSE r.receiverWidth
      duration == Clamped(r.duration, d.duration, MinDuration, 300)
  IN Setting(r, IF r.kind = "mesh" THEN "mesh" ELSE "shoebox", width, other,
             NormalizeMaterialName(r.west, d.west), IF r.mode = "" THEN d.mode ELSE r.mode,
             Clamped(r.order, d.order, MinOrder, 12), Clamped(r.rays, d.rays, MinRays, MaxRays),
             duration, Clamped(r.crossover, d.crossover, 3, (duration * 85) \div 100),
             Clamp(r.source, 2, width - 2),
             Clamp(r.receiver, 2, (IF r.portal THEN other ELSE width) - 2))

LEMMA NormalizeIs ==
  ASSUME NEW r
  PROVE  NormalizeDemoRequest(r) = ApplyDemoMemoryBudget(Wanted(r))
BY Zenon DEF NormalizeDemoRequest, Wanted, Setting

\* It is in the envelope, and what it asks of the library is there.
LEMMA WantedInEnvelope ==
  ASSUME NEW r \in RequestType, Accepts(Kinded(r)),
         BuiltinMaterials \subseteq library, library \subseteq Texts
  PROVE  LET q == Wanted(r) IN
         /\ q \in RequestType /\ InEnvelope(q)
         /\ q.portal => q.kind = "shoebox"
         /\ q.rays = Clamped(r.rays, DefaultDemoRequest.rays, MinRays, MaxRays)
         /\ 0 < q.source /\ q.source < q.width /\ 0 < q.receiver
         /\ q.receiver > ReceiverRoomWidth(q) => q.portal /\ q.receiverWidth < 2
         /\ q.west \in library
<1>0. PICK d : d = DefaultDemoRequest
  OBVIOUS
<1>1. PICK w : w = Clamped(r.width, d.width, 20, 500)
  OBVIOUS
<1>2. w \in Int /\ 20 <= w
  <2>1. d.width \in Int /\ r.width \in Int
    BY <1>0 DEF DefaultDemoRequest, RequestType
  <2>2. PICK lo \in Int, hi \in Int : lo = 20 /\ hi = 500
    OBVIOUS
  <2>3. PICK f \in Int, g \in Int : f = r.width /\ g = d.width
    BY <2>1
  <2>4. w = Clamped(f, g, lo, hi)
    BY <1>1, <2>2, <2>3
  <2>5. w \in Int /\ lo <= w /\ w <= hi
    BY <2>2, <2>4, ClampedInside
  <2> QED
    BY <2>2, <2>5
<1>3. PICK t : t = Clamped(r.duration, d.duration, MinDuration, 300)
  OBVIOUS
<1>4. t \in Int /\ 25 <= t /\ t <= 300
  <2>1. d.duration \in Int /\ r.duration \in Int
    BY <1>0 DEF DefaultDemoRequest, RequestType
  <2>2. PICK lo \in Int, hi \in Int : lo = 25 /\ hi = 300
    OBVIOUS
  <2>3. PICK f \in Int, g \in Int : f = r.duration /\ g = d.duration
    BY <2>1
  <2>4. t = Clamped(f, g, lo, hi)
    BY <1>3, <2>2, <2>3 DEF MinDuration
  <2>5. t \in Int /\ lo <= t /\ t <= hi
    BY <2>2, <2>4, ClampedInside
  <2> QED
    BY <2>2, <2>5
<1>5. PICK o : o = Clamped(r.order, d.order, MinOrder, 12)
  OBVIOUS
<1>6. o \in Int /\ 1 <= o /\ o <= 12
  <2>1. d.order \in Int /\ r.order \in Int
    BY <1>0 DEF DefaultDemoRequest, RequestType
  <2>2. PICK lo \in Int, hi \in Int : lo = 1 /\ hi = 12
    OBVIOUS
  <2>3. PICK f \in Int, g \in Int : f = r.order /\ g = d.order
    BY <2>1
  <2>4. o = Clamped(f, g, lo, hi)
    BY <1>5, <2>2, <2>3 DEF MinOrder
  <2>5. o \in Int /\ lo <= o /\ o <= hi
    BY <2>2, <2>4, ClampedInside
  <2> QED
    BY <2>2, <2>5
<1>7. PICK n : n = Clamped(r.rays, d.rays, MinRays, MaxRays)
  OBVIOUS
<1>8. n \in Int /\ MinRays <= n /\ n <= MaxRays
  <2>1. d.rays \in Int /\ r.rays \in Int /\ MinRays \in Int /\ MaxRays \in Int /\ MinRays <= MaxRays
    BY <1>0 DEF DefaultDemoRequest, RequestType, MinRays, MaxRays
  <2> QED
    BY <1>7, <2>1, ClampedInside
<1>9. PICK x : x = Clamped(r.crossover, d.crossover, 3, (t * 85) \div 100)
  OBVIOUS
<1>10. x \in Int
  <2>1. d.crossover \in Int /\ r.crossover \in Int
    BY <1>0 DEF DefaultDemoRequest, RequestType
  <2>2. PICK u \in Int : u = IF r.crossover <= 0 THEN d.crossover ELSE r.crossover
    BY <2>1
  <2>3. PICK hi \in Int : hi = (t * 85) \div 100
    BY <1>4
  <2>4. PICK lo \in Int : lo = 3
    OBVIOUS
  <2>5. x = Clamp(u, lo, hi)
    BY <1>9, <2>2, <2>3, <2>4 DEF Clamped
  <2> QED
    BY <2>5, ClampIsInt
<1>11. PICK s : s = Clamp(r.source, 2, w - 2)
  OBVIOUS
<1>12. s \in Int /\ 2 <= s /\ s <= w - 2
  <2>1. PICK hi \in Int : hi = w - 2
    BY <1>2
  <2>2. PICK u \in Int : u = r.source
    BY DEF RequestType
  <2>3. PICK lo \in Int : lo = 2
    OBVIOUS
  <2>4. s = Clamp(u, lo, hi) /\ lo <= hi
    BY <1>2, <1>11, <2>1, <2>2, <2>3
  <2>5. s \in Int /\ lo <= s /\ s <= hi
    BY <2>4, ClampInside
  <2> QED
    BY <2>1, <2>3, <2>5
<1>13. PICK v : v = IF r.receiverWidth <= 0 THEN w ELSE r.receiverWidth
  OBVIOUS
<1>14. v \in Int
  BY <1>2, <1>13 DEF RequestType
<1>15. PICK y : y = Clamp(r.receiver, 2, (IF r.portal THEN v ELSE w) - 2)
  OBVIOUS
<1>16. /\ y \in Int /\ 2 <= y
       /\ y > (IF r.portal THEN v ELSE w) => r.portal /\ v < 2
  <2>1. PICK u \in Int : u = r.receiver
    BY DEF RequestType
  <2>2. PICK b : b = IF r.portal THEN v ELSE w
    OBVIOUS
  <2>3. b \in Int
    BY <1>2, <1>14, <2>2
  <2>4. PICK lo \in Int, hi \in Int : lo = 2 /\ hi = b - 2
    BY <2>3
  <2>5. y = Clamp(u, lo, hi)
    BY <1>15, <2>1, <2>2, <2>4
  <2>6. y \in Int /\ lo <= y /\ (y > b => b < 2)
    BY <2>3, <2>4, <2>5, ClampIntoRoom
  <2>7. b < 2 => r.portal /\ v < 2
    BY <1>2, <2>2
  <2> QED
    BY <2>2, <2>4, <2>6, <2>7
<1>17. PICK m : m = NormalizeMaterialName(r.west, d.west)
  OBVIOUS
<1>18. m \in library /\ m \in Texts
  BY <1>0, <1>17 DEF NormalizeMaterialName, DefaultDemoRequest, BuiltinMaterials
<1>19. PICK k : k = IF r.kind = "mesh" THEN "mesh" ELSE "shoebox"
  OBVIOUS
<1>20. PICK h : h = IF r.mode = "" THEN d.mode ELSE r.mode
  OBVIOUS
<1>21. k \in Texts /\ h \in Texts
  <2>1. k \in Texts
    BY <1>19, PayloadAssumption
  <2>2. d.mode \in Texts /\ r.mode \in Texts
    BY <1>0, PayloadAssumption DEF RequestType, DefaultDemoRequest
  <2> QED
    BY <1>20, <2>1, <2>2
<1>22. PICK q : q = [r EXCEPT !.kind = k, !.width = w, !.receiverWidth = v, !.west = m, !.mode = h,
                              !.order = o, !.rays = n, !.duration = t, !.crossover = x,
                              !.source = s, !.receiver = y]
  OBVIOUS
<1>23. Wanted(r) = q
  <2>1. Wanted(r) = Setting(r, IF r.kind = "mesh" THEN "mesh" ELSE "shoebox",
                            w, IF r.receiverWidth <= 0 THEN w ELSE r.receiverWidth,
                            NormalizeMaterialName(r.west, d.west), IF r.mode = "" THEN d.mode ELSE r.mode,
                            Clamped(r.order, d.order, MinOrder, 12),
                            Clamped(r.rays, d.rays, MinRays, MaxRays),
                            t, Clamped(r.crossover, d.crossover, 3, (t * 85) \div 100),
                            Clamp(r.source, 2, w - 2),
                            Clamp(r.receiver, 2, (IF r.portal THEN IF r.receiverWidth <= 0 THEN w ELSE r.receiverWidth
                                                  ELSE w) - 2))
    BY <1>0, <1>1, <1>3 DEF Wanted
  <2>2. Wanted(r) = Setting(r, k, w, v, m, h, o, n, t, x, s, y)
    BY <2>1, <1>5, <1>7, <1>9, <1>11, <1>13, <1>15, <1>17, <1>19, <1>20
  <2> QED
    BY <1>22, <2>2 DEF Setting
<1>24. /\ q.kind = k /\ q.width = w /\ q.west = m /\ q.order = o /\ q.rays = n /\ q.duration = t
       /\ q.source = s /\ q.portal = r.portal /\ q.mesh = r.mesh
       /\ q.receiver = y /\ q.receiverWidth = v
  BY <1>22 DEF RequestType
<1>25. q \in RequestType
  BY <1>2, <1>4, <1>6, <1>8, <1>10, <1>12, <1>14, <1>16, <1>18, <1>21, <1>22 DEF RequestType
<1>26. InEnvelope(q) /\ (q.portal => q.kind = "shoebox")
  <2>1. PICK g : g = Kinded(r)
    OBVIOUS
  <2>2. g.kind = k /\ g.mesh = r.mesh /\ g.portal = r.portal
    BY <1>19, <2>1 DEF Kinded, RequestType
  <2>3. r.mesh # NoMesh => r.mesh.triangles <= MaxDemoMeshTriangles
    BY <2>1, <2>2 DEF Accepts, ValidateDemoStructure
  <2>4. r.portal => k = "shoebox"
    BY <2>1, <2>2 DEF Accepts
  <2> QED
    BY <1>4, <1>6, <1>8, <1>24, <2>3, <2>4 DEF InEnvelope
<1>27. 0 < q.source /\ q.source < q.width
  BY <1>2, <1>12, <1>24
<1>28. 0 < q.receiver /\ (q.receiver > ReceiverRoomWidth(q) => q.portal /\ q.receiverWidth < 2)
  BY <1>16, <1>24 DEF ReceiverRoomWidth
<1> QED
  BY <1>0, <1>7, <1>18, <1>23, <1>24, <1>25, <1>26, <1>27, <1>28

\* A crossover clamped into a response lies inside it.
LEMMA CrossoverInside ==
  ASSUME NEW x \in Int, NEW t \in Int, 25 <= t
  PROVE  /\ Clamp(x, 3, (t * 85) \div 100) \in Int
         /\ Clamp(x, 3, (t * 85) \div 100) < t
<1>1. PICK lo \in Int, hi \in Int : lo = 3 /\ hi = (t * 85) \div 100
  OBVIOUS
<1>2. lo <= hi /\ hi < t
  BY <1>1
<1>3. Clamp(x, lo, hi) \in Int /\ Clamp(x, lo, hi) <= hi
  BY <1>2, ClampInside
<1> QED
  BY <1>1, <1>2, <1>3

\* The budget takes from a request in the envelope what the caps of the connected
\* rooms take, and nothing else.
LEMMA BudgetTakesCapsOnly ==
  ASSUME NEW q \in RequestType, InEnvelope(q), q.portal => q.kind = "shoebox"
  PROVE  LET r == ApplyDemoMemoryBudget(q) IN
         /\ r \in RequestType /\ EstimateDemoMemoryBytes(r) <= EstimateCap
         /\ r.rays = IF r.portal THEN Min({q.rays, MaxPortalRays}) ELSE q.rays
         /\ r.crossover < r.duration /\ 25 <= r.duration
         /\ r.source = q.source /\ r.width = q.width /\ r.west = q.west
         /\ r.receiver = q.receiver /\ r.receiverWidth = q.receiverWidth /\ r.portal = q.portal
<1>1. PICK c : c = IF q.portal THEN PortalCaps(q) ELSE q
  OBVIOUS
<1>2. /\ c \in RequestType /\ InEnvelope(c) /\ (c.portal => Capped(c)) /\ c.portal = q.portal
      /\ c.rays = IF q.portal THEN Min({q.rays, MaxPortalRays}) ELSE q.rays
      /\ c.source = q.source /\ c.width = q.width /\ c.west = q.west
      /\ c.receiver = q.receiver /\ c.receiverWidth = q.receiverWidth
  <2>1. CASE q.portal
    BY <1>1, <2>1, CapsKeepEnvelope
  <2>2. CASE ~q.portal
    BY <1>1, <2>2
  <2> QED
    BY <2>1, <2>2
<1>3. EstimateDemoMemoryBytes(c) <= EstimateCap
  BY <1>2, EnvelopeFits
<1>4. PICK x : x = Clamp(c.crossover, 3, (c.duration * 85) \div 100)
  OBVIOUS
<1>5. c.duration \in Int /\ 25 <= c.duration /\ c.crossover \in Int
  BY <1>2 DEF RequestType, InEnvelope
<1>6. x \in Int /\ x < c.duration
  BY <1>4, <1>5, CrossoverInside
<1>7. PICK r : r = [c EXCEPT !.crossover = x]
  OBVIOUS
<1>8. ApplyDemoMemoryBudget(q) = r
  <2>1. ApplyDemoMemoryBudget(q) = FitEstimate(c)
    <3>1. CASE q.portal
      BY <1>1, <3>1 DEF ApplyDemoMemoryBudget, PortalCaps
    <3>2. CASE ~q.portal
      BY <1>1, <3>2 DEF ApplyDemoMemoryBudget
    <3> QED
      BY <3>1, <3>2
  <2>2. FitEstimate(c) = [c EXCEPT !.crossover = Clamp(@, 3, (c.duration * 85) \div 100)]
    BY <1>2, <1>3, FittedAtOnce
  <2> QED
    BY <1>4, <1>7, <2>1, <2>2
<1>9. r \in RequestType
  BY <1>2, <1>6, <1>7 DEF RequestType
<1>10. /\ r.rays = c.rays /\ r.portal = c.portal /\ r.duration = c.duration /\ r.crossover = x
       /\ r.source = c.source /\ r.width = c.width /\ r.west = c.west
       /\ r.receiver = c.receiver /\ r.receiverWidth = c.receiverWidth
  BY <1>2, <1>7 DEF RequestType
<1>11. EstimateDemoMemoryBytes(r) <= EstimateCap
  BY <1>2, <1>3, <1>6, <1>7, EstimateOfFitted
<1> QED
  BY <1>2, <1>5, <1>6, <1>8, <1>9, <1>10, <1>11

LEMMA NormalizedRenderable ==
  ASSUME NEW asked \in RequestType, Accepts(Kinded(asked)),
         BuiltinMaterials \subseteq library, library \subseteq Texts
  PROVE  LET r == NormalizeDemoRequest(asked) IN
         r \in RequestType /\ Renderable(asked, r) /\ r.west \in library
<1>1. PICK q : q = Wanted(asked)
  OBVIOUS
<1>2. /\ q \in RequestType /\ InEnvelope(q) /\ (q.portal => q.kind = "shoebox")
      /\ q.rays = Clamped(asked.rays, DefaultDemoRequest.rays, MinRays, MaxRays)
      /\ 0 < q.source /\ q.source < q.width /\ 0 < q.receiver /\ q.west \in library
      /\ q.receiver > ReceiverRoomWidth(q) => q.portal /\ q.receiverWidth < 2
  BY <1>1, WantedInEnvelope
<1>3. PICK r : r = ApplyDemoMemoryBudget(q)
  OBVIOUS
<1>4. /\ r \in RequestType /\ EstimateDemoMemoryBytes(r) <= EstimateCap
      /\ r.rays = IF r.portal THEN Min({q.rays, MaxPortalRays}) ELSE q.rays
      /\ r.crossover < r.duration /\ 25 <= r.duration
      /\ r.source = q.source /\ r.width = q.width /\ r.west = q.west
      /\ r.receiver = q.receiver /\ r.receiverWidth = q.receiverWidth /\ r.portal = q.portal
  BY <1>2, <1>3, BudgetTakesCapsOnly
<1>5. NormalizeDemoRequest(asked) = r
  BY <1>1, <1>3, NormalizeIs
<1>6. r.receiver > ReceiverRoomWidth(r) => r.portal /\ r.receiverWidth < 2
  BY <1>2, <1>4 DEF ReceiverRoomWidth
<1> QED
  BY <1>2, <1>4, <1>5, <1>6 DEF Renderable

\* The preview tier of a renderable request.
LEMMA PreviewRenderable ==
  ASSUME NEW r \in RequestType, 25 <= r.duration
  PROVE  LET p == PreviewTierRequest(r) IN
         /\ p \in RequestType /\ p.crossover < p.duration
         /\ p.rays <= r.rays /\ p.order <= r.order /\ p.duration <= r.duration
<1>1. PICK o, n, t : o = Min({r.order, 2}) /\ n = Min({r.rays, 384}) /\ t = Min({r.duration, 100})
  OBVIOUS
<1>2. /\ o \in Int /\ o <= r.order /\ n \in Int /\ n <= r.rays
      /\ t \in Int /\ t <= r.duration /\ 25 <= t
  BY <1>1, Least DEF RequestType
<1>3. PICK x : x = Clamp(r.crossover, 3, (t * 85) \div 100)
  OBVIOUS
<1>4. x \in Int /\ x < t
  <2>1. r.crossover \in Int
    BY DEF RequestType
  <2> QED
    BY <1>2, <1>3, <2>1, CrossoverInside
<1>5. PICK p : p = [r EXCEPT !.order = o, !.rays = n, !.duration = t, !.crossover = x]
  OBVIOUS
<1>6. PreviewTierRequest(r) = p
  BY <1>1, <1>3, <1>5 DEF PreviewTierRequest
<1>7. p \in RequestType
  BY <1>2, <1>4, <1>5 DEF RequestType
<1>8. p.order = o /\ p.rays = n /\ p.duration = t /\ p.crossover = x
  BY <1>5 DEF RequestType
<1> QED
  BY <1>2, <1>4, <1>6, <1>7, <1>8

\* ... and all that the renderer is promised.
LEMMA RenderableIsEnough ==
  ASSUME DemoIInv
  PROVE  RequestRenderable
<1> SUFFICES ASSUME render.pc # "idle" PROVE RequestRenderable
  BY DEF RequestRenderable, ReducedOnlyByCaps, TiersRenderable, WallsKnown
<1>1. PICK r, a : r = render.request /\ a = render.asked
  OBVIOUS
<1>2. r \in RequestType /\ Renderable(a, r)
  <2>1. render \in WholeRenders \cup TierRenders
    BY DEF DemoIInv, DemoTypeOK, NoJob
  <2>2. render.request \in RequestType
    BY <2>1 DEF WholeRenders, TierRenders
  <2> QED
    BY <1>1, <2>2 DEF DemoIInv, RenderInv
<1>3. ReducedOnlyByCaps
  BY <1>1, <1>2 DEF ReducedOnlyByCaps, Renderable
<1>4. PICK p : p = PreviewTierRequest(r)
  OBVIOUS
<1>5. /\ p.crossover < p.duration
      /\ p.rays <= r.rays /\ p.order <= r.order /\ p.duration <= r.duration
  BY <1>2, <1>4, PreviewRenderable DEF Renderable
<1>6. HeatmapProbes(r) <= 256
  BY <1>2, HeatmapBounded
<1>7. \A t \in {r, p} : t.crossover < t.duration
  BY <1>2, <1>5 DEF Renderable
<1>8. r.receiver > ReceiverRoomWidth(r) => r.portal /\ r.receiverWidth < 2 /\ render.pc = "scene"
  <2>1. r.receiver \in Int /\ ReceiverRoomWidth(r) \in Int
    BY <1>2 DEF RequestType, ReceiverRoomWidth
  <2>2. render.pc # "scene" => r.receiver <= ReceiverRoomWidth(r)
    BY <1>1 DEF DemoIInv, RenderInv, PositionsInRooms
  <2> QED
    BY <1>2, <2>1, <2>2 DEF Renderable
<1>9. TiersRenderable
  BY <1>1, <1>2, <1>4, <1>5, <1>6, <1>7, <1>8 DEF TiersRenderable, Renderable
<1> QED
  BY <1>3, <1>9 DEF RequestRenderable, DemoIInv

-----------------------------------------------------------------------------
(* The demo renderer: the invariant. *)

\* A payload leaves a request a request.
LEMMA MergeTyped ==
  ASSUME NEW r \in RequestType, NEW payload \in Payloads
  PROVE  Merge(r, payload) \in RequestType
<1>1. PICK d, u, m : /\ d = DefaultDemoRequest /\ u = Merge(d, payload) /\ m = Merge(r, payload)
  OBVIOUS
<1>2. u \in RequestType
  BY <1>1, PayloadAssumption
<1> DEFINE F == {"kind", "width", "mesh", "west", "source", "receiver", "portal", "receiverWidth",
                 "mode", "order", "rays", "duration", "crossover"}
<1>3. DOMAIN r = F /\ DOMAIN d = F
  BY <1>1 DEF RequestType, DefaultDemoRequest
<1>4. u = [f \in F |-> IF f \in DOMAIN payload THEN payload[f] ELSE d[f]]
  BY <1>1, <1>3 DEF Merge
<1>5. m = [f \in F |-> IF f \in DOMAIN payload THEN payload[f] ELSE r[f]]
  BY <1>1, <1>3 DEF Merge
<1>6. \A f \in F : m[f] = u[f] \/ m[f] = r[f]
  BY <1>4, <1>5
<1>7. /\ m["kind"] \in Texts /\ m["width"] \in Int /\ m["mesh"] \in Meshes \cup {NoMesh}
      /\ m["west"] \in Texts /\ m["source"] \in Int /\ m["receiver"] \in Int
      /\ m["receiverWidth"] \in Int /\ m["mode"] \in Texts
      /\ m["order"] \in Int /\ m["rays"] \in Int /\ m["duration"] \in Int /\ m["crossover"] \in Int
  BY <1>2, <1>6 DEF RequestType
<1>8. m["portal"] \in BOOLEAN
  BY <1>2, <1>6 DEF RequestType
<1>9. m \in RequestType
  <2>1. m = [f \in F |-> m[f]]
    BY <1>5
  <2> QED
    BY <1>7, <1>8, <2>1 DEF RequestType
<1> QED
  BY <1>1, <1>9

\* The state of a setter: the session and the library change, and no render runs.
LEMMA SessionSetInv ==
  ASSUME DemoIInv, Setter, demo' \in DemoSessions, library' \subseteq Texts, library \subseteq library'
  PROVE  DemoIInv'
<1>1. render' = render /\ render.pc = "idle"
  BY DEF Setter, Call
<1>2. DemoTypeOK'
  <2>1. calls' \in 0 .. MaxCalls
    BY DemoAssumption DEF DemoIInv, DemoTypeOK, Setter, Call
  <2> QED
    BY <2>1 DEF DemoIInv, DemoTypeOK, Setter
<1>3. BuiltinMaterials \subseteq library'
  BY DEF DemoIInv
<1>4. NoPreviewPushed' /\ AnswerAtEnd' /\ WallsKnown'
  BY <1>1 DEF NoPreviewPushed, AnswerAtEnd, WallsKnown
<1>5. ExpiryHasAnswer'
  BY DEF DemoIInv, ExpiryHasAnswer, Setter
<1>6. RenderInv'
  BY <1>1 DEF RenderInv
<1> QED
  BY <1>1, <1>2, <1>3, <1>4, <1>5, <1>6 DEF DemoIInv

\* A step inside a render, which leaves its request and the session alone, and
\* leaves the scene only when the positions are in their rooms.
LEMMA RenderGoesOn ==
  ASSUME DemoIInv, render.pc # "idle",
         render' \in WholeRenders \cup TierRenders,
         render'.asked = render.asked, render'.request = render.request,
         render'.session = render.session,
         render.pc = "scene" => PositionsInRooms(render.request),
         demo' = demo, library' = library, calls' = calls, answer' = answer,
         clock' \in 0 .. Timeout, cancel' \in BOOLEAN, tiers' \subseteq {"statistical", "preview"},
         render'.pc \in {"mono", "decide"} /\ ~render'.preview => "preview" \notin tiers'
  PROVE  DemoIInv'
<1>1. DemoTypeOK'
  BY DEF DemoIInv, DemoTypeOK
<1>2. NoPreviewPushed' /\ AnswerAtEnd' /\ WallsKnown'
  BY DEF DemoIInv, NoPreviewPushed, AnswerAtEnd, WallsKnown
<1>3. ExpiryHasAnswer'
  BY DEF DemoIInv, AnswerAtEnd, ExpiryHasAnswer, NoAnswer
<1>4. RenderInv'
  <2>1. Renderable(render.asked, render.request) /\ render.session = demo
    BY DEF DemoIInv, RenderInv
  <2>2. PositionsInRooms(render.request)
    BY DEF DemoIInv, RenderInv
  <2>3. Renderable(render'.asked, render'.request) = Renderable(render.asked, render.request)
    BY DEF Renderable
  <2> QED
    BY <2>1, <2>2, <2>3 DEF RenderInv, PositionsInRooms
<1> QED
  BY <1>1, <1>2, <1>3, <1>4 DEF DemoIInv

\* A step that ends a render.
LEMMA RenderEndsInv ==
  ASSUME DemoIInv, render' = NoJob, answer' \in Answers,
         answer'.outcome = "deadline" => "preview" \notin tiers',
         demo' \in DemoSessions, library' = library, calls' \in 0 .. MaxCalls,
         clock' \in 0 .. Timeout, cancel' \in BOOLEAN, tiers' \subseteq {"statistical", "preview"}
  PROVE  DemoIInv'
<1>1. DemoTypeOK'
  BY DEF DemoIInv, DemoTypeOK
<1>2. render'.pc = "idle"
  BY DEF NoJob
<1>3. NoPreviewPushed' /\ AnswerAtEnd' /\ WallsKnown'
  BY <1>2 DEF NoPreviewPushed, AnswerAtEnd, WallsKnown
<1>4. ExpiryHasAnswer'
  BY DEF ExpiryHasAnswer
<1>5. RenderInv'
  BY <1>2 DEF RenderInv
<1> QED
  BY <1>1, <1>2, <1>3, <1>4, <1>5 DEF DemoIInv

\* It may end with one of these answers without a result.
LEMMA EndsWithout ==
  ASSUME NEW outcome \in {"rejected", "cancelled", "failed", "deadline"}, Ends(outcome),
         calls' \in 0 .. MaxCalls
  PROVE  render' = NoJob /\ answer' \in Answers /\ answer'.outcome = outcome
BY DEF Ends, Answers

\* The clock never runs back, nor beyond the deadline.
LEMMA SpendTyped ==
  ASSUME clock \in 0 .. Timeout, Spend
  PROVE  clock' \in 0 .. Timeout /\ clock' >= clock
<1>1. PICK cost \in StageCosts : clock' = Min({clock + cost, Timeout})
  BY DEF Spend
<1>2. cost \in Nat /\ Timeout \in Nat
  BY DemoAssumption
<1>3. PICK x \in Int : x = clock + cost
  BY <1>2
<1>4. Min({x, Timeout}) = IF x <= Timeout THEN x ELSE Timeout
  BY <1>2, <1>3, Least
<1> QED
  BY <1>1, <1>2, <1>3, <1>4

LEMMA ReportTyped ==
  ASSUME DemoTypeOK, Report
  PROVE  cancel' \in BOOLEAN
BY DEF DemoTypeOK, Report

\* A render that runs is of one of the two kinds, and has its request.
LEMMA RunningTyped ==
  ASSUME DemoTypeOK, render.pc # "idle"
  PROVE  /\ render \in WholeRenders \cup TierRenders
         /\ render.asked \in RequestType /\ render.request \in RequestType
         /\ render.session \in DemoSessions
         /\ render.pc \in {"mono", "decide", "finish"} => render \in TierRenders
         /\ render.pc \notin {"mono", "decide", "finish"} => render \in WholeRenders
<1>1. render \in WholeRenders \cup TierRenders
  BY DEF DemoTypeOK, NoJob
<1>2. render.asked \in RequestType /\ render.request \in RequestType /\ render.session \in DemoSessions
  BY <1>1 DEF WholeRenders, TierRenders
<1>3. render.pc \in {"mono", "decide", "finish"} => render \in TierRenders
  BY <1>1 DEF WholeRenders
<1>4. render.pc \notin {"mono", "decide", "finish"} => render \in WholeRenders
  BY <1>1 DEF TierRenders
<1> QED
  BY <1>1, <1>2, <1>3, <1>4

LEMMA DemoInitInv ==
  ASSUME DemoInit
  PROVE  DemoIInv
<1>1. DefaultDemoRequest \in RequestType
  BY PayloadAssumption DEF DefaultDemoRequest, RequestType, BuiltinMaterials
<1>2. demo \in DemoSessions
  BY <1>1 DEF DemoInit, DemoSessions
<1>3. render.pc = "idle" /\ answer.outcome = "none"
  BY DEF DemoInit, NoJob, NoAnswer
<1>4. DemoTypeOK
  <2>1. library \subseteq Texts
    BY PayloadAssumption DEF DemoInit
  <2>2. clock \in 0 .. Timeout /\ calls \in 0 .. MaxCalls
    BY DemoAssumption DEF DemoInit
  <2>3. answer \in Answers
    BY DEF DemoInit, Answers
  <2>4. render \in {NoJob} /\ cancel \in BOOLEAN /\ tiers = {}
    BY DEF DemoInit
  <2> QED
    BY <1>2, <2>1, <2>2, <2>3, <2>4 DEF DemoTypeOK
<1>5. NoPreviewPushed /\ AnswerAtEnd /\ WallsKnown /\ RenderInv
  BY <1>3 DEF NoPreviewPushed, AnswerAtEnd, WallsKnown, RenderInv
<1>6. ExpiryHasAnswer
  BY <1>3 DEF ExpiryHasAnswer
<1>7. BuiltinMaterials \subseteq library
  BY DEF DemoInit
<1> QED
  BY <1>3, <1>4, <1>5, <1>6, <1>7 DEF DemoIInv

\* A session with another value in its request.
LEMMA SessionWith ==
  ASSUME demo \in DemoSessions, NEW q \in RequestType
  PROVE  [demo EXCEPT !.request = q] \in DemoSessions
BY DEF DemoSessions

LEMMA CreateRoomInv ==
  ASSUME DemoIInv, NEW room \in Rooms, CreateRoom(room)
  PROVE  DemoIInv'
<1>1. Setter /\ library' = library
  BY DEF CreateRoom
<1>2. room.kind \in Texts /\ room.width \in Int /\ room.mesh \in Meshes \cup {NoMesh}
  BY DemoAssumption
<1>3. demo \in DemoSessions /\ library \subseteq Texts
  BY DEF DemoIInv, DemoTypeOK
<1>4. PICK q : q = [demo.request EXCEPT !.kind = room.kind, !.width = room.width, !.mesh = room.mesh]
  OBVIOUS
<1>5. q \in RequestType
  BY <1>2, <1>3, <1>4 DEF DemoSessions, RequestType
<1>6. demo' = [demo EXCEPT !.roomID = @ + 1, !.request = q]
  BY <1>3, <1>4 DEF CreateRoom, DemoSessions, RequestType
<1>7. demo' \in DemoSessions
  <2>1. PICK k : k = demo.roomID + 1
    OBVIOUS
  <2>2. k \in Nat
    BY <1>3, <2>1 DEF DemoSessions
  <2>3. demo' = [demo EXCEPT !.roomID = k, !.request = q]
    BY <1>3, <1>6, <2>1 DEF DemoSessions
  <2> QED
    BY <1>3, <1>5, <2>2, <2>3 DEF DemoSessions
<1> QED
  BY <1>1, <1>3, <1>7, SessionSetInv

LEMMA SetMaterialInv ==
  ASSUME DemoIInv, NEW name \in Names, SetMaterial(name) \/ RefuseMaterial(name)
  PROVE  DemoIInv'
<1>1. demo \in DemoSessions /\ library \subseteq Texts /\ name \in Texts
  BY DemoAssumption DEF DemoIInv, DemoTypeOK
<1>2. Setter /\ library' \subseteq Texts /\ library \subseteq library'
  BY <1>1 DEF SetMaterial, RefuseMaterial
<1>3. PICK q : q = [demo.request EXCEPT !.west = "west"]
  OBVIOUS
<1>4. q \in RequestType
  BY <1>1, <1>3, PayloadAssumption DEF DemoSessions, RequestType
<1>5. demo' = demo \/ demo' = [demo EXCEPT !.request = q]
  BY <1>1, <1>3 DEF SetMaterial, RefuseMaterial, DemoSessions, RequestType
<1>6. [demo EXCEPT !.request = q] \in DemoSessions
  BY <1>1, <1>4, SessionWith
<1>7. PICK s : s = [demo EXCEPT !.request = q]
  OBVIOUS
<1>8. demo' \in DemoSessions
  <2>1. s \in DemoSessions /\ (demo' = demo \/ demo' = s)
    BY <1>5, <1>6, <1>7
  <2> QED
    BY <1>1, <2>1
<1> QED
  BY <1>2, <1>8, SessionSetInv

LEMMA SetPositionInv ==
  ASSUME DemoIInv, NEW x \in Points, SetSource(x) \/ SetReceiver(x)
  PROVE  DemoIInv'
<1>1. demo \in DemoSessions /\ library \subseteq Texts /\ x \in Int
  BY DemoAssumption DEF DemoIInv, DemoTypeOK
<1>2. Setter /\ library' = library
  BY DEF SetSource, SetReceiver
<1>3. PICK p, q : p = [demo.request EXCEPT !.source = x] /\ q = [demo.request EXCEPT !.receiver = x]
  OBVIOUS
<1>4. p \in RequestType /\ q \in RequestType
  BY <1>1, <1>3 DEF DemoSessions, RequestType
<1>5. demo' = [demo EXCEPT !.request = p] \/ demo' = [demo EXCEPT !.request = q]
  BY <1>1, <1>3 DEF SetSource, SetReceiver, DemoSessions, RequestType
<1>6. demo' \in DemoSessions
  BY <1>1, <1>4, <1>5, SessionWith
<1> QED
  BY <1>1, <1>2, <1>6, SessionSetInv

LEMMA RejectPayloadInv ==
  ASSUME DemoIInv, RejectPayload
  PROVE  DemoIInv'
<1>1. Ends("rejected") /\ tiers' = {} /\ clock' = 0 /\ demo' = demo /\ library' = library /\ cancel' = cancel
  BY DEF RejectPayload
<1>2. calls' \in 0 .. MaxCalls /\ 0 \in 0 .. Timeout
  BY DemoAssumption DEF RejectPayload, Call, DemoIInv, DemoTypeOK
<1>3. render' = NoJob /\ answer' \in Answers /\ answer'.outcome = "rejected"
  BY <1>1, <1>2, EndsWithout
<1> QED
  BY <1>1, <1>2, <1>3, RenderEndsInv DEF DemoIInv, DemoTypeOK

LEMMA BeginRenderInv ==
  ASSUME DemoIInv, NEW payload \in Payloads, BeginRender(payload)
  PROVE  DemoIInv'
<1>1. PICK asked : asked = Merge(demo.request, payload)
  OBVIOUS
<1>2. asked \in RequestType
  BY <1>1, MergeTyped DEF DemoIInv, DemoTypeOK, DemoSessions
<1>3. /\ demo' = demo /\ library' = library /\ demo \in DemoSessions
      /\ tiers' = {} /\ clock' = 0 /\ cancel' \in BOOLEAN
  BY DEF BeginRender, DemoIInv, DemoTypeOK
<1>4. calls' \in 0 .. MaxCalls /\ 0 \in 0 .. Timeout
  BY DemoAssumption DEF BeginRender, Call, DemoIInv, DemoTypeOK
<1>5. CASE Ends("rejected") \/ Ends("cancelled")
  <2>1. render' = NoJob /\ answer' \in Answers /\ answer'.outcome # "deadline"
    BY <1>4, <1>5, EndsWithout
  <2> QED
    BY <1>3, <1>4, <2>1, RenderEndsInv
<1>6. CASE /\ Accepts(Kinded(asked))
           /\ render' = [pc |-> "scene", asked |-> asked,
                         request |-> NormalizeDemoRequest(asked), preview |-> FALSE,
                         session |-> demo]
           /\ answer' = NoAnswer
  <2>1. PICK r : r = NormalizeDemoRequest(asked)
    OBVIOUS
  <2>2. r \in RequestType /\ Renderable(asked, r) /\ r.west \in library
    BY <1>2, <1>6, <2>1, NormalizedRenderable DEF DemoIInv, DemoTypeOK
  <2>3. render'.pc = "scene" /\ render'.asked = asked /\ render'.request = r /\ render'.session = demo
    BY <1>6, <2>1
  <2>4. render' \in WholeRenders
    BY <1>2, <1>3, <1>6, <2>1, <2>2 DEF WholeRenders
  <2>5. DemoTypeOK'
    BY <1>3, <1>4, <1>6, <2>4 DEF DemoIInv, DemoTypeOK, Answers
  <2>6. NoPreviewPushed' /\ AnswerAtEnd' /\ WallsKnown'
    BY <1>3, <1>6, <2>2, <2>3 DEF NoPreviewPushed, AnswerAtEnd, WallsKnown
  <2>7. ExpiryHasAnswer'
    BY <1>3 DEF ExpiryHasAnswer
  <2>8. BuiltinMaterials \subseteq library'
    BY <1>3 DEF DemoIInv
  <2>9. RenderInv'
    BY <1>3, <2>2, <2>3 DEF RenderInv
  <2> QED
    BY <2>5, <2>6, <2>7, <2>8, <2>9 DEF DemoIInv
<1> QED
  BY <1>1, <1>5, <1>6 DEF BeginRender

\* A tier begins.
LEMMA StartTierTyped ==
  ASSUME DemoTypeOK, render.pc # "idle", NEW tier \in {"preview", "full"}, StartTier(tier)
  PROVE  /\ render' \in TierRenders
         /\ render'.pc = "mono" /\ render'.preview = render.preview
         /\ render'.asked = render.asked /\ render'.request = render.request
         /\ render'.session = render.session
<1>1. /\ render.asked \in RequestType /\ render.request \in RequestType
      /\ render.session \in DemoSessions
      /\ render \in WholeRenders \cup TierRenders
  BY RunningTyped
<1>2. render.preview \in BOOLEAN
  BY <1>1 DEF WholeRenders, TierRenders
<1>3. render' \in TierRenders
  BY <1>1, <1>2 DEF StartTier, TierRenders
<1> QED
  BY <1>3 DEF StartTier

LEMMA BuildDemoSceneInv ==
  ASSUME DemoIInv, BuildDemoScene
  PROVE  DemoIInv'
<1>1. /\ render.pc = "scene" /\ demo' = demo /\ library' = library /\ clock' = clock /\ calls' = calls
      /\ DemoTypeOK /\ demo \in DemoSessions /\ calls \in 0 .. MaxCalls /\ clock \in 0 .. Timeout
      /\ tiers \subseteq {"statistical", "preview"}
  BY DEF BuildDemoScene, DemoIInv, DemoTypeOK
<1>2. cancel' \in BOOLEAN
  BY <1>1, ReportTyped DEF BuildDemoScene
<1>3. render \in WholeRenders
  BY <1>1, RunningTyped
<1>4. render.preview = FALSE
  BY <1>3 DEF WholeRenders
<1>5. CASE (Ends("failed") \/ Ends("cancelled")) /\ UNCHANGED tiers
  <2>1. render' = NoJob /\ answer' \in Answers /\ answer'.outcome # "deadline"
    BY <1>1, <1>5, EndsWithout
  <2> QED
    BY <1>1, <1>2, <1>5, <2>1, RenderEndsInv
<1>6. CASE /\ PositionsInRooms(render.request)
           /\ render' = [render EXCEPT !.pc = "closed"] /\ UNCHANGED <<tiers, answer>>
  <2>1. render' \in WholeRenders
    BY <1>3, <1>6 DEF WholeRenders
  <2>2. /\ render'.pc = "closed" /\ render'.session = render.session
        /\ render'.asked = render.asked /\ render'.request = render.request
    BY <1>3, <1>6 DEF WholeRenders
  <2> QED
    BY <1>1, <1>2, <1>6, <2>1, <2>2, RenderGoesOn
<1>7. CASE /\ PositionsInRooms(render.request)
           /\ tiers' = IF render.request.kind = "shoebox" THEN {"statistical"} ELSE {}
           /\ StartTier(IF WorthPreviewing(render.request) THEN "preview" ELSE "full")
           /\ UNCHANGED answer
  <2>1. PICK tier \in {"preview", "full"} : StartTier(tier)
    BY <1>7
  <2>2. /\ render' \in TierRenders /\ render'.pc = "mono" /\ render'.preview = render.preview
        /\ render'.asked = render.asked /\ render'.request = render.request
        /\ render'.session = render.session
    BY <1>1, <2>1, StartTierTyped
  <2>3. tiers' \subseteq {"statistical", "preview"} /\ "preview" \notin tiers'
    BY <1>7
  <2> QED
    BY <1>1, <1>2, <1>7, <2>2, <2>3, RenderGoesOn
<1> QED
  BY <1>5, <1>6, <1>7 DEF BuildDemoScene

\* What a stage leaves alone, and what it knows.
LEMMA StageFrame ==
  ASSUME DemoIInv, RunStage
  PROVE  /\ render.pc = "mono" /\ render \in TierRenders
         /\ DemoTypeOK /\ demo \in DemoSessions /\ calls \in 0 .. MaxCalls
         /\ demo' = demo /\ library' = library /\ calls' = calls
         /\ clock' \in 0 .. Timeout /\ clock \in 0 .. Timeout /\ clock' >= clock
         /\ cancel' \in BOOLEAN
         /\ tiers \subseteq {"statistical", "preview"}
         /\ ~render.preview => "preview" \notin tiers
<1>1. /\ render.pc = "mono" /\ DemoTypeOK /\ demo \in DemoSessions /\ calls \in 0 .. MaxCalls
      /\ demo' = demo /\ library' = library /\ calls' = calls
      /\ tiers \subseteq {"statistical", "preview"} /\ clock \in 0 .. Timeout
  BY DEF RunStage, DemoIInv, DemoTypeOK
<1>2. render \in TierRenders
  BY <1>1, RunningTyped
<1>3. clock' \in 0 .. Timeout /\ clock' >= clock
  <2>1. CASE clock' = clock
    BY <1>1, <2>1, DemoAssumption
  <2>2. CASE Spend
    BY <1>1, <2>2, SpendTyped
  <2> QED
    BY <2>1, <2>2 DEF RunStage
<1>4. cancel' \in BOOLEAN
  BY <1>1, ReportTyped DEF RunStage
<1>5. ~render.preview => "preview" \notin tiers
  BY <1>1 DEF DemoIInv, NoPreviewPushed
<1> QED
  BY <1>1, <1>2, <1>3, <1>4, <1>5

LEMMA StageDoneInv ==
  ASSUME DemoIInv, StageDone
  PROVE  DemoIInv'
<1>1. RunStage /\ UNCHANGED <<tiers, answer>>
  BY DEF StageDone
<1>2. PICK k, c : k = render.stage + 1 /\ c = render.spent + (clock' - clock)
  OBVIOUS
<1>3. render' = [render EXCEPT !.stage = k, !.spent = c]
  BY <1>1, <1>2, StageFrame DEF StageDone, TierRenders
<1>4. k \in Nat /\ c \in Nat
  <2>1. render.stage \in Nat /\ render.spent \in Nat
    BY <1>1, StageFrame DEF TierRenders
  <2>2. clock \in Int /\ clock' \in Int /\ clock' >= clock
    BY <1>1, StageFrame, DemoAssumption
  <2> QED
    BY <1>2, <2>1, <2>2
<1>5. render' \in TierRenders
  BY <1>1, <1>3, <1>4, StageFrame DEF TierRenders
<1>6. /\ render'.preview = render.preview /\ render'.session = render.session
      /\ render'.asked = render.asked /\ render'.request = render.request
  BY <1>1, <1>3, StageFrame DEF TierRenders
<1> QED
  BY <1>1, <1>5, <1>6, StageFrame, RenderGoesOn

LEMMA TierDoneInv ==
  ASSUME DemoIInv, TierDone
  PROVE  DemoIInv'
<1>1. RunStage /\ answer' = answer
  BY DEF TierDone
<1>2. CASE /\ tiers' = tiers \cup {"preview"}
           /\ render' = [render EXCEPT !.pc = "decide", !.preview = TRUE,
                                       !.spent = @ + (clock' - clock)]
  <2>1. PICK c : c = render.spent + (clock' - clock)
    OBVIOUS
  <2>2. c \in Nat
    <3>1. render.spent \in Nat
      BY <1>1, StageFrame DEF TierRenders
    <3>2. clock \in Int /\ clock' \in Int /\ clock' >= clock
      BY <1>1, StageFrame, DemoAssumption
    <3> QED
      BY <2>1, <3>1, <3>2
  <2>3. render' = [render EXCEPT !.pc = "decide", !.preview = TRUE, !.spent = c]
    BY <1>1, <1>2, <2>1, StageFrame DEF TierRenders
  <2>4. render' \in TierRenders
    BY <1>1, <2>2, <2>3, StageFrame DEF TierRenders
  <2>5. /\ render'.pc = "decide" /\ render'.preview /\ render'.session = render.session
        /\ render'.asked = render.asked /\ render'.request = render.request
    BY <1>1, <2>3, StageFrame DEF TierRenders
  <2>6. tiers' \subseteq {"statistical", "preview"}
    BY <1>1, <1>2, StageFrame
  <2> QED
    BY <1>1, <2>4, <2>5, <2>6, StageFrame, RenderGoesOn
<1>3. CASE render' = [render EXCEPT !.pc = "finish"] /\ UNCHANGED tiers
  <2>1. render' \in TierRenders
    BY <1>1, <1>3, StageFrame DEF TierRenders
  <2>2. /\ render'.pc = "finish" /\ render'.session = render.session
        /\ render'.asked = render.asked /\ render'.request = render.request
    BY <1>1, <1>3, StageFrame DEF TierRenders
  <2> QED
    BY <1>1, <1>3, <2>1, <2>2, StageFrame, RenderGoesOn
<1> QED
  BY <1>2, <1>3 DEF TierDone

\* A preview that is given up is followed by the full render.
LEMMA PreviewGivenUp ==
  ASSUME DemoIInv, RunStage, StartTier("full"), answer' = answer, tiers' = tiers
  PROVE  DemoIInv'
<1>1. /\ render' \in TierRenders /\ render'.preview = render.preview /\ render'.session = render.session
      /\ render'.asked = render.asked /\ render'.request = render.request
  BY StageFrame, StartTierTyped
<1> QED
  BY <1>1, StageFrame, RenderGoesOn

\* A stage that ends the render.
LEMMA StageEnds ==
  ASSUME DemoIInv, RunStage, tiers' = tiers,
         NEW outcome \in {"cancelled", "failed", "deadline"}, Ends(outcome),
         outcome = "deadline" => "preview" \notin tiers
  PROVE  DemoIInv'
<1>1. render' = NoJob /\ answer' \in Answers /\ answer'.outcome = outcome
  BY StageFrame, EndsWithout
<1> QED
  BY <1>1, StageFrame, RenderEndsInv

LEMMA StageFailsInv ==
  ASSUME DemoIInv, StageFails
  PROVE  DemoIInv'
<1>1. RunStage /\ tiers' = tiers
  BY DEF StageFails
<1>2. CASE StartTier("full") /\ UNCHANGED answer
  BY <1>1, <1>2, PreviewGivenUp
<1>3. CASE Ends("failed")
  BY <1>1, <1>3, StageEnds
<1> QED
  BY <1>2, <1>3 DEF StageFails

LEMMA StageAbortsInv ==
  ASSUME DemoIInv, StageAborts
  PROVE  DemoIInv'
<1>1. RunStage /\ tiers' = tiers
  BY DEF StageAborts
<1>2. CASE StartTier("full") /\ UNCHANGED answer
  BY <1>1, <1>2, PreviewGivenUp
<1>3. CASE Ends("cancelled")
  BY <1>1, <1>3, StageEnds
<1>4. CASE render' = [render EXCEPT !.pc = "finish", !.tier = "preview"] /\ UNCHANGED answer
  <2>1. render' \in TierRenders
    BY <1>1, <1>4, StageFrame DEF TierRenders
  <2>2. /\ render'.pc = "finish" /\ render'.session = render.session
        /\ render'.asked = render.asked /\ render'.request = render.request
    BY <1>1, <1>4, StageFrame DEF TierRenders
  <2> QED
    BY <1>1, <1>4, <2>1, <2>2, StageFrame, RenderGoesOn
<1>5. CASE ~render.preview /\ Ends("deadline")
  <2>1. "preview" \notin tiers
    BY <1>1, <1>5, StageFrame
  <2> QED
    BY <1>1, <1>5, <2>1, StageEnds
<1> QED
  BY <1>2, <1>3, <1>4, <1>5 DEF StageAborts

LEMMA DecideFullRenderInv ==
  ASSUME DemoIInv, DecideFullRender
  PROVE  DemoIInv'
<1>1. /\ render.pc = "decide" /\ DemoTypeOK
      /\ UNCHANGED <<demo, library, clock, cancel, tiers, answer, calls>>
      /\ clock' \in 0 .. Timeout /\ cancel' \in BOOLEAN /\ tiers' \subseteq {"statistical", "preview"}
  BY DEF DecideFullRender, DemoIInv, DemoTypeOK
<1>2. render \in TierRenders /\ (~render.preview => "preview" \notin tiers)
  BY <1>1, RunningTyped DEF DemoIInv, NoPreviewPushed
<1>3. CASE render' = [render EXCEPT !.pc = "finish"]
  <2>1. render' \in TierRenders
    BY <1>2, <1>3 DEF TierRenders
  <2>2. /\ render'.pc = "finish" /\ render'.session = render.session
        /\ render'.asked = render.asked /\ render'.request = render.request
    BY <1>2, <1>3 DEF TierRenders
  <2> QED
    BY <1>1, <2>1, <2>2, RenderGoesOn
<1>4. CASE StartTier("full")
  <2>1. /\ render' \in TierRenders /\ render'.preview = render.preview /\ render'.session = render.session
        /\ render'.asked = render.asked /\ render'.request = render.request
    BY <1>1, <1>4, StartTierTyped
  <2> QED
    BY <1>1, <1>2, <2>1, RenderGoesOn
<1> QED
  BY <1>3, <1>4 DEF DecideFullRender

\* The session stores the request that was rendered.
LEMMA StoreTyped ==
  ASSUME demo \in DemoSessions, NEW r \in RequestType,
         NEW tier \in {"preview", "full", "closedOnly"}, Store(r, tier)
  PROVE  demo' \in DemoSessions
<1>1. PICK s : s = [tier |-> tier, request |-> r]
  OBVIOUS
<1>2. s \in Results
  BY <1>1 DEF Results
<1>3. demo' = [demo EXCEPT !.request = r, !.result = s]
  BY <1>1 DEF Store
<1> QED
  BY <1>2, <1>3 DEF DemoSessions

LEMMA FinishDemoResultInv ==
  ASSUME DemoIInv, FinishDemoResult
  PROVE  DemoIInv'
<1>1. /\ render.pc = "finish" /\ DemoTypeOK /\ demo \in DemoSessions /\ calls \in 0 .. MaxCalls
      /\ library' = library /\ clock' = clock /\ tiers' = tiers /\ calls' = calls
      /\ clock \in 0 .. Timeout /\ tiers \subseteq {"statistical", "preview"}
  BY DEF FinishDemoResult, DemoIInv, DemoTypeOK
<1>2. cancel' \in BOOLEAN
  BY <1>1, ReportTyped DEF FinishDemoResult
<1>3. render \in TierRenders /\ render.request \in RequestType
  BY <1>1, RunningTyped
<1>4. CASE (Ends("failed") \/ Ends("cancelled")) /\ UNCHANGED demo
  <2>1. render' = NoJob /\ answer' \in Answers /\ answer'.outcome # "deadline"
    BY <1>1, <1>4, EndsWithout
  <2> QED
    BY <1>1, <1>2, <1>4, <2>1, RenderEndsInv
<1>5. PICK r : r = IF render.tier = "preview" THEN PreviewTierRequest(render.request) ELSE render.request
  OBVIOUS
<1>6. CASE Returns(render.tier) /\ Store(r, render.tier)
  <2>1. render.tier \in {"preview", "full"}
    BY <1>3 DEF TierRenders
  <2>2. PreviewTierRequest(render.request) \in RequestType
    BY <1>1, <1>3, PreviewRenderable DEF DemoIInv, RenderInv, Renderable
  <2>3. r \in RequestType
    BY <1>3, <1>5, <2>2
  <2>4. demo' \in DemoSessions
    BY <1>1, <1>6, <2>1, <2>3, StoreTyped
  <2>5. render' = NoJob /\ answer' \in Answers /\ answer'.outcome # "deadline"
    BY <1>1, <1>6, <2>1 DEF Answers, Returns
  <2> QED
    BY <1>1, <1>2, <1>6, <2>4, <2>5, RenderEndsInv
<1> QED
  BY <1>4, <1>5, <1>6 DEF FinishDemoResult

\* Both responses of the connected rooms.
LEMMA RenderDemoPortalBRIRInv ==
  ASSUME DemoIInv, render.pc \in {"closed", "open"},
         NEW next \in {"closedDone", "openDone"}, RenderDemoPortalBRIR(next)
  PROVE  DemoIInv'
<1>1. /\ DemoTypeOK /\ demo \in DemoSessions /\ calls \in 0 .. MaxCalls
      /\ demo' = demo /\ library' = library /\ tiers' = tiers /\ calls' = calls
      /\ clock \in 0 .. Timeout /\ tiers \subseteq {"statistical", "preview"}
  BY DEF RenderDemoPortalBRIR, DemoIInv, DemoTypeOK
<1>2. cancel' \in BOOLEAN /\ clock' \in 0 .. Timeout
  BY <1>1, ReportTyped, SpendTyped DEF RenderDemoPortalBRIR
<1>3. render \in WholeRenders
  BY <1>1, RunningTyped
<1>4. CASE Ends("failed") \/ Ends("cancelled")
  <2>1. render' = NoJob /\ answer' \in Answers /\ answer'.outcome # "deadline"
    BY <1>1, <1>4, EndsWithout
  <2> QED
    BY <1>1, <1>2, <2>1, RenderEndsInv
<1>5. CASE render' = [render EXCEPT !.pc = next] /\ UNCHANGED answer
  <2>1. render' \in WholeRenders
    BY <1>3, <1>5 DEF WholeRenders
  <2>2. /\ render'.pc = next /\ render'.session = render.session
        /\ render'.asked = render.asked /\ render'.request = render.request
    BY <1>3, <1>5 DEF WholeRenders
  <2> QED
    BY <1>1, <1>2, <1>5, <2>1, <2>2, RenderGoesOn
<1> QED
  BY <1>4, <1>5 DEF RenderDemoPortalBRIR

LEMMA DecideOpenInv ==
  ASSUME DemoIInv, DecideOpen
  PROVE  DemoIInv'
<1>1. /\ render.pc = "closedDone" /\ DemoTypeOK
      /\ UNCHANGED <<demo, library, clock, cancel, tiers, answer, calls>>
      /\ clock' \in 0 .. Timeout /\ cancel' \in BOOLEAN /\ tiers' \subseteq {"statistical", "preview"}
  BY DEF DecideOpen, DemoIInv, DemoTypeOK
<1>2. render \in WholeRenders
  BY <1>1, RunningTyped
<1>3. PICK next \in {"closedOnly", "open"} : render' = [render EXCEPT !.pc = next]
  BY DEF DecideOpen
<1>4. render' \in WholeRenders
  BY <1>2, <1>3 DEF WholeRenders
<1>5. /\ render'.pc = next /\ render'.session = render.session
      /\ render'.asked = render.asked /\ render'.request = render.request
  BY <1>2, <1>3 DEF WholeRenders
<1> QED
  BY <1>1, <1>4, <1>5, RenderGoesOn

LEMMA FinishPortalRenderInv ==
  ASSUME DemoIInv, FinishPortalRender
  PROVE  DemoIInv'
<1>1. /\ render.pc \in {"openDone", "closedOnly"} /\ DemoTypeOK
      /\ demo \in DemoSessions /\ calls \in 0 .. MaxCalls
      /\ library' = library /\ clock' = clock /\ tiers' = tiers /\ calls' = calls
      /\ clock \in 0 .. Timeout /\ tiers \subseteq {"statistical", "preview"}
  BY DEF FinishPortalRender, DemoIInv, DemoTypeOK
<1>2. cancel' \in BOOLEAN
  BY <1>1, ReportTyped DEF FinishPortalRender
<1>3. render.request \in RequestType
  BY <1>1, RunningTyped
<1>4. CASE Ends("failed") /\ UNCHANGED demo
  <2>1. render' = NoJob /\ answer' \in Answers /\ answer'.outcome # "deadline"
    BY <1>1, <1>4, EndsWithout
  <2> QED
    BY <1>1, <1>2, <1>4, <2>1, RenderEndsInv
<1>5. ASSUME NEW tier \in {"full", "closedOnly"}, Returns(tier), Store(render.request, tier)
      PROVE  DemoIInv'
  <2>1. demo' \in DemoSessions
    BY <1>1, <1>3, <1>5, StoreTyped
  <2>2. render' = NoJob /\ answer' \in Answers /\ answer'.outcome # "deadline"
    BY <1>1, <1>5 DEF Answers, Returns
  <2> QED
    BY <1>1, <1>2, <1>5, <2>1, <2>2, RenderEndsInv
<1> QED
  BY <1>4, <1>5 DEF FinishPortalRender

LEMMA DemoStutters ==
  ASSUME DemoIInv, UNCHANGED demoVars
  PROVE  DemoIInv'
<1> USE DEF demoVars
<1>1. DemoTypeOK' /\ NoPreviewPushed' /\ AnswerAtEnd' /\ ExpiryHasAnswer' /\ WallsKnown'
  BY DEF DemoIInv, DemoTypeOK, NoPreviewPushed, AnswerAtEnd, ExpiryHasAnswer, WallsKnown
<1>2. RenderInv'
  BY DEF DemoIInv, RenderInv, Renderable, PositionsInRooms
<1> QED
  BY <1>1, <1>2 DEF DemoIInv

\* The inductive invariant of the demo renderer.
THEOREM DemoInvariance == DemoSpec => []DemoIInv
<1>1. DemoInit => DemoIInv
  BY DemoInitInv
<1>2. ASSUME DemoIInv, [DemoNext]_demoVars
      PROVE  DemoIInv'
  <2>1. CASE \E room \in Rooms : CreateRoom(room)
    BY <1>2, <2>1, CreateRoomInv
  <2>2. CASE \E name \in Names : SetMaterial(name) \/ RefuseMaterial(name)
    BY <1>2, <2>2, SetMaterialInv
  <2>3. CASE \E x \in Points : SetSource(x) \/ SetReceiver(x)
    BY <1>2, <2>3, SetPositionInv
  <2>4. CASE RejectPayload
    BY <1>2, <2>4, RejectPayloadInv
  <2>5. CASE \E payload \in Payloads : BeginRender(payload)
    BY <1>2, <2>5, BeginRenderInv
  <2>6. CASE BuildDemoScene \/ StageDone \/ TierDone \/ StageFails \/ StageAborts
    BY <1>2, <2>6, BuildDemoSceneInv, StageDoneInv, TierDoneInv, StageFailsInv, StageAbortsInv
  <2>7. CASE DecideFullRender \/ FinishDemoResult \/ DecideOpen \/ FinishPortalRender
    BY <1>2, <2>7, DecideFullRenderInv, FinishDemoResultInv, DecideOpenInv, FinishPortalRenderInv
  <2>8. CASE RenderClosed \/ RenderOpen
    BY <1>2, <2>8, RenderDemoPortalBRIRInv DEF RenderClosed, RenderOpen
  <2>9. CASE UNCHANGED demoVars
    BY <1>2, <2>9, DemoStutters
  <2> QED
    BY <1>2, <2>1, <2>2, <2>3, <2>4, <2>5, <2>6, <2>7, <2>8, <2>9 DEF DemoNext, RenderStep
<1> QED
  BY <1>1, <1>2, PTL DEF DemoSpec

\* runDemoRenderWithDeadline: once a preview was pushed to the page, running out
\* of time does not make the render fail, whatever the stages cost.
THEOREM ExpiryAnswers == DemoSpec => []ExpiryHasAnswer
<1>1. DemoIInv => ExpiryHasAnswer
  BY DEF DemoIInv
<1> QED
  BY <1>1, DemoInvariance, PTL

\* normalizeDemoRequest and applyDemoMemoryBudget: whatever the payloads, the rooms
\* and the positions, what a render starts from fits the projection with nothing
\* but the caps of the connected rooms taken from it, both tiers make sense, and
\* source and receiver are in their rooms once the scene is accepted.
THEOREM RequestsAreRenderable == DemoSpec => []RequestRenderable
<1>1. DemoIInv => RequestRenderable
  BY RenderableIsEnough
<1> QED
  BY <1>1, DemoInvariance, PTL

\* runDemoRender: a render that is rejected, cancelled, out of time or failed leaves
\* the session as the call found it.  No step before the answer touches the session,
\* at whatever stage the render stops and whatever its tiers pushed to the page.
THEOREM FailuresKeepTheSession == DemoSpec => FailureKeepsSession
<1> DEFINE Found == IF render.pc = "idle" THEN demo ELSE render.session
           Kept == answer' # answer /\ answer'.outcome # "result" => demo' = Found
<1>1. ASSUME DemoIInv, [DemoNext]_demoVars
      PROVE  Kept
  <2>1. Found = demo
    BY <1>1 DEF DemoIInv, RenderInv
  <2>2. SUFFICES answer' # answer /\ answer'.outcome # "result" => demo' = demo
    BY <1>1, <2>1
  <2>3. CASE \/ \E room \in Rooms : CreateRoom(room)
             \/ \E name \in Names : SetMaterial(name) \/ RefuseMaterial(name)
             \/ \E x \in Points : SetSource(x) \/ SetReceiver(x)
    BY <2>3 DEF CreateRoom, SetMaterial, RefuseMaterial, SetSource, SetReceiver, Setter
  <2>4. CASE RejectPayload \/ \E payload \in Payloads : BeginRender(payload)
    BY <2>4 DEF RejectPayload, BeginRender
  <2>5. CASE BuildDemoScene \/ StageDone \/ TierDone \/ StageFails \/ StageAborts
    BY <2>5 DEF BuildDemoScene, StageDone, TierDone, StageFails, StageAborts, RunStage
  <2>6. CASE DecideFullRender \/ DecideOpen \/ RenderClosed \/ RenderOpen
    BY <2>6 DEF DecideFullRender, DecideOpen, RenderClosed, RenderOpen, RenderDemoPortalBRIR
  <2>7. CASE FinishDemoResult
    BY <2>7 DEF FinishDemoResult, Returns
  <2>8. CASE FinishPortalRender
    BY <2>8 DEF FinishPortalRender, Returns
  <2>9. CASE UNCHANGED demoVars
    BY <2>9 DEF demoVars
  <2> QED
    BY <1>1, <2>3, <2>4, <2>5, <2>6, <2>7, <2>8, <2>9 DEF DemoNext, RenderStep
<1>2. DemoIInv /\ [DemoNext]_demoVars => [Kept]_demoVars
  BY <1>1
<1> QED
  BY <1>2, DemoInvariance, PTL DEF DemoSpec, FailureKeepsSession
=============================================================================
