------------------------------ MODULE GpuWorker ------------------------------
(***************************************************************************)
(* The Go client of the GPU server (gpu/worker) and the server it talks to *)
(* (gpu/server/server.cu), from the moment Start has connected them.       *)
(*                                                                         *)
(* Client goroutines call the methods of one Worker.  A method that moves  *)
(* bulk data creates a shared-memory segment, hands its name to the server *)
(* through do, and removes it when it returns; do puts a call into a       *)
(* bounded queue that one goroutine, loop, serves over the socket.  A      *)
(* context may end a do at any point while its call is queued, on the wire *)
(* or being answered.                                                      *)
(***************************************************************************)
EXTENDS Naturals, Sequences, FiniteSets

CONSTANTS
  GridClients,        \* goroutines that simulate on an FDTD grid
  RayClients,         \* goroutines that trace rays against a BVH
  Closers,            \* goroutines that call Close, once each
  Deadlined,          \* the clients whose contexts may be cancelled or expire
  StartCtxEnds,       \* whether the context given to Start is cancelled later
  MaxObjects,         \* the objects the device has room for
  QueueCap,           \* capacity of w.queue (64 in the code)
  MaxGridCalls,       \* bound on the calls of one grid client
  MaxRayCalls,        \* bound on the calls of one ray client
  Steps,              \* timesteps of one RunFDTD
  None

Clients == GridClients \cup RayClients
Procs == Clients \cup Closers
Handles == 1 .. MaxObjects      \* the addresses the server's allocator returns
FieldTimes == [cur : Nat, prev : Nat, next : Nat]
\* The GridState and BVHState objects.  silent is history, which only properties
\* read: the device failed on the object's fields and no answer said so.
Objects == [owner : Clients, n : Nat, f : FieldTimes, silent : BOOLEAN]
\* Results of do, with the call that the server's response frame answers.
Answers == [status : {"ok", "oom", "badmsg", "cuda", "ioerr"}, handle : Handles \cup {None},
            of : (Procs \X Nat) \cup {None}]
MaxCalls(p) == IF p \in GridClients THEN MaxGridCalls ELSE MaxRayCalls

ASSUME GpuAssumption ==
  /\ GridClients \cap RayClients = {} /\ Clients \cap Closers = {}
  /\ Deadlined \subseteq Clients
  /\ StartCtxEnds \in BOOLEAN
  /\ QueueCap \in Nat \ {0} /\ {MaxGridCalls, MaxRayCalls} \subseteq Nat /\ Steps \in Nat \ {0}
  /\ MaxObjects \in Nat /\ None \notin Handles \cup Objects \cup Answers

VARIABLES
  call,       \* per goroutine: where it is in its current call
  segs,       \* the calls whose shared-memory segments exist
  queue,      \* w.queue
  closed,     \* w.closed is closed
  connOpen,   \* w.conn is open on the client's side
  panicked,   \* close of a closed channel
  loop,       \* the goroutine loop: [st, cur]
  wire,       \* the socket: [req, resp]
  srv,        \* "serving", "running" (inside a long handler) or "exited"
  objs        \* the server's grids and BVHs by handle

vars == <<call, segs, queue, closed, connOpen, panicked, loop, wire, srv, objs>>
worker == <<queue, closed, connOpen, panicked, loop>>
server == <<wire, srv, objs>>

Allocs == {"AllocGrid", "AllocBVH"}
Frees == {"FreeGrid", "FreeBVH"}
BulkOps == {"AllocBVH", "UploadFields", "RunFDTD", "TraceRays"}   \* use a segment
HandleOps == Frees \cup {"UploadFields", "RunFDTD", "TraceRays"}    \* name an object

\* A grid's three pressure fields by the timestep each one holds; a BVH has none.
NoFields == [cur |-> 0, prev |-> 0, next |-> 0]
Object(p, n) == [owner |-> p, n |-> n, f |-> NoFields, silent |-> FALSE]

Request(p) == [who |-> p, n |-> call[p].n, op |-> call[p].op, handle |-> call[p].handle]

Init ==
  /\ call = [p \in Procs |-> [pc |-> "idle", n |-> 0, op |-> "Ping", handle |-> None,
                              time |-> 0, lost |-> FALSE, answer |-> None]]
  /\ segs = {} /\ queue = <<>>
  /\ closed = FALSE /\ connOpen = TRUE /\ panicked = FALSE
  /\ loop = [st |-> "select", cur |-> None]
  /\ wire = [req |-> <<>>, resp |-> <<>>]
  /\ srv = "serving"
  /\ objs = [h \in Handles |-> None]

-----------------------------------------------------------------------------
(* The methods of Worker, up to their call of do. *)

\* AllocGrid, UploadFields, RunFDTD and FreeGrid, as a caller may use them: one
\* grid at a time and an upload before the first run.
GridCalls(r) ==
  IF r.handle = None THEN {"AllocGrid"}
  ELSE {"UploadFields", "FreeGrid"} \cup (IF r.time > 0 THEN {"RunFDTD"} ELSE {})

\* AllocBVH, TraceRays and FreeBVH.
RayCalls(r) == IF r.handle = None THEN {"AllocBVH"} ELSE {"TraceRays", "FreeBVH"}

\* createShm under a fresh name, for the operations that move bulk data.
CreateShm(p, op) == IF op \in BulkOps THEN segs \cup {<<p, call[p].n + 1>>} ELSE segs

\* A method of Worker is called and enters do.
Begin(p, op) ==
  /\ call[p].pc = "idle" /\ call[p].n < MaxCalls(p)
  /\ call' = [call EXCEPT ![p].pc = "submit", ![p].n = @ + 1, ![p].op = op]
  /\ segs' = CreateShm(p, op)
  /\ UNCHANGED <<worker, server>>

\* Whoever started the worker runs the grid clients and defers Close: no grid
\* call begins after it, and none is under way when it is called, except on the
\* wire.  Ray clients are goroutines of their own.
Deferred == \A p \in Closers : call[p].pc = "idle"

BeginGrid(p) ==
  p \in GridClients /\ Deferred /\ \E op \in GridCalls(call[p]) : Begin(p, op)
BeginRays(p) == p \in RayClients /\ \E op \in RayCalls(call[p]) : Begin(p, op)

\* Ping is what StartIfAvailable calls first, for the client that started the worker.
BeginPing(p) == p \in GridClients /\ Deferred /\ call[p].n = 0 /\ Begin(p, "Ping")

\* Close: do(Shutdown) under its own 3 s context.
BeginClose(p) ==
  /\ p \in Closers /\ call[p].pc = "idle" /\ call[p].n = 0
  /\ \A g \in GridClients : call[g].pc = "idle"
  /\ call' = [call EXCEPT ![p].pc = "submit", ![p].n = 1, ![p].op = "Shutdown"]
  /\ UNCHANGED <<segs, worker, server>>

-----------------------------------------------------------------------------
(* do. *)

MutantSubmit(p) ==          \* a Free is sent twice
  /\ call[p].pc = "submit" /\ Len(queue) < QueueCap
  /\ queue' = queue \o (IF call[p].op \in Frees THEN <<Request(p), Request(p)>> ELSE <<Request(p)>>)
  /\ call' = [call EXCEPT ![p].pc = "wait"]
  /\ UNCHANGED <<segs, closed, connOpen, panicked, loop, server>>

\* The first select, with room in w.queue.
Submit(p) ==
  /\ call[p].pc = "submit" /\ Len(queue) < QueueCap
  /\ queue' = Append(queue, Request(p))
  /\ call' = [call EXCEPT ![p].pc = "wait"]
  /\ UNCHANGED <<segs, closed, connOpen, panicked, loop, server>>

\* The caller's record once do has returned: what the method makes of the
\* status, and what the client then believes about its handle and its fields.
Returned(p, status, h) ==
  LET r == call[p]
      ok == status = "ok"
  IN  IF p \in Closers THEN [r EXCEPT !.pc = "close", !.answer = None]
      ELSE [r EXCEPT
              !.pc = "idle", !.op = "Ping", !.answer = None,
              !.handle = IF r.op \in Allocs THEN IF ok THEN h ELSE None
                         ELSE IF r.op \in Frees THEN None ELSE @,
              !.lost = @ \/ (status = "ctx" /\ r.op \in Allocs \cup Frees),
              !.time = CASE r.op = "UploadFields" -> IF ok THEN 1 ELSE 0
                         [] r.op = "RunFDTD" -> IF ok THEN @ + Steps
                                                ELSE IF status = "oom" THEN @ ELSE 0
                         [] r.op \in Allocs \cup Frees -> 0
                         [] OTHER -> @]

\* closeShm, deferred by every method that called createShm.
CloseShm(p) == segs \ {<<p, call[p].n>>}

\* do returns, and with it the method.
DoReturns(p, status, h) ==
  /\ call' = [call EXCEPT ![p] = Returned(p, status, h)]
  /\ segs' = CloseShm(p)
  /\ UNCHANGED <<worker, server>>

\* The first select, with w.closed closed.
SubmitClosed(p) == call[p].pc = "submit" /\ closed /\ DoReturns(p, "closed", None)

\* Either select, once the call's context is cancelled or has expired (select
\* picks any ready case, so a context that is done need not end the call).
ReturnCtx(p) ==
  /\ p \in Deadlined \cup Closers /\ call[p].pc \in {"submit", "wait"}
  /\ DoReturns(p, "ctx", None)

\* The second select, with an answer in the result channel.
ReturnAnswer(p) ==
  /\ call[p].pc = "wait" /\ call[p].answer # None
  /\ DoReturns(p, call[p].answer.status, call[p].answer.handle)

-----------------------------------------------------------------------------
(* loop and roundTrip. *)

\* c.result <- callResult{...}: a caller that has left does not see it.
Deliver(c, answer) ==
  call' = IF call[c.who].pc = "wait" /\ call[c.who].n = c.n
          THEN [call EXCEPT ![c.who].answer = answer] ELSE call

IoErr == [status |-> "ioerr", handle |-> None, of |-> None]

\* A call is taken from the queue and its frame written.
LoopTake ==
  /\ loop.st = "select" /\ queue # <<>>
  /\ connOpen /\ srv # "exited"
  /\ queue' = Tail(queue)
  /\ wire' = [wire EXCEPT !.req = Append(@, Head(queue))]
  /\ loop' = [st |-> "recv", cur |-> Head(queue)]
  /\ UNCHANGED <<call, segs, closed, connOpen, panicked, srv, objs>>

MutantLoopTakeFails ==      \* the failed write is not reported
  /\ loop.st = "select" /\ queue # <<>>
  /\ ~connOpen \/ srv = "exited"
  /\ queue' = Tail(queue)
  /\ UNCHANGED <<call, segs, closed, connOpen, panicked, loop, server>>

\* The write fails: the connection is closed or the server is gone.
LoopTakeFails ==
  /\ loop.st = "select" /\ queue # <<>>
  /\ ~connOpen \/ srv = "exited"
  /\ queue' = Tail(queue)
  /\ Deliver(Head(queue), IoErr)
  /\ UNCHANGED <<segs, closed, connOpen, panicked, loop, server>>

MutantLoopRecv ==           \* the response of an abandoned call is left unread
  /\ loop.st = "recv" /\ connOpen /\ wire.resp # <<>>
  /\ Deliver(loop.cur, Head(wire.resp))
  /\ wire' = IF call[loop.cur.who].pc = "wait" /\ call[loop.cur.who].n = loop.cur.n
             THEN [wire EXCEPT !.resp = Tail(@)] ELSE wire
  /\ loop' = [st |-> "select", cur |-> None]
  /\ UNCHANGED <<segs, queue, closed, connOpen, panicked, srv, objs>>

\* One response frame is read, header and body, and handed over.
LoopRecv ==
  /\ loop.st = "recv" /\ connOpen /\ wire.resp # <<>>
  /\ Deliver(loop.cur, Head(wire.resp))
  /\ wire' = [wire EXCEPT !.resp = Tail(@)]
  /\ loop' = [st |-> "select", cur |-> None]
  /\ UNCHANGED <<segs, queue, closed, connOpen, panicked, srv, objs>>

\* The read fails.
LoopRecvFails ==
  /\ loop.st = "recv"
  /\ ~connOpen \/ (srv = "exited" /\ wire.resp = <<>>)
  /\ Deliver(loop.cur, IoErr)
  /\ loop' = [st |-> "select", cur |-> None]
  /\ UNCHANGED <<segs, queue, closed, connOpen, panicked, server>>

\* select picks w.closed, even with calls left in the queue.
LoopExit ==
  /\ loop.st = "select" /\ closed
  /\ loop' = [loop EXCEPT !.st = "exited"]
  /\ UNCHANGED <<call, segs, queue, closed, connOpen, panicked, server>>

-----------------------------------------------------------------------------
(* The rest of Close. *)

CloseStep(p, from, to) ==
  /\ p \in Closers /\ call[p].pc = from
  /\ call' = [call EXCEPT ![p].pc = to]

\* close(w.closed)
CloseClosed(p) ==
  /\ CloseStep(p, "close", IF closed THEN "panic" ELSE "conn")
  /\ panicked' = (panicked \/ closed)
  /\ closed' = TRUE
  /\ UNCHANGED <<segs, queue, connOpen, loop, server>>

MutantCloseConn(p) ==       \* w.conn.Close() is forgotten
  /\ CloseStep(p, "conn", "reap")
  /\ UNCHANGED <<segs, worker, server>>

\* w.conn.Close()
CloseConn(p) ==
  /\ CloseStep(p, "conn", "reap")
  /\ connOpen' = FALSE
  /\ wire' = [wire EXCEPT !.resp = <<>>]     \* nobody reads it any more
  /\ UNCHANGED <<segs, queue, closed, panicked, loop, srv, objs>>

\* w.cmd.Wait()
CloseReap(p) ==
  /\ CloseStep(p, "reap", "done")
  /\ srv = "exited"
  /\ UNCHANGED <<segs, worker, server>>

-----------------------------------------------------------------------------
(* The server: one thread, handle_one after handle_one. *)

\* send_response; on a closed connection the write ends the process.
Reply(c, status, h, next) ==
  /\ wire' = [req |-> Tail(wire.req),
              resp |-> IF connOpen
                       THEN Append(wire.resp, [status |-> status, handle |-> h, of |-> <<c.who, c.n>>])
                       ELSE wire.resp]
  /\ srv' = IF connOpen THEN next ELSE "exited"

MutantAdvance(f) == [prev |-> f.cur, cur |-> f.prev, next |-> f.cur + 1]

\* One timestep: the kernel fills pNext from pCur and pPrev (a field that was
\* computed from two non-consecutive ones is worthless: 0), then the three
\* pointers rotate.
Advance(f) ==
  [prev |-> f.cur, cur |-> IF f.cur = f.prev + 1 THEN f.cur + 1 ELSE 0, next |-> f.prev]

March(f) == LET m[k \in 0 .. Steps] == IF k = 0 THEN f ELSE Advance(m[k - 1]) IN m[Steps]

Live(c) == c.handle # None /\ objs[c.handle] # None

HasSegment(c) == <<c.who, c.n>> \in segs

\* new GridState or new BVHState: the lowest free address, so that a freed one
\* is used again at once.
Allocate(c) ==
  \E h \in Handles :
    /\ objs[h] = None /\ \A k \in 1 .. h - 1 : objs[k] # None
    /\ objs' = [objs EXCEPT ![h] = Object(c.who, c.n)]
    /\ Reply(c, "ok", h, "serving")

\* handle_alloc_grid: a failing cudaMalloc frees what was allocated.
HandleAllocGrid(c) ==
  /\ c.op = "AllocGrid"
  /\ Allocate(c) \/ (Reply(c, "oom", None, "serving") /\ UNCHANGED objs)

\* handle_alloc_bvh: the segment is opened before anything is allocated.
HandleAllocBVH(c) ==
  /\ c.op = "AllocBVH"
  /\ \/ ~HasSegment(c) /\ Reply(c, "badmsg", None, "serving") /\ UNCHANGED objs
     \/ HasSegment(c) /\ Allocate(c)
     \/ HasSegment(c) /\ Reply(c, "oom", None, "serving") /\ UNCHANGED objs

MutantHandleFreeGrid(c) ==  \* the grid is not deleted
  /\ c.op = "FreeGrid" /\ Live(c)
  /\ Reply(c, "ok", None, "serving") /\ UNCHANGED objs

\* handle_free_grid
HandleFreeGrid(c) ==
  /\ c.op = "FreeGrid" /\ Live(c)
  /\ objs' = [objs EXCEPT ![c.handle] = None]
  /\ Reply(c, "ok", None, "serving")

\* handle_free_bvh
HandleFreeBVH(c) ==
  /\ c.op = "FreeBVH" /\ Live(c)
  /\ objs' = [objs EXCEPT ![c.handle] = None]
  /\ Reply(c, "ok", None, "serving")

\* A handler leaves the fields f; silent, if the device failed and no answer says so.
SetFields(c, f, silent) ==
  objs' = [objs EXCEPT ![c.handle] = [@ EXCEPT !.f = f, !.silent = silent]]

\* handle_upload_fields: the segment is opened first.  Only the fallback without
\* pinned memory answers "cuda" to a failing copy; the pinned copies fail in
\* silence, their results and those of the synchronisation being ignored.
HandleUploadFields(c) ==
  /\ c.op = "UploadFields" /\ Live(c)
  /\ \/ /\ ~HasSegment(c)
        /\ Reply(c, "badmsg", None, "serving") /\ UNCHANGED objs
     \/ /\ HasSegment(c)
        /\ SetFields(c, [objs[c.handle].f EXCEPT !.cur = 1, !.prev = 0], FALSE)
        /\ Reply(c, "ok", None, "serving")
     \/ /\ HasSegment(c)
        /\ SetFields(c, NoFields, TRUE)
        /\ Reply(c, "ok", None, "serving")
     \/ /\ HasSegment(c)
        /\ SetFields(c, NoFields, FALSE)
        /\ Reply(c, "cuda", None, "serving")

\* handle_run_fdtd up to the end of the time march; out of memory comes first.
\* Neither the launches nor the synchronisation after them are checked.
HandleRunFDTD(c) ==
  /\ c.op = "RunFDTD" /\ Live(c)
  /\ \/ Reply(c, "oom", None, "serving") /\ UNCHANGED objs
     \/ /\ \/ SetFields(c, March(objs[c.handle].f), objs[c.handle].silent)
           \/ SetFields(c, NoFields, TRUE)
        /\ srv' = "running" /\ UNCHANGED wire

\* handle_trace_rays up to the end of the traversal.
HandleTraceRays(c) ==
  /\ c.op = "TraceRays" /\ Live(c)
  /\ IF HasSegment(c) THEN srv' = "running" /\ UNCHANGED wire
     ELSE Reply(c, "badmsg", None, "serving")
  /\ UNCHANGED objs

\* The rest of those two: the result segment is opened and filled.
HandleResult(c) ==
  /\ Reply(c, IF HasSegment(c) THEN "ok" ELSE "badmsg", None, "serving")
  /\ UNCHANGED objs

\* handle_one: the dispatch on the message type.  A handle is a pointer the
\* server trusts; what it does with one it has freed is undefined, and the model
\* has no step for it: NoDanglingRequest says that it never gets one.
ServerHandle ==
  /\ srv = "serving" /\ wire.req # <<>>
  /\ LET c == Head(wire.req) IN
       \/ c.op = "Ping" /\ Reply(c, "ok", None, "serving") /\ UNCHANGED objs
       \/ c.op = "Shutdown" /\ Reply(c, "ok", None, "exited") /\ UNCHANGED objs
       \/ HandleAllocGrid(c) \/ HandleFreeGrid(c) \/ HandleUploadFields(c) \/ HandleRunFDTD(c)
       \/ HandleAllocBVH(c) \/ HandleFreeBVH(c) \/ HandleTraceRays(c)
  /\ UNCHANGED <<call, segs, worker>>

ServerFinish ==
  /\ srv = "running"
  /\ HandleResult(Head(wire.req))
  /\ UNCHANGED <<call, segs, worker>>

\* read_exact fails on the closed connection and main returns.
ServerEOF ==
  /\ srv = "serving" /\ wire.req = <<>> /\ ~connOpen
  /\ srv' = "exited"
  /\ UNCHANGED <<call, segs, worker, wire, objs>>

\* exec.CommandContext kills the process when the context given to Start ends.
StartCtxDone ==
  /\ StartCtxEnds /\ srv # "exited"
  /\ srv' = "exited"
  /\ UNCHANGED <<call, segs, worker, wire, objs>>

-----------------------------------------------------------------------------
DoStep(p) == Submit(p) \/ SubmitClosed(p) \/ ReturnCtx(p) \/ ReturnAnswer(p)
CloserStep(p) == CloseClosed(p) \/ CloseConn(p) \/ CloseReap(p)
LoopStep == LoopTake \/ LoopTakeFails \/ LoopRecv \/ LoopRecvFails \/ LoopExit
ServerStep == ServerHandle \/ ServerFinish \/ ServerEOF

Next ==
  \/ \E p \in Clients : BeginGrid(p) \/ BeginRays(p) \/ BeginPing(p)
  \/ \E p \in Closers : BeginClose(p) \/ CloserStep(p)
  \/ \E p \in Procs : DoStep(p)
  \/ LoopStep \/ ServerStep \/ StartCtxDone

\* The goroutines and the server run, and the 3 s context of Close expires.
\* A client's context need not end.
ClientRuns(p) == Submit(p) \/ SubmitClosed(p) \/ ReturnAnswer(p)
CloserRuns(p) == DoStep(p) \/ CloserStep(p)

Fairness ==
  /\ WF_vars(LoopStep) /\ WF_vars(ServerStep)
  /\ \A p \in Clients : WF_vars(ClientRuns(p))
  /\ \A p \in Closers : WF_vars(CloserRuns(p))

Spec == Init /\ [][Next]_vars /\ Fairness

-----------------------------------------------------------------------------
(* Properties. *)

\* The answer a caller finds in its result channel is the server's answer to
\* that very call, whatever calls before it were abandoned on the wire:
\* roundTrip never leaves a response behind for the next call to read.  And it
\* is never "bad message": the segment of a caller that still waits exists for
\* as long as the server may open it.
AnswersMatch ==
  \A p \in Procs :
    call[p].pc = "wait" /\ call[p].answer \notin {None, IoErr}
      => call[p].answer.of = <<p, call[p].n>> /\ call[p].answer.status # "badmsg"

\* Between calls, the grid of a client that uploaded its fields holds two
\* consecutive timesteps, and exactly those the client's completed runs lead to
\* ("subsequent RunFDTD calls continue from where the previous left off",
\* fdtd.go:105-106), even when an earlier run was abandoned and still executed.
\* Only a device that failed without an answer that said so puts the two out of
\* step, and only until the next upload that succeeds.
FieldsInStep ==
  \A p \in GridClients :
    call[p].pc = "idle" /\ call[p].time > 0 /\ call[p].handle # None /\ srv # "exited"
      => LET o == objs[call[p].handle] IN
           /\ o # None
           /\ o.silent \/ (o.f.cur = call[p].time /\ o.f.prev = call[p].time - 1)

\* A client's handle names an object it allocated itself, and an object on the
\* server has an owner that can free it, unless that owner abandoned an Alloc
\* or a Free: the only way device memory leaks before Close.
HandlesOwned ==
  ~closed /\ srv # "exited" =>
    /\ \A p \in Clients :
         call[p].pc = "idle" /\ call[p].handle # None
           => objs[call[p].handle] # None /\ objs[call[p].handle].owner = p
    /\ \A h \in Handles :
         objs[h] # None =>
           LET r == call[objs[h].owner] IN
             r.handle = h \/ r.lost \/ (r.pc = "wait" /\ r.op \in Allocs)

\* The server is never asked to use a handle it has freed: requests arrive in
\* the order of their calls, and a client drops a handle it tried to free even
\* when the Free was abandoned.
NoDanglingRequest ==
  wire.req # <<>> /\ srv = "serving" =>
    LET c == Head(wire.req) IN c.op \in HandleOps => Live(c)

\* Close returns: the shutdown request times out at the latest, and closing
\* the connection ends the server that cmd.Wait waits for.
CloseReturns == \A p \in Closers : call[p].pc = "submit" ~> call[p].pc \in {"done", "panic"}

\* A call returns, whatever happens to the server or to the calls before it,
\* unless the worker is closed meanwhile.
CallsReturnWhileOpen ==
  \A p \in Clients : call[p].pc = "submit" ~> (call[p].pc = "idle" \/ closed)

\* do "blocks until the response arrives" (worker.go:117): every call returns.
EveryCallReturns == \A p \in Clients : call[p].pc = "submit" ~> call[p].pc = "idle"
-----------------------------------------------------------------------------
(* The inductive invariant. *)

Ops == {"Ping", "Shutdown"} \cup Allocs \cup HandleOps
Requests == [who : Procs, n : Nat, op : Ops, handle : Handles \cup {None}]
CallStates == [pc : {"idle", "submit", "wait", "close", "conn", "reap", "done", "panic"},
               n : Nat, op : Ops, handle : Handles \cup {None}, time : Nat, lost : BOOLEAN,
               answer : Answers \cup {None}]

TypeOK ==
  /\ call \in [Procs -> CallStates]
  /\ segs \in SUBSET (Procs \X Nat)
  /\ queue \in Seq(Requests)
  /\ closed \in BOOLEAN /\ connOpen \in BOOLEAN
  /\ loop \in [st : {"select", "recv", "exited"}, cur : Requests \cup {None}]
  /\ wire \in [req : Seq(Requests), resp : Seq(Answers)]
  /\ srv \in {"serving", "running", "exited"}
  /\ objs \in [Handles -> Objects \cup {None}]

Calling(p) == call[p].pc \in {"submit", "wait"}

\* What a method has done when it waits in do, and what kind of method it is.
CallOf(p) ==
  /\ call[p].pc \in {"idle", "submit"} => call[p].answer = None
  /\ p \in Clients => call[p].pc \in {"idle", "submit", "wait"}
  /\ p \in Closers => call[p].op \in {"Ping", "Shutdown"} /\ call[p].handle = None
  /\ call[p].pc \in {"conn", "reap", "done"} => closed
  /\ p \in RayClients => call[p].time = 0
  /\ Calling(p) =>
       /\ call[p].op \in BulkOps => <<p, call[p].n>> \in segs
       /\ call[p].op \in Allocs => call[p].handle = None
       /\ call[p].op \in HandleOps => call[p].handle # None
       /\ call[p].op \in {"AllocGrid", "UploadFields", "RunFDTD", "FreeGrid"} => p \in GridClients

\* Close waits for the grid clients, and they wait for Close.
DeferredInv ==
  /\ ~connOpen => closed
  /\ closed => ~Deferred
  /\ ~Deferred => \A g \in GridClients : call[g].pc = "idle"

\* At most one request is with the server and at most one response is unread,
\* and both belong to the call that loop works on.
WireInv ==
  /\ loop.st = "recv" => loop.cur \in Requests
  /\ wire.req # <<>> => /\ Tail(wire.req) = <<>>
                        /\ connOpen /\ srv # "exited" => loop.st = "recv" /\ Head(wire.req) = loop.cur
  /\ wire.resp # <<>> =>
       /\ Tail(wire.resp) = <<>> /\ wire.req = <<>> /\ connOpen /\ loop.st = "recv"
       /\ Head(wire.resp).of = <<loop.cur.who, loop.cur.n>> /\ Head(wire.resp).status # "ioerr"
  /\ srv = "running" => wire.req # <<>> /\ Head(wire.req).op \in {"RunFDTD", "TraceRays"}

Wired == IF wire.req = <<>> THEN {} ELSE {Head(wire.req)}
Queued == {queue[i] : i \in DOMAIN queue}
Served == IF loop.st = "recv" THEN {loop.cur} ELSE {}
Pending == Wired \cup Queued

Current(c) == call[c.who].pc = "wait" /\ call[c.who].n = c.n

\* A request comes from a call that was made, and is that call while it waits.
SentOf(c) ==
  /\ c.who \in Closers => c.op \in {"Ping", "Shutdown"}
  /\ c.n <= call[c.who].n
  /\ c.n = call[c.who].n => call[c.who].pc # "submit"
  /\ Current(c) => c.op = call[c.who].op /\ c.handle = call[c.who].handle

\* Requests of one caller are in the order of its calls.
SentInv ==
  /\ \A c \in Pending \cup Served : SentOf(c)
  /\ \A i, j \in DOMAIN queue : i < j /\ queue[i].who = queue[j].who => queue[i].n < queue[j].n
  /\ \A c \in Wired \cup Served, d \in Queued : c.who = d.who => c.n < d.n

\* The server's answers that a waiting call has, or has on the wire.
Replies(p) ==
  {a \in {call[p].answer} \cup {wire.resp[i] : i \in DOMAIN wire.resp} :
     /\ call[p].pc = "wait" /\ a # None
     /\ a.status # "ioerr" /\ (a = call[p].answer \/ a.of = <<p, call[p].n>>)}

\* An answer is the last that is heard of a call: its requests are all behind it.
AnswerOf(p) ==
  /\ call[p].pc = "wait" /\ call[p].answer # None =>
       /\ \A c \in Queued : c.who # p
       /\ \A c \in Served : c.who = p => c.n # call[p].n
       /\ call[p].answer.status = "ioerr" => call[p].answer = IoErr /\ (closed \/ srv = "exited")
  /\ \A a \in Replies(p) : /\ \A c \in Pending : c.who # p
                           /\ a.of = <<p, call[p].n>> /\ a.status # "badmsg"

Names(c, h) == c.op \in HandleOps /\ c.handle = h
OwnedBy(h, p) == objs[h] # None /\ objs[h].owner = p

\* A request names a living object of its caller, and nothing is asked of an
\* object after the request to free it.
HandleInv ==
  /\ \A c \in Pending : c.op \in HandleOps => c.handle \in Handles /\ OwnedBy(c.handle, c.who)
  /\ \A c, d \in Pending : c.op \in Frees /\ c.who = d.who /\ c.n < d.n => ~Names(d, c.handle)
  /\ \A p \in Clients :
       call[p].handle # None /\ ~(call[p].pc = "wait" /\ call[p].op \in Frees) =>
         /\ OwnedBy(call[p].handle, p)
         /\ \A c \in Pending : c.op \in Frees => c.handle # call[p].handle
  /\ \A p \in Clients : \A a \in Replies(p) : call[p].op \in Allocs /\ a.status = "ok" =>
       a.handle \in Handles /\ OwnedBy(a.handle, p) /\ \A c \in Pending : ~Names(c, a.handle)

\* An object of a client that abandoned no Alloc and no Free is the one its
\* handle names, or the one it is about to be told of.
LeakOf(p) ==
  ~closed /\ srv # "exited" /\ ~call[p].lost =>
    /\ \A c \in Pending : c.who = p /\ c.op \in Allocs \cup Frees => Current(c)
    /\ \A h \in Handles : OwnedBy(h, p) =>
         \/ call[p].handle = h /\ (call[p].op \in Frees => Replies(p) = {})
         \/ call[p].op \in Allocs /\ \E a \in Replies(p) : a.status = "ok" /\ a.handle = h

FieldOps == {"UploadFields", "RunFDTD"}

\* The object h holds timesteps t - 1 and t, or the device failed in silence.
At(h, t) == objs[h].silent \/ (objs[h].f.cur = t /\ objs[h].f.prev = t - 1)

\* The fields of a client's grid follow its runs.
FieldsOf(p) ==
  srv # "exited" =>
    /\ call[p].time > 0 =>
         /\ call[p].handle # None
         /\ \A c \in Pending : c.who = p /\ c.op \in FieldOps => Current(c)
         /\ ~(call[p].pc = "wait" /\ call[p].op \in FieldOps \cup Frees) => At(call[p].handle, call[p].time)
         /\ call[p].pc = "wait" /\ call[p].op = "RunFDTD" /\ call[p].answer = None /\ Replies(p) = {} =>
              At(call[p].handle,
                 IF srv = "running" /\ Head(wire.req).who = p /\ Current(Head(wire.req))
                 THEN call[p].time + Steps ELSE call[p].time)
    /\ \A a \in Replies(p) :
         /\ call[p].op = "UploadFields" /\ a.status = "ok" => At(call[p].handle, 1)
         /\ call[p].op = "RunFDTD" /\ call[p].time > 0 /\ a.status = "ok" =>
              At(call[p].handle, call[p].time + Steps)
         /\ call[p].op = "RunFDTD" /\ call[p].time > 0 /\ a.status = "oom" =>
              At(call[p].handle, call[p].time)
    /\ call[p].op = "RunFDTD" /\ Calling(p) => call[p].time > 0

GpuIInv ==
  /\ TypeOK /\ DeferredInv /\ WireInv /\ SentInv /\ HandleInv
  /\ \A p \in Procs : CallOf(p) /\ AnswerOf(p)
  /\ \A p \in Clients : LeakOf(p)
  /\ \A p \in GridClients : FieldsOf(p)
=============================================================================
