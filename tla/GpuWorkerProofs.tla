--------------------------- MODULE GpuWorkerProofs ---------------------------
(* The calls of the GPU worker, for every number of clients, every capacity *)
(* of the queue and every number of timesteps.                              *)
EXTENDS GpuWorker, WellFoundedInduction, TLAPS

-----------------------------------------------------------------------------
(* The time march. *)

\* A nonempty set of naturals has a smallest element.
LEMMA Smallest ==
  ASSUME NEW T \in SUBSET Nat, T # {}
  PROVE  \E x \in T : \A y \in T : x <= y
<1>1. IsWellFoundedOn(OpToRel(<, Nat), Nat)
  BY NatLessThanWellFounded
<1>2. PICK x \in T : \A y \in T : ~(<<y, x>> \in OpToRel(<, Nat))
  BY <1>1, WFMin
<1>3. \A y \in T : ~(y < x)
  BY <1>2 DEF OpToRel
<1> QED
  BY <1>3

\* The fields after k timesteps from f.
After(f, k) ==
  IF f.cur = f.prev + 1
  THEN [prev |-> f.prev + k, cur |-> f.cur + k, next |-> IF k = 0 THEN f.next ELSE f.prev + k - 1]
  ELSE [prev |-> IF k = 0 THEN f.prev ELSE IF k = 1 THEN f.cur ELSE 0,
        cur |-> IF k = 0 THEN f.cur ELSE 0,
        next |-> IF k = 0 THEN f.next ELSE IF k = 1 THEN f.prev ELSE IF k = 2 THEN f.cur ELSE 0]

\* One timestep.
LEMMA AfterAdvances ==
  ASSUME NEW f \in FieldTimes, NEW k \in Nat
  PROVE  /\ After(f, 0) = f
         /\ After(f, k) \in FieldTimes
         /\ k > 0 => Advance(After(f, k - 1)) = After(f, k)
<1>1. After(f, 0) = f
  BY DEF After, FieldTimes
<1>2. After(f, k) \in FieldTimes
  BY DEF After, FieldTimes
<1>3. CASE f.cur = f.prev + 1
  BY <1>1, <1>2, <1>3 DEF After, FieldTimes, Advance
<1>4. CASE f.cur # f.prev + 1
  <2>1. CASE k = 1
    BY <1>4, <2>1 DEF After, FieldTimes, Advance
  <2>2. CASE k = 2
    BY <1>4, <2>2 DEF After, FieldTimes, Advance
  <2>3. CASE k > 2
    BY <1>4, <2>3 DEF After, FieldTimes, Advance
  <2> QED
    BY <1>1, <1>2, <2>1, <2>2, <2>3
<1> QED
  BY <1>3, <1>4

\* The march over all timesteps of a run.
LEMMA Marched ==
  ASSUME NEW f \in FieldTimes
  PROVE  March(f) = After(f, Steps)
<1> DEFINE m == CHOOSE m : m = [k \in 0 .. Steps |-> IF k = 0 THEN f ELSE Advance(m[k - 1])]
           g == [k \in 0 .. Steps |-> After(f, k)]
<1>1. March(f) = m[Steps]
  BY DEF March
<1>2. Steps \in Nat
  BY GpuAssumption
<1>3. ASSUME NEW k \in 0 .. Steps
      PROVE  After(f, k) = IF k = 0 THEN f ELSE Advance(After(f, k - 1))
  BY <1>2, AfterAdvances
<1>4. g = [k \in 0 .. Steps |-> IF k = 0 THEN f ELSE Advance(g[k - 1])]
  <2>1. ASSUME NEW k \in 0 .. Steps
        PROVE  g[k] = IF k = 0 THEN f ELSE Advance(g[k - 1])
    <3>1. k # 0 => k - 1 \in 0 .. Steps
      BY <1>2
    <3>2. g[k] = After(f, k) /\ (k # 0 => g[k - 1] = After(f, k - 1))
      BY <3>1
    <3> HIDE DEF g
    <3> QED
      BY <1>3, <3>2
  <2> QED
    BY <2>1
<1>5. m = [k \in 0 .. Steps |-> IF k = 0 THEN f ELSE Advance(m[k - 1])]
  BY <1>4, Zenon
<1>6. \A k \in 0 .. Steps : m[k] = After(f, k)
  <2> DEFINE Bad == {k \in 0 .. Steps : m[k] # After(f, k)}
  <2>1. SUFFICES ASSUME Bad # {} PROVE FALSE
    OBVIOUS
  <2>2. PICK k \in Bad : \A j \in Bad : k <= j
    <3>1. Bad \in SUBSET Nat
      BY <1>2
    <3> HIDE DEF Bad
    <3> QED
      BY <2>1, <3>1, Smallest
  <2> HIDE DEF m
  <2>3. m[k] = IF k = 0 THEN f ELSE Advance(m[k - 1])
    BY <1>5, <2>2
  <2>4. k # 0 => m[k - 1] = After(f, k - 1)
    BY <1>2, <2>2
  <2> QED
    BY <1>3, <2>2, <2>3, <2>4
<1> HIDE DEF m
<1> QED
  BY <1>1, <1>2, <1>6

\* A run continues where the fields are, and fields stay fields.
LEMMA MarchTimes ==
  ASSUME NEW f \in FieldTimes
  PROVE  /\ March(f) \in FieldTimes
         /\ f.cur = f.prev + 1 => March(f).cur = f.cur + Steps /\ March(f).prev = f.prev + Steps
<1>1. Steps \in Nat
  BY GpuAssumption
<1>2. March(f) \in FieldTimes
  BY <1>1, Marched, AfterAdvances
<1>3. f.cur = f.prev + 1 => March(f).cur = f.cur + Steps /\ March(f).prev = f.prev + Steps
  BY Marched DEF After
<1> QED
  BY <1>2, <1>3

-----------------------------------------------------------------------------
(* Sequences and sets of requests. *)

\* What is on the wire is one frame at most.
LEMMA Singleton ==
  ASSUME NEW S, NEW s \in Seq(S), s # <<>>, Tail(s) = <<>>
  PROVE  Len(s) = 1 /\ s[1] = Head(s) /\ Head(s) \in S
<1>1. PICK t : t = Tail(s)
  OBVIOUS
<1>2. t \in Seq(S) /\ Len(s) \in Nat /\ Len(s) > 0 /\ Len(t) = Len(s) - 1
  BY <1>1
<1>3. t = <<>>
  BY <1>1
<1>4. Len(t) = 0
  BY <1>3
<1>5. Len(s) = 1
  BY <1>2, <1>4
<1> QED
  BY <1>5

\* Requests under way have the type of requests.
LEMMA PendingTyped ==
  ASSUME TypeOK, WireInv
  PROVE  Pending \cup Served \subseteq Requests
<1>1. queue \in Seq(Requests) /\ wire.req \in Seq(Requests)
  BY DEF TypeOK
<1>2. Queued \subseteq Requests
  BY <1>1 DEF Queued
<1>3. Wired \subseteq Requests
  BY <1>1 DEF Wired
<1>4. Served \subseteq Requests
  BY DEF Served, WireInv
<1> QED
  BY <1>2, <1>3, <1>4 DEF Pending

\* A call appended to the queue is queued.
LEMMA QueuedAppended ==
  ASSUME TypeOK, NEW c \in Requests, queue' = Append(queue, c)
  PROVE  /\ queue' \in Seq(Requests) /\ Queued' = Queued \cup {c}
         /\ Len(queue') = Len(queue) + 1 /\ queue'[Len(queue) + 1] = c
         /\ \A i \in 1 .. Len(queue) : queue'[i] = queue[i]
<1>1. queue \in Seq(Requests)
  BY DEF TypeOK
<1>2. /\ queue' \in Seq(Requests) /\ Len(queue') = Len(queue) + 1 /\ queue'[Len(queue) + 1] = c
      /\ \A i \in 1 .. Len(queue) : queue'[i] = queue[i]
  BY <1>1
<1>3. Queued' = Queued \cup {c}
  BY <1>1, <1>2 DEF Queued
<1> QED
  BY <1>2, <1>3

\* A call taken from the queue is the first of its caller.
LEMMA QueuedTaken ==
  ASSUME TypeOK, SentInv, queue # <<>>, queue' = Tail(queue)
  PROVE  /\ queue' \in Seq(Requests) /\ Head(queue) \in Queued /\ Queued' \subseteq Queued
         /\ \A d \in Queued' : Head(queue).who = d.who => Head(queue).n < d.n
         /\ \A i, j \in DOMAIN queue' : i < j /\ queue'[i].who = queue'[j].who => queue'[i].n < queue'[j].n
<1>1. queue \in Seq(Requests) /\ Len(queue) \in Nat /\ Len(queue) > 0
  BY DEF TypeOK
<1>2. /\ queue' \in Seq(Requests) /\ Len(queue') = Len(queue) - 1
      /\ DOMAIN queue' = 1 .. Len(queue) - 1 /\ DOMAIN queue = 1 .. Len(queue)
      /\ \A i \in 1 .. Len(queue) - 1 : queue'[i] = queue[i + 1]
      /\ Head(queue) = queue[1]
  BY <1>1
<1>3. \A i \in DOMAIN queue' : i + 1 \in DOMAIN queue /\ 1 < i + 1 /\ queue'[i] = queue[i + 1]
  BY <1>1, <1>2
<1>4. Head(queue) \in Queued /\ Queued' \subseteq Queued
  BY <1>1, <1>2, <1>3 DEF Queued
<1>5. \A i, j \in DOMAIN queue : i < j /\ queue[i].who = queue[j].who => queue[i].n < queue[j].n
  BY DEF SentInv
<1>6. ASSUME NEW d \in Queued', Head(queue).who = d.who PROVE Head(queue).n < d.n
  <2>1. PICK i \in DOMAIN queue' : d = queue'[i]
    BY DEF Queued
  <2>2. 1 \in DOMAIN queue /\ i + 1 \in DOMAIN queue /\ 1 < i + 1 /\ d = queue[i + 1]
    BY <1>1, <1>2, <1>3, <2>1
  <2> QED
    BY <1>2, <1>5, <1>6, <2>2
<1>7. ASSUME NEW i \in DOMAIN queue', NEW j \in DOMAIN queue', i < j, queue'[i].who = queue'[j].who
      PROVE  queue'[i].n < queue'[j].n
  <2>1. i + 1 \in DOMAIN queue /\ j + 1 \in DOMAIN queue /\ i + 1 < j + 1
    BY <1>1, <1>2, <1>3, <1>7
  <2> QED
    BY <1>3, <1>5, <1>7, <2>1
<1> QED
  BY <1>2, <1>4, <1>6, <1>7

-----------------------------------------------------------------------------
(* Steps of a caller that put nothing on the wire. *)

\* A call begins or returns.
LEMMA CallerStep ==
  ASSUME GpuIInv, NEW p \in Procs, NEW r \in CallStates,
         call' = [call EXCEPT ![p] = r], UNCHANGED <<queue, connOpen, loop, wire, srv, objs>>,
         segs' \in SUBSET (Procs \X Nat),
         \A q \in Procs, n \in Nat : q # p => (<<q, n>> \in segs => <<q, n>> \in segs'),
         closed' \in BOOLEAN, closed => closed',
         r.pc # "wait", r.n >= call[p].n, r.pc = "submit" => r.n > call[p].n,
         CallOf(p)', DeferredInv',
         (p \in Clients /\ r.handle # None) =>
           (OwnedBy(r.handle, p) /\ \A c \in Pending : c.op \in Frees => c.handle # r.handle),
         p \in Clients => LeakOf(p)',
         p \in GridClients => FieldsOf(p)'
  PROVE  GpuIInv'
<1>0. /\ TypeOK /\ WireInv /\ SentInv /\ HandleInv
      /\ \A q \in Procs : CallOf(q) /\ AnswerOf(q)
      /\ \A q \in Clients : LeakOf(q)
      /\ \A q \in GridClients : FieldsOf(q)
  BY DEF GpuIInv
<1>1. call'[p] = r /\ \A q \in Procs : q # p => call'[q] = call[q]
  BY <1>0 DEF TypeOK
<1>2. Pending' = Pending /\ Served' = Served /\ Wired' = Wired /\ Queued' = Queued
  BY DEF Pending, Served, Wired, Queued
<1>3. TypeOK'
  BY <1>0 DEF TypeOK
<1>4. WireInv'
  BY <1>0 DEF WireInv
<1>5. Pending \cup Served \subseteq Requests /\ \A q \in Procs : call[q].n \in Nat /\ call'[q].n \in Nat
  BY <1>0, <1>3, PendingTyped DEF TypeOK, CallStates
<1>6. SentInv'
  <2>1. ASSUME NEW c \in Pending \cup Served PROVE SentOf(c)'
    <3>1. SentOf(c) /\ c \in Requests /\ c.who \in Procs /\ c.n \in Nat
      BY <1>0, <1>5 DEF SentInv, Requests
    <3>2. CASE c.who = p
      BY <1>1, <1>5, <3>1, <3>2 DEF SentOf, Current
    <3>3. CASE c.who # p
      BY <1>1, <3>1, <3>3 DEF SentOf, Current
    <3> QED
      BY <3>2, <3>3
  <2> QED
    BY <1>0, <1>2, <2>1 DEF SentInv
<1>7. Replies(p)' = {} /\ \A q \in Procs : q # p => Replies(q)' = Replies(q)
  BY <1>1 DEF Replies
<1>8. ASSUME NEW q \in Procs PROVE AnswerOf(q)'
  BY <1>0, <1>1, <1>2, <1>7 DEF AnswerOf
<1>9. HandleInv'
  <2>1. ASSUME NEW q \in Clients,
               call'[q].handle # None, ~(call'[q].pc = "wait" /\ call'[q].op \in Frees)
        PROVE  /\ OwnedBy(call[q].handle, q)'
               /\ \A c \in Pending : c.op \in Frees => c.handle # call'[q].handle
    BY <1>0, <1>1, <2>1 DEF HandleInv, OwnedBy, Procs
  <2>2. ASSUME NEW q \in Clients, NEW a \in Replies(q)', call'[q].op \in Allocs, a.status = "ok"
        PROVE  a.handle \in Handles /\ OwnedBy(a.handle, q)' /\ \A c \in Pending : ~Names(c, a.handle)
    <3>1. q # p /\ q \in Procs /\ call'[q] = call[q] /\ a \in Replies(q)
      BY <1>1, <1>7, <2>2 DEF Procs
    <3>2. a.handle \in Handles /\ OwnedBy(a.handle, q) /\ \A c \in Pending : ~Names(c, a.handle)
      BY <1>0, <2>2, <3>1 DEF HandleInv
    <3> QED
      BY <3>2 DEF OwnedBy
  <2>3. \A c \in Pending : c.op \in HandleOps => c.handle \in Handles /\ OwnedBy(c.handle, c.who)'
    BY <1>0 DEF HandleInv, OwnedBy
  <2>4. \A c, d \in Pending : c.op \in Frees /\ c.who = d.who /\ c.n < d.n => ~Names(d, c.handle)
    BY <1>0 DEF HandleInv
  <2> QED
    BY <1>2, <2>1, <2>2, <2>3, <2>4 DEF HandleInv, Names
<1>10. ASSUME NEW q \in Clients, q # p PROVE LeakOf(q)'
  <2>1. q \in Procs /\ call'[q] = call[q] /\ Replies(q)' = Replies(q) /\ LeakOf(q)
    BY <1>0, <1>1, <1>7, <1>10 DEF Procs
  <2>2. \A c \in Pending : c.who = q => (Current(c)' <=> Current(c))
    BY <2>1 DEF Current
  <2> QED
    BY <1>2, <2>1, <2>2 DEF LeakOf, OwnedBy
<1>11. ASSUME NEW q \in GridClients, q # p PROVE FieldsOf(q)'
  <2>1. q \in Procs /\ call'[q] = call[q] /\ Replies(q)' = Replies(q) /\ FieldsOf(q)
    BY <1>0, <1>1, <1>7, <1>11 DEF Procs, Clients
  <2>2. \A c \in Pending : c.who = q => (Current(c)' <=> Current(c))
    BY <2>1 DEF Current
  <2>3. Head(wire.req).who = q => (Current(Head(wire.req))' <=> Current(Head(wire.req)))
    BY <2>1 DEF Current
  <2> QED
    BY <1>2, <2>1, <2>2, <2>3 DEF FieldsOf, Calling, At
<1>12. ASSUME NEW q \in Procs, q # p PROVE CallOf(q)'
  <2>1. call'[q] = call[q] /\ CallOf(q) /\ (<<q, call[q].n>> \in segs => <<q, call[q].n>> \in segs')
    BY <1>0, <1>1, <1>5, <1>12
  <2> QED
    BY <2>1 DEF CallOf, Calling
<1> QED
  BY <1>3, <1>4, <1>6, <1>8, <1>9, <1>10, <1>11, <1>12 DEF GpuIInv

\* What the operations are.
LEMMA OpsTyped ==
  /\ Allocs \cap Frees = {} /\ Allocs \cap HandleOps = {} /\ Frees \subseteq HandleOps
  /\ FieldOps \subseteq HandleOps /\ FieldOps \cap Frees = {}
  /\ "Ping" \notin Allocs \cup HandleOps \cup BulkOps /\ "Shutdown" \notin Allocs \cup HandleOps \cup BulkOps
BY DEF Allocs, Frees, HandleOps, FieldOps, BulkOps

GridOps == {"AllocGrid", "UploadFields", "RunFDTD", "FreeGrid"}

\* A method is called.
LEMMA BeginIInv ==
  ASSUME GpuIInv, NEW p \in Clients, NEW op \in Ops, Begin(p, op),
         op \in Allocs => call[p].handle = None, op \in HandleOps => call[p].handle # None,
         op \in GridOps \/ p \in GridClients => p \in GridClients /\ Deferred,
         op = "RunFDTD" => call[p].time > 0
  PROVE  GpuIInv'
<1> DEFINE old == call[p]
           r == [pc |-> "submit", n |-> old.n + 1, op |-> op, handle |-> old.handle, time |-> old.time,
                 lost |-> old.lost, answer |-> old.answer]
<1>0. /\ TypeOK /\ DeferredInv /\ CallOf(p) /\ LeakOf(p) /\ (p \in GridClients => FieldsOf(p)) /\ HandleInv
      /\ p \in Procs /\ p \notin Closers
  BY GpuAssumption DEF GpuIInv, Procs
<1>1. call[p] \in CallStates /\ call[p].pc = "idle" /\ call[p].n \in Nat
  BY <1>0 DEF TypeOK, Begin, CallStates
<1>2. r \in CallStates
  BY <1>1 DEF CallStates
<1>3. call' = [call EXCEPT ![p] = r]
  BY <1>0, <1>1 DEF Begin, TypeOK, CallStates
<1>4. call'[p] = r
  BY <1>0, <1>3 DEF TypeOK
<1>5. /\ segs' \in SUBSET (Procs \X Nat) /\ segs \subseteq segs'
      /\ op \in BulkOps => <<p, call[p].n + 1>> \in segs'
  BY <1>0, <1>1 DEF TypeOK, Begin, CreateShm
<1>6. UNCHANGED <<queue, closed, connOpen, loop, wire, srv, objs>>
  BY DEF Begin, worker, server
<1>7. Replies(p)' = {} /\ Pending' = Pending
  BY <1>4, <1>6 DEF Replies, Pending, Wired, Queued
<1>8. CallOf(p)'
  BY <1>0, <1>1, <1>4, <1>5 DEF CallOf, Calling, GridOps
<1>9. DeferredInv'
  <2>1. \A q \in Closers : call'[q] = call[q]
    BY <1>0, <1>3 DEF TypeOK, Procs
  <2>2. Deferred' <=> Deferred
    BY <2>1 DEF Deferred
  <2>3. ~Deferred => \A g \in GridClients : call'[g] = call[g]
    BY <1>0, <1>3 DEF TypeOK, Procs, Clients
  <2> QED
    BY <1>0, <1>6, <2>2, <2>3 DEF DeferredInv
<1>10. r.handle # None =>
         OwnedBy(r.handle, p) /\ \A c \in Pending : c.op \in Frees => c.handle # r.handle
  BY <1>0, <1>1 DEF HandleInv
<1>11. LeakOf(p)'
  <2>1. SUFFICES ASSUME ~closed, srv # "exited", ~call[p].lost PROVE LeakOf(p)'
    BY <1>4, <1>6 DEF LeakOf
  <2>2. /\ \A c \in Pending : ~(c.who = p /\ c.op \in Allocs \cup Frees)
        /\ \A h \in Handles : OwnedBy(h, p) => call[p].handle = h
    BY <1>0, <1>1, <2>1 DEF LeakOf, Current, Replies
  <2>3. \A h \in Handles : OwnedBy(h, p)' <=> OwnedBy(h, p)
    BY <1>6 DEF OwnedBy
  <2> QED
    BY <1>4, <1>7, <2>2, <2>3 DEF LeakOf
<1>12. p \in GridClients => FieldsOf(p)'
  <2>1. SUFFICES ASSUME p \in GridClients, srv # "exited" PROVE FieldsOf(p)'
    BY <1>6 DEF FieldsOf
  <2>2. call[p].time > 0 =>
          /\ call[p].handle # None /\ At(call[p].handle, call[p].time)
          /\ \A c \in Pending : ~(c.who = p /\ c.op \in FieldOps)
    BY <1>0, <1>1, <2>1 DEF FieldsOf, Current
  <2>3. At(call[p].handle, call[p].time)' <=> At(call[p].handle, call[p].time)
    BY <1>4, <1>6 DEF At
  <2> QED
    BY <1>4, <1>7, <2>2, <2>3 DEF FieldsOf, Calling
<1> HIDE DEF r
<1>13. r.pc = "submit" /\ r.n = call[p].n + 1
  BY DEF r
<1>14. r.pc # "wait" /\ r.n >= call[p].n /\ (r.pc = "submit" => r.n > call[p].n)
  BY <1>1, <1>13
<1>15. \A q \in Procs, n \in Nat : q # p => (<<q, n>> \in segs => <<q, n>> \in segs')
  BY <1>5
<1>16. closed' \in BOOLEAN /\ (closed => closed')
  BY <1>0, <1>6 DEF TypeOK
<1>17. UNCHANGED <<queue, connOpen, loop, wire, srv, objs>>
  BY <1>6
<1>18. segs' \in SUBSET (Procs \X Nat) /\ p \in Procs
  BY <1>0, <1>5
<1> QED
  BY <1>2, <1>3, <1>8, <1>9, <1>10, <1>11, <1>12, <1>14, <1>15, <1>16, <1>17, <1>18, CallerStep

\* A waiting call has one answer at most.
LEMMA OneReply ==
  ASSUME GpuIInv, NEW p \in Procs, NEW a \in Replies(p), NEW b \in Replies(p)
  PROVE  a = b
<1>0. TypeOK /\ WireInv /\ AnswerOf(p)
  BY DEF GpuIInv
<1>1. wire.resp \in Seq(Answers)
  BY <1>0 DEF TypeOK
<1>2. \A i \in DOMAIN wire.resp : wire.resp # <<>> /\ wire.resp[i] = Head(wire.resp)
  <2>1. ASSUME NEW i \in DOMAIN wire.resp PROVE wire.resp # <<>> /\ wire.resp[i] = Head(wire.resp)
    <3>1. wire.resp # <<>> /\ i \in 1 .. Len(wire.resp) /\ Len(wire.resp) \in Nat
      BY <1>1
    <3>2. Tail(wire.resp) = <<>>
      BY <1>0, <3>1 DEF WireInv
    <3>3. Len(wire.resp) = 1 /\ wire.resp[1] = Head(wire.resp)
      BY <1>1, <3>1, <3>2, Singleton
    <3>4. i = 1
      BY <3>1, <3>3
    <3> QED
      BY <3>1, <3>3, <3>4
  <2> QED
    BY <2>1
<1>3. \A x \in Replies(p) : x = call[p].answer \/ (wire.resp # <<>> /\ x = Head(wire.resp) /\ x.of = <<p, call[p].n>>)
  BY <1>2 DEF Replies
<1>4. call[p].pc = "wait" /\ (a = call[p].answer \/ b = call[p].answer => call[p].answer # None)
  BY DEF Replies
<1>5. wire.resp # <<>> /\ Head(wire.resp).of = <<p, call[p].n>> =>
        loop.cur \in Served /\ loop.cur.who = p /\ loop.cur.n = call[p].n
  BY <1>0 DEF WireInv, Served
<1> QED
  BY <1>0, <1>3, <1>4, <1>5 DEF AnswerOf

\* The record of a client after its call.
LEMMA ReturnedRecord ==
  ASSUME TypeOK, NEW p \in Clients, NEW status, NEW h \in Handles \cup {None}
  PROVE  \E t \in Nat :
           /\ Returned(p, status, h) =
                [pc |-> "idle", n |-> call[p].n, op |-> "Ping",
                 handle |-> IF call[p].op \in Allocs THEN IF status = "ok" THEN h ELSE None
                            ELSE IF call[p].op \in Frees THEN None ELSE call[p].handle,
                 time |-> t,
                 lost |-> call[p].lost \/ (status = "ctx" /\ call[p].op \in Allocs \cup Frees),
                 answer |-> None]
           /\ Returned(p, status, h) \in CallStates
           /\ t > 0 => \/ call[p].op = "UploadFields" /\ status = "ok" /\ t = 1
                       \/ call[p].op = "RunFDTD" /\ status = "ok" /\ t = call[p].time + Steps
                       \/ call[p].op = "RunFDTD" /\ status = "oom" /\ t = call[p].time
                       \/ call[p].op \notin FieldOps \cup Allocs \cup Frees /\ t = call[p].time
<1>1. call[p] \in CallStates /\ p \notin Closers /\ Steps \in Nat
  BY GpuAssumption DEF TypeOK, Procs
<1> DEFINE t == CASE call[p].op = "UploadFields" -> IF status = "ok" THEN 1 ELSE 0
                  [] call[p].op = "RunFDTD" -> IF status = "ok" THEN call[p].time + Steps
                                               ELSE IF status = "oom" THEN call[p].time ELSE 0
                  [] call[p].op \in Allocs \cup Frees -> 0
                  [] OTHER -> call[p].time
           hd == IF call[p].op \in Allocs THEN IF status = "ok" THEN h ELSE None
                 ELSE IF call[p].op \in Frees THEN None ELSE call[p].handle
           ls == call[p].lost \/ (status = "ctx" /\ call[p].op \in Allocs \cup Frees)
           r == [pc |-> "idle", n |-> call[p].n, op |-> "Ping", handle |-> hd, time |-> t,
                 lost |-> ls, answer |-> None]
<1>2. Returned(p, status, h) = r
  BY <1>1 DEF Returned, CallStates
<1>3. call[p].time \in Nat /\ call[p].n \in Nat /\ call[p].lost \in BOOLEAN /\ call[p].handle \in Handles \cup {None}
  BY <1>1 DEF CallStates
<1>4. t \in Nat
  BY <1>1, <1>3, OpsTyped DEF Allocs, Frees
<1>5. hd \in Handles \cup {None} /\ ls \in BOOLEAN
  BY <1>3
<1>6. t > 0 => \/ call[p].op = "UploadFields" /\ status = "ok" /\ t = 1
               \/ call[p].op = "RunFDTD" /\ status = "ok" /\ t = call[p].time + Steps
               \/ call[p].op = "RunFDTD" /\ status = "oom" /\ t = call[p].time
               \/ call[p].op \notin FieldOps \cup Allocs \cup Frees /\ t = call[p].time
  BY <1>1, <1>3 DEF Allocs, Frees, FieldOps
<1> HIDE DEF t, hd, ls
<1>7. r \in CallStates
  BY <1>3, <1>4, <1>5 DEF CallStates, Ops
<1> QED
  BY <1>2, <1>4, <1>6, <1>7 DEF hd, ls

\* do returns with status and h: an end of the context, an error of the
\* connection, or an answer of the server.
ReturnsWith(p, status, h) ==
  \/ status = "ctx"
  \/ status \in {"closed", "ioerr"} /\ (closed \/ srv = "exited")
  \/ \E a \in Replies(p) : a.status = status /\ a.handle = h

\* do returns to a client.
LEMMA ReturnClient ==
  ASSUME GpuIInv, NEW p \in Clients, NEW status, NEW h \in Handles \cup {None},
         Calling(p), DoReturns(p, status, h), ReturnsWith(p, status, h)
  PROVE  GpuIInv'
<1>0. /\ TypeOK /\ DeferredInv /\ CallOf(p) /\ LeakOf(p) /\ (p \in GridClients => FieldsOf(p))
      /\ HandleInv /\ SentInv /\ AnswerOf(p) /\ p \in Procs /\ p \notin Closers
  BY GpuAssumption DEF GpuIInv, Procs
<1>1. PICK t, hd, ls, r :
        /\ t \in Nat
        /\ hd = IF call[p].op \in Allocs THEN IF status = "ok" THEN h ELSE None
                ELSE IF call[p].op \in Frees THEN None ELSE call[p].handle
        /\ ls = (call[p].lost \/ (status = "ctx" /\ call[p].op \in Allocs \cup Frees))
        /\ r = [pc |-> "idle", n |-> call[p].n, op |-> "Ping", handle |-> hd, time |-> t,
                lost |-> ls, answer |-> None]
        /\ r = Returned(p, status, h) /\ r \in CallStates
        /\ t > 0 => \/ call[p].op = "UploadFields" /\ status = "ok" /\ t = 1
                    \/ call[p].op = "RunFDTD" /\ status = "ok" /\ t = call[p].time + Steps
                    \/ call[p].op = "RunFDTD" /\ status = "oom" /\ t = call[p].time
                    \/ call[p].op \notin FieldOps \cup Allocs \cup Frees /\ t = call[p].time
  BY <1>0, ReturnedRecord
<1>2. /\ call' = [call EXCEPT ![p] = r] /\ segs' = segs \ {<<p, call[p].n>>}
      /\ UNCHANGED <<queue, closed, connOpen, loop, wire, srv, objs>>
  BY <1>1 DEF DoReturns, CloseShm, worker, server
<1>3. call'[p] = r /\ \A q \in Procs : q # p => call'[q] = call[q]
  BY <1>0, <1>2 DEF TypeOK
<1>4. Replies(p)' = {} /\ Pending' = Pending /\ Pending \cup Served \subseteq Requests
  BY <1>0, <1>1, <1>2, <1>3, PendingTyped DEF Replies, Pending, Wired, Queued, GpuIInv
<1>5. CallOf(p)'
  <2>1. p \in RayClients => t = 0
    BY <1>0, <1>1, GpuAssumption DEF CallOf, FieldOps
  <2>2. ~Calling(p)'
    BY <1>1, <1>3 DEF Calling
  <2> QED
    BY <1>0, <1>1, <1>3, <2>1, <2>2 DEF CallOf
<1>6. DeferredInv'
  <2>1. \A q \in Closers : call'[q] = call[q]
    BY <1>0, <1>3 DEF Procs
  <2>2. Deferred' <=> Deferred
    BY <2>1 DEF Deferred
  <2>3. \A g \in GridClients : call[g].pc = "idle" => call'[g].pc = "idle"
    BY <1>1, <1>3 DEF Procs, Clients
  <2> QED
    BY <1>0, <1>2, <2>2, <2>3 DEF DeferredInv
<1>7. \A a \in Replies(p) : \A c \in Pending : c.who # p
  BY <1>0 DEF AnswerOf
<1>8. \A c \in Pending : c.who = p /\ Current(c) => c.op = call[p].op
  BY <1>0 DEF SentInv, SentOf
<1>9. hd # None => OwnedBy(hd, p) /\ \A c \in Pending : c.op \in Frees => c.handle # hd
  <2>1. CASE call[p].op \in Allocs
    <3>1. SUFFICES ASSUME hd # None
                   PROVE  OwnedBy(hd, p) /\ \A c \in Pending : c.op \in Frees => c.handle # hd
      OBVIOUS
    <3>2. status = "ok" /\ hd = h
      BY <1>1, <2>1, <3>1
    <3>3. PICK a \in Replies(p) : a.status = "ok" /\ a.handle = h
      BY <3>2 DEF ReturnsWith
    <3>4. OwnedBy(h, p) /\ \A c \in Pending : ~Names(c, h)
      BY <1>0, <2>1, <3>3 DEF HandleInv
    <3> QED
      BY <3>2, <3>4, OpsTyped DEF Names
  <2>2. CASE call[p].op \in Frees
    BY <1>1, <2>2, OpsTyped
  <2>3. CASE call[p].op \notin Allocs \cup Frees
    BY <1>0, <1>1, <2>3 DEF HandleInv
  <2> QED
    BY <2>1, <2>2, <2>3
<1>10. LeakOf(p)'
  <2>1. SUFFICES ASSUME ~closed, srv # "exited", ~ls PROVE LeakOf(p)'
    BY <1>1, <1>2, <1>3 DEF LeakOf
  <2>2. ~call[p].lost /\ (status = "ctx" => call[p].op \notin Allocs \cup Frees)
    BY <1>1, <2>1
  <2>3. /\ \A c \in Pending : c.who = p /\ c.op \in Allocs \cup Frees => Current(c)
        /\ \A k \in Handles : OwnedBy(k, p) =>
             \/ call[p].handle = k /\ (call[p].op \in Frees => Replies(p) = {})
             \/ call[p].op \in Allocs /\ \E a \in Replies(p) : a.status = "ok" /\ a.handle = k
    BY <1>0, <2>1, <2>2 DEF LeakOf
  <2>4. status = "ctx" \/ \E a \in Replies(p) : a.status = status /\ a.handle = h
    BY <2>1 DEF ReturnsWith
  <2>5. \A c \in Pending : ~(c.who = p /\ c.op \in Allocs \cup Frees)
    BY <1>7, <1>8, <2>2, <2>3, <2>4
  <2>6. ASSUME NEW k \in Handles, OwnedBy(k, p) PROVE hd = k
    <3>1. CASE call[p].op \in Allocs
      <4>1. call[p].handle = None /\ k # None
        BY <1>0, <3>1, GpuAssumption DEF CallOf
      <4>2. PICK a \in Replies(p) : a.status = "ok" /\ a.handle = k
        BY <2>3, <2>6, <4>1
      <4>3. PICK b \in Replies(p) : b.status = status /\ b.handle = h
        BY <2>2, <2>4, <3>1
      <4>4. a = b
        BY <1>0, OneReply
      <4> QED
        BY <1>1, <3>1, <4>2, <4>3, <4>4
    <3>2. CASE call[p].op \in Frees
      BY <2>2, <2>3, <2>4, <2>6, <3>2, OpsTyped
    <3>3. CASE call[p].op \notin Allocs \cup Frees
      BY <1>1, <2>3, <2>6, <3>3
    <3> QED
      BY <3>1, <3>2, <3>3
  <2>7. \A k \in Handles : OwnedBy(k, p)' <=> OwnedBy(k, p)
    BY <1>2 DEF OwnedBy
  <2> QED
    BY <1>1, <1>3, <1>4, <2>5, <2>6, <2>7, OpsTyped DEF LeakOf
<1>11. p \in GridClients => FieldsOf(p)'
  <2>1. SUFFICES ASSUME p \in GridClients, srv # "exited" PROVE FieldsOf(p)'
    BY <1>2 DEF FieldsOf
  <2>2. FieldsOf(p) /\ ~closed
    BY <1>0, <2>1 DEF DeferredInv, Calling
  <2>3. status = "ctx" \/ \E a \in Replies(p) : a.status = status /\ a.handle = h
    BY <2>1, <2>2 DEF ReturnsWith
  <2>4. call'[p].time = t /\ call'[p].handle = hd /\ call'[p].pc = "idle" /\ call'[p].op = "Ping"
    BY <1>1, <1>3
  <2>5. t > 0 => hd # None /\ At(hd, t) /\ \A c \in Pending : ~(c.who = p /\ c.op \in FieldOps)
    <3>1. SUFFICES ASSUME t > 0
                   PROVE  hd # None /\ At(hd, t) /\ \A c \in Pending : ~(c.who = p /\ c.op \in FieldOps)
      OBVIOUS
    <3>2. CASE call[p].op \in FieldOps
      <4>1. hd = call[p].handle /\ hd # None
        BY <1>0, <1>1, <3>2, OpsTyped DEF CallOf
      <4>2. PICK a \in Replies(p) : a.status = status
        BY <1>1, <2>3, <3>1, <3>2
      <4>3. call[p].op = "RunFDTD" => call[p].time > 0
        BY <2>1, <2>2 DEF FieldsOf
      <4>4. At(hd, t)
        BY <1>1, <2>1, <2>2, <3>1, <3>2, <4>1, <4>2, <4>3 DEF FieldsOf
      <4> QED
        BY <1>7, <4>1, <4>2, <4>4
    <3>3. CASE call[p].op \notin FieldOps
      <4>1. call[p].op \notin FieldOps \cup Allocs \cup Frees /\ t = call[p].time /\ hd = call[p].handle
        BY <1>1, <3>1, <3>3 DEF FieldOps
      <4>2. /\ call[p].handle # None /\ At(call[p].handle, call[p].time)
            /\ \A c \in Pending : c.who = p /\ c.op \in FieldOps => Current(c)
        BY <2>1, <2>2, <3>1, <4>1 DEF FieldsOf
      <4> QED
        BY <1>8, <4>1, <4>2
    <3> QED
      BY <3>2, <3>3
  <2>6. At(hd, t)' <=> At(hd, t)
    BY <1>2 DEF At
  <2>7. At(call[p].handle, call[p].time)' <=> At(hd, t)
    BY <1>2, <2>4 DEF At
  <2> QED
    BY <1>4, <2>4, <2>5, <2>7, OpsTyped DEF FieldsOf, Calling
<1>12. r.pc # "wait" /\ r.n >= call[p].n /\ r.pc # "submit" /\ r.handle = hd
  BY <1>0, <1>1 DEF TypeOK, CallStates
<1>13. \A q \in Procs, n \in Nat : q # p => (<<q, n>> \in segs => <<q, n>> \in segs')
  BY <1>2
<1>14. closed' \in BOOLEAN /\ (closed => closed') /\ segs' \in SUBSET (Procs \X Nat)
  BY <1>0, <1>2 DEF TypeOK
<1>15. UNCHANGED <<queue, connOpen, loop, wire, srv, objs>>
  BY <1>2
<1>16. r.handle # None => OwnedBy(r.handle, p) /\ \A c \in Pending : c.op \in Frees => c.handle # r.handle
  BY <1>9, <1>12
<1> QED
  BY <1>0, <1>1, <1>2, <1>5, <1>6, <1>10, <1>11, <1>12, <1>13, <1>14, <1>15, <1>16, CallerStep

\* A goroutine in Close goes on, and may close w.closed.
LEMMA CloserIInv ==
  ASSUME GpuIInv, NEW p \in Closers, NEW r \in CallStates,
         call' = [call EXCEPT ![p] = r], UNCHANGED <<queue, connOpen, loop, wire, srv, objs>>,
         segs' \in SUBSET (Procs \X Nat),
         \A q \in Procs, n \in Nat : q # p => (<<q, n>> \in segs => <<q, n>> \in segs'),
         closed' \in BOOLEAN, closed => closed',
         r.pc \notin {"idle", "wait"}, r.pc = "submit" => r.n > call[p].n /\ r.answer = None,
         r.n >= call[p].n, r.op \in {"Ping", "Shutdown"}, r.handle = None,
         r.pc \in {"conn", "reap", "done"} => closed',
         ~Deferred \/ \A g \in GridClients : call[g].pc = "idle"
  PROVE  GpuIInv'
<1>0. TypeOK /\ DeferredInv /\ p \in Procs /\ p \notin Clients
  BY GpuAssumption DEF GpuIInv, Procs
<1>1. call'[p] = r /\ \A q \in Procs : q # p => call'[q] = call[q]
  BY <1>0 DEF TypeOK
<1>2. CallOf(p)'
  BY <1>0, <1>1, OpsTyped DEF CallOf, Clients, Allocs, HandleOps, Frees, BulkOps
<1>3. DeferredInv'
  <2>1. ~Deferred'
    BY <1>1 DEF Deferred
  <2>2. \A g \in GridClients : call'[g] = call[g] /\ call[g].pc = "idle"
    BY <1>0, <1>1 DEF Procs, Clients, DeferredInv
  <2> QED
    BY <1>0, <2>1, <2>2 DEF DeferredInv
<1> QED
  BY <1>0, <1>2, <1>3, CallerStep DEF Clients

\* BeginClose and the steps of Close on its own.
LEMMA BeginCloseIInv ==
  ASSUME GpuIInv, NEW p \in Closers, BeginClose(p)
  PROVE  GpuIInv'
<1>0. TypeOK /\ CallOf(p) /\ p \in Procs /\ call[p] \in CallStates /\ call[p].n = 0 /\ call[p].pc = "idle"
  BY DEF GpuIInv, Procs, TypeOK, BeginClose
<1>1. PICK r : r = [call[p] EXCEPT !.pc = "submit", !.n = 1, !.op = "Shutdown"]
  OBVIOUS
<1>2. r \in CallStates /\ r.pc = "submit" /\ r.n = 1 /\ r.op = "Shutdown" /\ r.answer = None /\ r.handle = None
  BY <1>0, <1>1 DEF CallStates, Ops, CallOf
<1>3. call' = [call EXCEPT ![p] = r]
  BY <1>0, <1>1 DEF BeginClose, TypeOK
<1>4. /\ UNCHANGED <<queue, connOpen, loop, wire, srv, objs>> /\ segs' = segs /\ closed' = closed
      /\ \A g \in GridClients : call[g].pc = "idle"
  BY DEF BeginClose, worker, server
<1>5. segs' \in SUBSET (Procs \X Nat) /\ closed' \in BOOLEAN
  BY <1>0, <1>4 DEF TypeOK
<1>6. /\ \A q \in Procs, n \in Nat : q # p => (<<q, n>> \in segs => <<q, n>> \in segs')
      /\ closed => closed'
      /\ r.n >= call[p].n /\ (r.pc = "submit" => r.n > call[p].n /\ r.answer = None)
      /\ r.pc \notin {"idle", "wait"} /\ r.op \in {"Ping", "Shutdown"} /\ r.handle = None
  BY <1>0, <1>2, <1>4
<1> QED
  BY <1>2, <1>3, <1>4, <1>5, <1>6, CloserIInv

LEMMA ReturnCloser ==
  ASSUME GpuIInv, NEW p \in Closers, NEW status, NEW h, Calling(p), DoReturns(p, status, h)
  PROVE  GpuIInv'
<1>0. TypeOK /\ DeferredInv /\ CallOf(p) /\ p \in Procs /\ call[p] \in CallStates
  BY DEF GpuIInv, Procs, TypeOK
<1>1. PICK r : r = [call[p] EXCEPT !.pc = "close", !.answer = None]
  OBVIOUS
<1>2. r \in CallStates /\ r.pc = "close" /\ r.n = call[p].n /\ r.op \in {"Ping", "Shutdown"} /\ r.handle = None
  BY <1>0, <1>1 DEF CallStates, CallOf
<1>3. call' = [call EXCEPT ![p] = r]
  <2>1. Returned(p, status, h) = r
    BY <1>1 DEF Returned
  <2> QED
    BY <2>1 DEF DoReturns
<1>4. UNCHANGED <<queue, connOpen, loop, wire, srv, objs>> /\ segs' = segs \ {<<p, call[p].n>>} /\ closed' = closed
  BY DEF DoReturns, CloseShm, worker, server
<1>5. segs' \in SUBSET (Procs \X Nat) /\ closed' \in BOOLEAN /\ call[p].n \in Nat
  BY <1>0, <1>4 DEF TypeOK, CallStates
<1>6. ~Deferred
  BY DEF Deferred, Calling
<1>7. \A q \in Procs, n \in Nat : q # p => (<<q, n>> \in segs => <<q, n>> \in segs')
  BY <1>4
<1>8. r.n >= call[p].n
  BY <1>2, <1>5
<1> QED
  BY <1>2, <1>3, <1>4, <1>5, <1>6, <1>7, <1>8, CloserIInv

LEMMA CloseClosedIInv ==
  ASSUME GpuIInv, NEW p \in Closers, CloseClosed(p) \/ CloseReap(p)
  PROVE  GpuIInv'
<1>0. TypeOK /\ CallOf(p) /\ p \in Procs /\ call[p] \in CallStates
  BY DEF GpuIInv, Procs, TypeOK
<1>1. PICK to \in {"panic", "conn", "done"} :
        call' = [call EXCEPT ![p].pc = to] /\ call[p].pc \in {"close", "reap"}
  BY DEF CloseClosed, CloseReap, CloseStep
<1>2. PICK r : r = [pc |-> to, n |-> call[p].n, op |-> call[p].op, handle |-> call[p].handle,
                    time |-> call[p].time, lost |-> call[p].lost, answer |-> call[p].answer]
  OBVIOUS
<1>3. /\ r \in CallStates /\ r.pc \notin {"idle", "wait", "submit"} /\ r.n = call[p].n
      /\ r.op \in {"Ping", "Shutdown"} /\ r.handle = None
  BY <1>0, <1>1, <1>2 DEF CallStates, CallOf
<1>4. call' = [call EXCEPT ![p] = r]
  <2>1. r = [call[p] EXCEPT !.pc = to]
    BY <1>0, <1>2 DEF CallStates
  <2> QED
    BY <1>0, <1>1, <2>1 DEF TypeOK
<1>5. UNCHANGED <<queue, connOpen, loop, wire, srv, objs>> /\ segs' = segs /\ closed' \in BOOLEAN /\ (closed => closed')
  BY <1>0 DEF CloseClosed, CloseReap, worker, server, TypeOK
<1>6. segs' \in SUBSET (Procs \X Nat) /\ call[p].n \in Nat
  BY <1>0, <1>5 DEF TypeOK, CallStates
<1>7. ~Deferred
  BY <1>1 DEF Deferred
<1>8. r.n >= call[p].n
  BY <1>3, <1>6
<1>9. closed' \/ r.pc = "panic"
  BY <1>0, <1>5 DEF CloseClosed, CloseReap, CloseStep, CallOf
<1> QED
  BY <1>3, <1>4, <1>5, <1>6, <1>7, <1>8, <1>9, CloserIInv

\* do returns.
LEMMA ReturnIInv ==
  ASSUME GpuIInv, NEW p \in Procs, SubmitClosed(p) \/ ReturnCtx(p) \/ ReturnAnswer(p)
  PROVE  GpuIInv'
<1>0. TypeOK /\ AnswerOf(p) /\ None \in Handles \cup {None} /\ Calling(p)
  BY DEF GpuIInv, SubmitClosed, ReturnCtx, ReturnAnswer, Calling
<1>1. CASE SubmitClosed(p)
  <2>1. DoReturns(p, "closed", None) /\ ReturnsWith(p, "closed", None)
    BY <1>1 DEF SubmitClosed, ReturnsWith
  <2> QED
    BY <1>0, <2>1, ReturnClient, ReturnCloser DEF Procs
<1>2. CASE ReturnCtx(p)
  <2>1. DoReturns(p, "ctx", None) /\ ReturnsWith(p, "ctx", None)
    BY <1>2 DEF ReturnCtx, ReturnsWith
  <2> QED
    BY <1>0, <2>1, ReturnClient, ReturnCloser DEF Procs
<1>3. CASE ReturnAnswer(p)
  <2>1. PICK s, h : s = call[p].answer.status /\ h = call[p].answer.handle
    OBVIOUS
  <2>2. DoReturns(p, s, h) /\ call[p].pc = "wait" /\ call[p].answer # None
    BY <1>3, <2>1 DEF ReturnAnswer
  <2>3. h \in Handles \cup {None}
    BY <1>0, <2>1, <2>2 DEF TypeOK, CallStates, Answers
  <2>4. ReturnsWith(p, s, h)
    <3>1. CASE s = "ioerr"
      BY <1>0, <2>1, <2>2, <3>1 DEF AnswerOf, ReturnsWith
    <3>2. CASE s # "ioerr"
      <4>1. call[p].answer \in Replies(p)
        BY <2>1, <2>2, <3>2 DEF Replies
      <4> QED
        BY <2>1, <4>1 DEF ReturnsWith
    <3> QED
      BY <3>1, <3>2
  <2> QED
    BY <1>0, <2>2, <2>3, <2>4, ReturnClient, ReturnCloser DEF Procs
<1> QED
  BY <1>1, <1>2, <1>3

\* The methods of Worker are called.
LEMMA BeginsIInv ==
  ASSUME GpuIInv, NEW p \in Clients, BeginGrid(p) \/ BeginRays(p) \/ BeginPing(p)
  PROVE  GpuIInv'
<1>1. CASE BeginGrid(p)
  <2>1. PICK op \in GridCalls(call[p]) : Begin(p, op) /\ p \in GridClients /\ Deferred
    BY <1>1 DEF BeginGrid
  <2>2. /\ op \in Ops /\ (op \in Allocs => call[p].handle = None) /\ (op \in HandleOps => call[p].handle # None)
        /\ op = "RunFDTD" => call[p].time > 0
    BY <2>1 DEF GridCalls, Ops, Allocs, HandleOps, Frees
  <2> QED
    BY <2>1, <2>2, BeginIInv
<1>2. CASE BeginRays(p)
  <2>1. PICK op \in RayCalls(call[p]) : Begin(p, op) /\ p \in RayClients
    BY <1>2 DEF BeginRays
  <2>2. /\ op \in Ops /\ (op \in Allocs => call[p].handle = None) /\ (op \in HandleOps => call[p].handle # None)
        /\ op # "RunFDTD" /\ op \notin GridOps
    BY <2>1 DEF RayCalls, Ops, Allocs, HandleOps, Frees, GridOps
  <2>3. p \notin GridClients
    BY <2>1, GpuAssumption
  <2> QED
    BY <2>1, <2>2, <2>3, BeginIInv
<1>3. CASE BeginPing(p)
  <2>1. Begin(p, "Ping") /\ p \in GridClients /\ Deferred
    BY <1>3 DEF BeginPing
  <2>2. "Ping" \in Ops /\ "Ping" \notin Allocs /\ "Ping" \notin HandleOps
    BY DEF Ops, Allocs, HandleOps, Frees
  <2> QED
    BY <2>1, <2>2, BeginIInv
<1> QED
  BY <1>1, <1>2, <1>3

-----------------------------------------------------------------------------
(* What a step leaves alone. *)

\* A goroutine whose call, requests, answers and objects a step leaves alone.
LEMMA Frame ==
  ASSUME GpuIInv, DeferredInv', NEW q \in Procs, call'[q] = call[q],
         Replies(q)' = Replies(q) \/ (closed /\ Replies(q)' = {}),
         \A c \in Pending' : c.who = q => c \in Pending,
         \A c \in Queued' : c.who = q => c \in Queued,
         \A c \in Served' : c.who = q => c \in Served \cup Queued,
         closed => closed', srv = "exited" => srv' = "exited",
         \A n \in Nat : <<q, n>> \in segs => <<q, n>> \in segs',
         \A h \in Handles : OwnedBy(h, q) \/ OwnedBy(h, q)' => objs'[h] = objs[h],
         srv' # "exited" =>
           ((srv' = "running" /\ Head(wire.req)'.who = q) <=> (srv = "running" /\ Head(wire.req).who = q)),
         srv' = "running" /\ Head(wire.req)'.who = q => Head(wire.req)' = Head(wire.req)
  PROVE  /\ CallOf(q)' /\ AnswerOf(q)' /\ (q \in Clients => LeakOf(q)')
         /\ q \in GridClients => FieldsOf(q)'
<1>0. /\ TypeOK /\ DeferredInv /\ WireInv /\ SentInv /\ HandleInv /\ CallOf(q) /\ AnswerOf(q)
      /\ (q \in Clients => LeakOf(q)) /\ (q \in GridClients => FieldsOf(q))
  BY DEF GpuIInv
<1>1. call[q].n \in Nat /\ call[q].handle \in Handles \cup {None}
  BY <1>0 DEF TypeOK, CallStates
<1>2. CallOf(q)'
  BY <1>0, <1>1 DEF CallOf, Calling
<1>3. AnswerOf(q)'
  BY <1>0 DEF AnswerOf
<1>4. \A c : c.who = q => (Current(c)' <=> Current(c))
  BY DEF Current
<1>5. \A h \in Handles : OwnedBy(h, q)' <=> OwnedBy(h, q)
  BY DEF OwnedBy
<1>6. ASSUME q \in Clients PROVE LeakOf(q)'
  <2>1. SUFFICES ASSUME ~closed', srv' # "exited", ~call[q].lost PROVE LeakOf(q)'
    BY DEF LeakOf
  <2>2. Replies(q)' = Replies(q)
    BY <2>1
  <2>3. LeakOf(q) /\ ~closed /\ srv # "exited"
    BY <1>0, <1>6, <2>1
  <2>4. /\ \A c \in Pending : c.who = q /\ c.op \in Allocs \cup Frees => Current(c)
        /\ \A h \in Handles : OwnedBy(h, q) =>
             \/ call[q].handle = h /\ (call[q].op \in Frees => Replies(q) = {})
             \/ call[q].op \in Allocs /\ \E a \in Replies(q) : a.status = "ok" /\ a.handle = h
    BY <2>1, <2>3 DEF LeakOf
  <2>5. \A c \in Pending' : c.who = q /\ c.op \in Allocs \cup Frees => Current(c)'
    BY <1>4, <2>4
  <2>6. \A h \in Handles : OwnedBy(h, q)' =>
             \/ call[q].handle = h /\ (call[q].op \in Frees => Replies(q) = {})
             \/ call[q].op \in Allocs /\ \E a \in Replies(q) : a.status = "ok" /\ a.handle = h
    BY <1>5, <2>4
  <2> QED
    BY <2>2, <2>5, <2>6 DEF LeakOf
<1>7. ASSUME q \in GridClients PROVE FieldsOf(q)'
  <2>1. SUFFICES ASSUME srv' # "exited" PROVE FieldsOf(q)'
    BY DEF FieldsOf
  <2>2. FieldsOf(q) /\ srv # "exited" /\ q \in Clients
    BY <1>0, <1>7, <2>1 DEF Clients
  <2>3. Replies(q)' = Replies(q)
    BY <1>0, <1>7 DEF DeferredInv, Replies
  <2>4. call[q].handle # None /\ ~(call[q].pc = "wait" /\ call[q].op \in Frees) =>
          objs'[call[q].handle] = objs[call[q].handle]
    BY <1>0, <1>1, <2>2 DEF HandleInv
  <2>7. srv' = "running" /\ Head(wire.req)'.who = q /\ Current(Head(wire.req))' <=>
        srv = "running" /\ Head(wire.req).who = q /\ Current(Head(wire.req))
    BY <1>4, <2>1 DEF Current
  <2>8. call[q].op \in FieldOps /\ call[q].pc = "wait" => call[q].handle # None /\ call[q].op \notin Frees
    BY <1>0, OpsTyped DEF CallOf, Calling
  <2>9. Replies(q) # {} => call[q].pc = "wait"
    BY DEF Replies
  <2> QED
    BY <1>4, <2>1, <2>2, <2>3, <2>4, <2>7, <2>8, <2>9 DEF FieldsOf, FieldOps, At, Calling
<1> QED
  BY <1>2, <1>3, <1>6, <1>7

\* Handles, when no request is added and no object changes hands.
LEMMA HandleKept ==
  ASSUME HandleInv, Pending' \subseteq Pending,
         \A h \in Handles, q \in Procs : OwnedBy(h, q)' <=> OwnedBy(h, q),
         \A c \in Pending : c.who \in Procs,
         \A q \in Clients : call'[q].handle = call[q].handle /\ call'[q].pc = call[q].pc /\ call'[q].op = call[q].op,
         \A q \in Clients : call[q].handle \in Handles \cup {None},
         \A q \in Clients : \A a \in Replies(q)' : a \in Replies(q) \/ call[q].op \notin Allocs \/ a.status # "ok"
  PROVE  HandleInv'
<1>1. Clients \subseteq Procs
  BY DEF Procs
<1>2. \A c \in Pending : c.op \in HandleOps => c.handle \in Handles /\ OwnedBy(c.handle, c.who)'
  BY DEF HandleInv
<1>3. \A c, d \in Pending : c.op \in Frees /\ c.who = d.who /\ c.n < d.n => ~Names(d, c.handle)
  BY DEF HandleInv
<1>4. ASSUME NEW q \in Clients, call'[q].handle # None, ~(call'[q].pc = "wait" /\ call'[q].op \in Frees)
      PROVE  OwnedBy(call[q].handle, q)' /\ \A c \in Pending : c.op \in Frees => c.handle # call'[q].handle
  <2>1. OwnedBy(call[q].handle, q) /\ \A c \in Pending : c.op \in Frees => c.handle # call[q].handle
    BY <1>4 DEF HandleInv
  <2>2. call[q].handle \in Handles
    BY <1>4
  <2>3. \A h \in Handles : h = call[q].handle => (OwnedBy(call[q].handle, q)' <=> OwnedBy(h, q)')
    BY <1>4 DEF OwnedBy
  <2> QED
    BY <1>1, <1>4, <2>1, <2>2, <2>3
<1>5. ASSUME NEW q \in Clients, NEW a \in Replies(q)', call'[q].op \in Allocs, a.status = "ok"
      PROVE  a.handle \in Handles /\ OwnedBy(a.handle, q)' /\ \A c \in Pending : ~Names(c, a.handle)
  BY <1>1, <1>5 DEF HandleInv
<1> QED
  BY <1>2, <1>3, <1>4, <1>5 DEF HandleInv, Names

-----------------------------------------------------------------------------
(* do puts a call into the queue. *)

LEMMA SubmitIInv ==
  ASSUME GpuIInv, NEW p \in Procs, Submit(p)
  PROVE  GpuIInv'
<1>0. /\ TypeOK /\ DeferredInv /\ WireInv /\ SentInv /\ HandleInv /\ CallOf(p)
      /\ (p \in Clients => LeakOf(p)) /\ (p \in GridClients => FieldsOf(p))
  BY DEF GpuIInv
<1>1. /\ call[p] \in CallStates /\ call[p].pc = "submit" /\ call[p].answer = None /\ call[p].n \in Nat
      /\ \A q \in Procs : call[q] \in CallStates /\ call[q].n \in Nat /\ call[q].handle \in Handles \cup {None}
  BY <1>0 DEF TypeOK, Submit, CallOf, CallStates
<1>2. PICK r : r = [call[p] EXCEPT !.pc = "wait"]
  OBVIOUS
<1>3. /\ r \in CallStates /\ r.pc = "wait" /\ r.n = call[p].n /\ r.op = call[p].op /\ r.handle = call[p].handle
      /\ r.time = call[p].time /\ r.lost = call[p].lost /\ r.answer = None
  BY <1>1, <1>2 DEF CallStates
<1>4. call' = [call EXCEPT ![p] = r] /\ call'[p] = r /\ \A q \in Procs : q # p => call'[q] = call[q]
  BY <1>0, <1>2 DEF Submit, TypeOK
<1>5. PICK c0 : c0 = Request(p)
  OBVIOUS
<1>6. c0 \in Requests /\ c0.who = p /\ c0.n = call[p].n /\ c0.op = call[p].op /\ c0.handle = call[p].handle
  BY <1>1, <1>5 DEF Request, Requests, CallStates
<1>7. queue' = Append(queue, c0) /\ UNCHANGED <<segs, closed, connOpen, loop, wire, srv, objs>>
  BY <1>5 DEF Submit, server
<1>8. /\ queue' \in Seq(Requests) /\ Queued' = Queued \cup {c0}
      /\ Len(queue') = Len(queue) + 1 /\ queue'[Len(queue) + 1] = c0
      /\ \A i \in 1 .. Len(queue) : queue'[i] = queue[i]
  BY <1>0, <1>6, <1>7, QueuedAppended
<1>9. Wired' = Wired /\ Served' = Served /\ Pending' = Pending \cup {c0}
  BY <1>7, <1>8 DEF Wired, Served, Pending
<1>10. Pending \cup Served \subseteq Requests /\ \A c \in Pending \cup Served : c.who \in Procs /\ c.n \in Nat
  BY <1>0, PendingTyped DEF Requests
<1>11. \A c \in Pending \cup Served : c.who = p => c.n < call[p].n
  BY <1>0, <1>1, <1>10 DEF SentInv, SentOf
<1>12. TypeOK'
  BY <1>0, <1>3, <1>4, <1>7, <1>8 DEF TypeOK
<1>13. DeferredInv'
  <2>1. Deferred' <=> Deferred
    BY <1>1, <1>3, <1>4 DEF Deferred, Procs
  <2>2. ~Deferred => \A g \in GridClients : call'[g] = call[g]
    BY <1>0, <1>1, <1>4 DEF DeferredInv, Procs, Clients
  <2> QED
    BY <1>0, <1>7, <2>1, <2>2 DEF DeferredInv
<1>14. WireInv'
  BY <1>0, <1>7 DEF WireInv
<1>15. SentInv'
  <2>1. ASSUME NEW c \in Pending \cup Served PROVE SentOf(c)'
    <3>1. SentOf(c)
      BY <1>0 DEF SentInv
    <3>2. CASE c.who = p
      BY <1>1, <1>3, <1>4, <1>10, <1>11, <3>1, <3>2 DEF SentOf, Current
    <3>3. CASE c.who # p
      BY <1>4, <1>10, <3>1, <3>3 DEF SentOf, Current
    <3> QED
      BY <3>2, <3>3
  <2>2. SentOf(c0)'
    BY <1>0, <1>1, <1>3, <1>4, <1>6 DEF SentOf, CallOf
  <2>3. ASSUME NEW i \in DOMAIN queue', NEW j \in DOMAIN queue', i < j, queue'[i].who = queue'[j].who
        PROVE  queue'[i].n < queue'[j].n
    <3>1. queue \in Seq(Requests) /\ Len(queue) \in Nat /\ DOMAIN queue = 1 .. Len(queue)
      BY <1>0 DEF TypeOK
    <3>2. DOMAIN queue' = 1 .. Len(queue) + 1
      BY <1>8, <3>1
    <3>3. i \in 1 .. Len(queue) /\ queue'[i] = queue[i] /\ queue[i] \in Pending
      BY <1>8, <2>3, <3>1, <3>2 DEF Pending, Queued
    <3>4. CASE j = Len(queue) + 1
      BY <1>6, <1>8, <1>11, <2>3, <3>3, <3>4
    <3>5. CASE j # Len(queue) + 1
      <4>1. j \in 1 .. Len(queue) /\ queue'[j] = queue[j]
        BY <1>8, <3>1, <3>2, <3>5
      <4> QED
        BY <1>0, <2>3, <3>1, <3>3, <4>1 DEF SentInv
    <3> QED
      BY <3>4, <3>5
  <2>4. \A c \in Wired \cup Served, d \in Queued' : c.who = d.who => c.n < d.n
    BY <1>0, <1>6, <1>8, <1>11 DEF SentInv, Pending
  <2> QED
    BY <1>9, <2>1, <2>2, <2>3, <2>4 DEF SentInv
<1>16. Replies(p)' = {} /\ Replies(p) = {} /\ \A q \in Procs : q # p => Replies(q)' = Replies(q)
  <2>1. ASSUME NEW i \in DOMAIN wire.resp PROVE wire.resp[i].of # <<p, call[p].n>>
    <3>1. wire.resp \in Seq(Answers) /\ wire.resp # <<>>
      BY <1>0 DEF TypeOK
    <3>2. /\ Tail(wire.resp) = <<>> /\ loop.cur \in Served
          /\ Head(wire.resp).of = <<loop.cur.who, loop.cur.n>>
      BY <1>0, <3>1 DEF WireInv, Served
    <3>3. Len(wire.resp) = 1 /\ wire.resp[1] = Head(wire.resp)
      BY <3>1, <3>2, Singleton
    <3>4. i = 1
      BY <3>1, <3>3
    <3> QED
      BY <1>1, <1>10, <1>11, <3>2, <3>3, <3>4
  <2>2. Replies(p)' = {}
    BY <1>3, <1>4, <1>7, <2>1 DEF Replies
  <2> QED
    BY <1>1, <1>4, <1>7, <2>2 DEF Replies
<1>17. /\ CallOf(p)' /\ AnswerOf(p)'
  <2>1. AnswerOf(p)'
    BY <1>3, <1>4, <1>16 DEF AnswerOf
  <2>2. Calling(p) /\ Calling(p)'
    BY <1>1, <1>3, <1>4 DEF Calling
  <2> QED
    BY <1>0, <1>1, <1>3, <1>4, <1>7, <2>1, <2>2 DEF CallOf
<1>18. ASSUME NEW q \in Procs, q # p
       PROVE  /\ CallOf(q)' /\ AnswerOf(q)' /\ (q \in Clients => LeakOf(q)')
              /\ q \in GridClients => FieldsOf(q)'
  <2>1. call'[q] = call[q] /\ Replies(q)' = Replies(q)
    BY <1>4, <1>16, <1>18
  <2>2. /\ \A c \in Pending' : c.who = q => c \in Pending
        /\ \A c \in Queued' : c.who = q => c \in Queued
        /\ \A c \in Served' : c.who = q => c \in Served \cup Queued
    BY <1>6, <1>8, <1>9, <1>18
  <2>3. /\ (closed => closed') /\ (srv = "exited" => srv' = "exited")
        /\ \A n \in Nat : <<q, n>> \in segs => <<q, n>> \in segs'
        /\ \A h \in Handles : OwnedBy(h, q) \/ OwnedBy(h, q)' => objs'[h] = objs[h]
        /\ (srv' = "running" /\ Head(wire.req)'.who = q) <=> (srv = "running" /\ Head(wire.req).who = q)
        /\ Head(wire.req)' = Head(wire.req)
    BY <1>7
  <2> QED
    BY <1>13, <2>1, <2>2, <2>3, Frame
<1>19. p \in Clients => LeakOf(p)'
  <2>1. SUFFICES ASSUME p \in Clients, ~closed, srv # "exited", ~call[p].lost PROVE LeakOf(p)'
    BY <1>3, <1>4, <1>7 DEF LeakOf
  <2>2. /\ \A c \in Pending : ~(c.who = p /\ c.op \in Allocs \cup Frees)
        /\ \A h \in Handles : OwnedBy(h, p) => call[p].handle = h
    BY <1>0, <1>1, <1>16, <2>1 DEF LeakOf, Current
  <2>3. \A h \in Handles : OwnedBy(h, p)' <=> OwnedBy(h, p)
    BY <1>7 DEF OwnedBy
  <2>4. Current(c0)'
    BY <1>3, <1>4, <1>6 DEF Current
  <2> QED
    BY <1>3, <1>4, <1>9, <1>16, <2>2, <2>3, <2>4 DEF LeakOf
<1>20. p \in GridClients => FieldsOf(p)'
  <2>1. SUFFICES ASSUME p \in GridClients, srv # "exited" PROVE FieldsOf(p)'
    BY <1>7 DEF FieldsOf
  <2>2. /\ call[p].time > 0 =>
          /\ call[p].handle # None /\ At(call[p].handle, call[p].time)
          /\ \A c \in Pending : ~(c.who = p /\ c.op \in FieldOps)
        /\ call[p].op = "RunFDTD" => call[p].time > 0
    BY <1>0, <1>1, <2>1 DEF FieldsOf, Current, Calling
  <2>3. Current(c0)'
    BY <1>3, <1>4, <1>6 DEF Current
  <2>4. ~(srv = "running" /\ Head(wire.req).who = p /\ Current(Head(wire.req))')
    BY <1>0, <1>3, <1>4, <1>7, <1>10, <1>11 DEF WireInv, Current, Wired, Pending
  <2>5. At(call[p].handle, call[p].time)' <=> At(call[p].handle, call[p].time)
    BY <1>3, <1>4, <1>7 DEF At
  <2> QED
    BY <1>3, <1>4, <1>7, <1>9, <1>16, <2>2, <2>3, <2>4, <2>5 DEF FieldsOf, Calling
<1>21. HandleInv'
  <2>1. c0.op \in HandleOps => /\ p \in Clients /\ c0.handle \in Handles /\ OwnedBy(c0.handle, p)
                               /\ \A c \in Pending : c.op \in Frees => c.handle # c0.handle
    BY <1>0, <1>1, <1>6, OpsTyped, GpuAssumption DEF HandleInv, CallOf, Calling, Procs
  <2>2. \A h, q : OwnedBy(h, q)' <=> OwnedBy(h, q)
    BY <1>7 DEF OwnedBy
  <2>3. \A c \in Pending' : c.op \in HandleOps => c.handle \in Handles /\ OwnedBy(c.handle, c.who)
    BY <1>0, <1>6, <1>9, <2>1 DEF HandleInv
  <2>4. ASSUME NEW c \in Pending', NEW d \in Pending', c.op \in Frees, c.who = d.who, c.n < d.n
        PROVE  ~Names(d, c.handle)
    <3>1. c \in Pending
      BY <1>1, <1>6, <1>9, <1>10, <1>11, <2>4
    <3>2. CASE d \in Pending
      BY <1>0, <2>4, <3>1, <3>2 DEF HandleInv
    <3>3. CASE d = c0
      BY <2>1, <2>4, <3>1, <3>3 DEF Names
    <3> QED
      BY <1>9, <3>2, <3>3
  <2>5. ASSUME NEW q \in Clients, call'[q].handle # None, ~(call'[q].pc = "wait" /\ call'[q].op \in Frees)
        PROVE  OwnedBy(call'[q].handle, q) /\ \A c \in Pending' : c.op \in Frees => c.handle # call'[q].handle
    <3>1. q \in Procs /\ call'[q].handle = call[q].handle /\ call'[q].op = call[q].op
      BY <1>3, <1>4 DEF Procs
    <3>2. OwnedBy(call[q].handle, q) /\ \A c \in Pending : c.op \in Frees => c.handle # call[q].handle
      BY <1>0, <1>1, <1>3, <1>4, <2>5, <3>1 DEF HandleInv
    <3>3. c0.op \in Frees => c0.handle # call[q].handle
      BY <1>3, <1>4, <1>6, <2>1, <2>5, <3>2, OpsTyped DEF OwnedBy
    <3> QED
      BY <1>9, <3>1, <3>2, <3>3
  <2>6. ASSUME NEW q \in Clients, NEW a \in Replies(q)', call'[q].op \in Allocs, a.status = "ok"
        PROVE  a.handle \in Handles /\ OwnedBy(a.handle, q) /\ \A c \in Pending' : ~Names(c, a.handle)
    <3>1. q # p /\ q \in Procs /\ call'[q] = call[q] /\ a \in Replies(q)
      BY <1>4, <1>16, <2>6 DEF Procs
    <3>2. a.handle \in Handles /\ OwnedBy(a.handle, q) /\ \A c \in Pending : ~Names(c, a.handle)
      BY <1>0, <2>6, <3>1 DEF HandleInv
    <3>3. ~Names(c0, a.handle)
      BY <2>1, <3>1, <3>2 DEF Names, OwnedBy
    <3> QED
      BY <1>9, <3>2, <3>3
  <2>7. \A q \in Clients : OwnedBy(call[q].handle, q)' <=> OwnedBy(call'[q].handle, q)
    BY <1>7 DEF OwnedBy
  <2> QED
    BY <2>2, <2>3, <2>4, <2>5, <2>6, <2>7 DEF HandleInv, Names
<1> QED
  BY <1>12, <1>13, <1>14, <1>15, <1>17, <1>18, <1>19, <1>20, <1>21 DEF GpuIInv, Procs, Clients

-----------------------------------------------------------------------------
(* loop, and the ends of the connection and of the server. *)

\* A step that no goroutine sees: a request moves on, or somebody leaves.
LEMMA Quiet ==
  ASSUME GpuIInv, UNCHANGED <<call, segs, closed, connOpen, objs>>, wire'.resp = wire.resp,
         TypeOK', WireInv', SentInv',
         Pending' \subseteq Pending, Queued' \subseteq Queued, Served' \subseteq Served \cup Queued,
         srv' = srv \/ srv' = "exited", srv = "running" => Head(wire.req)' = Head(wire.req)
  PROVE  GpuIInv'
<1>0. TypeOK /\ DeferredInv /\ WireInv /\ HandleInv
  BY DEF GpuIInv
<1>1. \A q \in Procs : Replies(q)' = Replies(q)
  BY DEF Replies
<1>2. DeferredInv'
  BY <1>0 DEF DeferredInv, Deferred
<1>3. HandleInv'
  <2>1. \A h \in Handles, q \in Procs : OwnedBy(h, q)' <=> OwnedBy(h, q)
    BY DEF OwnedBy
  <2>2. \A c \in Pending : c.who \in Procs
    BY <1>0, PendingTyped DEF Requests
  <2>3. \A q \in Clients : call[q].handle \in Handles \cup {None} /\ q \in Procs
    BY <1>0 DEF TypeOK, CallStates, Procs
  <2> QED
    BY <1>0, <1>1, <2>1, <2>2, <2>3, HandleKept
<1>4. ASSUME NEW q \in Procs
      PROVE  /\ CallOf(q)' /\ AnswerOf(q)' /\ (q \in Clients => LeakOf(q)')
             /\ q \in GridClients => FieldsOf(q)'
  <2>1. /\ call'[q] = call[q] /\ Replies(q)' = Replies(q)
        /\ \A c \in Pending' : c.who = q => c \in Pending
        /\ \A c \in Queued' : c.who = q => c \in Queued
        /\ \A c \in Served' : c.who = q => c \in Served \cup Queued
    BY <1>1
  <2>2. /\ (closed => closed') /\ (srv = "exited" => srv' = "exited")
        /\ \A n \in Nat : <<q, n>> \in segs => <<q, n>> \in segs'
        /\ \A h \in Handles : OwnedBy(h, q) \/ OwnedBy(h, q)' => objs'[h] = objs[h]
    OBVIOUS
  <2>3. /\ srv' # "exited" =>
             ((srv' = "running" /\ Head(wire.req)'.who = q) <=> (srv = "running" /\ Head(wire.req).who = q))
        /\ srv' = "running" => Head(wire.req)' = Head(wire.req)
    OBVIOUS
  <2> QED
    BY <1>2, <2>1, <2>2, <2>3, Frame
<1> QED
  BY <1>2, <1>3, <1>4 DEF GpuIInv, Procs, Clients

LEMMA LoopTakeIInv ==
  ASSUME GpuIInv, LoopTake
  PROVE  GpuIInv'
<1>0. TypeOK /\ WireInv /\ SentInv
  BY DEF GpuIInv
<1>1. PICK c : c = Head(queue)
  OBVIOUS
<1>2. /\ loop.st = "select" /\ queue # <<>> /\ connOpen /\ srv # "exited" /\ queue' = Tail(queue)
      /\ wire' = [wire EXCEPT !.req = Append(@, c)] /\ loop' = [st |-> "recv", cur |-> c]
      /\ UNCHANGED <<call, segs, closed, connOpen, srv, objs>>
  BY <1>1 DEF LoopTake
<1>3. wire.req = <<>> /\ wire.resp = <<>> /\ srv = "serving"
  BY <1>0, <1>2 DEF WireInv, TypeOK
<1>4. /\ queue' \in Seq(Requests) /\ c \in Queued /\ Queued' \subseteq Queued
      /\ \A d \in Queued' : c.who = d.who => c.n < d.n
      /\ \A i, j \in DOMAIN queue' : i < j /\ queue'[i].who = queue'[j].who => queue'[i].n < queue'[j].n
  BY <1>0, <1>1, <1>2, QueuedTaken
<1>5. Pending \cup Served \subseteq Requests /\ c \in Requests
  BY <1>0, <1>4, PendingTyped DEF Pending
<1>6. wire'.req = <<c>> /\ wire'.resp = <<>> /\ wire' \in [req : Seq(Requests), resp : Seq(Answers)]
  <2>1. wire \in [req : Seq(Requests), resp : Seq(Answers)]
    BY <1>0 DEF TypeOK
  <2>2. Append(wire.req, c) = <<c>> /\ <<c>> \in Seq(Requests)
    BY <1>3, <1>5
  <2>3. wire' = [wire EXCEPT !.req = <<c>>]
    BY <1>2, <2>2
  <2>4. wire'.req = <<c>> /\ wire'.resp = wire.resp
    BY <2>1, <2>3
  <2>5. wire' \in [req : Seq(Requests), resp : Seq(Answers)]
    BY <2>1, <2>2, <2>3
  <2> QED
    BY <1>3, <2>4, <2>5
<1>7. Head(wire'.req) = c /\ Tail(wire'.req) = <<>> /\ wire'.req # <<>>
  BY <1>6
<1>8. Wired' = {c} /\ Served' = {c} /\ Pending' \subseteq Pending
  BY <1>2, <1>4, <1>7 DEF Wired, Served, Pending
<1>9. TypeOK'
  BY <1>0, <1>2, <1>4, <1>5, <1>6 DEF TypeOK
<1>10. WireInv'
  BY <1>2, <1>3, <1>5, <1>6, <1>7 DEF WireInv
<1>11. SentInv'
  <2>1. \A d \in Pending : SentOf(d)' <=> SentOf(d)
    BY <1>2 DEF SentOf, Current
  <2> QED
    BY <1>0, <1>4, <1>8, <2>1 DEF SentInv, Pending
<1>12. Served' \subseteq Served \cup Queued /\ wire'.resp = wire.resp /\ srv # "running"
  BY <1>3, <1>4, <1>6, <1>8
<1> QED
  BY <1>2, <1>4, <1>8, <1>9, <1>10, <1>11, <1>12, Quiet

\* Steps that move nothing.
LEMMA LeaveIInv ==
  ASSUME GpuIInv, LoopExit \/ ServerEOF \/ StartCtxDone \/ UNCHANGED vars
  PROVE  GpuIInv'
<1>0. TypeOK /\ WireInv /\ SentInv
  BY DEF GpuIInv
<1>1. /\ UNCHANGED <<call, segs, queue, closed, connOpen, wire, objs>>
      /\ srv' = srv \/ srv' = "exited"
      /\ \/ loop' = loop
         \/ loop.st = "select" /\ loop' = [loop EXCEPT !.st = "exited"] /\ srv' = srv
  BY DEF LoopExit, ServerEOF, StartCtxDone, vars, worker, server
<1>2. loop' \in [st : {"select", "recv", "exited"}, cur : Requests \cup {None}] /\ (loop'.st = "recv" <=> loop.st = "recv")
  BY <1>0, <1>1 DEF TypeOK
<1>3. Wired' = Wired /\ Queued' = Queued /\ Pending' = Pending
  BY <1>1 DEF Wired, Queued, Pending
<1>4. Served' = Served
  BY <1>1, <1>2 DEF Served
<1>5. TypeOK'
  BY <1>0, <1>1, <1>2 DEF TypeOK
<1>6. WireInv'
  BY <1>0, <1>1, <1>2 DEF WireInv
<1>7. SentInv'
  <2>1. \A d : SentOf(d)' <=> SentOf(d)
    BY <1>1 DEF SentOf, Current
  <2> QED
    BY <1>0, <1>1, <1>3, <1>4, <2>1 DEF SentInv
<1> QED
  BY <1>1, <1>3, <1>4, <1>5, <1>6, <1>7, Quiet

\* w.conn.Close()
LEMMA CloseConnIInv ==
  ASSUME GpuIInv, NEW p \in Closers, CloseConn(p)
  PROVE  GpuIInv'
<1>0. TypeOK /\ DeferredInv /\ WireInv /\ SentInv /\ HandleInv /\ CallOf(p) /\ p \in Procs /\ p \notin Clients
  BY GpuAssumption DEF GpuIInv, Procs
<1>1. /\ call[p] \in CallStates /\ call[p].pc = "conn" /\ call' = [call EXCEPT ![p].pc = "reap"]
      /\ connOpen' = FALSE /\ wire' = [wire EXCEPT !.resp = <<>>]
      /\ UNCHANGED <<segs, queue, closed, loop, srv, objs>>
  BY <1>0 DEF CloseConn, CloseStep, TypeOK
<1>2. PICK r : r = [call[p] EXCEPT !.pc = "reap"]
  OBVIOUS
<1>3. /\ r \in CallStates /\ r.pc = "reap" /\ r.n = call[p].n /\ r.op = call[p].op /\ r.handle = call[p].handle
      /\ r.time = call[p].time
  BY <1>1, <1>2 DEF CallStates
<1>4. call' = [call EXCEPT ![p] = r] /\ call'[p] = r /\ \A q \in Procs : q # p => call'[q] = call[q]
  BY <1>0, <1>1, <1>2 DEF TypeOK
<1>5. closed
  BY <1>0, <1>1 DEF CallOf
<1>6. wire'.req = wire.req /\ wire'.resp = <<>> /\ wire' \in [req : Seq(Requests), resp : Seq(Answers)]
  <2>1. wire \in [req : Seq(Requests), resp : Seq(Answers)] /\ <<>> \in Seq(Answers)
    BY <1>0 DEF TypeOK
  <2>2. wire' \in [req : Seq(Requests), resp : Seq(Answers)]
    BY <1>1, <2>1
  <2> QED
    BY <1>1, <2>1, <2>2
<1>7. Wired' = Wired /\ Queued' = Queued /\ Pending' = Pending /\ Served' = Served
  BY <1>1, <1>6 DEF Wired, Queued, Pending, Served
<1>8. TypeOK'
  BY <1>0, <1>1, <1>3, <1>4, <1>6 DEF TypeOK
<1>9. DeferredInv'
  <2>1. ~Deferred /\ ~Deferred'
    BY <1>1, <1>3, <1>4 DEF Deferred
  <2>2. \A g \in GridClients : call'[g] = call[g]
    BY <1>0, <1>4 DEF Procs, Clients
  <2> QED
    BY <1>0, <1>1, <1>5, <2>1, <2>2 DEF DeferredInv
<1>10. WireInv'
  BY <1>0, <1>1, <1>6 DEF WireInv
<1>11. SentInv'
  <2>1. ASSUME NEW c \in Pending \cup Served PROVE SentOf(c)'
    <3>1. SentOf(c) /\ c.who \in Procs
      BY <1>0, PendingTyped DEF SentInv, Requests
    <3> QED
      BY <1>3, <1>4, <3>1 DEF SentOf, Current
  <2> QED
    BY <1>0, <1>1, <1>7, <2>1 DEF SentInv
<1>12. ASSUME NEW q \in Procs, q # p
       PROVE  /\ Replies(q)' = Replies(q) \/ (closed /\ Replies(q)' = {})
              /\ Replies(q)' \subseteq Replies(q)
  <2>1. call'[q] = call[q]
    BY <1>4, <1>12
  <2>2. Replies(q)' \subseteq {call[q].answer}
    BY <1>6, <2>1 DEF Replies
  <2>3. Replies(q)' \subseteq Replies(q)
    BY <1>6, <2>1 DEF Replies
  <2>4. ASSUME NEW a \in Replies(q), a # call[q].answer PROVE Replies(q)' = {}
    <3>1. call[q].pc = "wait" /\ wire.resp # <<>> /\ a.of = <<q, call[q].n>> /\ AnswerOf(q)
      BY <2>4 DEF Replies, GpuIInv
    <3>2. ASSUME call[q].answer \in Replies(q) PROVE FALSE
      BY <2>4, <3>2, OneReply
    <3> QED
      BY <2>2, <2>3, <3>2
  <2> QED
    BY <1>5, <2>2, <2>3, <2>4
<1>13. ASSUME NEW q \in Procs, q # p
       PROVE  /\ CallOf(q)' /\ AnswerOf(q)' /\ (q \in Clients => LeakOf(q)')
              /\ q \in GridClients => FieldsOf(q)'
  <2>1. /\ call'[q] = call[q] /\ (Replies(q)' = Replies(q) \/ (closed /\ Replies(q)' = {}))
        /\ \A c \in Pending' : c.who = q => c \in Pending
        /\ \A c \in Queued' : c.who = q => c \in Queued
        /\ \A c \in Served' : c.who = q => c \in Served \cup Queued
    BY <1>4, <1>7, <1>12, <1>13
  <2>2. /\ (closed => closed') /\ (srv = "exited" => srv' = "exited")
        /\ \A n \in Nat : <<q, n>> \in segs => <<q, n>> \in segs'
        /\ \A h \in Handles : OwnedBy(h, q) \/ OwnedBy(h, q)' => objs'[h] = objs[h]
    BY <1>1
  <2>3. /\ (srv' = "running" /\ Head(wire.req)'.who = q) <=> (srv = "running" /\ Head(wire.req).who = q)
        /\ Head(wire.req)' = Head(wire.req)
    BY <1>1, <1>6
  <2> QED
    BY <1>9, <2>1, <2>2, <2>3, Frame
<1>14. CallOf(p)' /\ AnswerOf(p)'
  BY <1>0, <1>1, <1>3, <1>4, <1>5 DEF CallOf, AnswerOf, Replies, Calling
<1>15. HandleInv'
  <2>1. \A h \in Handles, q \in Procs : OwnedBy(h, q)' <=> OwnedBy(h, q)
    BY <1>1 DEF OwnedBy
  <2>2. \A c \in Pending : c.who \in Procs
    BY <1>0, PendingTyped DEF Requests
  <2>3. \A q \in Clients : call[q].handle \in Handles \cup {None} /\ call'[q] = call[q]
    BY <1>0, <1>4 DEF TypeOK, CallStates, Procs
  <2>4. \A q \in Clients : Replies(q)' \subseteq Replies(q)
    BY <1>0, <1>12 DEF Procs
  <2> QED
    BY <1>0, <1>7, <2>1, <2>2, <2>3, <2>4, HandleKept
<1> QED
  BY <1>0, <1>8, <1>9, <1>10, <1>11, <1>13, <1>14, <1>15 DEF GpuIInv, Procs, Clients

-----------------------------------------------------------------------------
(* loop hands an answer over. *)

\* What Deliver does to the calls.
LEMMA Delivered ==
  ASSUME TypeOK, NEW c \in Requests, NEW a \in Answers, Deliver(c, a)
  PROVE  /\ call' \in [Procs -> CallStates]
         /\ \A q \in Procs : q # c.who \/ ~Current(c) => call'[q] = call[q]
         /\ \A q \in Procs :
              /\ call'[q].pc = call[q].pc /\ call'[q].n = call[q].n /\ call'[q].op = call[q].op
              /\ call'[q].handle = call[q].handle /\ call'[q].time = call[q].time
              /\ call'[q].lost = call[q].lost
         /\ Current(c) => call'[c.who].answer = a
<1>1. c.who \in Procs /\ call \in [Procs -> CallStates] /\ call[c.who] \in CallStates
  BY DEF TypeOK, Requests
<1>2. CASE ~Current(c)
  BY <1>1, <1>2 DEF Deliver, Current
<1>3. CASE Current(c)
  <2>1. PICK r : r = [call[c.who] EXCEPT !.answer = a]
    OBVIOUS
  <2>2. /\ r \in CallStates /\ r.pc = call[c.who].pc /\ r.n = call[c.who].n /\ r.op = call[c.who].op
        /\ r.handle = call[c.who].handle /\ r.time = call[c.who].time /\ r.lost = call[c.who].lost
        /\ r.answer = a
    BY <1>1, <2>1 DEF CallStates
  <2>3. call' = [call EXCEPT ![c.who] = r]
    BY <1>1, <1>3, <2>1 DEF Deliver, Current
  <2> QED
    BY <1>1, <1>3, <2>2, <2>3
<1> QED
  BY <1>2, <1>3

\* The frames that follow an answer that was handed over.
LEMMA DeliveredSent ==
  ASSUME TypeOK, WireInv, SentInv, NEW c \in Requests, NEW a \in Answers, Deliver(c, a),
         Pending' \cup Served' \subseteq Pending \cup Served
  PROVE  \A d \in Pending' \cup Served' : SentOf(d)'
<1>1. ASSUME NEW d \in Pending \cup Served PROVE SentOf(d)'
  <2>1. SentOf(d) /\ d.who \in Procs
    BY PendingTyped DEF SentInv, Requests
  <2> QED
    BY <2>1, Delivered DEF SentOf, Current
<1> QED
  BY <1>1

\* A read or a write has failed.
LEMMA IoErrIInv ==
  ASSUME GpuIInv, NEW c \in Requests, Deliver(c, IoErr), closed \/ srv = "exited", wire.resp = <<>>,
         Current(c) => call[c.who].answer = None,
         \A d \in Queued' : d.who = c.who => c.n < d.n,
         queue' \in Seq(Requests), Queued' \subseteq Queued,
         \A i, j \in DOMAIN queue' : i < j /\ queue'[i].who = queue'[j].who => queue'[i].n < queue'[j].n,
         loop' \in [st : {"select"}, cur : Requests \cup {None}],
         connOpen /\ srv # "exited" => wire.req = <<>>,
         UNCHANGED <<segs, closed, connOpen, wire, srv, objs>>
  PROVE  GpuIInv'
<1>0. TypeOK /\ DeferredInv /\ WireInv /\ SentInv /\ HandleInv /\ c.who \in Procs /\ IoErr \in Answers
  BY DEF GpuIInv, Requests, Answers, IoErr
<1>1. /\ call' \in [Procs -> CallStates]
      /\ \A q \in Procs : q # c.who \/ ~Current(c) => call'[q] = call[q]
      /\ \A q \in Procs :
           /\ call'[q].pc = call[q].pc /\ call'[q].n = call[q].n /\ call'[q].op = call[q].op
           /\ call'[q].handle = call[q].handle /\ call'[q].time = call[q].time
           /\ call'[q].lost = call[q].lost
      /\ Current(c) => call'[c.who].answer = IoErr
  BY <1>0, Delivered
<1>2. Wired' = Wired /\ Served' = {} /\ Pending' \subseteq Pending
  BY DEF Wired, Served, Pending
<1>3. TypeOK'
  BY <1>0, <1>1 DEF TypeOK
<1>4. DeferredInv'
  BY <1>0, <1>1 DEF DeferredInv, Deferred, Procs, Clients
<1>5. WireInv'
  BY <1>0 DEF WireInv
<1>6. SentInv'
  BY <1>0, <1>2, DeliveredSent DEF SentInv
<1>7. \A q \in Procs : Replies(q)' = Replies(q)
  <2>1. ASSUME NEW q \in Procs, call'[q] = call[q] PROVE Replies(q)' = Replies(q)
    BY <2>1 DEF Replies
  <2>2. Current(c) => Replies(c.who) = {} /\ Replies(c.who)' = {}
    <3>1. DOMAIN wire.resp = {}
      OBVIOUS
    <3> QED
      BY <1>0, <1>1, <3>1 DEF Replies, IoErr
  <2> QED
    BY <1>1, <2>1, <2>2
<1>8. HandleInv'
  <2>1. \A h \in Handles, q \in Procs : OwnedBy(h, q)' <=> OwnedBy(h, q)
    BY DEF OwnedBy
  <2>2. \A d \in Pending : d.who \in Procs
    BY <1>0, PendingTyped DEF Requests
  <2>3. \A q \in Clients : call[q].handle \in Handles \cup {None} /\ q \in Procs
    BY <1>0 DEF TypeOK, CallStates, Procs
  <2> QED
    BY <1>0, <1>1, <1>2, <1>7, <2>1, <2>2, <2>3, HandleKept
<1>9. ASSUME NEW q \in Procs
      PROVE  /\ CallOf(q)' /\ AnswerOf(q)' /\ (q \in Clients => LeakOf(q)')
             /\ q \in GridClients => FieldsOf(q)'
  <2>1. CASE call'[q] = call[q]
    <3>1. /\ call'[q] = call[q] /\ Replies(q)' = Replies(q)
          /\ \A d \in Pending' : d.who = q => d \in Pending
          /\ \A d \in Queued' : d.who = q => d \in Queued
          /\ \A d \in Served' : d.who = q => d \in Served \cup Queued
      BY <1>2, <1>7, <2>1
    <3>2. /\ (closed => closed') /\ (srv = "exited" => srv' = "exited")
          /\ \A n \in Nat : <<q, n>> \in segs => <<q, n>> \in segs'
          /\ \A h \in Handles : OwnedBy(h, q) \/ OwnedBy(h, q)' => objs'[h] = objs[h]
          /\ (srv' = "running" /\ Head(wire.req)'.who = q) <=> (srv = "running" /\ Head(wire.req).who = q)
          /\ Head(wire.req)' = Head(wire.req)
      OBVIOUS
    <3> QED
      BY <1>4, <3>1, <3>2, Frame
  <2>2. CASE call'[q] # call[q]
    <3>1. q = c.who /\ Current(c) /\ call[q].pc = "wait" /\ c.n = call[q].n /\ call'[q].answer = IoErr
      BY <1>1, <2>2 DEF Current
    <3>2. Replies(q)' = {}
      BY <1>0, <1>7, <3>1 DEF Replies
    <3>3. \A d \in Queued' : d.who # q
      <4>1. ASSUME NEW d \in Queued', d.who = q PROVE FALSE
        <5>1. d \in Requests /\ SentOf(d) /\ d.n \in Nat /\ c.n \in Nat /\ c.n < d.n
          BY <1>0, <3>1, <4>1, PendingTyped DEF SentInv, Pending, Requests
        <5> QED
          BY <3>1, <4>1, <5>1 DEF SentOf
      <4> QED
        BY <4>1
    <3>4. AnswerOf(q)'
      BY <1>1, <1>2, <3>1, <3>2, <3>3 DEF AnswerOf
    <3>5. CallOf(q)'
      BY <1>1, <3>1 DEF CallOf, Calling, GpuIInv
    <3>6. LeakOf(q)'
      BY DEF LeakOf
    <3>7. q \in GridClients => srv = "exited"
      BY <1>0, <3>1 DEF DeferredInv
    <3> QED
      BY <3>4, <3>5, <3>6, <3>7 DEF FieldsOf
  <2> QED
    BY <2>1, <2>2
<1> QED
  BY <1>3, <1>4, <1>5, <1>6, <1>8, <1>9 DEF GpuIInv, Procs, Clients

LEMMA LoopFailsIInv ==
  ASSUME GpuIInv, LoopTakeFails \/ LoopRecvFails
  PROVE  GpuIInv'
<1>0. TypeOK /\ DeferredInv /\ WireInv /\ SentInv /\ \A p \in Procs : AnswerOf(p)
  BY DEF GpuIInv
<1>1. CASE LoopTakeFails
  <2>1. PICK c : c = Head(queue)
    OBVIOUS
  <2>2. /\ loop.st = "select" /\ queue # <<>> /\ (~connOpen \/ srv = "exited") /\ queue' = Tail(queue)
        /\ Deliver(c, IoErr) /\ UNCHANGED <<segs, closed, connOpen, loop, wire, srv, objs>>
    BY <1>1, <2>1 DEF LoopTakeFails, server
  <2>3. /\ queue' \in Seq(Requests) /\ c \in Queued /\ Queued' \subseteq Queued
        /\ \A d \in Queued' : d.who = c.who => c.n < d.n
        /\ \A i, j \in DOMAIN queue' : i < j /\ queue'[i].who = queue'[j].who => queue'[i].n < queue'[j].n
    BY <1>0, <2>1, <2>2, QueuedTaken
  <2>4. c \in Requests /\ c.who \in Procs
    BY <1>0, <2>3, PendingTyped DEF Pending, Requests
  <2>5. wire.resp = <<>> /\ (closed \/ srv = "exited")
    BY <1>0, <2>2 DEF WireInv, DeferredInv
  <2>6. Current(c) => call[c.who].answer = None
    BY <1>0, <2>3, <2>4 DEF AnswerOf, Current
  <2>7. loop' \in [st : {"select"}, cur : Requests \cup {None}]
    BY <1>0, <2>2 DEF TypeOK
  <2> QED
    BY <2>2, <2>3, <2>4, <2>5, <2>6, <2>7, IoErrIInv
<1>2. CASE LoopRecvFails
  <2>1. PICK c : c = loop.cur
    OBVIOUS
  <2>2. /\ loop.st = "recv" /\ (~connOpen \/ (srv = "exited" /\ wire.resp = <<>>))
        /\ Deliver(c, IoErr) /\ loop' = [st |-> "select", cur |-> None]
        /\ UNCHANGED <<segs, queue, closed, connOpen, wire, srv, objs>>
    BY <1>2, <2>1 DEF LoopRecvFails, server
  <2>3. c \in Served /\ c \in Requests /\ c.who \in Procs
    BY <1>0, <2>1, <2>2 DEF Served, WireInv, Requests
  <2>4. Queued' = Queued /\ \A d \in Queued : d.who = c.who => c.n < d.n
    BY <1>0, <2>2, <2>3 DEF Queued, SentInv
  <2>5. wire.resp = <<>> /\ (closed \/ srv = "exited")
    BY <1>0, <2>2 DEF WireInv, DeferredInv
  <2>6. Current(c) => call[c.who].answer = None
    BY <1>0, <2>3 DEF AnswerOf, Current
  <2>7. queue' \in Seq(Requests) /\ loop' \in [st : {"select"}, cur : Requests \cup {None}]
    BY <1>0, <2>2 DEF TypeOK
  <2>8. \A i, j \in DOMAIN queue' : i < j /\ queue'[i].who = queue'[j].who => queue'[i].n < queue'[j].n
    BY <1>0, <2>2 DEF SentInv
  <2> QED
    BY <2>2, <2>3, <2>4, <2>5, <2>6, <2>7, <2>8, IoErrIInv
<1> QED
  BY <1>1, <1>2

LEMMA LoopRecvIInv ==
  ASSUME GpuIInv, LoopRecv
  PROVE  GpuIInv'
<1>0. TypeOK /\ DeferredInv /\ WireInv /\ SentInv /\ HandleInv
  BY DEF GpuIInv
<1>1. PICK c, a : c = loop.cur /\ a = Head(wire.resp)
  OBVIOUS
<1>2. /\ loop.st = "recv" /\ connOpen /\ wire.resp # <<>> /\ Deliver(c, a)
      /\ wire' = [wire EXCEPT !.resp = Tail(@)] /\ loop' = [st |-> "select", cur |-> None]
      /\ UNCHANGED <<segs, queue, closed, connOpen, srv, objs>>
  BY <1>1 DEF LoopRecv
<1>3. /\ wire.resp \in Seq(Answers) /\ Tail(wire.resp) = <<>> /\ wire.req = <<>> /\ c \in Requests
      /\ a.of = <<c.who, c.n>> /\ a.status # "ioerr" /\ c \in Served /\ c.who \in Procs /\ srv # "running"
  BY <1>0, <1>1, <1>2 DEF WireInv, TypeOK, Served, Requests
<1>4. Len(wire.resp) = 1 /\ wire.resp[1] = a /\ a \in Answers
  BY <1>1, <1>2, <1>3, Singleton
<1>5. DOMAIN wire.resp = {1}
  BY <1>3, <1>4
<1>6. wire'.req = <<>> /\ wire'.resp = <<>> /\ wire' \in [req : Seq(Requests), resp : Seq(Answers)]
  <2>1. wire \in [req : Seq(Requests), resp : Seq(Answers)] /\ <<>> \in Seq(Answers)
    BY <1>0 DEF TypeOK
  <2>2. wire' = [wire EXCEPT !.resp = <<>>]
    BY <1>2, <1>3
  <2>3. wire' \in [req : Seq(Requests), resp : Seq(Answers)]
    BY <2>1, <2>2
  <2> QED
    BY <1>3, <2>1, <2>2, <2>3
<1>7. /\ call' \in [Procs -> CallStates]
      /\ \A q \in Procs : q # c.who \/ ~Current(c) => call'[q] = call[q]
      /\ \A q \in Procs :
           /\ call'[q].pc = call[q].pc /\ call'[q].n = call[q].n /\ call'[q].op = call[q].op
           /\ call'[q].handle = call[q].handle /\ call'[q].time = call[q].time
           /\ call'[q].lost = call[q].lost
      /\ Current(c) => call'[c.who].answer = a
  BY <1>0, <1>2, <1>3, <1>4, Delivered
<1>8. Wired = {} /\ Wired' = {} /\ Served' = {} /\ Queued' = Queued /\ Pending' = Pending /\ Pending = Queued
  BY <1>2, <1>3, <1>6 DEF Wired, Served, Pending, Queued
<1>9. TypeOK'
  BY <1>0, <1>2, <1>6, <1>7 DEF TypeOK
<1>10. DeferredInv'
  BY <1>0, <1>2, <1>7 DEF DeferredInv, Deferred, Procs, Clients
<1>11. WireInv'
  BY <1>2, <1>3, <1>6 DEF WireInv
<1>12. SentInv'
  <2>1. \A d \in Pending' \cup Served' : SentOf(d)'
    BY <1>0, <1>2, <1>3, <1>4, <1>8, DeliveredSent
  <2> QED
    BY <1>0, <1>2, <1>8, <2>1 DEF SentInv
<1>13. Current(c) => Replies(c.who) = {a} /\ Replies(c.who)' = {a} /\ call[c.who].answer = None
  <2>1. SUFFICES ASSUME Current(c)
                 PROVE  Replies(c.who) = {a} /\ Replies(c.who)' = {a} /\ call[c.who].answer = None
    OBVIOUS
  <2>2. AnswerOf(c.who) /\ call[c.who].pc = "wait" /\ call[c.who].n = c.n
    BY <1>3, <2>1 DEF GpuIInv, Current
  <2>3. call[c.who].answer = None
    BY <1>3, <2>2 DEF AnswerOf
  <2>4. a # None
    BY <1>4, GpuAssumption
  <2>5. {wire.resp[i] : i \in DOMAIN wire.resp} = {a} /\ {wire'.resp[i] : i \in DOMAIN wire'.resp} = {}
    BY <1>4, <1>5, <1>6
  <2> QED
    BY <1>3, <1>7, <2>1, <2>2, <2>3, <2>4, <2>5 DEF Replies
<1>14. ASSUME NEW q \in Procs, q # c.who \/ ~Current(c) PROVE Replies(q)' = Replies(q)
  <2>1. call'[q] = call[q]
    BY <1>7, <1>14
  <2>2. a.of # <<q, call[q].n>> \/ call[q].pc # "wait"
    BY <1>3, <1>14 DEF Current
  <2>3. {wire.resp[i] : i \in DOMAIN wire.resp} = {a} /\ {wire'.resp[i] : i \in DOMAIN wire'.resp} = {}
    BY <1>4, <1>5, <1>6
  <2> QED
    BY <2>1, <2>2, <2>3 DEF Replies
<1>15. \A q \in Procs : Replies(q)' = Replies(q)
  BY <1>3, <1>13, <1>14
<1>16. HandleInv'
  <2>1. \A h \in Handles, q \in Procs : OwnedBy(h, q)' <=> OwnedBy(h, q)
    BY <1>2 DEF OwnedBy
  <2>2. \A d \in Pending : d.who \in Procs
    BY <1>0, PendingTyped DEF Requests
  <2>3. \A q \in Clients : call[q].handle \in Handles \cup {None} /\ q \in Procs
    BY <1>0 DEF TypeOK, CallStates, Procs
  <2> QED
    BY <1>0, <1>7, <1>8, <1>15, <2>1, <2>2, <2>3, HandleKept
<1>17. ASSUME NEW q \in Procs
       PROVE  /\ CallOf(q)' /\ AnswerOf(q)' /\ (q \in Clients => LeakOf(q)')
              /\ q \in GridClients => FieldsOf(q)'
  <2>1. CASE call'[q] = call[q]
    <3>1. /\ call'[q] = call[q] /\ Replies(q)' = Replies(q)
          /\ \A d \in Pending' : d.who = q => d \in Pending
          /\ \A d \in Queued' : d.who = q => d \in Queued
          /\ \A d \in Served' : d.who = q => d \in Served \cup Queued
      BY <1>8, <1>15, <2>1
    <3>2. /\ (closed => closed') /\ (srv = "exited" => srv' = "exited")
          /\ \A n \in Nat : <<q, n>> \in segs => <<q, n>> \in segs'
          /\ \A h \in Handles : OwnedBy(h, q) \/ OwnedBy(h, q)' => objs'[h] = objs[h]
          /\ srv # "running" /\ srv' # "running"
      BY <1>2, <1>3
    <3> QED
      BY <1>10, <3>1, <3>2, Frame
  <2>2. CASE call'[q] # call[q]
    <3>1. q = c.who /\ Current(c) /\ call'[q].answer = a
      BY <1>7, <2>2
    <3>2. Replies(q) = {a} /\ Replies(q)' = {a} /\ call[q].pc = "wait"
      BY <1>13, <3>1 DEF Current
    <3>3. AnswerOf(q) /\ CallOf(q) /\ (q \in Clients => LeakOf(q)) /\ (q \in GridClients => FieldsOf(q))
      BY DEF GpuIInv
    <3>4. AnswerOf(q)'
      BY <1>3, <1>7, <1>8, <3>1, <3>2, <3>3 DEF AnswerOf
    <3>5. CallOf(q)'
      BY <1>2, <1>7, <3>1, <3>2, <3>3 DEF CallOf, Calling
    <3>6. \A d : d.who = q => (Current(d)' <=> Current(d))
      BY <1>7 DEF Current
    <3>7. \A h : OwnedBy(h, q)' <=> OwnedBy(h, q)
      BY <1>2 DEF OwnedBy
    <3>8. q \in Clients => LeakOf(q)'
      BY <1>2, <1>7, <1>8, <3>2, <3>3, <3>6, <3>7 DEF LeakOf
    <3>9. q \in GridClients => FieldsOf(q)'
      BY <1>2, <1>7, <1>8, <3>2, <3>3, <3>6 DEF FieldsOf, At, Calling
    <3> QED
      BY <3>4, <3>5, <3>8, <3>9
  <2> QED
    BY <2>1, <2>2
<1> QED
  BY <1>9, <1>10, <1>11, <1>12, <1>16, <1>17 DEF GpuIInv, Procs, Clients

-----------------------------------------------------------------------------
(* The server. *)

\* The request the server works on.
LEMMA AtServer ==
  ASSUME GpuIInv, srv \in {"serving", "running"}, wire.req # <<>>, NEW c, c = Head(wire.req)
  PROVE  /\ c \in Requests /\ c.who \in Procs /\ c \in Pending /\ SentOf(c)
         /\ wire.req = <<c>> /\ Tail(wire.req) = <<>> /\ wire.resp = <<>> /\ Wired = {c}
         /\ \A d \in Queued : d.who = c.who => c.n < d.n
         /\ Replies(c.who) = {}
         /\ connOpen => loop.st = "recv" /\ loop.cur = c /\ c \in Served
         /\ connOpen /\ Current(c) => call[c.who].answer = None
<1>0. TypeOK /\ WireInv /\ SentInv
  BY DEF GpuIInv
<1>1. wire.req \in Seq(Requests) /\ Tail(wire.req) = <<>> /\ wire.resp = <<>>
  BY <1>0 DEF TypeOK, WireInv
<1>2. Len(wire.req) = 1 /\ wire.req[1] = c /\ c \in Requests
  BY <1>1, Singleton
<1>3. wire.req = <<c>>
  BY <1>1, <1>2
<1>4. c \in Wired /\ Wired = {c} /\ c \in Pending
  BY DEF Wired, Pending
<1>5. c.who \in Procs /\ SentOf(c) /\ \A d \in Queued : d.who = c.who => c.n < d.n
  BY <1>0, <1>2, <1>4 DEF Requests, SentInv
<1>6. connOpen => loop.st = "recv" /\ loop.cur = c /\ c \in Served
  BY <1>0 DEF WireInv, Served
<1>7. Replies(c.who) = {}
  BY <1>4, <1>5 DEF GpuIInv, AnswerOf
<1>8. connOpen /\ Current(c) => call[c.who].answer = None
  BY <1>5, <1>6 DEF GpuIInv, AnswerOf, Current
<1> QED
  BY <1>1, <1>2, <1>3, <1>4, <1>5, <1>6, <1>7, <1>8

\* send_response: the request is gone, and its answer is the one reply of its
\* caller if that still waits.
LEMMA Replied ==
  ASSUME GpuIInv, srv \in {"serving", "running"}, wire.req # <<>>, NEW c, c = Head(wire.req),
         NEW status \in {"ok", "oom", "badmsg", "cuda"}, NEW h \in Handles \cup {None},
         NEW next \in {"serving", "exited"}, Reply(c, status, h, next),
         UNCHANGED <<call, segs, queue, closed, connOpen, loop>>
  PROVE  /\ wire' \in [req : Seq(Requests), resp : Seq(Answers)] /\ srv' \in {"serving", "exited"}
         /\ WireInv' /\ SentInv' /\ DeferredInv'
         /\ Pending' = Queued /\ Queued' = Queued /\ Served' = Served
         /\ \A q \in Procs : q # c.who => Replies(q)' = Replies(q)
         /\ ~connOpen \/ ~Current(c) => Replies(c.who)' = {}
         /\ connOpen /\ Current(c) =>
              Replies(c.who)' = {[status |-> status, handle |-> h, of |-> <<c.who, c.n>>]}
         /\ ~connOpen => srv' = "exited"
<1>0. TypeOK /\ DeferredInv /\ WireInv /\ SentInv
  BY DEF GpuIInv
<1>1. /\ c \in Requests /\ c.who \in Procs /\ c \in Pending /\ SentOf(c)
      /\ wire.req = <<c>> /\ Tail(wire.req) = <<>> /\ wire.resp = <<>> /\ Wired = {c}
      /\ \A d \in Queued : d.who = c.who => c.n < d.n
      /\ Replies(c.who) = {}
      /\ connOpen => loop.st = "recv" /\ loop.cur = c /\ c \in Served
      /\ connOpen /\ Current(c) => call[c.who].answer = None
  BY AtServer
<1>2. PICK a : a = [status |-> status, handle |-> h, of |-> <<c.who, c.n>>]
  OBVIOUS
<1>3. a \in Answers /\ a.status = status /\ a.handle = h /\ a.of = <<c.who, c.n>> /\ a # None
  BY <1>1, <1>2, GpuAssumption DEF Answers, Requests
<1>4. /\ wire'.req = <<>> /\ (connOpen => wire'.resp = <<a>> /\ srv' = next)
      /\ (~connOpen => wire'.resp = <<>> /\ srv' = "exited")
  <2>1. Append(<<>>, a) = <<a>>
    OBVIOUS
  <2> QED
    BY <1>1, <1>2, <2>1 DEF Reply
<1>5. wire' \in [req : Seq(Requests), resp : Seq(Answers)]
  <2>1. PICK rs : rs = IF connOpen THEN <<a>> ELSE <<>>
    OBVIOUS
  <2>2. rs \in Seq(Answers) /\ <<>> \in Seq(Requests)
    BY <1>3, <2>1
  <2>3. wire' = [req |-> <<>>, resp |-> rs]
    BY <1>1, <1>2, <1>4, <2>1 DEF Reply
  <2> QED
    BY <2>2, <2>3
<1>6. Wired' = {} /\ Queued' = Queued /\ Pending' = Queued /\ Served' = Served
  BY <1>4 DEF Wired, Queued, Pending, Served
<1>7. DeferredInv'
  BY <1>0 DEF DeferredInv, Deferred
<1>8. WireInv'
  <2>1. connOpen => Head(wire'.resp) = a /\ Tail(wire'.resp) = <<>> /\ wire'.resp # <<>>
    <3>1. Head(<<a>>) = a /\ Tail(<<a>>) = <<>> /\ <<a>> # <<>>
      OBVIOUS
    <3> QED
      BY <1>4, <3>1
  <2>2. ~connOpen => wire'.resp = <<>>
    BY <1>4
  <2>3. srv' # "running"
    BY <1>4
  <2> QED
    BY <1>0, <1>1, <1>3, <1>4, <2>1, <2>2, <2>3 DEF WireInv
<1>9. SentInv'
  <2>1. \A d : SentOf(d)' <=> SentOf(d)
    BY DEF SentOf, Current
  <2>2. \A d \in Queued \cup Served : SentOf(d)'
    BY <1>0, <2>1 DEF SentInv, Pending
  <2>3. \A i, j \in DOMAIN queue' : i < j /\ queue'[i].who = queue'[j].who => queue'[i].n < queue'[j].n
    BY <1>0 DEF SentInv
  <2>4. \A d \in Served, e \in Queued : d.who = e.who => d.n < e.n
    BY <1>0 DEF SentInv
  <2> QED
    BY <1>6, <2>2, <2>3, <2>4 DEF SentInv
<1>10. {wire'.resp[i] : i \in DOMAIN wire'.resp} = IF connOpen THEN {a} ELSE {}
  BY <1>4
<1>11. {wire.resp[i] : i \in DOMAIN wire.resp} = {}
  BY <1>1
<1>12. ASSUME NEW q \in Procs, q # c.who \/ ~connOpen \/ ~Current(c) PROVE Replies(q)' = Replies(q)
  <2>1. connOpen => a.of # <<q, call[q].n>> \/ call[q].pc # "wait"
    BY <1>3, <1>12 DEF Current
  <2> QED
    BY <1>10, <1>11, <2>1 DEF Replies
<1>13. connOpen /\ Current(c) => Replies(c.who)' = {a}
  <2>1. SUFFICES ASSUME connOpen, Current(c) PROVE Replies(c.who)' = {a}
    OBVIOUS
  <2>2. call'[c.who].pc = "wait" /\ call'[c.who].n = c.n /\ call'[c.who].answer = None /\ a.status # "ioerr"
    BY <1>1, <1>3, <2>1 DEF Current
  <2> QED
    BY <1>3, <1>10, <2>1, <2>2 DEF Replies
<1> QED
  BY <1>1, <1>2, <1>4, <1>5, <1>6, <1>7, <1>8, <1>9, <1>12, <1>13

\* A request is answered: what is left to show is about its caller.
LEMMA ReplyIInv ==
  ASSUME GpuIInv, srv \in {"serving", "running"}, wire.req # <<>>, NEW c, c = Head(wire.req),
         NEW status \in {"ok", "oom", "badmsg", "cuda"}, NEW h \in Handles \cup {None},
         NEW next \in {"serving", "exited"}, Reply(c, status, h, next),
         UNCHANGED <<call, segs, queue, closed, connOpen, loop>>,
         status = "badmsg" => ~Current(c),
         objs' \in [Handles -> Objects \cup {None}],
         \A q \in Procs, k \in Handles : q # c.who /\ (OwnedBy(k, q) \/ OwnedBy(k, q)') => objs'[k] = objs[k],
         HandleInv', c.who \in Clients => LeakOf(c.who)', c.who \in GridClients => FieldsOf(c.who)'
  PROVE  GpuIInv'
<1>0. TypeOK /\ HandleInv
  BY DEF GpuIInv
<1>1. /\ c.who \in Procs /\ SentOf(c) /\ c.n \in Nat /\ wire.req = <<c>>
      /\ \A d \in Queued : d.who = c.who => c.n < d.n
      /\ connOpen /\ Current(c) => call[c.who].answer = None
  BY AtServer DEF Requests
<1>2. /\ wire' \in [req : Seq(Requests), resp : Seq(Answers)] /\ srv' \in {"serving", "exited"}
      /\ WireInv' /\ SentInv' /\ DeferredInv'
      /\ Pending' = Queued /\ Queued' = Queued /\ Served' = Served
      /\ \A q \in Procs : q # c.who => Replies(q)' = Replies(q)
      /\ ~connOpen \/ ~Current(c) => Replies(c.who)' = {}
      /\ connOpen /\ Current(c) =>
           Replies(c.who)' = {[status |-> status, handle |-> h, of |-> <<c.who, c.n>>]}
      /\ ~connOpen => srv' = "exited"
  BY Replied
<1>3. TypeOK'
  BY <1>0, <1>2 DEF TypeOK
<1>4. ASSUME NEW q \in Procs, q # c.who
      PROVE  /\ CallOf(q)' /\ AnswerOf(q)' /\ (q \in Clients => LeakOf(q)')
             /\ q \in GridClients => FieldsOf(q)'
  <2>1. /\ call'[q] = call[q] /\ Replies(q)' = Replies(q)
        /\ \A d \in Pending' : d.who = q => d \in Pending
        /\ \A d \in Queued' : d.who = q => d \in Queued
        /\ \A d \in Served' : d.who = q => d \in Served \cup Queued
    BY <1>2, <1>4 DEF Pending
  <2>2. /\ (closed => closed') /\ (srv = "exited" => srv' = "exited")
        /\ \A n \in Nat : <<q, n>> \in segs => <<q, n>> \in segs'
        /\ \A k \in Handles : OwnedBy(k, q) \/ OwnedBy(k, q)' => objs'[k] = objs[k]
    BY <1>4
  <2>3. srv' # "running" /\ Head(wire.req).who # q
    BY <1>2, <1>4
  <2> QED
    BY <1>2, <2>1, <2>2, <2>3, Frame
<1>5. CallOf(c.who)'
  BY <1>1 DEF GpuIInv, CallOf, Calling
<1>6. AnswerOf(c.who)'
  <2>1. AnswerOf(c.who)
    BY <1>1 DEF GpuIInv
  <2>2. call[c.who].pc = "wait" /\ call[c.who].answer # None =>
          /\ \A d \in Queued : d.who # c.who
          /\ \A d \in Served : d.who = c.who => d.n # call[c.who].n
          /\ call[c.who].answer.status = "ioerr" => call[c.who].answer = IoErr /\ (closed \/ srv = "exited")
    BY <2>1 DEF AnswerOf
  <2>3. Current(c) => \A d \in Queued : d.who # c.who
    <3>1. ASSUME NEW d \in Queued, d.who = c.who, Current(c) PROVE FALSE
      <4>1. SentOf(d) /\ d \in Requests /\ d.n \in Nat
        BY <1>0, PendingTyped DEF GpuIInv, SentInv, Pending, Requests
      <4> QED
        BY <1>1, <3>1, <4>1 DEF SentOf, Current
    <3> QED
      BY <3>1
  <2>4. \A a \in Replies(c.who)' :
          /\ \A d \in Queued : d.who # c.who
          /\ a.of = <<c.who, call[c.who].n>> /\ a.status # "badmsg"
    BY <1>2, <2>3 DEF Current
  <2> QED
    BY <1>2, <2>2, <2>4 DEF AnswerOf
<1> QED
  BY <1>1, <1>2, <1>3, <1>4, <1>5, <1>6 DEF GpuIInv, Procs, Clients

\* A request that changes no object is answered.
LEMMA ReplySame ==
  ASSUME GpuIInv, srv \in {"serving", "running"}, wire.req # <<>>, NEW c, c = Head(wire.req),
         NEW status \in {"ok", "oom", "badmsg", "cuda"}, NEW next \in {"serving", "exited"},
         Reply(c, status, None, next), UNCHANGED <<call, segs, queue, closed, connOpen, loop, objs>>,
         status = "badmsg" => ~Current(c), c.op \notin Frees,
         status = "ok" => c.op \notin Allocs \cup {"UploadFields"},
         c.op = "RunFDTD" /\ status = "ok" => srv = "running",
         c.op = "RunFDTD" /\ status = "oom" => srv = "serving"
  PROVE  GpuIInv'
<1>0. TypeOK /\ HandleInv /\ None \in Handles \cup {None}
  BY DEF GpuIInv
<1>1. /\ c.who \in Procs /\ SentOf(c) /\ c \in Pending /\ Replies(c.who) = {}
      /\ connOpen /\ Current(c) => call[c.who].answer = None
  BY AtServer
<1>2. /\ srv' \in {"serving", "exited"} /\ Pending' = Queued
      /\ \A q \in Procs : q # c.who => Replies(q)' = Replies(q)
      /\ ~connOpen \/ ~Current(c) => Replies(c.who)' = {}
      /\ connOpen /\ Current(c) =>
           Replies(c.who)' = {[status |-> status, handle |-> None, of |-> <<c.who, c.n>>]}
      /\ ~connOpen => srv' = "exited"
  BY <1>0, Replied
<1>3. Queued \subseteq Pending
  BY DEF Pending
<1>4. Current(c) => c.op = call[c.who].op
  BY <1>1 DEF SentOf
<1>5. \A k \in Handles, q \in Procs : OwnedBy(k, q)' <=> OwnedBy(k, q)
  BY DEF OwnedBy
<1>6. \A d : Current(d)' <=> Current(d)
  BY DEF Current
<1>7. HandleInv'
  <2>1. \A d \in Pending : d.who \in Procs
    BY <1>0, PendingTyped DEF Requests, GpuIInv
  <2>2. \A q \in Clients : call[q].handle \in Handles \cup {None} /\ q \in Procs
    BY <1>0 DEF TypeOK, CallStates, Procs
  <2>3. \A q \in Clients : \A a \in Replies(q)' : a \in Replies(q) \/ call[q].op \notin Allocs \/ a.status # "ok"
    BY <1>2, <1>4, <2>2
  <2> QED
    BY <1>0, <1>2, <1>3, <1>5, <2>1, <2>2, <2>3, HandleKept
<1>8. c.who \in Clients => LeakOf(c.who)'
  <2>1. SUFFICES ASSUME c.who \in Clients, ~closed, srv' # "exited", ~call[c.who].lost PROVE LeakOf(c.who)'
    BY DEF LeakOf
  <2>2. /\ \A d \in Pending : d.who = c.who /\ d.op \in Allocs \cup Frees => Current(d)
        /\ \A k \in Handles : OwnedBy(k, c.who) => call[c.who].handle = k
    BY <1>1, <2>1 DEF LeakOf, GpuIInv
  <2>3. call[c.who].op \in Frees => Replies(c.who)' = {}
    BY <1>2, <1>4
  <2> QED
    BY <1>1, <1>2, <1>3, <1>5, <1>6, <2>2, <2>3 DEF LeakOf
<1>9. c.who \in GridClients => FieldsOf(c.who)'
  <2>1. SUFFICES ASSUME c.who \in GridClients, srv' # "exited" PROVE FieldsOf(c.who)'
    BY DEF FieldsOf
  <2>2. /\ FieldsOf(c.who) /\ srv # "exited" /\ connOpen /\ srv' = "serving"
        /\ \A t : At(call[c.who].handle, t)' <=> At(call[c.who].handle, t)
        /\ Calling(c.who)' <=> Calling(c.who)
    BY <1>2, <2>1 DEF GpuIInv, At, Calling
  <2>3. PICK t, k : t = call[c.who].time /\ k = call[c.who].handle
    OBVIOUS
  <2>4. t > 0 =>
          /\ k # None
          /\ \A d \in Queued : d.who = c.who /\ d.op \in FieldOps => Current(d)'
          /\ ~(call[c.who].pc = "wait" /\ call[c.who].op \in FieldOps \cup Frees) => At(k, t)
          /\ call[c.who].pc = "wait" /\ call[c.who].op = "RunFDTD" /\ call[c.who].answer = None =>
               At(k, IF srv = "running" /\ Current(c) THEN t + Steps ELSE t)
    BY <1>1, <1>3, <1>6, <2>2, <2>3 DEF FieldsOf
  <2>5. call[c.who].op = "RunFDTD" /\ Calling(c.who) => t > 0
    BY <2>2, <2>3 DEF FieldsOf
  <2>6. ASSUME NEW a \in Replies(c.who)'
        PROVE  /\ ~(call[c.who].op = "UploadFields" /\ a.status = "ok")
               /\ call[c.who].op = "RunFDTD" /\ t > 0 /\ a.status = "ok" => At(k, t + Steps)
               /\ call[c.who].op = "RunFDTD" /\ t > 0 /\ a.status = "oom" => At(k, t)
    <3>1. Current(c) /\ call[c.who].op = c.op /\ a.status = status /\ call[c.who].pc = "wait" /\ call[c.who].answer = None
      BY <1>1, <1>2, <1>4, <2>6 DEF Current
    <3> QED
      BY <2>4, <3>1
  <2>7. Replies(c.who)' = {} => ~Current(c)
    BY <1>2, <2>2
  <2>8. /\ At(call[c.who].handle, call[c.who].time)' <=> At(k, t)
        /\ At(call[c.who].handle, call[c.who].time + Steps)' <=> At(k, t + Steps)
    BY <2>3 DEF At
  <2> QED
    BY <1>2, <2>2, <2>3, <2>4, <2>5, <2>6, <2>7, <2>8 DEF FieldsOf, At
<1>10. objs' \in [Handles -> Objects \cup {None}]
  BY <1>0 DEF TypeOK
<1> QED
  BY <1>0, <1>7, <1>8, <1>9, <1>10, ReplyIInv

\* handle_alloc_grid and handle_alloc_bvh make an object.
LEMMA AllocateIInv ==
  ASSUME GpuIInv, srv = "serving", wire.req # <<>>, NEW c, c = Head(wire.req), c.op \in Allocs,
         Allocate(c), UNCHANGED <<call, segs, queue, closed, connOpen, loop>>
  PROVE  GpuIInv'
<1>0. TypeOK /\ HandleInv
  BY DEF GpuIInv
<1>1. /\ c.who \in Procs /\ c.n \in Nat /\ SentOf(c) /\ c \in Pending /\ Replies(c.who) = {}
      /\ connOpen /\ Current(c) => call[c.who].answer = None
  BY AtServer DEF Requests
<1>2. PICK h \in Handles : /\ objs[h] = None /\ objs' = [objs EXCEPT ![h] = Object(c.who, c.n)]
                           /\ Reply(c, "ok", h, "serving")
  BY DEF Allocate
<1>3. /\ srv' \in {"serving", "exited"} /\ Pending' = Queued
      /\ \A q \in Procs : q # c.who => Replies(q)' = Replies(q)
      /\ ~connOpen \/ ~Current(c) => Replies(c.who)' = {}
      /\ connOpen /\ Current(c) =>
           Replies(c.who)' = {[status |-> "ok", handle |-> h, of |-> <<c.who, c.n>>]}
      /\ ~connOpen => srv' = "exited"
  BY <1>2, Replied
<1>4. c.who \in Clients
  BY <1>1, OpsTyped DEF SentOf, Procs
<1>5. Object(c.who, c.n) \in Objects /\ Object(c.who, c.n) # None /\ Object(c.who, c.n).owner = c.who
  <2>1. PICK p \in Clients, n \in Nat : p = c.who /\ n = c.n
    BY <1>1, <1>4 DEF Requests
  <2>2. NoFields \in FieldTimes
    BY DEF NoFields, FieldTimes
  <2>3. Object(p, n) \in Objects /\ Object(p, n).owner = p
    BY <2>2 DEF Object, Objects
  <2> QED
    BY <2>1, <2>3, GpuAssumption
<1>6. /\ objs' \in [Handles -> Objects \cup {None}] /\ objs'[h] = Object(c.who, c.n)
      /\ \A k \in Handles : k # h => objs'[k] = objs[k]
  BY <1>0, <1>2, <1>5 DEF TypeOK
<1>7. \A k \in Handles : \A q : OwnedBy(k, q) => k # h /\ OwnedBy(k, q)' /\ objs'[k] = objs[k]
  BY <1>2, <1>6 DEF OwnedBy
<1>8. /\ OwnedBy(h, c.who)' /\ \A k \in Handles : \A q : OwnedBy(k, q)' => OwnedBy(k, q) \/ (k = h /\ q = c.who)
  BY <1>5, <1>6 DEF OwnedBy
<1>9. Queued \subseteq Pending
  BY DEF Pending
<1>10. Current(c) => call[c.who].op \in Allocs
  BY <1>1 DEF SentOf
<1>11. \A d : Current(d)' <=> Current(d)
  BY DEF Current
<1>12. HandleInv'
  <2>1. \A d \in Queued : d.op \in HandleOps => d.handle \in Handles /\ OwnedBy(d.handle, d.who)'
    BY <1>0, <1>7, <1>9 DEF HandleInv
  <2>2. \A d, e \in Queued : d.op \in Frees /\ d.who = e.who /\ d.n < e.n => ~Names(e, d.handle)
    BY <1>0, <1>9 DEF HandleInv
  <2>3. ASSUME NEW q \in Clients, call[q].handle # None, ~(call[q].pc = "wait" /\ call[q].op \in Frees)
        PROVE  OwnedBy(call[q].handle, q)' /\ \A d \in Queued : d.op \in Frees => d.handle # call[q].handle
    <3>1. OwnedBy(call[q].handle, q) /\ \A d \in Queued : d.op \in Frees => d.handle # call[q].handle
      BY <1>0, <1>9, <2>3 DEF HandleInv
    <3>2. call[q].handle \in Handles
      BY <1>0, <2>3 DEF TypeOK, CallStates, Procs
    <3>3. objs'[call[q].handle] = objs[call[q].handle]
      BY <1>7, <3>1, <3>2
    <3> QED
      BY <3>1, <3>3 DEF OwnedBy
  <2>4. ASSUME NEW q \in Clients, NEW a \in Replies(q)', call[q].op \in Allocs, a.status = "ok"
        PROVE  a.handle \in Handles /\ OwnedBy(a.handle, q)' /\ \A d \in Queued : ~Names(d, a.handle)
    <3>1. CASE a \in Replies(q)
      BY <1>0, <1>7, <1>9, <2>4, <3>1 DEF HandleInv
    <3>2. CASE a \notin Replies(q)
      <4>1. q = c.who /\ a.handle = h
        BY <1>3, <2>4, <3>2 DEF Procs
      <4>2. \A d \in Queued : ~Names(d, h)
        BY <1>0, <1>7, <1>9 DEF HandleInv, Names
      <4> QED
        BY <1>8, <4>1, <4>2
    <3> QED
      BY <3>1, <3>2
  <2> QED
    BY <1>3, <2>1, <2>2, <2>3, <2>4 DEF HandleInv, Names
<1>13. LeakOf(c.who)'
  <2>1. SUFFICES ASSUME ~closed, srv' # "exited", ~call[c.who].lost PROVE LeakOf(c.who)'
    BY DEF LeakOf
  <2>2. /\ \A d \in Pending : d.who = c.who /\ d.op \in Allocs \cup Frees => Current(d)
        /\ \A k \in Handles : OwnedBy(k, c.who) => call[c.who].handle = k
    BY <1>1, <1>4, <2>1 DEF LeakOf, GpuIInv
  <2>3. Current(c) /\ connOpen
    BY <1>1, <1>3, <2>1, <2>2
  <2>4. call[c.who].op \in Allocs /\ call[c.who].op \notin Frees
    BY <1>10, <2>3, OpsTyped
  <2>5. \E a \in Replies(c.who)' : a.status = "ok" /\ a.handle = h
    <3>1. PICK a : a = [status |-> "ok", handle |-> h, of |-> <<c.who, c.n>>]
      OBVIOUS
    <3>2. a \in Replies(c.who)' /\ a.status = "ok" /\ a.handle = h
      BY <1>3, <2>3, <3>1
    <3> QED
      BY <3>2
  <2> QED
    BY <1>3, <1>8, <1>9, <1>11, <2>2, <2>4, <2>5 DEF LeakOf
<1>14. c.who \in GridClients => FieldsOf(c.who)'
  <2>1. SUFFICES ASSUME c.who \in GridClients, srv' # "exited" PROVE FieldsOf(c.who)'
    BY DEF FieldsOf
  <2>2. FieldsOf(c.who) /\ connOpen /\ srv' = "serving" /\ (Calling(c.who)' <=> Calling(c.who))
    BY <1>3, <2>1 DEF GpuIInv, Calling
  <2>3. call[c.who].time > 0 /\ ~(call[c.who].pc = "wait" /\ call[c.who].op \in Frees) =>
          objs'[call[c.who].handle] = objs[call[c.who].handle]
    <3>1. SUFFICES ASSUME call[c.who].time > 0, ~(call[c.who].pc = "wait" /\ call[c.who].op \in Frees)
                   PROVE  objs'[call[c.who].handle] = objs[call[c.who].handle]
      OBVIOUS
    <3>2. call[c.who].handle # None
      BY <2>1, <2>2, <3>1 DEF FieldsOf
    <3>3. call[c.who].handle \in Handles /\ OwnedBy(call[c.who].handle, c.who)
      BY <1>0, <1>1, <1>4, <3>1, <3>2 DEF TypeOK, CallStates, HandleInv
    <3> QED
      BY <1>7, <3>3
  <2>4. Replies(c.who)' # {} => call[c.who].op \in Allocs
    BY <1>3, <1>10
  <2>5. Replies(c.who)' = {} => ~Current(c)
    BY <1>3, <2>2
  <2>6. call[c.who].op \in {"UploadFields", "RunFDTD"} => call[c.who].op \notin Allocs \cup Frees
    BY DEF Allocs, Frees
  <2> QED
    BY <1>1, <1>3, <1>9, <1>11, <2>2, <2>3, <2>4, <2>5, <2>6 DEF FieldsOf, FieldOps, At
<1>15. \A q \in Procs, k \in Handles : q # c.who /\ (OwnedBy(k, q) \/ OwnedBy(k, q)') => objs'[k] = objs[k]
  BY <1>7, <1>8
<1> QED
  BY <1>2, <1>6, <1>12, <1>13, <1>14, <1>15, ReplyIInv

\* handle_free_grid and handle_free_bvh.
LEMMA FreeIInv ==
  ASSUME GpuIInv, srv = "serving", wire.req # <<>>, NEW c, c = Head(wire.req), c.op \in Frees,
         objs' = [objs EXCEPT ![c.handle] = None], Reply(c, "ok", None, "serving"),
         UNCHANGED <<call, segs, queue, closed, connOpen, loop>>
  PROVE  GpuIInv'
<1>0. TypeOK /\ HandleInv /\ None \in Handles \cup {None}
  BY DEF GpuIInv
<1>1. /\ c.who \in Procs /\ SentOf(c) /\ c \in Pending /\ Replies(c.who) = {}
      /\ \A d \in Queued : d.who = c.who => c.n < d.n
      /\ connOpen /\ Current(c) => call[c.who].answer = None
  BY AtServer
<1>2. /\ srv' \in {"serving", "exited"} /\ Pending' = Queued
      /\ \A q \in Procs : q # c.who => Replies(q)' = Replies(q)
      /\ ~connOpen \/ ~Current(c) => Replies(c.who)' = {}
      /\ connOpen /\ Current(c) =>
           Replies(c.who)' = {[status |-> "ok", handle |-> None, of |-> <<c.who, c.n>>]}
      /\ ~connOpen => srv' = "exited"
  BY <1>0, Replied
<1>3. PICK h : h = c.handle
  OBVIOUS
<1>4. h \in Handles /\ OwnedBy(h, c.who)
  BY <1>0, <1>1, <1>3, OpsTyped DEF HandleInv
<1>5. objs' \in [Handles -> Objects \cup {None}] /\ objs'[h] = None /\ \A k \in Handles : k # h => objs'[k] = objs[k]
  BY <1>0, <1>3, <1>4 DEF TypeOK
<1>6. \A k \in Handles : \A q : OwnedBy(k, q)' <=> OwnedBy(k, q) /\ k # h
  BY <1>5 DEF OwnedBy
<1>7. Queued \subseteq Pending
  BY DEF Pending
<1>8. Current(c) => call[c.who].op = c.op /\ call[c.who].handle = h
  BY <1>1, <1>3 DEF SentOf
<1>9. \A d : Current(d)' <=> Current(d)
  BY DEF Current
<1>10. \A q \in Clients : call[q].handle # None /\ ~(call[q].pc = "wait" /\ call[q].op \in Frees) =>
         /\ call[q].handle \in Handles /\ OwnedBy(call[q].handle, q) /\ call[q].handle # h
         /\ objs'[call[q].handle] = objs[call[q].handle]
         /\ \A d \in Queued : d.op \in Frees => d.handle # call[q].handle
  <2>1. ASSUME NEW q \in Clients, call[q].handle # None, ~(call[q].pc = "wait" /\ call[q].op \in Frees)
        PROVE  /\ call[q].handle \in Handles /\ OwnedBy(call[q].handle, q) /\ call[q].handle # h
               /\ \A d \in Queued : d.op \in Frees => d.handle # call[q].handle
    BY <1>0, <1>1, <1>3, <1>7, <2>1 DEF HandleInv, TypeOK, CallStates, Procs
  <2> QED
    BY <1>5, <2>1
<1>11. HandleInv'
  <2>1. ASSUME NEW d \in Queued, d.op \in HandleOps PROVE d.handle \in Handles /\ OwnedBy(d.handle, d.who)'
    <3>1. d.handle \in Handles /\ OwnedBy(d.handle, d.who) /\ d \in Pending
      BY <1>0, <1>7, <2>1 DEF HandleInv
    <3>2. ASSUME d.handle = h PROVE FALSE
      <4>1. d.who = c.who
        BY <1>4, <3>1, <3>2 DEF OwnedBy
      <4>2. ~Names(d, c.handle)
        BY <1>0, <1>1, <3>1, <4>1 DEF HandleInv
      <4> QED
        BY <1>3, <2>1, <3>2, <4>2 DEF Names
    <3> QED
      BY <1>6, <3>1, <3>2
  <2>2. \A d, e \in Queued : d.op \in Frees /\ d.who = e.who /\ d.n < e.n => ~Names(e, d.handle)
    BY <1>0, <1>7 DEF HandleInv
  <2>3. ASSUME NEW q \in Clients, call[q].handle # None, ~(call[q].pc = "wait" /\ call[q].op \in Frees)
        PROVE  OwnedBy(call[q].handle, q)' /\ \A d \in Queued : d.op \in Frees => d.handle # call[q].handle
    <3>1. /\ OwnedBy(call[q].handle, q) /\ objs'[call[q].handle] = objs[call[q].handle]
          /\ \A d \in Queued : d.op \in Frees => d.handle # call[q].handle
      BY <1>10, <2>3
    <3> QED
      BY <3>1 DEF OwnedBy
  <2>4. ASSUME NEW q \in Clients, NEW a \in Replies(q)', call[q].op \in Allocs, a.status = "ok"
        PROVE  a.handle \in Handles /\ OwnedBy(a.handle, q)' /\ \A d \in Queued : ~Names(d, a.handle)
    <3>1. a \in Replies(q)
      BY <1>2, <1>8, <2>4, OpsTyped DEF Procs
    <3>2. a.handle \in Handles /\ OwnedBy(a.handle, q) /\ \A d \in Pending : ~Names(d, a.handle)
      BY <1>0, <2>4, <3>1 DEF HandleInv
    <3>3. a.handle # h
      BY <1>1, <1>3, <3>2, OpsTyped DEF Names
    <3> QED
      BY <1>6, <1>7, <3>2, <3>3
  <2> QED
    BY <1>2, <2>1, <2>2, <2>3, <2>4 DEF HandleInv, Names
<1>12. c.who \in Clients => LeakOf(c.who)'
  <2>1. SUFFICES ASSUME c.who \in Clients, ~closed, srv' # "exited", ~call[c.who].lost PROVE LeakOf(c.who)'
    BY DEF LeakOf
  <2>2. /\ \A d \in Pending : d.who = c.who /\ d.op \in Allocs \cup Frees => Current(d)
        /\ \A k \in Handles : OwnedBy(k, c.who) => call[c.who].handle = k
    BY <1>1, <2>1 DEF LeakOf, GpuIInv
  <2>3. call[c.who].handle = h
    BY <1>1, <1>8, <2>2
  <2> QED
    BY <1>2, <1>6, <1>7, <1>9, <2>2, <2>3 DEF LeakOf
<1>13. c.who \in GridClients => FieldsOf(c.who)'
  <2>1. SUFFICES ASSUME c.who \in GridClients, srv' # "exited" PROVE FieldsOf(c.who)'
    BY DEF FieldsOf
  <2>2. /\ FieldsOf(c.who) /\ connOpen /\ srv' = "serving" /\ (Calling(c.who)' <=> Calling(c.who))
        /\ c.who \in Clients
    BY <1>2, <2>1 DEF GpuIInv, Calling, Clients
  <2>3. call[c.who].time > 0 /\ ~(call[c.who].pc = "wait" /\ call[c.who].op \in Frees) =>
          objs'[call[c.who].handle] = objs[call[c.who].handle]
    BY <1>10, <2>1, <2>2 DEF FieldsOf
  <2>4. Replies(c.who)' # {} => call[c.who].op \in Frees
    BY <1>2, <1>8
  <2>5. Replies(c.who)' = {} => ~Current(c)
    BY <1>2, <2>2
  <2>6. call[c.who].op \in {"UploadFields", "RunFDTD"} => call[c.who].op \notin Allocs \cup Frees
    BY DEF Allocs, Frees
  <2> QED
    BY <1>1, <1>2, <1>7, <1>9, <2>2, <2>3, <2>4, <2>5, <2>6 DEF FieldsOf, FieldOps, At
<1>14. \A q \in Procs, k \in Handles : q # c.who /\ (OwnedBy(k, q) \/ OwnedBy(k, q)') => objs'[k] = objs[k]
  BY <1>4, <1>5, <1>6 DEF OwnedBy
<1> QED
  BY <1>0, <1>5, <1>11, <1>12, <1>13, <1>14, OpsTyped, ReplyIInv

\* A request rewrites the fields of its own object.
LEMMA Rewritten ==
  ASSUME GpuIInv, NEW c \in Pending, c.op \in HandleOps, NEW f \in FieldTimes, NEW silent \in BOOLEAN,
         SetFields(c, f, silent)
  PROVE  /\ c.handle \in Handles /\ OwnedBy(c.handle, c.who) /\ objs[c.handle] \in Objects
         /\ objs' \in [Handles -> Objects \cup {None}]
         /\ objs'[c.handle].f = f /\ objs'[c.handle].silent = silent
         /\ \A k \in Handles : \A q : OwnedBy(k, q)' <=> OwnedBy(k, q)
         /\ \A q \in Procs, k \in Handles : q # c.who /\ (OwnedBy(k, q) \/ OwnedBy(k, q)') => objs'[k] = objs[k]
<1>0. TypeOK /\ HandleInv
  BY DEF GpuIInv
<1>1. PICK h : h = c.handle
  OBVIOUS
<1>2. h \in Handles /\ OwnedBy(h, c.who)
  BY <1>0, <1>1 DEF HandleInv
<1>3. objs[h] \in Objects
  BY <1>0, <1>2 DEF TypeOK, OwnedBy
<1>4. PICK o : o = [objs[h] EXCEPT !.f = f, !.silent = silent]
  OBVIOUS
<1>5. o \in Objects /\ o.f = f /\ o.silent = silent /\ o.owner = objs[h].owner /\ o # None
  BY <1>3, <1>4, GpuAssumption DEF Objects
<1>6. objs' = [objs EXCEPT ![h] = o]
  BY <1>1, <1>4 DEF SetFields
<1>7. objs' \in [Handles -> Objects \cup {None}] /\ objs'[h] = o /\ \A k \in Handles : k # h => objs'[k] = objs[k]
  <2>1. objs \in [Handles -> Objects \cup {None}]
    BY <1>0 DEF TypeOK
  <2>2. objs'[h] = o /\ \A k \in Handles : k # h => objs'[k] = objs[k]
    BY <1>2, <1>6, <2>1
  <2>3. objs' \in [Handles -> Objects \cup {None}]
    BY <1>5, <1>6, <2>1
  <2> QED
    BY <2>2, <2>3
<1>8. \A k \in Handles : \A q : OwnedBy(k, q)' <=> OwnedBy(k, q)
  BY <1>2, <1>5, <1>7 DEF OwnedBy
<1>9. \A q \in Procs, k \in Handles : q # c.who /\ (OwnedBy(k, q) \/ OwnedBy(k, q)') => objs'[k] = objs[k]
  BY <1>2, <1>7, <1>8 DEF OwnedBy
<1> QED
  BY <1>1, <1>2, <1>3, <1>5, <1>7, <1>8, <1>9

\* handle_upload_fields with its segment: the fields are set, or in an unknown
\* state that the answer tells or does not tell.
LEMMA UploadIInv ==
  ASSUME GpuIInv, srv = "serving", wire.req # <<>>, NEW c, c = Head(wire.req), c.op = "UploadFields",
         NEW f \in FieldTimes, NEW silent \in BOOLEAN, SetFields(c, f, silent),
         NEW status \in {"ok", "cuda"}, status = "ok" => silent \/ (f.cur = 1 /\ f.prev = 0),
         Reply(c, status, None, "serving"), UNCHANGED <<call, segs, queue, closed, connOpen, loop>>
  PROVE  GpuIInv'
<1>0. TypeOK /\ HandleInv /\ None \in Handles \cup {None} /\ c.op \in HandleOps /\ c.op \notin Allocs \cup Frees
  BY DEF GpuIInv, HandleOps, Allocs, Frees
<1>1. /\ c.who \in Procs /\ SentOf(c) /\ c \in Pending /\ Replies(c.who) = {}
      /\ connOpen /\ Current(c) => call[c.who].answer = None
  BY AtServer
<1>2. /\ srv' \in {"serving", "exited"} /\ Pending' = Queued
      /\ \A q \in Procs : q # c.who => Replies(q)' = Replies(q)
      /\ ~connOpen \/ ~Current(c) => Replies(c.who)' = {}
      /\ connOpen /\ Current(c) =>
           Replies(c.who)' = {[status |-> status, handle |-> None, of |-> <<c.who, c.n>>]}
      /\ ~connOpen => srv' = "exited"
  BY <1>0, Replied
<1>3. /\ objs' \in [Handles -> Objects \cup {None}]
      /\ objs'[c.handle].f = f /\ objs'[c.handle].silent = silent
      /\ \A k \in Handles : \A q : OwnedBy(k, q)' <=> OwnedBy(k, q)
      /\ \A q \in Procs, k \in Handles : q # c.who /\ (OwnedBy(k, q) \/ OwnedBy(k, q)') => objs'[k] = objs[k]
  BY <1>0, <1>1, Rewritten
<1>4. Queued \subseteq Pending
  BY DEF Pending
<1>5. Current(c) => call[c.who].op = c.op /\ call[c.who].handle = c.handle
  BY <1>1 DEF SentOf
<1>6. \A d : Current(d)' <=> Current(d)
  BY DEF Current
<1>7. HandleInv'
  <2>1. \A d \in Pending : d.who \in Procs
    BY <1>0, PendingTyped DEF Requests, GpuIInv
  <2>2. \A q \in Clients : call[q].handle \in Handles \cup {None} /\ q \in Procs
    BY <1>0 DEF TypeOK, CallStates, Procs
  <2>3. \A q \in Clients : \A a \in Replies(q)' : a \in Replies(q) \/ call[q].op \notin Allocs \/ a.status # "ok"
    BY <1>0, <1>2, <1>5, <2>2
  <2> QED
    BY <1>0, <1>2, <1>3, <1>4, <2>1, <2>2, <2>3, HandleKept
<1>8. c.who \in Clients => LeakOf(c.who)'
  <2>1. SUFFICES ASSUME c.who \in Clients, ~closed, srv' # "exited", ~call[c.who].lost PROVE LeakOf(c.who)'
    BY DEF LeakOf
  <2>2. /\ \A d \in Pending : d.who = c.who /\ d.op \in Allocs \cup Frees => Current(d)
        /\ \A k \in Handles : OwnedBy(k, c.who) => call[c.who].handle = k
    BY <1>1, <2>1 DEF LeakOf, GpuIInv
  <2>3. call[c.who].op \in Frees => Replies(c.who)' = {}
    BY <1>0, <1>2, <1>5
  <2> QED
    BY <1>1, <1>2, <1>3, <1>4, <1>6, <2>2, <2>3 DEF LeakOf
<1>9. c.who \in GridClients => FieldsOf(c.who)'
  <2>1. SUFFICES ASSUME c.who \in GridClients, srv' # "exited" PROVE FieldsOf(c.who)'
    BY DEF FieldsOf
  <2>2. FieldsOf(c.who) /\ connOpen /\ srv' = "serving" /\ (Calling(c.who)' <=> Calling(c.who))
    BY <1>2, <2>1 DEF GpuIInv, Calling
  <2>3. call[c.who].time > 0 =>
          call[c.who].handle # None /\ \A d \in Pending : d.who = c.who /\ d.op \in FieldOps => Current(d)
    BY <2>1, <2>2 DEF FieldsOf
  <2>4. call[c.who].time > 0 => Current(c)
    BY <1>1, <2>3 DEF FieldOps
  <2>5. Current(c) => call[c.who].op = "UploadFields" /\ call[c.who].pc = "wait" /\ call[c.who].handle = c.handle
    BY <1>5 DEF Current
  <2>6. \A a \in Replies(c.who)' : Current(c) /\ (a.status = "ok" => silent \/ (f.cur = 1 /\ f.prev = 0))
    BY <1>2
  <2>7. call[c.who].op = "RunFDTD" /\ Calling(c.who) => call[c.who].time > 0
    BY <2>1, <2>2 DEF FieldsOf
  <2>8. \A d \in Pending' : call[c.who].time > 0 /\ d.who = c.who /\ d.op \in FieldOps => Current(d)'
    BY <1>2, <1>4, <1>6, <2>3
  <2>9. \A a \in Replies(c.who)' :
          call[c.who].op = "UploadFields" /\ (a.status = "ok" => At(call[c.who].handle, 1)')
    <3>1. /\ call' = call
          /\ Current(c) => objs'[call[c.who].handle].f = f /\ objs'[call[c.who].handle].silent = silent
      BY <1>3, <2>5
    <3> QED
      BY <2>5, <2>6, <3>1 DEF At
  <2>10. CASE call[c.who].time > 0
    <3>1. call[c.who].op = "UploadFields" /\ call[c.who].pc = "wait"
      BY <2>4, <2>5, <2>10
    <3> QED
      BY <2>3, <2>8, <2>9, <2>10, <3>1 DEF FieldsOf, FieldOps
  <2>11. CASE ~(call[c.who].time > 0)
    BY <2>2, <2>7, <2>9, <2>11 DEF FieldsOf
  <2> QED
    BY <2>10, <2>11
<1>10. /\ srv \in {"serving", "running"} /\ status \in {"ok", "oom", "badmsg", "cuda"} /\ status # "badmsg"
       /\ "serving" \in {"serving", "exited"}
  OBVIOUS
<1>11. UNCHANGED <<call, segs, queue, closed, connOpen, loop>> /\ (status = "badmsg" => ~Current(c))
  BY <1>10
<1>12. \A q \in Procs, k \in Handles : q # c.who /\ (OwnedBy(k, q) \/ OwnedBy(k, q)') => objs'[k] = objs[k]
  BY <1>3
<1>13. objs' \in [Handles -> Objects \cup {None}]
  BY <1>3
<1> QED
  BY <1>0, <1>7, <1>8, <1>9, <1>10, <1>11, <1>12, <1>13, ReplyIInv

\* handle_run_fdtd and handle_trace_rays up to their result.
LEMMA RunIInv ==
  ASSUME GpuIInv, srv = "serving", wire.req # <<>>, NEW c, c = Head(wire.req),
         UNCHANGED <<call, segs, queue, closed, connOpen, loop, wire>>, srv' = "running",
         \/ c.op = "RunFDTD" /\ SetFields(c, March(objs[c.handle].f), objs[c.handle].silent)
         \/ c.op = "RunFDTD" /\ SetFields(c, NoFields, TRUE)
         \/ c.op = "TraceRays" /\ objs' = objs
  PROVE  GpuIInv'
<1>0. TypeOK /\ DeferredInv /\ WireInv /\ SentInv /\ HandleInv /\ c.op \in HandleOps
  BY DEF GpuIInv, HandleOps
<1>1. /\ c.who \in Procs /\ SentOf(c) /\ c \in Pending /\ Replies(c.who) = {}
      /\ connOpen /\ Current(c) => call[c.who].answer = None
  BY AtServer
<1>2. c.handle \in Handles /\ OwnedBy(c.handle, c.who) /\ objs[c.handle] \in Objects
  BY <1>0, <1>1 DEF HandleInv, TypeOK, OwnedBy
<1>3. PICK f \in FieldTimes, silent \in BOOLEAN :
        /\ c.op = "RunFDTD" => SetFields(c, f, silent)
        /\ objs[c.handle].silent => silent
        /\ objs[c.handle].f.cur = objs[c.handle].f.prev + 1 =>
             silent \/ (f.cur = objs[c.handle].f.cur + Steps /\ f.prev = objs[c.handle].f.prev + Steps)
  <2>1. CASE c.op = "RunFDTD" /\ SetFields(c, March(objs[c.handle].f), objs[c.handle].silent)
    <3>1. /\ March(objs[c.handle].f) \in FieldTimes /\ objs[c.handle].silent \in BOOLEAN
          /\ objs[c.handle].f.cur = objs[c.handle].f.prev + 1 =>
               /\ March(objs[c.handle].f).cur = objs[c.handle].f.cur + Steps
               /\ March(objs[c.handle].f).prev = objs[c.handle].f.prev + Steps
      BY <1>2, MarchTimes DEF Objects
    <3> QED
      BY <2>1, <3>1
  <2>2. NoFields \in FieldTimes /\ TRUE \in BOOLEAN
    BY DEF NoFields, FieldTimes
  <2>3. CASE c.op = "RunFDTD" /\ SetFields(c, NoFields, TRUE)
    BY <2>2, <2>3
  <2>4. CASE c.op = "TraceRays"
    BY <2>2, <2>4
  <2> QED
    BY <2>1, <2>3, <2>4
<1>4. c.op \in {"RunFDTD", "TraceRays"} /\ (c.op = "TraceRays" => objs' = objs)
  OBVIOUS
<1>5. /\ objs' \in [Handles -> Objects \cup {None}]
      /\ c.op = "RunFDTD" => objs'[c.handle].f = f /\ objs'[c.handle].silent = silent
      /\ \A k \in Handles : \A q : OwnedBy(k, q)' <=> OwnedBy(k, q)
      /\ \A q \in Procs, k \in Handles : q # c.who /\ (OwnedBy(k, q) \/ OwnedBy(k, q)') => objs'[k] = objs[k]
  <2>1. CASE c.op = "RunFDTD"
    BY <1>0, <1>1, <1>3, <2>1, Rewritten
  <2>2. CASE c.op # "RunFDTD"
    BY <1>0, <1>4, <2>2 DEF TypeOK, OwnedBy
  <2> QED
    BY <2>1, <2>2
<1>6. Pending' = Pending /\ Queued' = Queued /\ Served' = Served /\ Wired' = Wired
  BY DEF Pending, Queued, Served, Wired
<1>7. \A q \in Procs : Replies(q)' = Replies(q)
  BY DEF Replies
<1>8. (\A d : Current(d)' <=> Current(d)) /\ (Current(c) => call[c.who].op = c.op /\ call[c.who].handle = c.handle)
  BY <1>1 DEF Current, SentOf
<1>9. TypeOK'
  BY <1>0, <1>5 DEF TypeOK
<1>10. DeferredInv'
  BY <1>0 DEF DeferredInv, Deferred
<1>11. WireInv'
  BY <1>0 DEF WireInv
<1>12. SentInv'
  <2>1. \A d : SentOf(d)' <=> SentOf(d)
    BY DEF SentOf, Current
  <2> QED
    BY <1>0, <1>6, <2>1 DEF SentInv
<1>13. HandleInv'
  <2>1. \A d \in Pending : d.who \in Procs
    BY <1>0, PendingTyped DEF Requests
  <2>2. \A q \in Clients : call[q].handle \in Handles \cup {None} /\ q \in Procs
    BY <1>0 DEF TypeOK, CallStates, Procs
  <2> QED
    BY <1>0, <1>5, <1>6, <1>7, <2>1, <2>2, HandleKept
<1>14. ASSUME NEW q \in Procs, q # c.who
       PROVE  /\ CallOf(q)' /\ AnswerOf(q)' /\ (q \in Clients => LeakOf(q)')
              /\ q \in GridClients => FieldsOf(q)'
  <2>1. /\ call'[q] = call[q] /\ Replies(q)' = Replies(q)
        /\ \A d \in Pending' : d.who = q => d \in Pending
        /\ \A d \in Queued' : d.who = q => d \in Queued
        /\ \A d \in Served' : d.who = q => d \in Served \cup Queued
    BY <1>6, <1>7
  <2>2. /\ (closed => closed') /\ srv # "exited"
        /\ \A n \in Nat : <<q, n>> \in segs => <<q, n>> \in segs'
        /\ \A k \in Handles : OwnedBy(k, q) \/ OwnedBy(k, q)' => objs'[k] = objs[k]
    BY <1>5, <1>14
  <2>3. Head(wire.req)'.who # q /\ srv # "running"
    BY <1>14
  <2> QED
    BY <1>10, <2>1, <2>2, <2>3, Frame
<1>15. CallOf(c.who)' /\ AnswerOf(c.who)'
  BY <1>1, <1>6, <1>7 DEF GpuIInv, CallOf, Calling, AnswerOf
<1>16. c.who \in Clients => LeakOf(c.who)'
  BY <1>1, <1>5, <1>6, <1>7, <1>8 DEF GpuIInv, LeakOf
<1>17. c.who \in GridClients => FieldsOf(c.who)'
  <2>1. SUFFICES ASSUME c.who \in GridClients PROVE FieldsOf(c.who)'
    OBVIOUS
  <2>2. FieldsOf(c.who) /\ (Calling(c.who)' <=> Calling(c.who)) /\ c.who \in Clients
    BY <2>1 DEF GpuIInv, Calling, Clients
  <2>3. PICK t, h : t = call[c.who].time /\ h = call[c.who].handle
    OBVIOUS
  <2>4. t \in Nat /\ Steps \in Nat
    BY <1>0, <1>1, <2>3, GpuAssumption DEF TypeOK, CallStates
  <2>5. t > 0 =>
          /\ h # None
          /\ \A d \in Pending : d.who = c.who /\ d.op \in FieldOps => Current(d)
          /\ ~(call[c.who].pc = "wait" /\ call[c.who].op \in FieldOps \cup Frees) => At(h, t)
          /\ call[c.who].pc = "wait" /\ call[c.who].op = "RunFDTD" /\ call[c.who].answer = None => At(h, t)
    BY <1>1, <2>2, <2>3 DEF FieldsOf
  <2>6. call[c.who].op = "RunFDTD" /\ Calling(c.who) => t > 0
    BY <2>2, <2>3 DEF FieldsOf
  <2>7. CASE c.op = "TraceRays"
    <3>1. Current(c) => call[c.who].op # "RunFDTD"
      BY <1>8, <2>7
    <3>2. objs' = objs
      BY <1>4, <2>7
    <3> QED
      BY <1>1, <1>6, <1>7, <1>8, <2>2, <2>3, <2>5, <2>6, <3>1, <3>2 DEF FieldsOf, At
  <2>8. CASE c.op = "RunFDTD"
    <3>1. t > 0 => Current(c)
      BY <1>1, <2>5, <2>8 DEF FieldOps
    <3>2. Current(c) => call[c.who].pc = "wait" /\ call[c.who].op = "RunFDTD" /\ h = c.handle /\ connOpen
                        /\ call[c.who].answer = None
      BY <1>0, <1>1, <1>8, <2>1, <2>3, <2>8 DEF Current, DeferredInv
    <3>3. t > 0 => silent \/ (f.cur = t + Steps /\ f.prev = t + Steps - 1)
      <4>1. SUFFICES ASSUME t > 0, ~silent PROVE f.cur = t + Steps /\ f.prev = t + Steps - 1
        OBVIOUS
      <4>2. objs[c.handle].f.cur = t /\ objs[c.handle].f.prev = t - 1
        BY <1>3, <2>5, <3>1, <3>2, <4>1 DEF At
      <4> QED
        BY <1>3, <2>4, <4>1, <4>2
    <3>4. t > 0 => objs'[h].silent \/ (objs'[h].f.cur = t + Steps /\ objs'[h].f.prev = t + Steps - 1)
      BY <1>5, <2>8, <3>1, <3>2, <3>3
    <3>5. Replies(c.who)' = {} /\ Head(wire.req)' = c /\ (Current(c)' <=> Current(c))
      BY <1>1, <1>7, <1>8
    <3>6. CASE t > 0
      <4>1. /\ call[c.who].op = "RunFDTD" /\ call[c.who].pc = "wait" /\ Current(c)'
        BY <2>3, <3>1, <3>2, <3>5, <3>6
      <4>2. \A d \in Pending' : d.who = c.who /\ d.op \in FieldOps => Current(d)'
        BY <1>6, <1>8, <2>5, <3>6
      <4>3. call[c.who].time > 0 /\ call[c.who].handle # None /\ call' = call /\ srv' = "running"
        BY <2>3, <2>5, <3>6
      <4>4. At(call[c.who].handle, call[c.who].time + Steps)'
        <5>1. PICK k, n : k = call'[c.who].handle /\ n = call'[c.who].time + Steps
          OBVIOUS
        <5>2. k = h /\ n = t + Steps
          BY <2>3, <4>3, <5>1
        <5>3. silent => objs'[k].silent
          BY <1>5, <2>8, <3>1, <3>2, <3>6, <5>2
        <5>4. ~silent => objs'[k].f.cur = n /\ objs'[k].f.prev = n - 1
          <6>1. objs'[k].f = f
            BY <1>5, <2>8, <3>1, <3>2, <3>6, <5>2
          <6>2. f.cur = t + Steps /\ f.prev = t + Steps - 1 => f.cur = n /\ f.prev = n - 1
            BY <2>4, <5>2
          <6>3. silent \/ (f.cur = t + Steps /\ f.prev = t + Steps - 1)
            BY <3>3, <3>6, Zenon
          <6> QED
            BY <6>1, <6>2, <6>3, Zenon
        <5>5. objs'[k].silent \/ (objs'[k].f.cur = n /\ objs'[k].f.prev = n - 1)
          BY <5>3, <5>4, Zenon
        <5> QED
          BY <5>1, <5>5 DEF At
      <4> QED
        BY <3>5, <4>1, <4>2, <4>3, <4>4 DEF FieldsOf, FieldOps
    <3>7. CASE ~(t > 0)
      BY <2>2, <2>3, <2>6, <3>5, <3>7 DEF FieldsOf
    <3> QED
      BY <3>6, <3>7
  <2> QED
    BY <2>7, <2>8
<1> QED
  BY <1>1, <1>9, <1>10, <1>11, <1>12, <1>13, <1>14, <1>15, <1>16, <1>17 DEF GpuIInv, Procs, Clients

\* handle_one and the rest of the long handlers.
LEMMA ServerIInv ==
  ASSUME GpuIInv, ServerHandle \/ ServerFinish
  PROVE  GpuIInv'
<1>0. TypeOK /\ WireInv /\ HandleInv
  BY DEF GpuIInv
<1>1. PICK c : c = Head(wire.req)
  OBVIOUS
<1>2. UNCHANGED <<call, segs, queue, closed, connOpen, loop>>
  BY DEF ServerHandle, ServerFinish, worker
<1>3. srv \in {"serving", "running"} /\ wire.req # <<>>
  BY <1>0 DEF ServerHandle, ServerFinish, WireInv
<1>4. c \in Pending /\ SentOf(c) /\ c.who \in Procs
  BY <1>1, <1>3, AtServer
<1>5. c.op \in BulkOps /\ Current(c) => HasSegment(c)
  BY <1>4 DEF SentOf, Current, CallOf, Calling, HasSegment, GpuIInv
<1>6. CASE ServerFinish
  <2>1. srv = "running" /\ c.op \in {"RunFDTD", "TraceRays"} /\ UNCHANGED objs
    BY <1>0, <1>1, <1>6 DEF ServerFinish, HandleResult, WireInv
  <2>2. PICK status \in {"ok", "badmsg"} :
          status = (IF HasSegment(c) THEN "ok" ELSE "badmsg") /\ Reply(c, status, None, "serving")
    BY <1>1, <1>6 DEF ServerFinish, HandleResult
  <2>3. status = "badmsg" => ~Current(c)
    BY <1>5, <2>1, <2>2 DEF BulkOps
  <2>4. c.op \notin Frees /\ c.op \notin Allocs \cup {"UploadFields"}
    BY <2>1 DEF Frees, Allocs
  <2> QED
    BY <1>1, <1>2, <1>3, <2>1, <2>2, <2>3, <2>4, ReplySame
<1>7. CASE ServerHandle
  <2>0. /\ srv = "serving"
        /\ \/ c.op = "Ping" /\ Reply(c, "ok", None, "serving") /\ UNCHANGED objs
           \/ c.op = "Shutdown" /\ Reply(c, "ok", None, "exited") /\ UNCHANGED objs
           \/ HandleAllocGrid(c) \/ HandleFreeGrid(c) \/ HandleUploadFields(c) \/ HandleRunFDTD(c)
           \/ HandleAllocBVH(c) \/ HandleFreeBVH(c) \/ HandleTraceRays(c)
    BY <1>1, <1>7 DEF ServerHandle
  <2>1. ASSUME NEW status \in {"ok", "oom", "badmsg", "cuda"}, NEW next \in {"serving", "exited"},
               Reply(c, status, None, next), UNCHANGED objs, status = "badmsg" => ~Current(c), c.op \notin Frees,
               status = "ok" => c.op \in {"Ping", "Shutdown"}
        PROVE  GpuIInv'
    <3>1. c.op \in {"Ping", "Shutdown"} => c.op \notin Allocs \cup {"UploadFields", "RunFDTD"}
      BY DEF Allocs
    <3> QED
      BY <1>1, <1>2, <1>3, <2>0, <2>1, <3>1, ReplySame
  <2>2. ASSUME c.op \in {"Ping", "Shutdown"}, NEW next \in {"serving", "exited"},
               Reply(c, "ok", None, next), UNCHANGED objs
        PROVE  GpuIInv'
    BY <2>1, <2>2 DEF Frees
  <2>3. CASE HandleAllocGrid(c) \/ HandleAllocBVH(c)
    <3>1. c.op \in Allocs /\ c.op \notin Frees
      BY <2>3 DEF HandleAllocGrid, HandleAllocBVH, Allocs, Frees
    <3>2. CASE Allocate(c)
      BY <1>1, <1>2, <1>3, <2>0, <3>1, <3>2, AllocateIInv
    <3>3. CASE ~Allocate(c)
      <4>1. PICK status \in {"oom", "badmsg"} :
              Reply(c, status, None, "serving") /\ UNCHANGED objs /\ (status = "badmsg" => ~Current(c))
        BY <1>5, <2>3, <3>3 DEF HandleAllocGrid, HandleAllocBVH, BulkOps
      <4> QED
        BY <2>1, <3>1, <4>1
    <3> QED
      BY <3>2, <3>3
  <2>4. CASE HandleFreeGrid(c) \/ HandleFreeBVH(c)
    <3>1. c.op \in Frees /\ objs' = [objs EXCEPT ![c.handle] = None] /\ Reply(c, "ok", None, "serving")
      BY <2>4 DEF HandleFreeGrid, HandleFreeBVH, Frees
    <3> QED
      BY <1>1, <1>2, <1>3, <2>0, <3>1, FreeIInv
  <2>5. CASE HandleUploadFields(c)
    <3>1. c.op = "UploadFields" /\ c.op \notin Frees /\ c.op \in HandleOps
      BY <2>5 DEF HandleUploadFields, Frees, HandleOps
    <3>2. c.handle \in Handles /\ objs[c.handle] \in Objects /\ objs \in [Handles -> Objects \cup {None}]
      BY <1>0, <1>4, <3>1 DEF HandleInv, OwnedBy, TypeOK
    <3>3. CASE Reply(c, "badmsg", None, "serving") /\ UNCHANGED objs /\ ~HasSegment(c)
      BY <1>5, <2>1, <3>1, <3>3 DEF BulkOps
    <3>4. CASE /\ SetFields(c, [objs[c.handle].f EXCEPT !.cur = 1, !.prev = 0], FALSE)
               /\ Reply(c, "ok", None, "serving")
      <4>1. PICK f : f = [objs[c.handle].f EXCEPT !.cur = 1, !.prev = 0]
        OBVIOUS
      <4>2. f \in FieldTimes /\ f.cur = 1 /\ f.prev = 0
        BY <3>2, <4>1 DEF Objects, FieldTimes
      <4>3. SetFields(c, f, FALSE)
        BY <3>4, <4>1
      <4> QED
        BY <1>1, <1>2, <1>3, <2>0, <3>1, <3>4, <4>2, <4>3, UploadIInv
    <3>5. CASE \E silent \in BOOLEAN, status \in {"ok", "cuda"} :
                 /\ SetFields(c, NoFields, silent) /\ Reply(c, status, None, "serving")
                 /\ silent <=> status = "ok"
      <4>1. NoFields \in FieldTimes
        BY DEF NoFields, FieldTimes
      <4> QED
        BY <1>1, <1>2, <1>3, <2>0, <3>1, <3>5, <4>1, UploadIInv
    <3> QED
      BY <2>5, <3>3, <3>4, <3>5 DEF HandleUploadFields
  <2>6. CASE HandleRunFDTD(c)
    <3>1. c.op = "RunFDTD" /\ c.op \notin Frees
      BY <2>6 DEF HandleRunFDTD, Frees
    <3>2. CASE Reply(c, "oom", None, "serving") /\ UNCHANGED objs
      BY <2>1, <3>1, <3>2
    <3>3. CASE /\ \/ SetFields(c, March(objs[c.handle].f), objs[c.handle].silent)
                  \/ SetFields(c, NoFields, TRUE)
               /\ srv' = "running" /\ UNCHANGED wire
      BY <1>1, <1>2, <1>3, <2>0, <3>1, <3>3, RunIInv
    <3> QED
      BY <2>6, <3>2, <3>3 DEF HandleRunFDTD
  <2>7. CASE HandleTraceRays(c)
    <3>1. c.op = "TraceRays" /\ c.op \notin Frees /\ UNCHANGED objs
      BY <2>7 DEF HandleTraceRays, Frees
    <3>2. CASE HasSegment(c)
      <4>1. srv' = "running" /\ UNCHANGED wire
        BY <2>7, <3>2 DEF HandleTraceRays
      <4> QED
        BY <1>1, <1>2, <1>3, <2>0, <3>1, <4>1, RunIInv
    <3>3. CASE ~HasSegment(c)
      <4>1. Reply(c, "badmsg", None, "serving") /\ ~Current(c)
        BY <1>5, <2>7, <3>1, <3>3 DEF HandleTraceRays, BulkOps
      <4> QED
        BY <2>1, <3>1, <4>1
    <3> QED
      BY <3>2, <3>3
  <2> QED
    BY <2>0, <2>2, <2>3, <2>4, <2>5, <2>6, <2>7
<1> QED
  BY <1>6, <1>7

-----------------------------------------------------------------------------
(* The theorems. *)

LEMMA InitIInv == Init => GpuIInv
<1>1. SUFFICES ASSUME Init PROVE GpuIInv
  OBVIOUS
<1>2. PICK r : r = [pc |-> "idle", n |-> 0, op |-> "Ping", handle |-> None, time |-> 0, lost |-> FALSE,
                    answer |-> None]
  OBVIOUS
<1>3. /\ r \in CallStates /\ r.pc = "idle" /\ r.op = "Ping" /\ r.handle = None /\ r.time = 0
      /\ r.answer = None
  BY <1>2 DEF CallStates, Ops
<1>4. call = [p \in Procs |-> r] /\ \A p \in Procs : call[p] = r
  BY <1>1, <1>2 DEF Init
<1>5. TypeOK
  <2>1. queue \in Seq(Requests) /\ <<>> \in Seq(Answers) /\ <<>> \in Seq(Requests)
    BY <1>1 DEF Init
  <2> QED
    BY <1>1, <1>3, <1>4, <2>1 DEF TypeOK, Init
<1>6. Pending = {} /\ Served = {} /\ Wired = {} /\ Queued = {} /\ \A p \in Procs : Replies(p) = {}
  BY <1>1, <1>3, <1>4 DEF Init, Pending, Served, Wired, Queued, Replies
<1>7. DeferredInv /\ WireInv /\ SentInv
  <2>1. Deferred
    BY <1>3, <1>4 DEF Deferred, Procs
  <2>2. WireInv
    BY <1>1 DEF Init, WireInv
  <2>3. SentInv
    BY <1>1, <1>6 DEF Init, SentInv
  <2> QED
    BY <1>1, <2>1, <2>2, <2>3 DEF Init, DeferredInv
<1>8. \A h \in Handles : \A p : ~OwnedBy(h, p)
  BY <1>1 DEF Init, OwnedBy
<1>9. Clients \subseteq Procs /\ GridClients \subseteq Procs /\ Procs = Clients \cup Closers
  BY DEF Clients, Procs
<1>10. HandleInv
  BY <1>3, <1>4, <1>6, <1>8, <1>9 DEF HandleInv
<1>11. \A p \in Procs : CallOf(p) /\ AnswerOf(p)
  BY <1>1, <1>3, <1>4, <1>6 DEF CallOf, AnswerOf, Calling, Clients
<1>12. \A p \in Clients : LeakOf(p)
  BY <1>6, <1>8, <1>9 DEF LeakOf
<1>13. \A p \in GridClients : FieldsOf(p)
  BY <1>3, <1>4, <1>6, <1>9 DEF FieldsOf
<1> QED
  BY <1>5, <1>7, <1>10, <1>11, <1>12, <1>13 DEF GpuIInv

LEMMA NextIInv == GpuIInv /\ [Next]_vars => GpuIInv'
<1>1. SUFFICES ASSUME GpuIInv, [Next]_vars PROVE GpuIInv'
  OBVIOUS
<1>2. CASE \E p \in Clients : BeginGrid(p) \/ BeginRays(p) \/ BeginPing(p)
  BY <1>1, <1>2, BeginsIInv
<1>3. CASE \E p \in Closers : BeginClose(p) \/ CloserStep(p)
  BY <1>1, <1>3, BeginCloseIInv, CloseClosedIInv, CloseConnIInv DEF CloserStep
<1>4. CASE \E p \in Procs : DoStep(p)
  BY <1>1, <1>4, SubmitIInv, ReturnIInv DEF DoStep
<1>5. CASE LoopStep
  BY <1>1, <1>5, LoopTakeIInv, LoopFailsIInv, LoopRecvIInv, LeaveIInv DEF LoopStep
<1>6. CASE ServerStep \/ StartCtxDone
  BY <1>1, <1>6, ServerIInv, LeaveIInv DEF ServerStep
<1>7. CASE UNCHANGED vars
  BY <1>1, <1>7, LeaveIInv
<1> QED
  BY <1>1, <1>2, <1>3, <1>4, <1>5, <1>6, <1>7 DEF Next

\* The inductive invariant of the worker holds in every state.
THEOREM GpuInvariant == Spec => []GpuIInv
  BY InitIInv, NextIInv, PTL DEF Spec

\* A caller only ever gets the server's answer to its own call (worker.go,
\* roundTrip and do), and its segment is there for as long as the server may
\* open it, whatever is abandoned.
THEOREM AnswersAreForTheCall == Spec => []AnswersMatch
<1>1. GpuIInv => AnswersMatch
  <2>1. SUFFICES ASSUME GpuIInv, NEW p \in Procs, call[p].pc = "wait", call[p].answer \notin {None, IoErr}
                 PROVE  call[p].answer.of = <<p, call[p].n>> /\ call[p].answer.status # "badmsg"
    BY DEF AnswersMatch
  <2>2. AnswerOf(p)
    BY <2>1 DEF GpuIInv
  <2>3. call[p].answer \in Replies(p)
    BY <2>1, <2>2 DEF AnswerOf, Replies
  <2> QED
    BY <2>2, <2>3 DEF AnswerOf
<1> QED
  BY <1>1, GpuInvariant, PTL

\* The server is never asked to use an object it has freed (handle_one trusts
\* the pointer it is sent).
THEOREM RequestsNameLiveObjects == Spec => []NoDanglingRequest
<1>1. GpuIInv => NoDanglingRequest
  <2>1. SUFFICES ASSUME GpuIInv, wire.req # <<>>, srv = "serving", NEW c, c = Head(wire.req), c.op \in HandleOps
                 PROVE  Live(c)
    BY DEF NoDanglingRequest
  <2>2. c \in Pending
    BY <2>1 DEF Pending, Wired
  <2>3. c.handle \in Handles /\ OwnedBy(c.handle, c.who)
    BY <2>1, <2>2 DEF GpuIInv, HandleInv
  <2> QED
    BY <2>3, GpuAssumption DEF Live, OwnedBy
<1> QED
  BY <1>1, GpuInvariant, PTL

\* Handles name objects of their owners, and only an abandoned Alloc or Free
\* leaks device memory.
THEOREM NothingLeaksUnlessAbandoned == Spec => []HandlesOwned
<1>1. GpuIInv => HandlesOwned
  <2>1. SUFFICES ASSUME GpuIInv, ~closed, srv # "exited" PROVE HandlesOwned
    BY DEF HandlesOwned
  <2>2. ASSUME NEW p \in Clients, call[p].pc = "idle", call[p].handle # None
        PROVE  objs[call[p].handle] # None /\ objs[call[p].handle].owner = p
    BY <2>1, <2>2 DEF GpuIInv, HandleInv, OwnedBy
  <2>3. ASSUME NEW h \in Handles, objs[h] # None, NEW p, p = objs[h].owner
        PROVE  call[p].handle = h \/ call[p].lost \/ (call[p].pc = "wait" /\ call[p].op \in Allocs)
    <3>1. p \in Clients
      BY <2>1, <2>3 DEF GpuIInv, TypeOK, Objects
    <3>2. OwnedBy(h, p) /\ LeakOf(p)
      BY <2>1, <2>3, <3>1 DEF OwnedBy, GpuIInv
    <3> QED
      BY <2>1, <3>2 DEF LeakOf, Replies
  <2> QED
    BY <2>2, <2>3 DEF HandlesOwned
<1> QED
  BY <1>1, GpuInvariant, PTL

\* A grid's fields are those its client's completed runs lead to
\* (handle_run_fdtd continues where the previous run left off), unless the device
\* failed and the server's answer did not say so.
THEOREM RunsContinueInStep == Spec => []FieldsInStep
<1>1. GpuIInv => FieldsInStep
  <2>1. SUFFICES ASSUME GpuIInv, NEW p \in GridClients, call[p].pc = "idle", call[p].time > 0,
                        call[p].handle # None, srv # "exited"
                 PROVE  /\ objs[call[p].handle] # None
                        /\ \/ objs[call[p].handle].silent
                           \/ /\ objs[call[p].handle].f.cur = call[p].time
                              /\ objs[call[p].handle].f.prev = call[p].time - 1
    BY DEF FieldsInStep
  <2>2. OwnedBy(call[p].handle, p)
    BY <2>1 DEF GpuIInv, HandleInv, Clients
  <2>3. At(call[p].handle, call[p].time)
    BY <2>1 DEF GpuIInv, FieldsOf
  <2> QED
    BY <2>2, <2>3 DEF OwnedBy, At
<1> QED
  BY <1>1, GpuInvariant, PTL
=============================================================================
