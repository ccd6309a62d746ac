--------------------------- MODULE RayTracerProofs ---------------------------
(* The bounce loop, for every room, every number of rays and bounces and    *)
(* every limit of the hybrid gate.                                          *)
EXTENDS RayTracer, FiniteSetTheorems, SequenceTheorems, WellFoundedInduction, TLAPS

-----------------------------------------------------------------------------
(* What happened to the sound. *)

Events == {"specular", "diffuse", "edge"}

LEMMA Extended ==
  ASSUME NEW h \in Histories, NEW x \in Events
  PROVE  /\ Append(h, x) \in Histories /\ Append(h, x) # <<>> /\ Last(Append(h, x)) = x
         /\ DOMAIN Append(h, x) = DOMAIN h \cup {Len(h) + 1} /\ Len(h) \in Nat
         /\ DOMAIN h = 1 .. Len(h)
         /\ \A i \in DOMAIN h : Append(h, x)[i] = h[i] /\ i \in Nat /\ i < Len(h) + 1
         /\ Append(h, x)[Len(h) + 1] = x
<1>1. PICK g : g = Append(h, x)
  OBVIOUS
<1>2. h \in Seq(Events) /\ Len(h) \in Nat /\ DOMAIN h = 1 .. Len(h)
  BY DEF Histories, Events
<1>3. g \in Seq(Events) /\ Len(g) = Len(h) + 1 /\ DOMAIN g = 1 .. Len(h) + 1
  BY <1>1, <1>2
<1>4. \A i \in 1 .. Len(h) : g[i] = h[i]
  BY <1>1, <1>2
<1>5. g[Len(h) + 1] = x
  BY <1>1, <1>2
<1>6. g # <<>>
  BY <1>2, <1>3
<1>7. Last(g) = x
  BY <1>3, <1>5 DEF Last
<1>8. DOMAIN g = DOMAIN h \cup {Len(h) + 1}
  BY <1>2, <1>3
<1> QED
  BY <1>1, <1>2, <1>3, <1>4, <1>5, <1>6, <1>7, <1>8 DEF Histories, Events

LEMMA HistorySetsFinite ==
  ASSUME NEW h \in Histories
  PROVE  /\ IsFiniteSet(Reflections(h)) /\ IsFiniteSet(EdgesOf(h))
         /\ IsFiniteSet(BeforeEdges(h)) /\ IsFiniteSet(BehindEdge(h))
         /\ EdgesOf(h) = {} <=> Cardinality(EdgesOf(h)) = 0
         /\ Cardinality(Reflections(h)) \in Nat /\ Cardinality(EdgesOf(h)) \in Nat
         /\ Cardinality(BeforeEdges(h)) \in Nat /\ Cardinality(BehindEdge(h)) \in Nat
<1>1. DOMAIN h = 1 .. Len(h) /\ Len(h) \in Nat
  BY DEF Histories
<1>2. IsFiniteSet(DOMAIN h)
  BY <1>1, FS_Interval
<1>3. /\ Reflections(h) \subseteq DOMAIN h /\ EdgesOf(h) \subseteq DOMAIN h
      /\ BeforeEdges(h) \subseteq DOMAIN h /\ BehindEdge(h) \subseteq DOMAIN h
  BY DEF Reflections, EdgesOf, BeforeEdges, BehindEdge
<1>4. /\ IsFiniteSet(Reflections(h)) /\ IsFiniteSet(EdgesOf(h))
      /\ IsFiniteSet(BeforeEdges(h)) /\ IsFiniteSet(BehindEdge(h))
  BY <1>2, <1>3, FS_Subset
<1>5. EdgesOf(h) = {} <=> Cardinality(EdgesOf(h)) = 0
  BY <1>4, FS_EmptySet
<1> QED
  BY <1>4, <1>5, FS_CardinalityType

\* An edge.
LEMMA EdgeMet ==
  ASSUME NEW h \in Histories, NEW g, g = Append(h, "edge")
  PROVE  /\ Reflections(g) = Reflections(h)
         /\ EdgesOf(g) = EdgesOf(h) \cup {Len(h) + 1} /\ Len(h) + 1 \notin EdgesOf(h)
         /\ BeforeEdges(g) = BeforeEdges(h) /\ BehindEdge(g) = BehindEdge(h)
         /\ ReflectedBeforeEdge(g) <=> Reflections(h) # {}
         /\ (\E i \in DOMAIN g : g[i] = "diffuse") <=> (\E i \in DOMAIN h : h[i] = "diffuse")
<1>0. PICK n : n = Len(h) + 1
  OBVIOUS
<1>1. /\ DOMAIN g = DOMAIN h \cup {n} /\ n \in Nat /\ g[n] = "edge"
      /\ \A i \in DOMAIN h : g[i] = h[i] /\ i \in Nat /\ i < n
  BY <1>0, Extended DEF Events
<1>2. Reflections(g) = Reflections(h)
  BY <1>1 DEF Reflections
<1>3. EdgesOf(g) = EdgesOf(h) \cup {n} /\ n \notin EdgesOf(h)
  BY <1>1 DEF EdgesOf
<1>4. \A i \in Reflections(h) : i \in Nat /\ i < n
  BY <1>1 DEF Reflections
<1>5. BeforeEdges(g) = BeforeEdges(h)
  BY <1>2, <1>3, <1>4 DEF BeforeEdges
<1>6. BehindEdge(g) = BehindEdge(h)
  BY <1>1, <1>2, <1>3, <1>4 DEF BehindEdge
<1>7. ReflectedBeforeEdge(g) <=> Reflections(h) # {}
  BY <1>2, <1>3, <1>4 DEF ReflectedBeforeEdge
<1>8. (\E i \in DOMAIN g : g[i] = "diffuse") <=> (\E i \in DOMAIN h : h[i] = "diffuse")
  BY <1>1
<1> QED
  BY <1>0, <1>2, <1>3, <1>5, <1>6, <1>7, <1>8

\* A wall.
LEMMA WallMet ==
  ASSUME NEW h \in Histories, NEW x \in {"specular", "diffuse"}, NEW g, g = Append(h, x)
  PROVE  /\ EdgesOf(g) = EdgesOf(h)
         /\ Reflections(g) = Reflections(h) \cup {Len(h) + 1} /\ Len(h) + 1 \notin Reflections(h)
         /\ Len(h) + 1 \notin BeforeEdges(h) /\ Len(h) + 1 \notin BehindEdge(h)
         /\ EdgesOf(h) = {} => /\ BeforeEdges(g) = BeforeEdges(h) \cup {Len(h) + 1}
                               /\ BehindEdge(g) = BehindEdge(h)
         /\ EdgesOf(h) # {} => /\ BeforeEdges(g) = BeforeEdges(h)
                               /\ BehindEdge(g) = BehindEdge(h) \cup {Len(h) + 1}
         /\ ReflectedBeforeEdge(g) <=> ReflectedBeforeEdge(h)
         /\ (\E i \in DOMAIN g : g[i] = "diffuse")
              <=> (x = "diffuse" \/ \E i \in DOMAIN h : h[i] = "diffuse")
<1>0. PICK n : n = Len(h) + 1
  OBVIOUS
<1>1. /\ DOMAIN g = DOMAIN h \cup {n} /\ n \in Nat /\ g[n] = x
      /\ \A i \in DOMAIN h : g[i] = h[i] /\ i \in Nat /\ i < n
  BY <1>0, Extended DEF Events
<1>2. EdgesOf(g) = EdgesOf(h)
  BY <1>1 DEF EdgesOf
<1>3. Reflections(g) = Reflections(h) \cup {n} /\ n \notin Reflections(h)
  BY <1>1 DEF Reflections
<1>4. \A j \in EdgesOf(h) : j \in Nat /\ j < n
  BY <1>1 DEF EdgesOf
<1>5. n \notin BeforeEdges(h) /\ n \notin BehindEdge(h)
  BY <1>3 DEF BeforeEdges, BehindEdge
<1>6. EdgesOf(h) = {} => BeforeEdges(g) = BeforeEdges(h) \cup {n} /\ BehindEdge(g) = BehindEdge(h)
  BY <1>2, <1>3 DEF BeforeEdges, BehindEdge
<1>7. EdgesOf(h) # {} => BeforeEdges(g) = BeforeEdges(h) /\ BehindEdge(g) = BehindEdge(h) \cup {n}
  BY <1>1, <1>2, <1>3, <1>4 DEF BeforeEdges, BehindEdge
<1>8. ReflectedBeforeEdge(g) <=> ReflectedBeforeEdge(h)
  BY <1>1, <1>2, <1>3, <1>4 DEF ReflectedBeforeEdge
<1>9. (\E i \in DOMAIN g : g[i] = "diffuse") <=> (x = "diffuse" \/ \E i \in DOMAIN h : h[i] = "diffuse")
  BY <1>1
<1> QED
  BY <1>0, <1>2, <1>3, <1>5, <1>6, <1>7, <1>8, <1>9

LEMMA RayStateTypes ==
  ASSUME NEW s \in RayStates
  PROVE  /\ s.energy \in Nat /\ s.path \in Nat /\ s.delay \in Nat /\ s.bounces \in Nat
         /\ s.reflections \in Nat /\ s.preED \in Nat /\ s.postED \in Nat /\ s.edOrder \in Nat
         /\ s.travelled \in Nat /\ s.offset \in Nat /\ s.history \in Histories
         /\ s.rainCovered \in BOOLEAN /\ s.hasDiffuse \in BOOLEAN /\ s.allow \in BOOLEAN
BY DEF RayStates

\* The counters follow the sound through a reflection ...
LEMMA ReflectionCounted ==
  ASSUME NEW s \in RayStates, Counted(s), NEW diffuse \in BOOLEAN,
         NEW a, a = AdvanceStateAfterReflection(s, diffuse)
  PROVE  /\ a \in RayStates /\ Counted(a)
         /\ a.path = s.path /\ a.travelled = s.travelled /\ a.offset = s.offset
         /\ a.delay = s.delay /\ a.energy = s.energy /\ a.bounces = s.bounces /\ a.rainCovered = s.rainCovered
         /\ a.history = Append(s.history, IF diffuse THEN "diffuse" ELSE "specular")
<1>1. PICK h \in Histories : h = s.history
  BY RayStateTypes
<1>2. PICK x \in {"specular", "diffuse"} : x = IF diffuse THEN "diffuse" ELSE "specular"
  OBVIOUS
<1>3. PICK g \in Histories : g = Append(h, x)
  BY Extended DEF Events
<1>4. PICK r \in Nat : r = s.reflections + 1
  BY RayStateTypes
<1>5. PICK p \in Nat : p = IF s.edOrder = 0 THEN s.preED + 1 ELSE s.preED
  BY RayStateTypes
<1>6. PICK q \in Nat : q = IF s.edOrder = 0 THEN s.postED ELSE s.postED + 1
  BY RayStateTypes
<1>7. PICK b \in BOOLEAN : b = (s.hasDiffuse \/ diffuse)
  BY RayStateTypes
<1>8. PICK w \in BOOLEAN : w = ~diffuse
  OBVIOUS
<1>9. a = [s EXCEPT !.reflections = r, !.preED = p, !.postED = q, !.hasDiffuse = b,
                    !.allow = w, !.history = g]
  BY <1>1, <1>2, <1>3, <1>4, <1>5, <1>6, <1>7, <1>8 DEF AdvanceStateAfterReflection
<1>10. /\ a \in RayStates /\ a.history = g
       /\ a.path = s.path /\ a.travelled = s.travelled /\ a.offset = s.offset
       /\ a.delay = s.delay /\ a.energy = s.energy /\ a.bounces = s.bounces /\ a.rainCovered = s.rainCovered
       /\ a.reflections = r /\ a.preED = p /\ a.postED = q /\ a.edOrder = s.edOrder /\ a.hasDiffuse = b
  BY <1>9 DEF RayStates
<1>11. /\ IsFiniteSet(Reflections(h)) /\ IsFiniteSet(EdgesOf(h))
       /\ IsFiniteSet(BeforeEdges(h)) /\ IsFiniteSet(BehindEdge(h))
       /\ EdgesOf(h) = {} <=> Cardinality(EdgesOf(h)) = 0
  BY HistorySetsFinite
<1>12. PICK n : n = Len(h) + 1
  OBVIOUS
<1>13. /\ EdgesOf(g) = EdgesOf(h)
       /\ Reflections(g) = Reflections(h) \cup {n} /\ n \notin Reflections(h)
       /\ n \notin BeforeEdges(h) /\ n \notin BehindEdge(h)
       /\ EdgesOf(h) = {} => BeforeEdges(g) = BeforeEdges(h) \cup {n} /\ BehindEdge(g) = BehindEdge(h)
       /\ EdgesOf(h) # {} => BeforeEdges(g) = BeforeEdges(h) /\ BehindEdge(g) = BehindEdge(h) \cup {n}
  BY <1>3, <1>12, WallMet
<1>14. Cardinality(Reflections(g)) = Cardinality(Reflections(h)) + 1
  BY <1>11, <1>13, FS_AddElement
<1>15. Cardinality(EdgesOf(g)) = Cardinality(EdgesOf(h))
  BY <1>13
<1>16. EdgesOf(h) = {} => Cardinality(BeforeEdges(g)) = Cardinality(BeforeEdges(h)) + 1
  BY <1>11, <1>13, FS_AddElement
<1>17. EdgesOf(h) # {} => Cardinality(BehindEdge(g)) = Cardinality(BehindEdge(h)) + 1
  BY <1>11, <1>13, FS_AddElement
<1>18. /\ s.reflections = Cardinality(Reflections(h)) /\ s.preED = Cardinality(BeforeEdges(h))
       /\ s.postED = Cardinality(BehindEdge(h)) /\ s.edOrder = Cardinality(EdgesOf(h))
  BY <1>1 DEF Counted
<1>19. s.hasDiffuse <=> \E i \in DOMAIN h : h[i] = "diffuse"
  BY <1>1 DEF Counted
<1>20. a.hasDiffuse <=> \E i \in DOMAIN g : g[i] = "diffuse"
  <2>1. (\E i \in DOMAIN g : g[i] = "diffuse") <=> (x = "diffuse" \/ \E i \in DOMAIN h : h[i] = "diffuse")
    BY <1>3, WallMet
  <2> QED
    BY <2>1, <1>2, <1>7, <1>10, <1>19
<1>21. /\ a.reflections = Cardinality(Reflections(g)) /\ a.edOrder = Cardinality(EdgesOf(g))
  BY <1>4, <1>10, <1>14, <1>15, <1>18
<1>22. a.preED = Cardinality(BeforeEdges(g)) /\ a.postED = Cardinality(BehindEdge(g))
  <2>1. CASE EdgesOf(h) = {}
    BY <2>1, <1>5, <1>6, <1>10, <1>11, <1>13, <1>16, <1>18
  <2>2. CASE EdgesOf(h) # {}
    BY <2>2, <1>5, <1>6, <1>10, <1>11, <1>13, <1>17, <1>18
  <2> QED
    BY <2>1, <2>2
<1>23. Counted(a)
  BY <1>10, <1>20, <1>21, <1>22 DEF Counted
<1> QED
  BY <1>1, <1>2, <1>3, <1>10, <1>23

\* ... and over an edge.
LEMMA DiffractionCounted ==
  ASSUME NEW s \in RayStates, Counted(s), NEW a, a = AdvanceStateAfterDiffraction(s)
  PROVE  /\ a \in RayStates /\ Counted(a)
         /\ a.path = s.path /\ a.travelled = s.travelled /\ a.offset = s.offset
         /\ a.delay = s.delay /\ a.energy = s.energy /\ a.bounces = s.bounces /\ a.rainCovered = s.rainCovered
         /\ a.history = Append(s.history, "edge")
<1>1. PICK h \in Histories : h = s.history
  BY RayStateTypes
<1>2. PICK g \in Histories : g = Append(h, "edge")
  BY Extended DEF Events
<1>3. PICK e \in Nat : e = s.edOrder + 1
  BY RayStateTypes
<1>4. a = [s EXCEPT !.edOrder = e, !.allow = FALSE, !.history = g]
  BY <1>1, <1>2, <1>3 DEF AdvanceStateAfterDiffraction
<1>5. /\ a \in RayStates /\ a.history = g
      /\ a.path = s.path /\ a.travelled = s.travelled /\ a.offset = s.offset
      /\ a.delay = s.delay /\ a.energy = s.energy /\ a.bounces = s.bounces /\ a.rainCovered = s.rainCovered
      /\ a.reflections = s.reflections /\ a.preED = s.preED /\ a.postED = s.postED
      /\ a.edOrder = e /\ a.hasDiffuse = s.hasDiffuse
  BY <1>4 DEF RayStates
<1>6. IsFiniteSet(EdgesOf(h))
  BY HistorySetsFinite
<1>7. PICK n : n = Len(h) + 1
  OBVIOUS
<1>8. /\ Reflections(g) = Reflections(h) /\ EdgesOf(g) = EdgesOf(h) \cup {n} /\ n \notin EdgesOf(h)
      /\ BeforeEdges(g) = BeforeEdges(h) /\ BehindEdge(g) = BehindEdge(h)
      /\ (\E i \in DOMAIN g : g[i] = "diffuse") <=> (\E i \in DOMAIN h : h[i] = "diffuse")
  BY <1>2, <1>7, EdgeMet
<1>9. Cardinality(EdgesOf(g)) = Cardinality(EdgesOf(h)) + 1
  BY <1>6, <1>8, FS_AddElement
<1>10. a.hasDiffuse <=> \E i \in DOMAIN g : g[i] = "diffuse"
  BY <1>1, <1>5, <1>8 DEF Counted
<1>11. /\ a.reflections = Cardinality(Reflections(g)) /\ a.preED = Cardinality(BeforeEdges(g))
       /\ a.postED = Cardinality(BehindEdge(g)) /\ a.edOrder = Cardinality(EdgesOf(g))
  BY <1>1, <1>3, <1>5, <1>8, <1>9 DEF Counted
<1>12. Counted(a)
  BY <1>5, <1>10, <1>11 DEF Counted
<1> QED
  BY <1>1, <1>2, <1>5, <1>12

-----------------------------------------------------------------------------
(* The ways dapdfForward finds have lengths: it recurs over edges until the *)
(* depth is used up.                                                        *)

LEMMA Smallest ==
  ASSUME NEW T \in SUBSET Nat, T # {}
  PROVE  \E x \in T : \A y \in T : x <= y
<1>1. IsWellFoundedOn(OpToRel(<, Nat), Nat)
  BY NatLessThanWellFounded
<1>2. PICK x \in T : \A y \in T : ~(<<y, x>> \in OpToRel(<, Nat))
  BY <1>1, WFMin
<1>3. \A y \in T : ~(y < x)
  BY <1>2 DEF OpToRel
<1> QED
  BY <1>3

\* The ways over at most n gaps, without recursion: c[i] is the way from edge i.
Chain(c, m) == c[0] \in Distances /\ \A i \in 1 .. m : c[i] - c[i - 1] \in Gaps
Ways(n) == {w \in Nat : \E m \in 0 .. n : \E c \in [Nat -> Nat] : Chain(c, m) /\ w = c[m]}

LEMMA NoGap ==
  Ways(0) = Distances
<1>1. \A w \in Ways(0) : w \in Distances
  BY DEF Ways, Chain
<1>2. ASSUME NEW w \in Distances
      PROVE  w \in Ways(0)
  <2>1. w \in Nat
    BY LengthsAssumption
  <2>2. PICK c : c = [i \in Nat |-> w]
    OBVIOUS
  <2>3. c \in [Nat -> Nat] /\ Chain(c, 0) /\ w = c[0]
    BY <2>1, <2>2 DEF Chain
  <2> QED
    BY <2>1, <2>3 DEF Ways
<1> QED
  BY <1>1, <1>2

LEMMA OneMoreGap ==
  ASSUME NEW n \in Nat
  PROVE  Ways(n + 1) = Distances \cup {g + w : g \in Gaps, w \in Ways(n)}
<1>1. ASSUME NEW v \in Ways(n + 1)
      PROVE  v \in Distances \cup {g + w : g \in Gaps, w \in Ways(n)}
  <2>1. PICK m \in 0 .. n + 1, c \in [Nat -> Nat] : Chain(c, m) /\ v = c[m]
    BY DEF Ways
  <2>2. CASE m = 0
    BY <2>1, <2>2 DEF Chain
  <2>3. CASE m # 0
    <3>1. PICK k \in 0 .. n : m = k + 1
      BY <2>3
    <3>2. PICK w \in Nat : w = c[k]
      BY <3>1
    <3>3. Chain(c, k)
      BY <2>1, <3>1 DEF Chain
    <3>4. w \in Ways(n)
      BY <3>1, <3>2, <3>3 DEF Ways
    <3>5. PICK g \in Gaps : g = v - w
      BY <2>1, <3>1, <3>2 DEF Chain
    <3>6. v = g + w
      BY <2>1, <3>1, <3>2, <3>5
    <3> QED
      BY <3>4, <3>6
  <2> QED
    BY <2>2, <2>3
<1>2. ASSUME NEW v \in Distances
      PROVE  v \in Ways(n + 1)
  <2>1. v \in Nat
    BY LengthsAssumption
  <2>2. PICK c : c = [i \in Nat |-> v]
    OBVIOUS
  <2>3. c \in [Nat -> Nat] /\ Chain(c, 0) /\ v = c[0]
    BY <2>1, <2>2 DEF Chain
  <2> QED
    BY <2>1, <2>3 DEF Ways
<1>3. ASSUME NEW g \in Gaps, NEW w \in Ways(n)
      PROVE  g + w \in Ways(n + 1)
  <2>1. PICK m \in 0 .. n, c \in [Nat -> Nat] : Chain(c, m) /\ w = c[m]
    BY DEF Ways
  <2>2. PICK k \in 1 .. n + 1 : k = m + 1
    BY <2>1
  <2>3. g \in Nat /\ w \in Nat
    BY LengthsAssumption DEF Ways
  <2>4. PICK d : d = [i \in Nat |-> IF i = k THEN g + w ELSE c[i]]
    OBVIOUS
  <2>5. d \in [Nat -> Nat] /\ d[k] = g + w /\ \A i \in 0 .. m : d[i] = c[i]
    BY <2>2, <2>3, <2>4
  <2>6. Chain(d, k)
    <3>1. d[0] \in Distances
      BY <2>1, <2>5 DEF Chain
    <3>2. ASSUME NEW i \in 1 .. k
          PROVE  d[i] - d[i - 1] \in Gaps
      <4>1. CASE i = k
        BY <4>1, <2>1, <2>2, <2>3, <2>5
      <4>2. CASE i # k
        BY <4>2, <2>1, <2>2, <2>5 DEF Chain
      <4> QED
        BY <4>1, <4>2
    <3> QED
      BY <3>1, <3>2 DEF Chain
  <2>7. g + w \in Nat
    BY <2>3
  <2> QED
    BY <2>2, <2>5, <2>6, <2>7 DEF Ways
<1> QED
  BY <1>1, <1>2, <1>3

LEMMA ForwardLengths ==
  ASSUME NEW depth \in Nat, depth > 0
  PROVE  DapdfForward(depth) \subseteq Nat
<1> DEFINE Body(f, k) == IF k = depth THEN Distances
                         ELSE Distances \cup {g + w : g \in Gaps, w \in f[k + 1]}
           F == CHOOSE f : f = [k \in 1 .. depth |-> Body(f, k)]
           W == [k \in 1 .. depth |-> Ways(depth - k)]
<1>1. DapdfForward(depth) = F[1]
  BY DEF DapdfForward
<1>2. W = [k \in 1 .. depth |-> Body(W, k)]
  <2>1. ASSUME NEW k \in 1 .. depth
        PROVE  W[k] = Body(W, k)
    <3>1. CASE k = depth
      BY <3>1, NoGap
    <3>2. CASE k # depth
      <4>1. PICK n \in Nat : n = depth - (k + 1)
        BY <3>2
      <4>2. W[k] = Ways(n + 1) /\ W[k + 1] = Ways(n)
        <5>1. k + 1 \in 1 .. depth /\ depth - k = n + 1
          BY <3>2, <4>1
        <5> QED
          BY <5>1, <4>1
      <4> QED
        BY <3>2, <4>2, OneMoreGap
    <3> QED
      BY <3>1, <3>2
  <2>2. W = [k \in 1 .. depth |-> W[k]]
    OBVIOUS
  <2> HIDE DEF W, Body
  <2> QED
    BY <2>1, <2>2
<1>3. F = [k \in 1 .. depth |-> Body(F, k)]
  <2> HIDE DEF W, Body
  <2> QED
    BY <1>2
<1>4. \A k \in 1 .. depth : F[k] = Body(F, k)
  <2> HIDE DEF F, Body
  <2> QED
    BY <1>3
<1> HIDE DEF F
<1>5. \A k \in 1 .. depth : F[k] \subseteq Nat
  <2> DEFINE T == {n \in 0 .. depth - 1 : ~(F[depth - n] \subseteq Nat)}
  <2>1. SUFFICES ASSUME T # {} PROVE FALSE
    <3>1. ASSUME NEW k \in 1 .. depth PROVE F[k] \subseteq Nat
      <4>1. PICK n \in 0 .. depth - 1 : n = depth - k /\ k = depth - n
        OBVIOUS
      <4> QED
        BY <2>1, <4>1
    <3> QED
      BY <3>1
  <2>2. T \subseteq Nat
    OBVIOUS
  <2>3. PICK n \in T : \A y \in T : n <= y
    BY <2>1, <2>2, Smallest
  <2>4. PICK k \in 1 .. depth : k = depth - n /\ ~(F[k] \subseteq Nat)
    BY <2>3
  <2>5. k # depth
    <3>1. Body(F, depth) = Distances
      OBVIOUS
    <3> HIDE DEF Body
    <3> QED
      BY <2>4, <1>4, <3>1, LengthsAssumption
  <2>6. k + 1 \in 1 .. depth /\ F[k + 1] \subseteq Nat
    <3>1. n - 1 \in 0 .. depth - 1 /\ k + 1 = depth - (n - 1) /\ ~(n <= n - 1)
      BY <2>4, <2>5
    <3> QED
      BY <2>3, <2>4, <2>5, <3>1
  <2>7. F[k] = Distances \cup {g + w : g \in Gaps, w \in F[k + 1]}
    <3>1. Body(F, k) = Distances \cup {g + w : g \in Gaps, w \in F[k + 1]}
      BY <2>5
    <3> HIDE DEF Body
    <3> QED
      BY <1>4, <3>1
  <2> QED
    BY <2>4, <2>6, <2>7, LengthsAssumption
<1> QED
  BY <1>1, <1>5

-----------------------------------------------------------------------------
(* The gate. *)

\* DetectionAllowedHybrid, with counters that count, lets nothing pass that the
\* image sources deliver.
LEMMA GateSound ==
  ASSUME NEW s \in RayStates, Counted(s), NEW c \in Calls,
         DetectionAllowedHybrid(s, c), c.op # "TraceSurfaces", c.hybrid.enabled
  PROVE  ~CoveredByImages(s.history, c.hybrid)
<1>1. PICK h \in Histories : h = s.history
  BY RayStateTypes
<1>2. /\ c.hybrid.maxIS \in Int /\ c.hybrid.maxPreED \in Int
      /\ c.hybrid.maxEDIS \in Int /\ c.hybrid.maxED \in Int
  BY CallsAssumption
<1>3. /\ s.reflections = Cardinality(Reflections(h)) /\ s.preED = Cardinality(BeforeEdges(h))
      /\ s.postED = Cardinality(BehindEdge(h)) /\ s.edOrder = Cardinality(EdgesOf(h))
      /\ s.hasDiffuse => \E i \in DOMAIN h : h[i] = "diffuse"
  BY <1>1 DEF Counted
<1>4. /\ s.reflections \in Nat /\ s.preED \in Nat /\ s.postED \in Nat /\ s.edOrder \in Nat
  BY RayStateTypes
<1>5. EdgesOf(h) = {} <=> Cardinality(EdgesOf(h)) = 0
  BY HistorySetsFinite
<1>6. DOMAIN h = 1 .. Len(h) /\ Len(h) \in Nat
  BY DEF Histories
<1>7. CASE s.edOrder = 0
  <2>1. EdgesOf(h) = {}
    BY <1>3, <1>5, <1>7
  <2>2. Reflections(h) = 1 .. Len(h)
    BY <1>6, <2>1 DEF Reflections, EdgesOf
  <2>3. Cardinality(Reflections(h)) = Len(h)
    <3>1. PICK n \in Nat : n = Len(h)
      BY <1>6
    <3>2. Cardinality(1 .. n) = IF 1 > n THEN 0 ELSE n - 1 + 1
      BY FS_Interval
    <3> QED
      BY <2>2, <3>1, <3>2
  <2>4. s.reflections > c.hybrid.maxIS
    BY <1>7 DEF DetectionAllowedHybrid
  <2> QED
    BY <1>1, <1>2, <1>3, <1>6, <2>1, <2>3, <2>4 DEF CoveredByImages
<1>8. CASE s.edOrder # 0
  <2>1. EdgesOf(h) # {}
    BY <1>3, <1>5, <1>8
  <2>2. EdgesOf(h) \subseteq Nat
    BY <1>6 DEF EdgesOf
  <2>3. PICK first : first = CHOOSE i \in EdgesOf(h) : \A j \in EdgesOf(h) : i <= j
    OBVIOUS
  <2>4. first \in EdgesOf(h) /\ \A j \in EdgesOf(h) : first <= j
    BY <2>1, <2>2, <2>3, Smallest
  <2>5. \A i \in Reflections(h) : i \in Nat /\ i \notin EdgesOf(h)
    BY <1>6 DEF Reflections, EdgesOf
  <2>6. BeforeEdges(h) = {i \in Reflections(h) : i < first}
    BY <2>2, <2>4, <2>5 DEF BeforeEdges
  <2>7. BehindEdge(h) = {i \in Reflections(h) : i > first}
    BY <2>2, <2>4, <2>5 DEF BehindEdge
  <2>8. \/ s.hasDiffuse \/ s.preED > c.hybrid.maxPreED
        \/ s.postED > c.hybrid.maxEDIS \/ s.edOrder > c.hybrid.maxED
    BY <1>8 DEF DetectionAllowedHybrid
  <2>9. \/ \E i \in DOMAIN h : h[i] = "diffuse"
        \/ ~(Cardinality(BeforeEdges(h)) <= c.hybrid.maxPreED)
        \/ ~(Cardinality(BehindEdge(h)) <= c.hybrid.maxEDIS)
        \/ ~(Cardinality(EdgesOf(h)) <= c.hybrid.maxED)
    BY <1>2, <1>3, <1>4, <2>8
  <2>10. CoveredByImages(h, c.hybrid) =>
           /\ \A i \in DOMAIN h : h[i] # "diffuse"
           /\ Cardinality({i \in Reflections(h) : i < first}) <= c.hybrid.maxPreED
           /\ Cardinality({i \in Reflections(h) : i > first}) <= c.hybrid.maxEDIS
           /\ Cardinality(EdgesOf(h)) <= c.hybrid.maxED
    BY <2>1, <2>3, Zenon DEF CoveredByImages
  <2> QED
    BY <1>1, <2>6, <2>7, <2>9, <2>10
<1> QED
  BY <1>7, <1>8

-----------------------------------------------------------------------------
(* Deposits. *)

OnTime(d) ==
  /\ d.at + d.offset <= d.true
  /\ call.strategy = "roulette" \/ ~ReflectedBeforeEdge(d.history) => d.at + d.offset = d.true
  /\ EdgesOf(d.history) = {} => d.offset = 0

Once(d) == d.kind = "direct" /\ call.rain /\ d.history # <<>> => Last(d.history) # "diffuse"

NotAnImage(d) ==
  d.kind = "direct" /\ call.op # "TraceSurfaces" /\ call.hybrid.enabled
    => ~CoveredByImages(d.history, call.hybrid)

LEMMA DepositsSound ==
  ASSUME call' = call, \A d \in added' : OnTime(d) /\ Once(d) /\ NotAnImage(d)
  PROVE  EarlyOnlyBehindEdges' /\ RainOrRay' /\ GateKeepsImagesOut'
<1>1. EarlyOnlyBehindEdges'
  BY DEF EarlyOnlyBehindEdges, OnTime
<1>2. RainOrRay'
  BY DEF RainOrRay, Once
<1>3. GateKeepsImagesOut'
  BY DEF GateKeepsImagesOut, NotAnImage
<1> QED
  BY <1>1, <1>2, <1>3

LEMMA NothingAdded ==
  ASSUME added' = {}
  PROVE  EarlyOnlyBehindEdges' /\ RainOrRay' /\ GateKeepsImagesOut'
BY DEF EarlyOnlyBehindEdges, RainOrRay, GateKeepsImagesOut

LEMMA SameRays ==
  ASSUME call' = call
  PROVE  Rays' = Rays
BY DEF Rays, Timed, Marked

-----------------------------------------------------------------------------
(* The loop. *)

Looping == pc \in {"segment", "edges", "wall"}

LEMMA LoopFacts ==
  ASSUME RayTypeOK, LoopInv, Looping
  PROVE  /\ call \in Calls /\ call.rain \in BOOLEAN /\ states \in Seq(Rays) /\ cur \in Locals
         /\ cur.state \in RayStates /\ cur.path \in Nat /\ cur.bounce \in Nat
         /\ cur.rainCovered \in BOOLEAN /\ cur.segment \in Nat /\ cur.travelled \in Nat
         /\ Counted(cur.state)
         /\ Timed(cur.path, cur.travelled, cur.state.offset, cur.state.history)
         /\ Marked(cur.rainCovered, cur.state.history)
         /\ cur.state.path <= cur.path
<1>1. /\ cur \in Locals /\ Counted(cur.state)
      /\ Timed(cur.path, cur.travelled, cur.state.offset, cur.state.history)
      /\ Marked(cur.rainCovered, cur.state.history)
      /\ cur.state.path <= cur.path
  BY DEF LoopInv, Looping
<1>2. call \in Calls /\ states \in Seq(Rays)
  BY DEF RayTypeOK, Looping
<1>3. call.rain \in BOOLEAN
  BY <1>2, CallsAssumption
<1>4. /\ cur.state \in RayStates /\ cur.path \in Nat /\ cur.bounce \in Nat
      /\ cur.rainCovered \in BOOLEAN /\ cur.segment \in Nat /\ cur.travelled \in Nat
  BY <1>1 DEF Locals
<1> QED
  BY <1>1, <1>2, <1>3, <1>4

\* The end of the switch over the diffraction mode.
LEMMA Advanced ==
  ASSUME RayTypeOK, LoopInv, pc = "edges", call' = call,
         NEW state \in RayStates, Counted(state), state.path = cur.state.path,
         Timed(cur.path, cur.travelled, state.offset, state.history),
         Marked(cur.rainCovered, state.history),
         Advance(state)
  PROVE  LoopInv' /\ pc' \in {"pop", "wall"}
<1>1. /\ cur \in Locals /\ cur.path \in Nat /\ cur.segment \in Nat /\ cur.travelled \in Nat
      /\ cur.rainCovered \in BOOLEAN /\ cur.bounce \in Nat /\ cur.state \in RayStates
      /\ cur.state.path <= cur.path
  BY LoopFacts DEF Looping
<1>2. PICK path, travelled \in Nat :
        path = cur.path + cur.segment /\ travelled = cur.travelled + cur.segment
  BY <1>1
<1>3. cur' = [cur EXCEPT !.state = state, !.path = path, !.travelled = travelled]
  BY <1>2 DEF Advance
<1>4. /\ cur' \in Locals /\ cur'.state = state /\ cur'.path = path /\ cur'.travelled = travelled
      /\ cur'.rainCovered = cur.rainCovered
  BY <1>1, <1>3 DEF Locals
<1>5. pc' \in {"pop", "wall"}
  BY DEF Advance
<1>6. Timed(path, travelled, state.offset, state.history)
  <2>1. PICK o \in Nat : o = state.offset
    BY RayStateTypes
  <2>2. Timed(cur.path, cur.travelled, o, state.history)
    BY <2>1
  <2>3. Timed(path, travelled, o, state.history)
    BY <1>1, <1>2, <2>2 DEF Timed
  <2> QED
    BY <2>1, <2>3
<1>7. state.path <= path
  BY <1>1, <1>2, RayStateTypes
<1>8. Timed(cur.path, cur.travelled, cur.state.offset, cur.state.history)'
  BY <1>4, <1>6 DEF Timed
<1>9. Marked(cur.rainCovered, cur.state.history)'
  BY <1>4 DEF Marked
<1>10. Counted(cur.state)'
  BY <1>4 DEF Counted
<1> QED
  BY <1>4, <1>5, <1>7, <1>8, <1>9, <1>10 DEF LoopInv

\* The end of a reflection that keeps the ray.
LEMMA Continued ==
  ASSUME RayTypeOK, LoopInv, pc = "wall", call' = call, call.strategy # "roulette",
         NEW state \in RayStates, Counted(state), state.path = cur.state.path,
         Timed(cur.path, cur.travelled, state.offset, state.history), Reflections(state.history) # {},
         NEW energy \in Nat, NEW covered \in BOOLEAN, Marked(covered, state.history),
         Continue(state, energy, covered)
  PROVE  LoopInv' /\ pc' \in {"pop", "segment"}
<1>1. /\ cur \in Locals /\ cur.path \in Nat /\ cur.segment \in Nat /\ cur.travelled \in Nat
      /\ cur.bounce \in Nat /\ cur.state \in RayStates /\ cur.state.path <= cur.path
  BY LoopFacts DEF Looping
<1>2. PICK s : s = [state EXCEPT !.energy = energy]
  OBVIOUS
<1>3. /\ s \in RayStates /\ s.history = state.history /\ s.path = state.path
      /\ s.offset = state.offset /\ s.reflections = state.reflections /\ s.preED = state.preED /\ s.postED = state.postED
      /\ s.edOrder = state.edOrder /\ s.hasDiffuse = state.hasDiffuse
  BY <1>2 DEF RayStates
<1>4. Counted(s)
  BY <1>3 DEF Counted
<1>5. PICK b \in Nat : b = cur.bounce + 1
  BY <1>1
<1>6. cur' = [cur EXCEPT !.state = s, !.rainCovered = covered, !.bounce = b]
  BY <1>2, <1>5 DEF Continue
<1>7. /\ cur' \in Locals /\ cur'.state = s /\ cur'.path = cur.path /\ cur'.travelled = cur.travelled
      /\ cur'.rainCovered = covered
  BY <1>1, <1>3, <1>6 DEF Locals
<1>8. pc' \in {"pop", "segment"}
  BY DEF Continue
<1>9. Timed(cur.path, cur.travelled, cur.state.offset, cur.state.history)'
  BY <1>3, <1>7 DEF Timed
<1>10. Marked(cur.rainCovered, cur.state.history)'
  BY <1>3, <1>7 DEF Marked
<1>11. Counted(cur.state)'
  BY <1>4, <1>7 DEF Counted
<1>12. Reflections(cur'.state.history) # {} /\ cur'.state.path <= cur'.path
  BY <1>1, <1>3, <1>7
<1> QED
  BY <1>7, <1>8, <1>9, <1>10, <1>11, <1>12 DEF LoopInv

-----------------------------------------------------------------------------
(* What the steps of a bounce deposit. *)

LEMMA Arrives ==
  ASSUME NEW kind, NEW s, NEW delay \in Nat, NEW path \in Nat, NEW travelled \in Nat,
         NEW x \in Nat, NEW y \in Nat, NEW o \in Nat, s.offset = o + y,
         Timed(path, travelled, o, s.history), EdgesOf(s.history) = {} => y = 0,
         NEW d, d = Deposit(kind, delay + path + x, delay + travelled + x + y, s)
  PROVE  OnTime(d) /\ d.kind = kind /\ d.history = s.history
<1>1. /\ d.kind = kind /\ d.history = s.history /\ d.offset = o + y
      /\ d.at = delay + path + x /\ d.true = delay + travelled + x + y
  BY DEF Deposit
<1>2. d.at + d.offset <= d.true
  BY <1>1 DEF Timed
<1>3. path + o = travelled => d.at + d.offset = d.true
  BY <1>1
<1>4. EdgesOf(d.history) = {} => d.offset = 0
  BY <1>1 DEF Timed
<1> QED
  BY <1>1, <1>2, <1>3, <1>4 DEF OnTime, Timed

LEMMA DetectedSound ==
  ASSUME RayTypeOK, LoopInv, pc = "segment", NEW length \in Nat, NEW t \in Intersects(length),
         NEW d \in Add(Detected(t))
  PROVE  OnTime(d) /\ Once(d) /\ NotAnImage(d)
<1>1. /\ call \in Calls /\ cur.state \in RayStates /\ cur.path \in Nat /\ cur.travelled \in Nat
      /\ cur.rainCovered \in BOOLEAN /\ Counted(cur.state)
      /\ Timed(cur.path, cur.travelled, cur.state.offset, cur.state.history)
      /\ Marked(cur.rainCovered, cur.state.history)
  BY LoopFacts DEF Looping
<1>2. PICK e \in DOMAIN t :
        /\ ~cur.rainCovered /\ DetectionAllowedHybrid(cur.state, call)
        /\ d = Deposit("direct", cur.state.delay + cur.path + t[e],
                       cur.state.delay + cur.travelled + t[e], cur.state)
  BY DEF Add, Detected
<1>3. t[e] \in Nat /\ cur.state.delay \in Nat
  BY <1>1, <1>2, RayStateTypes DEF Intersects
<1>4. OnTime(d) /\ d.kind = "direct" /\ d.history = cur.state.history
  <2>1. PICK s, delay, path, travelled, o, x, y :
          /\ s = cur.state /\ delay = cur.state.delay /\ path = cur.path
          /\ travelled = cur.travelled /\ o = cur.state.offset /\ x = t[e] /\ y = 0
    OBVIOUS
  <2>2. /\ delay \in Nat /\ path \in Nat /\ travelled \in Nat /\ o \in Nat /\ x \in Nat /\ y \in Nat
        /\ s.offset = o + y /\ Timed(path, travelled, o, s.history)
        /\ EdgesOf(s.history) = {} => y = 0
    BY <1>1, <1>3, <2>1, RayStateTypes
  <2>3. d = Deposit("direct", delay + path + x, delay + travelled + x + y, s)
    <3>1. delay + travelled + x = delay + travelled + x + y
      BY <2>1, <2>2
    <3> QED
      BY <1>2, <2>1, <3>1
  <2>4. OnTime(d)
    BY <2>2, <2>3, Arrives
  <2>5. d.kind = "direct" /\ d.history = s.history
    BY <2>3 DEF Deposit
  <2> QED
    BY <2>1, <2>4, <2>5
<1>5. Once(d)
  BY <1>1, <1>2, <1>4 DEF Once, Marked
<1>6. NotAnImage(d)
  BY <1>1, <1>2, <1>4, GateSound DEF NotAnImage
<1> QED
  BY <1>4, <1>5, <1>6

LEMMA RainSound ==
  ASSUME RayTypeOK, LoopInv, pc = "wall", NEW remaining, NEW scatter,
         NEW r \in [Targets(call) -> {0} \cup Distances],
         NEW d \in Rain(remaining, scatter, r)
  PROVE  OnTime(d) /\ Once(d) /\ NotAnImage(d)
<1>1. /\ cur.state \in RayStates /\ cur.path \in Nat /\ cur.travelled \in Nat
      /\ Timed(cur.path, cur.travelled, cur.state.offset, cur.state.history)
  BY LoopFacts DEF Looping
<1>2. PICK e \in DOMAIN r :
        d = Deposit("rain", cur.state.delay + cur.path + r[e],
                    cur.state.delay + cur.travelled + r[e], cur.state)
  BY DEF Rain, Add, InSight
<1>3. r[e] \in Nat /\ cur.state.delay \in Nat
  BY <1>1, <1>2, RayStateTypes, LengthsAssumption
<1>4. OnTime(d) /\ d.kind = "rain"
  <2>1. PICK s, delay, path, travelled, o, x, y :
          /\ s = cur.state /\ delay = cur.state.delay /\ path = cur.path
          /\ travelled = cur.travelled /\ o = cur.state.offset /\ x = r[e] /\ y = 0
    OBVIOUS
  <2>2. /\ delay \in Nat /\ path \in Nat /\ travelled \in Nat /\ o \in Nat /\ x \in Nat /\ y \in Nat
        /\ s.offset = o + y /\ Timed(path, travelled, o, s.history)
        /\ EdgesOf(s.history) = {} => y = 0
    BY <1>1, <1>3, <2>1, RayStateTypes
  <2>3. d = Deposit("rain", delay + path + x, delay + travelled + x + y, s)
    <3>1. delay + travelled + x = delay + travelled + x + y
      BY <2>1, <2>2
    <3> QED
      BY <1>2, <2>1, <3>1
  <2>4. OnTime(d)
    BY <2>2, <2>3, Arrives
  <2>5. d.kind = "rain"
    BY <2>3 DEF Deposit
  <2> QED
    BY <2>4, <2>5
<1> QED
  BY <1>4 DEF Once, NotAnImage

-----------------------------------------------------------------------------
(* The steps. *)

LEMMA RayInit ==
  Init => RayIInv
<1> SUFFICES ASSUME Init PROVE RayIInv
  OBVIOUS
<1>1. RayTypeOK /\ LoopInv
  BY DEF Init, RayTypeOK, LoopInv
<1>2. EarlyOnlyBehindEdges /\ RainOrRay /\ GateKeepsImagesOut
  BY DEF Init, EarlyOnlyBehindEdges, RainOrRay, GateKeepsImagesOut
<1> QED
  BY <1>1, <1>2 DEF RayIInv

\* A ray that is launched has met nothing.
LEMMA NewStateCounted ==
  ASSUME NEW delay \in Nat, NEW s, s = NewState(delay)
  PROVE  s \in RayStates /\ Counted(s) /\ s.path = 0 /\ s.travelled = 0 /\ s.offset = 0
         /\ s.history = <<>>
<1>1. <<>> \in Histories /\ DOMAIN <<>> = {}
  BY DEF Histories
<1>2. PICK h \in Histories : h = <<>>
  BY <1>1
<1>3. s = [energy |-> Energy, path |-> 0, delay |-> delay, bounces |-> 0,
           rainCovered |-> FALSE, hasDiffuse |-> FALSE, allow |-> FALSE,
           reflections |-> 0, preED |-> 0, postED |-> 0, edOrder |-> 0,
           travelled |-> 0, offset |-> 0, history |-> h]
  BY <1>2 DEF NewState
<1>4. s \in RayStates
  BY <1>3, LengthsAssumption DEF RayStates
<1>5. /\ s.path = 0 /\ s.travelled = 0 /\ s.offset = 0 /\ s.history = h /\ s.reflections = 0 /\ s.preED = 0
      /\ s.postED = 0 /\ s.edOrder = 0 /\ s.hasDiffuse = FALSE
  BY <1>3
<1>6. /\ Reflections(h) = {} /\ EdgesOf(h) = {} /\ BeforeEdges(h) = {} /\ BehindEdge(h) = {}
  BY <1>1, <1>2 DEF Reflections, EdgesOf, BeforeEdges, BehindEdge
<1>7. Cardinality({}) = 0
  BY FS_EmptySet
<1>8. ~\E i \in DOMAIN h : h[i] = "diffuse"
  BY <1>1, <1>2
<1>9. Counted(s)
  BY <1>5, <1>6, <1>7, <1>8 DEF Counted
<1> QED
  BY <1>2, <1>4, <1>5, <1>9

LEMMA LaunchKeeps ==
  ASSUME RayIInv, NEW c \in Calls, Launch(c)
  PROVE  RayIInv'
<1>1. /\ pc = "idle" /\ call' = c /\ states' \in LaunchStates(c) /\ pc' = "pop"
      /\ added' = added /\ c.numRays \in Int /\ c.numRays > 0
  BY CallsAssumption DEF Launch, Accepted
<1>2. PICK n \in 0 .. c.numRays : \E d \in [1 .. n -> Nat] : states' = [i \in 1 .. n |-> NewState(d[i])]
  <2>1. CASE c.op = "TraceSecondary"
    <3>1. PICK n \in 0 .. c.numRays, f \in [1 .. c.numRays -> {t \in Delays : t < c.maxTime}] :
            states' = [i \in 1 .. n |-> NewState(f[i])]
      BY <1>1, <2>1 DEF LaunchStates
    <3>2. PICK d : d = [i \in 1 .. n |-> f[i]]
      OBVIOUS
    <3>3. d \in [1 .. n -> Nat] /\ \A i \in 1 .. n : d[i] = f[i]
      BY <1>1, <3>1, <3>2, LengthsAssumption
    <3>4. states' = [i \in 1 .. n |-> NewState(d[i])]
      BY <3>1, <3>3
    <3> QED
      BY <3>1, <3>3, <3>4
  <2>2. CASE c.op # "TraceSecondary"
    <3>1. PICK d : d = [i \in 1 .. c.numRays |-> 0]
      OBVIOUS
    <3>2. d \in [1 .. c.numRays -> Nat] /\ \A i \in 1 .. c.numRays : d[i] = 0
      BY <3>1
    <3>3. states' = [i \in 1 .. c.numRays |-> NewState(0)]
      BY <1>1, <2>2 DEF LaunchStates
    <3>4. states' = [i \in 1 .. c.numRays |-> NewState(d[i])]
      BY <3>2, <3>3
    <3>5. c.numRays \in 0 .. c.numRays
      BY <1>1
    <3> QED
      BY <3>2, <3>4, <3>5
  <2> QED
    BY <2>1, <2>2
<1> PICK d \in [1 .. n -> Nat] : states' = [i \in 1 .. n |-> NewState(d[i])]
  BY <1>2
<1>3. ASSUME NEW i \in 1 .. n
      PROVE  NewState(d[i]) \in Rays'
  <2>1. PICK s : s = NewState(d[i])
    OBVIOUS
  <2>2. /\ s \in RayStates /\ Counted(s) /\ s.path = 0 /\ s.travelled = 0 /\ s.offset = 0
         /\ s.history = <<>>
    <3>1. d[i] \in Nat
      BY <1>2
    <3> QED
      BY <2>1, <3>1, NewStateCounted
  <2>3. Timed(s.path, s.travelled, s.offset, s.history)' /\ Marked(s.rainCovered, s.history)'
    BY <2>2 DEF Timed, Marked
  <2> QED
    BY <2>1, <2>2, <2>3 DEF Rays, Counted
<1>4. states' \in Seq(Rays')
  <2>1. n \in Nat
    BY <1>1, <1>2
  <2> HIDE DEF Rays
  <2>2. states' \in [1 .. n -> Rays']
    BY <1>2, <1>3
  <2> QED
    BY <2>1, <2>2
<1>5. added' = {}
  BY <1>1 DEF RayIInv, RayTypeOK
<1>6. EarlyOnlyBehindEdges' /\ RainOrRay' /\ GateKeepsImagesOut'
  BY <1>5, NothingAdded
<1>7. LoopInv'
  BY <1>1 DEF LoopInv
<1>8. RayTypeOK'
  BY <1>1, <1>4 DEF RayTypeOK
<1> QED
  BY <1>6, <1>7, <1>8 DEF RayIInv

LEMMA RefuseKeeps ==
  ASSUME RayIInv, NEW c \in Calls, Refuse(c)
  PROVE  RayIInv'
<1>1. pc = "idle" /\ call' = c /\ pc' = "failed" /\ added' = added
  BY DEF Refuse
<1>2. added' = {}
  BY <1>1 DEF RayIInv, RayTypeOK
<1>3. EarlyOnlyBehindEdges' /\ RainOrRay' /\ GateKeepsImagesOut'
  BY <1>2, NothingAdded
<1>4. LoopInv' /\ RayTypeOK'
  BY <1>1, <1>2 DEF LoopInv, RayTypeOK
<1> QED
  BY <1>3, <1>4 DEF RayIInv

LEMMA PopKeeps ==
  ASSUME RayIInv, Pop
  PROVE  RayIInv'
<1>1. /\ pc = "pop" /\ states # <<>> /\ states' = Front(states) /\ added' = {} /\ call' = call
      /\ call \in Calls /\ states \in Seq(Rays)
  BY DEF Pop, RayIInv, RayTypeOK
<1>2. PICK s : s = Last(states)
  OBVIOUS
<1>3. s \in Rays /\ states' \in Seq(Rays)
  <2> HIDE DEF Rays
  <2>1. Len(states) \in Nat /\ Len(states) # 0
    BY <1>1, EmptySeq
  <2>2. s \in Rays
    BY <1>1, <1>2, <2>1, ElementOfSeq DEF Last
  <2>3. SubSeq(states, 1, Len(states) - 1) \in Seq(Rays)
    BY <1>1, <2>1
  <2> QED
    BY <1>1, <2>2, <2>3 DEF Front
<1>4. states' \in Seq(Rays')
  BY <1>1, <1>3, SameRays
<1>5. EarlyOnlyBehindEdges' /\ RainOrRay' /\ GateKeepsImagesOut'
  BY <1>1, NothingAdded
<1>6. CASE UNCHANGED <<pc, cur>>
  <2>1. LoopInv'
    BY <1>1, <1>6 DEF LoopInv
  <2>2. RayTypeOK'
    BY <1>1, <1>4, <1>6 DEF RayTypeOK
  <2> QED
    BY <1>5, <2>1, <2>2 DEF RayIInv
<1>7. CASE /\ cur' = [state |-> s, path |-> s.path, bounce |-> s.bounces,
                      rainCovered |-> s.rainCovered, segment |-> 0, travelled |-> s.travelled]
           /\ pc' = "segment"
  <2>1. /\ s \in RayStates /\ Counted(s) /\ Timed(s.path, s.travelled, s.offset, s.history)
        /\ Marked(s.rainCovered, s.history)
    BY <1>3 DEF Rays
  <2>2. /\ s.path \in Nat /\ s.bounces \in Nat /\ s.rainCovered \in BOOLEAN /\ s.travelled \in Nat
    BY <2>1, RayStateTypes
  <2>3. /\ cur'.state = s /\ cur'.path = s.path /\ cur'.rainCovered = s.rainCovered
        /\ cur'.travelled = s.travelled
    BY <1>7
  <2>4. cur' \in Locals
    BY <1>7, <2>1, <2>2 DEF Locals
  <2>5. Timed(cur.path, cur.travelled, cur.state.offset, cur.state.history)'
    BY <1>1, <2>1, <2>3 DEF Timed
  <2>6. Marked(cur.rainCovered, cur.state.history)'
    BY <1>1, <2>1, <2>3 DEF Marked
  <2>7. Counted(cur.state)'
    BY <2>1, <2>3 DEF Counted
  <2>8. LoopInv'
    BY <2>2, <2>3, <2>4, <2>5, <2>6, <2>7 DEF LoopInv
  <2>9. RayTypeOK'
    BY <1>1, <1>4, <1>7 DEF RayTypeOK
  <2> QED
    BY <1>5, <2>8, <2>9 DEF RayIInv
<1> QED
  BY <1>2, <1>6, <1>7 DEF Pop

LEMMA LeaveKeeps ==
  ASSUME RayIInv, Return \/ LeaveLoop
  PROVE  RayIInv'
<1>1. /\ pc \in {"pop", "segment"} /\ call' = call /\ states' = states /\ added' = {}
      /\ pc' \in {"returned", "pop"} /\ call \in Calls /\ states \in Seq(Rays)
  BY DEF Return, LeaveLoop, RayIInv, RayTypeOK
<1>2. EarlyOnlyBehindEdges' /\ RainOrRay' /\ GateKeepsImagesOut'
  BY <1>1, NothingAdded
<1>3. LoopInv'
  BY <1>1 DEF LoopInv
<1>4. states' \in Seq(Rays')
  BY <1>1, SameRays
<1>5. RayTypeOK'
  BY <1>1, <1>4 DEF RayTypeOK
<1> QED
  BY <1>2, <1>3, <1>5 DEF RayIInv

LEMMA SegmentKeeps ==
  ASSUME RayIInv, NEW length \in NextHit, NEW t \in Intersects(length), Segment(length, t)
  PROVE  RayIInv'
<1>1. /\ pc = "segment" /\ cur' = [cur EXCEPT !.segment = length] /\ added' = Add(Detected(t))
      /\ pc' = "edges" /\ call' = call /\ states' = states
  BY DEF Segment
<1>2. /\ cur \in Locals /\ call \in Calls /\ states \in Seq(Rays) /\ LoopInv /\ RayTypeOK
  BY <1>1, LoopFacts DEF RayIInv, Looping
<1>3. length \in Nat
  BY LengthsAssumption DEF NextHit
<1>4. \A d \in added' : OnTime(d) /\ Once(d) /\ NotAnImage(d)
  BY <1>1, <1>2, <1>3, DetectedSound
<1>5. EarlyOnlyBehindEdges' /\ RainOrRay' /\ GateKeepsImagesOut'
  BY <1>1, <1>4, DepositsSound
<1>6. /\ cur' \in Locals /\ cur'.state = cur.state /\ cur'.path = cur.path
      /\ cur'.travelled = cur.travelled /\ cur'.rainCovered = cur.rainCovered
  BY <1>1, <1>2, <1>3 DEF Locals
<1>7. LoopInv'
  BY <1>1, <1>2, <1>6 DEF LoopInv, Timed, Marked, Counted
<1>8. states' \in Seq(Rays')
  BY <1>1, <1>2, SameRays
<1>9. RayTypeOK'
  BY <1>1, <1>2, <1>8 DEF RayTypeOK
<1> QED
  BY <1>5, <1>7, <1>9 DEF RayIInv

LEMMA NoEdgeKeeps ==
  ASSUME RayIInv, NoEdge
  PROVE  RayIInv'
<1>1. /\ pc = "edges" /\ Advance(cur.state) /\ added' = {} /\ call' = call /\ states' = states
      /\ RayTypeOK /\ LoopInv
  BY DEF NoEdge, RayIInv
<1>2. /\ call \in Calls /\ states \in Seq(Rays) /\ cur.state \in RayStates /\ Counted(cur.state)
      /\ Timed(cur.path, cur.travelled, cur.state.offset, cur.state.history)
      /\ Marked(cur.rainCovered, cur.state.history)
  BY <1>1, LoopFacts DEF Looping
<1>3. LoopInv' /\ pc' \in {"pop", "wall"}
  <2>1. PICK s : s = cur.state
    OBVIOUS
  <2>2. /\ s \in RayStates /\ Counted(s) /\ s.path = cur.state.path
        /\ s.offset = cur.state.offset /\ Timed(cur.path, cur.travelled, s.offset, s.history)
        /\ Marked(cur.rainCovered, s.history) /\ Advance(s)
    BY <1>1, <1>2, <2>1
  <2> QED
    BY <1>1, <2>2, Advanced
<1>4. EarlyOnlyBehindEdges' /\ RainOrRay' /\ GateKeepsImagesOut'
  BY <1>1, NothingAdded
<1>5. states' \in Seq(Rays')
  BY <1>1, <1>2, SameRays
<1>6. RayTypeOK'
  BY <1>1, <1>2, <1>3, <1>5 DEF RayTypeOK
<1> QED
  BY <1>3, <1>4, <1>6 DEF RayIInv

\* Sound that meets an edge: on time both on the path of the loop, and on the path
\* the loop was given, which is behind after a wall.
LEMMA EdgeTimed ==
  ASSUME RayTypeOK, LoopInv, pc = "edges", NEW g, g = Append(cur.state.history, "edge")
  PROVE  /\ Timed(cur.path, cur.travelled, cur.state.offset, g)
         /\ Timed(cur.state.path, cur.travelled, cur.state.offset, g)
         /\ EdgesOf(g) # {} /\ g # <<>> /\ Last(g) = "edge"
<1>1. /\ cur.state \in RayStates /\ cur.path \in Nat /\ cur.travelled \in Nat
      /\ Timed(cur.path, cur.travelled, cur.state.offset, cur.state.history)
      /\ cur.state.path <= cur.path
  BY LoopFacts DEF Looping
<1>2. PICK h \in Histories : h = cur.state.history
  BY <1>1, RayStateTypes
<1>3. PICK o \in Nat : o = cur.state.offset
  BY <1>1, RayStateTypes
<1>4. ReflectedBeforeEdge(g) <=> Reflections(h) # {}
  BY <1>2, EdgeMet
<1>5. EdgesOf(g) # {}
  BY <1>2, EdgeMet
<1>6. ReflectedBeforeEdge(h) => Reflections(h) # {}
  BY DEF ReflectedBeforeEdge
<1>7. call.strategy = "roulette" \/ Reflections(h) = {} => cur.path = cur.state.path
  BY <1>2 DEF LoopInv
<1>8. cur.path + o <= cur.travelled
  BY <1>1, <1>3 DEF Timed
<1>9. call.strategy = "roulette" \/ Reflections(h) = {} => cur.path + o = cur.travelled
  BY <1>1, <1>2, <1>3, <1>6 DEF Timed
<1>10. Timed(cur.path, cur.travelled, o, g)
  BY <1>4, <1>5, <1>8, <1>9 DEF Timed
<1>11. Timed(cur.state.path, cur.travelled, o, g)
  <2>1. cur.state.path + o <= cur.travelled
    <3>1. cur.state.path \in Nat
      BY <1>1, RayStateTypes
    <3> QED
      BY <1>1, <1>8, <3>1
  <2> QED
    BY <1>4, <1>5, <1>7, <1>9, <2>1 DEF Timed
<1>12. g # <<>> /\ Last(g) = "edge"
  BY <1>2, Extended DEF Events
<1> QED
  BY <1>3, <1>5, <1>10, <1>11, <1>12

LEMMA SpawnKeeps ==
  ASSUME RayIInv, NEW edge \in Edges, NEW offset \in Offsets, NEW n \in 1 .. MaxCone,
         NEW loss \in 0 .. 1, SpawnDiffractionBranches(edge, offset, n, loss)
  PROVE  RayIInv'
<1>1. PICK s, energy, child :
        /\ s = [cur.state EXCEPT !.travelled = cur.travelled]
        /\ energy = cur.state.energy - loss
        /\ child = DiffractedChildState(s, edge, offset, energy)
  OBVIOUS
<1>2. /\ pc = "edges" /\ energy > 0 /\ added' = {} /\ call' = call
      /\ states' = states \o [i \in 1 .. n |-> child]
      /\ Advance(cur.state) /\ RayTypeOK /\ LoopInv
  BY <1>1 DEF SpawnDiffractionBranches, RayIInv
<1>3. /\ call \in Calls /\ states \in Seq(Rays) /\ cur.state \in RayStates /\ Counted(cur.state)
      /\ cur.segment \in Nat /\ cur.travelled \in Nat
      /\ Timed(cur.path, cur.travelled, cur.state.offset, cur.state.history)
      /\ Marked(cur.rainCovered, cur.state.history)
  BY <1>2, LoopFacts DEF Looping
<1>4. /\ edge \in Nat /\ cur.state.path \in Nat /\ cur.state.energy \in Nat
      /\ offset \in Nat /\ cur.state.offset \in Nat
  BY <1>3, RayStateTypes, LengthsAssumption DEF Edges
<1>5. energy \in Nat
  BY <1>1, <1>2, <1>4
<1>6. /\ s \in RayStates /\ s.history = cur.state.history /\ s.travelled = cur.travelled
      /\ s.path = cur.state.path /\ s.offset = cur.state.offset /\ Counted(s)
  <2>1. PICK z, w : z = cur.state /\ w = cur.travelled
    OBVIOUS
  <2>2. w \in Nat /\ z \in RayStates /\ s = [z EXCEPT !.travelled = w] /\ Counted(z)
    BY <1>1, <1>3, <2>1
  <2>3. /\ s \in RayStates /\ s.history = z.history /\ s.travelled = w /\ s.path = z.path
        /\ s.offset = z.offset /\ s.reflections = z.reflections /\ s.preED = z.preED /\ s.postED = z.postED
        /\ s.edOrder = z.edOrder /\ s.hasDiffuse = z.hasDiffuse
    BY <2>2 DEF RayStates
  <2>4. Counted(s)
    BY <2>2, <2>3 DEF Counted
  <2> QED
    BY <2>1, <2>3, <2>4
<1>7. PICK a : a = AdvanceStateAfterDiffraction(s)
  OBVIOUS
<1>8. /\ a \in RayStates /\ Counted(a) /\ a.path = s.path /\ a.travelled = s.travelled
      /\ a.offset = s.offset /\ a.history = Append(s.history, "edge")
  BY <1>6, <1>7, DiffractionCounted
<1>9. PICK path, travelled, away :
        path = a.path + edge /\ travelled = a.travelled + edge + offset /\ away = a.offset + offset
  OBVIOUS
<1>10. PICK b \in Nat : b = a.bounces + 1
  BY <1>8, RayStateTypes
<1>11. a.path \in Nat /\ a.travelled \in Nat /\ a.offset \in Nat
  BY <1>8, RayStateTypes
<1>12. path \in Nat
  BY <1>4, <1>9, <1>11
<1>13. travelled \in Nat
  BY <1>4, <1>9, <1>11
<1>14. away \in Nat
  BY <1>4, <1>9, <1>11
<1>15. child = [a EXCEPT !.rainCovered = FALSE, !.energy = energy, !.path = path,
                         !.bounces = b, !.travelled = travelled, !.offset = away]
  BY <1>1, <1>7, <1>9, <1>10 DEF DiffractedChildState
<1>16. /\ child \in RayStates /\ child.history = a.history /\ child.path = path
       /\ child.travelled = travelled /\ child.offset = away /\ child.reflections = a.reflections
       /\ child.preED = a.preED /\ child.postED = a.postED
       /\ child.edOrder = a.edOrder /\ child.hasDiffuse = a.hasDiffuse
  BY <1>5, <1>8, <1>10, <1>15, <1>12, <1>13, <1>14 DEF RayStates
<1>17. Counted(child)
  BY <1>8, <1>16 DEF Counted
<1>18. PICK g : g = Append(cur.state.history, "edge")
  OBVIOUS
<1>19. /\ Timed(cur.state.path, cur.travelled, cur.state.offset, g)
       /\ EdgesOf(g) # {} /\ g # <<>> /\ Last(g) = "edge"
  BY <1>2, <1>18, EdgeTimed
<1>20. child.history = g
  BY <1>6, <1>8, <1>16, <1>18
<1>21. Timed(path, travelled, away, g)
  <2>1. /\ path = cur.state.path + edge /\ travelled = cur.travelled + edge + offset
        /\ away = cur.state.offset + offset
    BY <1>6, <1>8, <1>9
  <2>2. PICK p, w, o : p = cur.state.path /\ w = cur.travelled /\ o = cur.state.offset
    OBVIOUS
  <2>3. p \in Nat /\ w \in Nat /\ o \in Nat /\ Timed(p, w, o, g) /\ EdgesOf(g) # {}
    BY <1>3, <1>4, <1>19, <2>2
  <2>4. path = p + edge /\ travelled = w + edge + offset /\ away = o + offset
    BY <2>1, <2>2
  <2> QED
    BY <1>4, <2>3, <2>4 DEF Timed
<1>22. child \in Rays
  BY <1>16, <1>17, <1>19, <1>20, <1>21 DEF Rays, Marked
<1>23. states' \in Seq(Rays')
  <2> HIDE DEF Rays
  <2>1. PICK f : f = [i \in 1 .. n |-> child]
    OBVIOUS
  <2>2. f \in Seq(Rays)
    BY <1>22, <2>1, LengthsAssumption
  <2>3. states' \in Seq(Rays)
    BY <1>2, <1>3, <2>1, <2>2, ConcatProperties
  <2> QED
    BY <1>2, <2>3, SameRays
<1>24. LoopInv' /\ pc' \in {"pop", "wall"}
  <2>1. PICK z : z = cur.state
    OBVIOUS
  <2>2. /\ z \in RayStates /\ Counted(z) /\ z.path = cur.state.path
        /\ z.offset = cur.state.offset /\ Timed(cur.path, cur.travelled, z.offset, z.history)
        /\ Marked(cur.rainCovered, z.history) /\ Advance(z)
    BY <1>2, <1>3, <2>1
  <2> QED
    BY <1>2, <2>2, Advanced
<1>25. EarlyOnlyBehindEdges' /\ RainOrRay' /\ GateKeepsImagesOut'
  BY <1>2, NothingAdded
<1>26. RayTypeOK'
  BY <1>2, <1>3, <1>23, <1>24 DEF RayTypeOK
<1> QED
  BY <1>24, <1>25, <1>26 DEF RayIInv

LEMMA DapdfKeeps ==
  ASSUME RayIInv, NEW edge \in Edges, NEW offset \in Offsets,
         NEW reach \in SUBSET DapdfForward(EffectiveMaxDiffractionDepth(call)),
         DapdfRainForSegment(edge, offset, reach)
  PROVE  RayIInv'
<1>1. PICK s, atEdge :
        /\ s = AdvanceStateAfterDiffraction(cur.state)
        /\ atEdge = [s EXCEPT !.offset = @ + offset]
  OBVIOUS
<1>2. PICK deposits :
        deposits = {Deposit("diffracted", cur.state.delay + cur.state.path + edge + r,
                            cur.state.delay + cur.travelled + edge + offset + r, atEdge) : r \in reach}
  OBVIOUS
<1>3. /\ pc = "edges" /\ added' = Add(deposits) /\ call' = call /\ states' = states
      /\ Advance(cur.state) \/ Advance(s)
      /\ RayTypeOK /\ LoopInv
  BY <1>1, <1>2 DEF DapdfRainForSegment, RayIInv
<1>4. /\ call \in Calls /\ states \in Seq(Rays) /\ cur.state \in RayStates /\ Counted(cur.state)
      /\ cur.segment \in Nat /\ cur.travelled \in Nat
      /\ Timed(cur.path, cur.travelled, cur.state.offset, cur.state.history)
      /\ Marked(cur.rainCovered, cur.state.history)
  BY <1>3, LoopFacts DEF Looping
<1>5. /\ edge \in Nat /\ cur.state.path \in Nat /\ cur.state.delay \in Nat
      /\ offset \in Nat /\ cur.state.offset \in Nat
  BY <1>4, RayStateTypes, LengthsAssumption DEF Edges
<1>6. reach \subseteq Nat
  <2>1. PICK depth \in Nat : depth > 0 /\ depth = EffectiveMaxDiffractionDepth(call)
    BY <1>4, CallsAssumption DEF EffectiveMaxDiffractionDepth
  <2> QED
    BY <2>1, ForwardLengths
<1>7. PICK g : g = Append(cur.state.history, "edge")
  OBVIOUS
<1>8. /\ Timed(cur.path, cur.travelled, cur.state.offset, g)
      /\ Timed(cur.state.path, cur.travelled, cur.state.offset, g)
      /\ EdgesOf(g) # {} /\ g # <<>> /\ Last(g) = "edge"
  BY <1>3, <1>7, EdgeTimed
<1>9. /\ s \in RayStates /\ Counted(s) /\ s.path = cur.state.path /\ s.history = g
      /\ s.offset = cur.state.offset
  BY <1>1, <1>4, <1>7, DiffractionCounted
<1>10. ASSUME NEW d \in added'
       PROVE  OnTime(d) /\ Once(d) /\ NotAnImage(d)
  <2>1. PICK r \in reach :
          d = Deposit("diffracted", cur.state.delay + cur.state.path + edge + r,
                      cur.state.delay + cur.travelled + edge + offset + r, atEdge)
    BY <1>2, <1>3 DEF Add
  <2>2. PICK delay, path, travelled, o, x :
          /\ delay = cur.state.delay /\ path = cur.state.path /\ o = cur.state.offset
          /\ travelled = cur.travelled /\ x = edge + r
    OBVIOUS
  <2>3. atEdge.history = g /\ atEdge.offset = o + offset
    BY <1>1, <1>9, <2>2 DEF RayStates
  <2>4. /\ delay \in Nat /\ path \in Nat /\ travelled \in Nat /\ o \in Nat /\ x \in Nat
        /\ Timed(path, travelled, o, atEdge.history) /\ EdgesOf(atEdge.history) # {}
    BY <1>4, <1>5, <1>6, <1>8, <2>2, <2>3
  <2>5. d = Deposit("diffracted", delay + path + x, delay + travelled + x + offset, atEdge)
    <3>1. /\ cur.state.delay + cur.state.path + edge + r = delay + path + x
          /\ cur.state.delay + cur.travelled + edge + offset + r = delay + travelled + x + offset
      BY <1>4, <1>5, <1>6, <2>2
    <3> QED
      BY <2>1, <3>1
  <2>6. OnTime(d)
    BY <1>5, <2>3, <2>4, <2>5, Arrives
  <2>7. d.kind = "diffracted"
    BY <2>5 DEF Deposit
  <2> QED
    BY <2>6, <2>7 DEF Once, NotAnImage
<1>11. EarlyOnlyBehindEdges' /\ RainOrRay' /\ GateKeepsImagesOut'
  BY <1>3, <1>10, DepositsSound
<1>12. LoopInv' /\ pc' \in {"pop", "wall"}
  <2>1. CASE Advance(cur.state)
    <3>1. PICK z : z = cur.state
      OBVIOUS
    <3>2. /\ z \in RayStates /\ Counted(z) /\ z.path = cur.state.path
          /\ z.offset = cur.state.offset /\ Timed(cur.path, cur.travelled, z.offset, z.history)
          /\ Marked(cur.rainCovered, z.history) /\ Advance(z)
      BY <1>4, <2>1, <3>1
    <3> QED
      BY <1>3, <3>2, Advanced
  <2>2. CASE Advance(s)
    <3>1. /\ Timed(cur.path, cur.travelled, s.offset, s.history)
          /\ Marked(cur.rainCovered, s.history)
      BY <1>8, <1>9 DEF Marked
    <3> QED
      BY <1>3, <1>9, <2>2, <3>1, Advanced
  <2> QED
    BY <1>3, <2>1, <2>2
<1>13. states' \in Seq(Rays')
  BY <1>3, <1>4, SameRays
<1>14. RayTypeOK'
  BY <1>3, <1>4, <1>12, <1>13 DEF RayTypeOK
<1> QED
  BY <1>11, <1>12, <1>14 DEF RayIInv

\* splitReflectionEnergy gives an energy.
LEMMA RemainingIsEnergy ==
  ASSUME RayTypeOK, LoopInv, pc = "wall", NEW absorbed \in 0 .. 1
  PROVE  Remaining(absorbed) \in Nat
<1>1. cur.state \in RayStates
  BY LoopFacts DEF Looping
<1>2. PICK e \in Nat : e = cur.state.energy
  BY <1>1, RayStateTypes
<1> QED
  BY <1>2 DEF Remaining

\* A reflection of the ray in its loop.
LEMMA ReflectKeeps ==
  ASSUME RayIInv, pc = "wall", call.strategy # "roulette", call' = call, states' = states,
         NEW absorbed \in 0 .. 1, NEW scatter, NEW diffuse \in BOOLEAN, NEW covered \in BOOLEAN,
         NEW r \in [Targets(call) -> {0} \cup Distances],
         call.rain /\ diffuse => covered,
         added' = Rain(Remaining(absorbed), scatter, r),
         Continue(AdvanceStateAfterReflection(cur.state, diffuse), Remaining(absorbed), covered)
  PROVE  RayIInv'
<1>1. RayTypeOK /\ LoopInv
  BY DEF RayIInv
<1>2. /\ call \in Calls /\ states \in Seq(Rays) /\ cur.state \in RayStates /\ Counted(cur.state)
      /\ Timed(cur.path, cur.travelled, cur.state.offset, cur.state.history)
  BY <1>1, LoopFacts DEF Looping
<1>3. PICK h \in Histories : h = cur.state.history
  BY <1>2, RayStateTypes
<1>4. PICK x \in {"specular", "diffuse"} : x = IF diffuse THEN "diffuse" ELSE "specular"
  OBVIOUS
<1>5. PICK a : a = AdvanceStateAfterReflection(cur.state, diffuse)
  OBVIOUS
<1>6. PICK g : g = Append(h, x)
  OBVIOUS
<1>7. /\ a \in RayStates /\ Counted(a) /\ a.path = cur.state.path /\ a.history = g
      /\ a.offset = cur.state.offset
  BY <1>2, <1>3, <1>4, <1>5, <1>6, ReflectionCounted
<1>8. /\ ReflectedBeforeEdge(g) <=> ReflectedBeforeEdge(h)
      /\ Reflections(g) = Reflections(h) \cup {Len(h) + 1} /\ EdgesOf(g) = EdgesOf(h)
  BY <1>6, WallMet
<1>9. Last(g) = x
  BY <1>4, <1>6, Extended DEF Events
<1>10. Timed(cur.path, cur.travelled, a.offset, a.history)
  BY <1>2, <1>3, <1>7, <1>8 DEF Timed
<1>11. Marked(covered, a.history)
  BY <1>4, <1>7, <1>9 DEF Marked
<1>12. Remaining(absorbed) \in Nat
  BY <1>1, RemainingIsEnergy
<1>13. LoopInv' /\ pc' \in {"pop", "segment"}
  <2>1. PICK e \in Nat : e = Remaining(absorbed)
    BY <1>12
  <2>2. Continue(a, e, covered) /\ Reflections(a.history) # {}
    BY <1>5, <1>7, <1>8, <2>1
  <2> QED
    BY <1>1, <1>7, <1>10, <1>11, <2>2, Continued
<1>14. \A d \in added' : OnTime(d) /\ Once(d) /\ NotAnImage(d)
  BY <1>1, RainSound
<1>15. EarlyOnlyBehindEdges' /\ RainOrRay' /\ GateKeepsImagesOut'
  BY <1>14, DepositsSound
<1>16. states' \in Seq(Rays')
  BY <1>2, SameRays
<1>17. RayTypeOK'
  BY <1>2, <1>13, <1>16 DEF RayTypeOK
<1> QED
  BY <1>13, <1>15, <1>17 DEF RayIInv

LEMMA BlendKeeps ==
  ASSUME RayIInv, NEW absorbed \in 0 .. 1, NEW scatter \in 0 .. 2,
         NEW r \in [Targets(call) -> {0} \cup Distances], ReflectBlend(absorbed, scatter, r)
  PROVE  RayIInv'
<1>1. /\ pc = "wall" /\ call.strategy = "blend" /\ call' = call /\ states' = states
      /\ added' = Rain(Remaining(absorbed), scatter, r)
      /\ Continue(AdvanceStateAfterReflection(cur.state, scatter > 0), Remaining(absorbed), call.rain)
  BY DEF ReflectBlend
<1>2. call.rain \in BOOLEAN
  BY <1>1, LoopFacts DEF RayIInv, Looping
<1>3. PICK diffuse \in BOOLEAN : diffuse = (scatter > 0)
  <2>1. CASE scatter > 0
    <3>1. (scatter > 0) = TRUE
      BY <2>1
    <3> WITNESS TRUE \in BOOLEAN
    <3> QED
      BY <3>1, Zenon
  <2>2. CASE ~(scatter > 0)
    <3>1. (scatter > 0) = FALSE
      BY <2>2
    <3> WITNESS FALSE \in BOOLEAN
    <3> QED
      BY <3>1, Zenon
  <2> QED
    BY <2>1, <2>2
<1>4. PICK covered \in BOOLEAN : covered = call.rain
  BY <1>2
<1>5. Continue(AdvanceStateAfterReflection(cur.state, diffuse), Remaining(absorbed), covered)
  BY <1>1, <1>3, <1>4
<1>6. call.rain /\ diffuse => covered
  BY <1>4
<1>7. call.strategy # "roulette"
  BY <1>1
<1> QED
  BY <1>1, <1>5, <1>6, <1>7, ReflectKeeps

LEMMA SampledKeeps ==
  ASSUME RayIInv, NEW absorbed \in 0 .. 1, NEW scatter \in 0 .. 2, NEW diffuse \in BOOLEAN,
         NEW r \in [Targets(call) -> {0} \cup Distances], ReflectSampled(absorbed, scatter, r, diffuse)
  PROVE  RayIInv'
<1>1. /\ pc = "wall" /\ call.strategy = "probabilistic" /\ call' = call /\ states' = states
      /\ added' = Rain(Remaining(absorbed), scatter, r)
      /\ Continue(AdvanceStateAfterReflection(cur.state, diffuse), Remaining(absorbed),
                  diffuse /\ call.rain)
  BY DEF ReflectSampled
<1>2. PICK covered \in BOOLEAN : covered = (diffuse /\ call.rain)
  OBVIOUS
<1>3. Continue(AdvanceStateAfterReflection(cur.state, diffuse), Remaining(absorbed), covered)
  BY <1>1, <1>2
<1>4. call.rain /\ diffuse => covered
  BY <1>2
<1>5. call.strategy # "roulette"
  BY <1>1
<1> QED
  BY <1>1, <1>3, <1>4, <1>5, ReflectKeeps

LEMMA RouletteEnergies ==
  ASSUME call \in Calls, NEW e \in Nat, NEW x \in RussianRouletteEnergy(e)
  PROVE  x \in Seq(Nat)
<1>1. PICK n : n = call.threshold
  OBVIOUS
<1>2. n \in Int
  BY <1>1, CallsAssumption
<1>3. CASE n <= 0 \/ e > n
  <2>1. x = <<e>>
    BY <1>1, <1>3 DEF RussianRouletteEnergy
  <2> QED
    BY <2>1
<1>4. CASE ~(n <= 0 \/ e > n)
  <2>1. n \in Nat
    BY <1>2, <1>4
  <2>2. x \in {<<>>, IF e = 0 THEN <<0>> ELSE <<n>>}
    BY <1>1, <1>4 DEF RussianRouletteEnergy
  <2>3. x = <<>> \/ x = <<0>> \/ x = <<n>>
    BY <2>2
  <2>4. <<>> \in Seq(Nat) /\ <<0>> \in Seq(Nat) /\ <<n>> \in Seq(Nat)
    BY <2>1
  <2> QED
    BY <2>3, <2>4
<1> QED
  BY <1>3, <1>4

LEMMA RouletteChild ==
  ASSUME RayTypeOK, LoopInv, pc = "wall", NEW s, s = [cur.state EXCEPT !.travelled = cur.travelled],
         NEW diffuse \in BOOLEAN, NEW energy \in Nat, NEW child,
         child = [ReflectedChildState(s, diffuse, energy, cur.path, cur.bounce + 1)
                    EXCEPT !.rainCovered = diffuse /\ call.rain]
  PROVE  child \in Rays
<1>1. /\ cur.state \in RayStates /\ Counted(cur.state) /\ cur.path \in Nat /\ cur.bounce \in Nat
      /\ cur.travelled \in Nat /\ Timed(cur.path, cur.travelled, cur.state.offset, cur.state.history)
  BY LoopFacts DEF Looping
<1>2. /\ s \in RayStates /\ s.history = cur.state.history /\ s.travelled = cur.travelled /\ Counted(s)
      /\ s.offset = cur.state.offset
  <2>1. PICK z, w : z = cur.state /\ w = cur.travelled
    OBVIOUS
  <2>2. w \in Nat /\ z \in RayStates /\ s = [z EXCEPT !.travelled = w] /\ Counted(z)
    BY <1>1, <2>1
  <2>3. /\ s \in RayStates /\ s.history = z.history /\ s.travelled = w
        /\ s.offset = z.offset /\ s.reflections = z.reflections /\ s.preED = z.preED /\ s.postED = z.postED
        /\ s.edOrder = z.edOrder /\ s.hasDiffuse = z.hasDiffuse
    BY <2>2 DEF RayStates
  <2>4. Counted(s)
    BY <2>2, <2>3 DEF Counted
  <2> QED
    BY <2>1, <2>3, <2>4
<1>3. PICK a : a = AdvanceStateAfterReflection(s, diffuse)
  OBVIOUS
<1>4. PICK h \in Histories : h = cur.state.history
  BY <1>1, RayStateTypes
<1>5. PICK x \in {"specular", "diffuse"} : x = IF diffuse THEN "diffuse" ELSE "specular"
  OBVIOUS
<1>6. PICK g : g = Append(h, x)
  OBVIOUS
<1>7. /\ a \in RayStates /\ Counted(a) /\ a.travelled = cur.travelled /\ a.history = g
      /\ a.offset = cur.state.offset
  <2>1. PICK z \in RayStates :
          /\ a = AdvanceStateAfterReflection(z, diffuse) /\ Counted(z)
          /\ z.travelled = cur.travelled /\ z.history = cur.state.history
          /\ z.offset = cur.state.offset
    BY <1>2, <1>3, Zenon
  <2>2. /\ a \in RayStates /\ Counted(a) /\ a.travelled = z.travelled /\ a.offset = z.offset
        /\ a.history = Append(z.history, IF diffuse THEN "diffuse" ELSE "specular")
    BY <2>1, ReflectionCounted
  <2> QED
    BY <2>1, <2>2, <1>4, <1>5, <1>6
<1>8. (ReflectedBeforeEdge(g) <=> ReflectedBeforeEdge(h)) /\ EdgesOf(g) = EdgesOf(h)
  BY <1>6, WallMet
<1>9. Last(g) = x
  BY <1>5, <1>6, Extended DEF Events
<1>10. PICK path, b, covered :
         path = cur.path /\ b = cur.bounce + 1 /\ covered = (diffuse /\ call.rain)
  OBVIOUS
<1>11. path \in Nat /\ b \in Nat /\ covered \in BOOLEAN
  BY <1>1, <1>10
<1>12. child = [[a EXCEPT !.energy = energy, !.path = path, !.bounces = b] EXCEPT !.rainCovered = covered]
  BY <1>3, <1>10 DEF ReflectedChildState
<1>13. PICK y : y = [a EXCEPT !.energy = energy, !.path = path, !.bounces = b]
  OBVIOUS
<1>14. /\ y \in RayStates /\ y.history = a.history /\ y.path = path /\ y.travelled = a.travelled
       /\ y.offset = a.offset /\ y.reflections = a.reflections /\ y.preED = a.preED /\ y.postED = a.postED
       /\ y.edOrder = a.edOrder /\ y.hasDiffuse = a.hasDiffuse
  BY <1>7, <1>11, <1>13 DEF RayStates
<1>15. child = [y EXCEPT !.rainCovered = covered]
  BY <1>12, <1>13
<1>16. /\ child \in RayStates /\ child.history = y.history /\ child.path = y.path
       /\ child.travelled = y.travelled /\ child.offset = y.offset /\ child.rainCovered = covered
       /\ child.reflections = y.reflections /\ child.preED = y.preED /\ child.postED = y.postED
       /\ child.edOrder = y.edOrder /\ child.hasDiffuse = y.hasDiffuse
  BY <1>11, <1>14, <1>15 DEF RayStates
<1>17. Counted(child)
  BY <1>7, <1>14, <1>16 DEF Counted
<1>18. Timed(child.path, child.travelled, child.offset, child.history)
  BY <1>1, <1>4, <1>7, <1>8, <1>10, <1>14, <1>16 DEF Timed
<1>19. Marked(child.rainCovered, child.history)
  BY <1>5, <1>7, <1>9, <1>10, <1>14, <1>16 DEF Marked
<1> QED
  BY <1>16, <1>17, <1>18, <1>19 DEF Rays

LEMMA RouletteKeeps ==
  ASSUME RayIInv, NEW absorbed \in 0 .. 1, NEW scatter \in 0 .. 2,
         NEW r \in [Targets(call) -> {0} \cup Distances], ReflectRoulette(absorbed, scatter, r)
  PROVE  RayIInv'
<1> DEFINE s == [cur.state EXCEPT !.travelled = cur.travelled]
           left == Remaining(absorbed)
           One(diffuse, energy) ==
             [ReflectedChildState(s, diffuse, energy, cur.path, cur.bounce + 1)
                EXCEPT !.rainCovered = diffuse /\ call.rain]
           Child(diffuse, energy) == [i \in DOMAIN energy |-> One(diffuse, energy[i])]
<1>1. /\ pc = "wall" /\ call' = call /\ added' = Rain(left, scatter, r) /\ pc' = "pop"
      /\ RayTypeOK /\ LoopInv
  BY DEF ReflectRoulette, RayIInv
<1>2. PICK specular \in RussianRouletteEnergy(Specular(left, scatter)),
           diffuse \in RussianRouletteEnergy(Diffuse(left, scatter)) :
        states' = states \o Child(FALSE, specular) \o Child(TRUE, diffuse)
  BY DEF ReflectRoulette
<1>3. call \in Calls /\ states \in Seq(Rays)
  BY <1>1, LoopFacts DEF Looping
<1>4. left \in Nat
  BY <1>1, RemainingIsEnergy
<1>5. Specular(left, scatter) \in Nat /\ Diffuse(left, scatter) \in Nat
  BY <1>4 DEF Specular, Diffuse
<1>6. specular \in Seq(Nat) /\ diffuse \in Seq(Nat)
  BY <1>2, <1>3, <1>5, RouletteEnergies
<1>7. ASSUME NEW b \in BOOLEAN, NEW energy \in Seq(Nat)
      PROVE  Child(b, energy) \in Seq(Rays)
  <2>1. ASSUME NEW i \in 1 .. Len(energy)
        PROVE  One(b, energy[i]) \in Rays
    <3>1. PICK e \in Nat : e = energy[i]
      OBVIOUS
    <3>2. One(b, e) \in Rays
      BY <1>1, RouletteChild
    <3> QED
      BY <3>1, <3>2
  <2> HIDE DEF One, Rays
  <2>2. Child(b, energy) \in [1 .. Len(energy) -> Rays]
    BY <2>1
  <2> QED
    BY <2>2
<1>8. states' \in Seq(Rays)
  <2>1. PICK u, v : u = Child(FALSE, specular) /\ v = Child(TRUE, diffuse)
    OBVIOUS
  <2>2. u \in Seq(Rays) /\ v \in Seq(Rays)
    BY <1>6, <1>7, <2>1
  <2>3. states \o u \in Seq(Rays)
    BY <1>3, <2>2, ConcatProperties
  <2>4. (states \o u) \o v \in Seq(Rays)
    BY <2>2, <2>3, ConcatProperties
  <2>5. states' = (states \o u) \o v
    BY <1>2, <2>1
  <2> QED
    BY <2>4, <2>5
<1>9. states' \in Seq(Rays')
  BY <1>1, <1>8, SameRays
<1>10. \A d \in added' : OnTime(d) /\ Once(d) /\ NotAnImage(d)
  BY <1>1, RainSound
<1>11. EarlyOnlyBehindEdges' /\ RainOrRay' /\ GateKeepsImagesOut'
  BY <1>1, <1>10, DepositsSound
<1>12. LoopInv'
  BY <1>1 DEF LoopInv
<1>13. RayTypeOK'
  BY <1>1, <1>3, <1>9 DEF RayTypeOK
<1> QED
  BY <1>11, <1>12, <1>13 DEF RayIInv

LEMMA UnchangedKeeps ==
  ASSUME RayIInv, UNCHANGED vars
  PROVE  RayIInv'
<1>1. /\ call' = call /\ pc' = pc /\ states' = states /\ cur' = cur /\ added' = added
  BY DEF vars
<1>2. RayTypeOK'
  BY <1>1, SameRays DEF RayIInv, RayTypeOK
<1>3. LoopInv'
  BY <1>1 DEF RayIInv, LoopInv, Counted, Timed, Marked
<1>4. EarlyOnlyBehindEdges' /\ RainOrRay' /\ GateKeepsImagesOut'
  BY <1>1 DEF RayIInv, EarlyOnlyBehindEdges, RainOrRay, GateKeepsImagesOut
<1> QED
  BY <1>2, <1>3, <1>4 DEF RayIInv

LEMMA RayNext ==
  ASSUME RayIInv, [Next]_vars
  PROVE  RayIInv'
<1>1. ASSUME NEW c \in Calls, Launch(c) \/ Refuse(c)
      PROVE  RayIInv'
  BY <1>1, LaunchKeeps, RefuseKeeps
<1>2. CASE Pop
  BY <1>2, PopKeeps
<1>3. CASE Return \/ LeaveLoop
  BY <1>3, LeaveKeeps
<1>4. ASSUME NEW length \in NextHit, NEW t \in Intersects(length), Segment(length, t)
      PROVE  RayIInv'
  BY <1>4, SegmentKeeps
<1>5. CASE Diffraction
  <2>1. CASE NoEdge
    BY <2>1, NoEdgeKeeps
  <2>2. ASSUME NEW edge \in Edges, NEW offset \in Offsets, NEW n \in 1 .. MaxCone,
               NEW loss \in 0 .. 1, SpawnDiffractionBranches(edge, offset, n, loss)
        PROVE  RayIInv'
    BY <2>2, SpawnKeeps
  <2>3. ASSUME NEW edge \in Edges, NEW offset \in Offsets,
               NEW reach \in SUBSET DapdfForward(EffectiveMaxDiffractionDepth(call)),
               DapdfRainForSegment(edge, offset, reach)
        PROVE  RayIInv'
    BY <2>3, DapdfKeeps
  <2> QED
    BY <1>5, <2>1, <2>2, <2>3 DEF Diffraction
<1>6. ASSUME NEW absorbed \in 0 .. 1, NEW scatter \in 0 .. 2,
             NEW r \in [Targets(call) -> {0} \cup Distances], Wall(absorbed, scatter, r)
      PROVE  RayIInv'
  <2>1. CASE ReflectBlend(absorbed, scatter, r)
    BY <2>1, BlendKeeps
  <2>2. ASSUME NEW diffuse \in BOOLEAN, ReflectSampled(absorbed, scatter, r, diffuse)
        PROVE  RayIInv'
    BY <2>2, SampledKeeps
  <2>3. CASE ReflectRoulette(absorbed, scatter, r)
    BY <2>3, RouletteKeeps
  <2> QED
    BY <1>6, <2>1, <2>2, <2>3 DEF Wall
<1>7. CASE Done
  BY <1>7, UnchangedKeeps DEF Done
<1>8. CASE UNCHANGED vars
  BY <1>8, UnchangedKeeps
<1>9. CASE Step
  BY <1>2, <1>3, <1>4, <1>5, <1>6, <1>9 DEF Step
<1> QED
  BY <1>1, <1>7, <1>8, <1>9 DEF Next

-----------------------------------------------------------------------------
(* The theorems. *)

LEMMA RayInvariant ==
  Spec => []RayIInv
<1>1. Init => RayIInv
  BY RayInit
<1>2. RayIInv /\ [Next]_vars => RayIInv'
  BY RayNext
<1> QED
  BY <1>1, <1>2, PTL DEF Spec

\* In Trace, TraceSecondary and TraceSurfaces, for every room, strategy, depth and
\* number of rays and bounces, no deposit is late.  One is early by the offsets of the
\* edges it came over, and by more only if its sound was reflected before it met an
\* edge, in a strategy that keeps the ray in its loop.
THEOREM DepositsArriveInTime ==
  Spec => []EarlyOnlyBehindEdges
<1>1. RayIInv => EarlyOnlyBehindEdges
  BY DEF RayIInv
<1> QED
  BY <1>1, RayInvariant, PTL

\* In whatever order a ray reflects, branches and diffracts, the energy its last wall
\* rained on the receivers is not detected again with the scattered ray.
THEOREM ScatteredEnergyCountsOnce ==
  Spec => []RainOrRay
<1>1. RayIInv => RainOrRay
  BY DEF RayIInv
<1> QED
  BY <1>1, RayInvariant, PTL

\* DetectionAllowedHybrid, for every limit on orders, lets the detector add nothing
\* the image source method delivers.
THEOREM ImagesCountOnce ==
  Spec => []GateKeepsImagesOut
<1>1. RayIInv => GateKeepsImagesOut
  BY DEF RayIInv
<1> QED
  BY <1>1, RayInvariant, PTL
=============================================================================
