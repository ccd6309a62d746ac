-------------------------- MODULE NetworkPlanProofs --------------------------
(* Plans that survive portal changes, for every scene, every number of      *)
(* calls and every limit of the search.                                     *)
EXTENDS NetworkPlan, FunctionTheorems, FiniteSetTheorems, SequenceTheorems, TLAPS


-----------------------------------------------------------------------------
(* Orders. *)

\* A nonempty set of naturals has a smallest element.
LEMMA Smallest ==
  ASSUME NEW T \in SUBSET Nat, T # {}
  PROVE  \E x \in T : \A y \in T : x <= y
<1>1. IsWellFoundedOn(OpToRel(<, Nat), Nat)
  BY NatLessThanWellFounded
<1>2. PICK x \in T : \A y \in T : ~(<<y, x>> \in OpToRel(<, Nat))
  BY <1>1, WFMin
<1>3. \A y \in T : ~(y < x)
  BY <1>2 DEF OpToRel
<1> QED
  BY <1>3

\* Min and Max of the community modules.
LEMMA MinOfNats ==
  ASSUME NEW T \in SUBSET Nat, T # {}
  PROVE  Min(T) \in T /\ \A y \in T : Min(T) <= y
<1>1. \E x \in T : \A y \in T : x <= y
  BY Smallest
<1> QED
  BY <1>1 DEF Min

\* The smaller of two numbers.
LEMMA MinOfTwo ==
  ASSUME NEW a \in Int, NEW b \in Int
  PROVE  Min({a, b}) = IF a <= b THEN a ELSE b
<1>1. PICK m : m = IF a <= b THEN a ELSE b
  OBVIOUS
<1>2. m \in {a, b} /\ \A y \in {a, b} : m <= y
  BY <1>1
<1>3. \A x \in {a, b} : (\A y \in {a, b} : x <= y) => x = m
  BY <1>2
<1>4. Min({a, b}) \in {a, b} /\ \A y \in {a, b} : Min({a, b}) <= y
  BY <1>2 DEF Min
<1> QED
  BY <1>1, <1>3, <1>4

\* What comes before x in S.
Below(S, R, x) == {y \in S : <<y, x>> \in R}

\* R puts the elements of S in a line.
Orders(R, S) ==
  /\ \A x \in S : <<x, x>> \notin R
  /\ \A x, y \in S : x # y => <<x, y>> \in R \/ <<y, x>> \in R
  /\ \A x, y, z \in S : <<x, y>> \in R /\ <<y, z>> \in R => <<x, z>> \in R

\* How many elements come before x tells where x is.
LEMMA Ranks ==
  ASSUME NEW S, IsFiniteSet(S), NEW R, Orders(R, S)
  PROVE  /\ \A x \in S : Cardinality(Below(S, R, x)) \in 0 .. Cardinality(S) - 1
         /\ \A x, y \in S : <<x, y>> \in R => Cardinality(Below(S, R, x)) < Cardinality(Below(S, R, y))
         /\ \A x, y \in S : Cardinality(Below(S, R, x)) = Cardinality(Below(S, R, y)) => x = y
<1>1. ASSUME NEW x \in S
      PROVE  /\ IsFiniteSet(Below(S, R, x)) /\ Cardinality(Below(S, R, x)) \in 0 .. Cardinality(S) - 1
  <2>1. Below(S, R, x) \in SUBSET (S \ {x})
    BY DEF Below, Orders
  <2>2. IsFiniteSet(S \ {x}) /\ Cardinality(S \ {x}) = Cardinality(S) - 1
    BY FS_RemoveElement
  <2>3. IsFiniteSet(Below(S, R, x)) /\ Cardinality(Below(S, R, x)) <= Cardinality(S \ {x})
    BY <2>1, <2>2, FS_Subset
  <2>4. Cardinality(S) \in Nat /\ Cardinality(Below(S, R, x)) \in Nat
    BY <2>3, FS_CardinalityType
  <2> QED
    BY <2>2, <2>3, <2>4
<1>2. ASSUME NEW x \in S, NEW y \in S, <<x, y>> \in R
      PROVE  Cardinality(Below(S, R, x)) < Cardinality(Below(S, R, y))
  <2>1. Below(S, R, x) \in SUBSET Below(S, R, y)
    BY <1>2 DEF Below, Orders
  <2>2. x \in Below(S, R, y) /\ x \notin Below(S, R, x)
    BY <1>2 DEF Below, Orders
  <2>3. IsFiniteSet(Below(S, R, y))
    BY <1>1
  <2>4. /\ Cardinality(Below(S, R, x)) <= Cardinality(Below(S, R, y))
        /\ Cardinality(Below(S, R, x)) # Cardinality(Below(S, R, y))
    BY <2>1, <2>2, <2>3, FS_Subset
  <2>5. Cardinality(Below(S, R, x)) \in Int /\ Cardinality(Below(S, R, y)) \in Int
    BY <1>1
  <2> QED
    BY <2>4, <2>5
<1>3. ASSUME NEW x \in S, NEW y \in S, Cardinality(Below(S, R, x)) = Cardinality(Below(S, R, y))
      PROVE  x = y
  <2>1. Cardinality(Below(S, R, x)) \in Int
    BY <1>1
  <2>2. <<x, y>> \notin R /\ <<y, x>> \notin R
    BY <1>2, <1>3, <2>1
  <2> QED
    BY <2>2 DEF Orders
<1> QED
  BY <1>1, <1>2, <1>3

\* Every place is taken.
LEMMA RanksTaken ==
  ASSUME NEW S, IsFiniteSet(S), NEW R, Orders(R, S), NEW i \in 1 .. Cardinality(S)
  PROVE  \E x \in S : Cardinality(Below(S, R, x)) = i - 1
<1> DEFINE T == 0 .. Cardinality(S) - 1
           f == [x \in S |-> Cardinality(Below(S, R, x))]
<1>1. Cardinality(S) \in Nat
  BY FS_CardinalityType
<1>2. IsFiniteSet(T) /\ Cardinality(T) = Cardinality(S)
  <2>1. PICK n \in Nat : n = Cardinality(S)
    BY <1>1
  <2>2. IsFiniteSet(0 .. n - 1) /\ Cardinality(0 .. n - 1) = IF 0 > n - 1 THEN 0 ELSE n - 1 - 0 + 1
    BY FS_Interval
  <2> QED
    BY <2>1, <2>2
<1>3. f \in [S -> T] /\ \A x, y \in S : f[x] = f[y] => x = y
  BY Ranks
<1> HIDE DEF f, T
<1>4. f \in Injection(S, T)
  BY <1>3, Fun_IsInj
<1>5. f \in Surjection(S, T)
  BY <1>2, <1>4, FS_Injection
<1>6. i - 1 \in T
  BY <1>1 DEF T
<1>7. \E x \in S : f[x] = i - 1
  BY <1>5, <1>6, Fun_SurjectionProperties
<1> QED
  BY <1>7 DEF f

\* S in a line.
Line(S, R) == [i \in 1 .. Cardinality(S) |-> CHOOSE x \in S : Cardinality(Below(S, R, x)) = i - 1]

\* A line holds every element once and follows the order.
LEMMA Lines ==
  ASSUME NEW S, IsFiniteSet(S), NEW R, Orders(R, S)
  PROVE  /\ Cardinality(S) \in Nat /\ Line(S, R) \in [1 .. Cardinality(S) -> S]
         /\ \A x \in S : \E i \in 1 .. Cardinality(S) : Line(S, R)[i] = x
         /\ \A i, j \in 1 .. Cardinality(S) : Line(S, R)[i] = Line(S, R)[j] => i = j
         /\ \A i, j \in 1 .. Cardinality(S) : i < j => <<Line(S, R)[i], Line(S, R)[j]>> \in R
<1> DEFINE n == Cardinality(S)
           c == Line(S, R)
           rank(x) == Cardinality(Below(S, R, x))
<1>1. n \in Nat
  BY FS_CardinalityType
<1>2. ASSUME NEW i \in 1 .. n
      PROVE  c[i] \in S /\ rank(c[i]) = i - 1
  <2>1. \E x \in S : rank(x) = i - 1
    BY RanksTaken
  <2>2. c[i] = CHOOSE x \in S : rank(x) = i - 1
    BY DEF Line
  <2> HIDE DEF c, rank
  <2> QED
    BY <2>1, <2>2
<1>3. c \in [1 .. n -> S]
  <2>1. c = [i \in 1 .. n |-> c[i]]
    BY DEF Line
  <2> HIDE DEF c, n
  <2> QED
    BY <1>2, <2>1
<1>4. ASSUME NEW x \in S
      PROVE  \E i \in 1 .. n : c[i] = x
  <2>1. rank(x) \in 0 .. n - 1
    BY Ranks
  <2>2. rank(x) + 1 \in 1 .. n
    BY <1>1, <2>1
  <2>3. c[rank(x) + 1] \in S /\ rank(c[rank(x) + 1]) = rank(x)
    BY <1>2, <2>1, <2>2
  <2>4. c[rank(x) + 1] = x
    BY <2>3, Ranks
  <2> QED
    BY <2>2, <2>4
<1>5. ASSUME NEW i \in 1 .. n, NEW j \in 1 .. n
      PROVE  (c[i] = c[j] => i = j) /\ (i < j => <<c[i], c[j]>> \in R)
  <2>1. c[i] \in S /\ c[j] \in S /\ rank(c[i]) = i - 1 /\ rank(c[j]) = j - 1
    BY <1>2
  <2>2. <<c[j], c[i]>> \in R => j - 1 < i - 1
    BY <2>1, Ranks
  <2>3. c[i] = c[j] => i = j
    BY <1>1, <2>1
  <2>4. c[i] # c[j] => <<c[i], c[j]>> \in R \/ <<c[j], c[i]>> \in R
    BY <2>1 DEF Orders
  <2> QED
    BY <1>1, <2>2, <2>3, <2>4
<1> QED
  BY <1>1, <1>3, <1>4, <1>5

-----------------------------------------------------------------------------
(* Functions defined by recursion. *)

\* Induction, with the numbers a statement holds for as a set.
LEMMA UpTo ==
  ASSUME NEW N \in Nat, NEW Good, 0 \in Good, \A k \in 1 .. N : k - 1 \in Good => k \in Good
  PROVE  \A k \in 0 .. N : k \in Good
<1> DEFINE Bad == {k \in 0 .. N : k \notin Good}
<1>1. SUFFICES ASSUME Bad # {} PROVE FALSE
  OBVIOUS
<1>2. PICK k \in Bad : \A m \in Bad : k <= m
  <2>1. Bad \in SUBSET Nat
    OBVIOUS
  <2> HIDE DEF Bad
  <2> QED
    BY <1>1, <2>1, Smallest
<1>3. k \in 1 .. N /\ k - 1 \notin Bad
  BY <1>2
<1> QED
  BY <1>2, <1>3

\* What is computed step by step from base.
Steps(f, base, F, N) == f[0] = base /\ \A k \in 1 .. N : f[k] = F[<<k, f[k - 1]>>]

LEMMA StepsExist ==
  ASSUME NEW N \in Nat, NEW V, NEW base \in V, NEW F \in [(1 .. N) \X V -> V]
  PROVE  \E f \in [0 .. N -> V] : Steps(f, base, F, N)
<1> DEFINE Good == {n \in 0 .. N : \E f \in [0 .. n -> V] : Steps(f, base, F, n)}
<1>1. 0 \in Good
  <2>1. PICK f \in [0 .. 0 -> V] : f = [k \in 0 .. 0 |-> base]
    OBVIOUS
  <2>2. Steps(f, base, F, 0)
    BY <2>1 DEF Steps
  <2> QED
    BY <2>2
<1>2. ASSUME NEW n \in 1 .. N, n - 1 \in Good
      PROVE  n \in Good
  <2>1. PICK f \in [0 .. n - 1 -> V] : Steps(f, base, F, n - 1)
    BY <1>2
  <2>2. PICK v \in V : v = F[<<n, f[n - 1]>>]
    OBVIOUS
  <2>3. PICK g : g = [k \in 0 .. n |-> IF k = n THEN v ELSE f[k]]
    OBVIOUS
  <2>4. g \in [0 .. n -> V] /\ g[n] = v /\ \A k \in 0 .. n - 1 : g[k] = f[k]
    BY <2>3
  <2>5. g[0] = base
    BY <2>1, <2>4 DEF Steps
  <2>6. ASSUME NEW k \in 1 .. n
        PROVE  g[k] = F[<<k, g[k - 1]>>]
    <3>1. g[k - 1] = f[k - 1]
      BY <2>4
    <3>2. CASE k = n
      BY <2>2, <2>4, <3>1, <3>2
    <3>3. CASE k # n
      BY <2>1, <2>4, <3>1, <3>3 DEF Steps
    <3> QED
      BY <3>2, <3>3
  <2>7. Steps(g, base, F, n)
    BY <2>5, <2>6 DEF Steps
  <2> QED
    BY <2>4, <2>7
<1>3. \A n \in 0 .. N : n \in Good
  <2> HIDE DEF Good
  <2> QED
    BY <1>1, <1>2, UpTo
<1> QED
  BY <1>3

-----------------------------------------------------------------------------
(* Room groups. *)

\* The open portals that touch a set of rooms.
OpenAt(rooms, st) == {q \in Portals : st[q] = "open" /\ Range(Ends[q]) \cap rooms # {}}

Widened(rooms, st) == rooms \cup UNION {Range(Ends[p]) : p \in OpenAt(rooms, st)}

LEMMA EndsOfPortal ==
  ASSUME NEW p \in Portals
  PROVE  /\ Ends[p] \in Rooms \X Rooms /\ Range(Ends[p]) = {Ends[p][1], Ends[p][2]}
         /\ Ends[p][1] \in Rooms /\ Ends[p][2] \in Rooms /\ Ends[p][1] # Ends[p][2]
<1>1. Ends \in Seq(Rooms \X Rooms) /\ Ends[p][1] # Ends[p][2]
  BY PathAssumption
<1>2. Ends[p] \in Rooms \X Rooms
  BY <1>1, LenProperties, ElementOfSeq DEF Portals
<1>3. PICK e : e = Ends[p]
  OBVIOUS
<1>4. e \in Rooms \X Rooms
  BY <1>2, <1>3
<1>5. DOMAIN e = 1 .. 2 /\ e[1] \in Rooms /\ e[2] \in Rooms
  BY <1>4
<1>6. Range(e) = {e[1], e[2]}
  BY <1>5 DEF Range
<1> QED
  BY <1>1, <1>2, <1>3, <1>5, <1>6

\* Portals are numbered from 1.
LEMMA PortalNumbers == Portals \in SUBSET Nat /\ IsFiniteSet(Portals)
<1>1. Ends \in Seq(Rooms \X Rooms)
  BY PathAssumption
<1>2. Len(Ends) \in Nat /\ DOMAIN Ends = 1 .. Len(Ends)
  BY <1>1, LenProperties
<1>3. IsFiniteSet(1 .. Len(Ends))
  BY <1>2, FS_Interval
<1> QED
  BY <1>2, <1>3 DEF Portals

LEMMA WidenedRooms ==
  ASSUME NEW rooms \in SUBSET Rooms, NEW st
  PROVE  Widened(rooms, st) \in SUBSET Rooms /\ rooms \subseteq Widened(rooms, st)
<1>1. \A p \in OpenAt(rooms, st) : Range(Ends[p]) \subseteq Rooms
  BY EndsOfPortal DEF OpenAt
<1> QED
  BY <1>1 DEF Widened

\* The rooms after k turns, whatever is chosen for Reached.
LEMMA ReachedSteps ==
  ASSUME NEW room \in Rooms, NEW st
  PROVE  \E f \in [0 .. NumRooms -> SUBSET Rooms] :
           /\ f[0] = {room} /\ f[NumRooms] = Within(room, st)
           /\ \A k \in 1 .. NumRooms : f[k] = Widened(f[k - 1], st)
<1> DEFINE body(f) == [k \in 0 .. NumRooms |-> IF k = 0 THEN {room} ELSE Widened(f[k - 1], st)]
           g == CHOOSE f : f = body(f)
           V == SUBSET Rooms
           F == [x \in (1 .. NumRooms) \X V |-> Widened(x[2], st)]
<1>1. NumRooms \in Nat
  BY PathAssumption
<1>2. F \in [(1 .. NumRooms) \X V -> V] /\ {room} \in V
  BY WidenedRooms
<1>3. \E f : f = body(f)
  <2>1. PICK f \in [0 .. NumRooms -> V] : Steps(f, {room}, F, NumRooms)
    <3> HIDE DEF F, V
    <3> QED
      BY <1>1, <1>2, StepsExist
  <2>2. \A k \in 1 .. NumRooms : f[k] = Widened(f[k - 1], st)
    <3> TAKE k \in 1 .. NumRooms
    <3>1. f[k - 1] \in V /\ <<k, f[k - 1]>> \in (1 .. NumRooms) \X V
      BY <1>1, <2>1
    <3>2. f[k] = F[<<k, f[k - 1]>>]
      BY <2>1 DEF Steps
    <3> QED
      BY <3>1, <3>2
  <2>3. f[0] = {room} /\ f = [k \in 0 .. NumRooms |-> f[k]]
    BY <2>1 DEF Steps
  <2>4. f = body(f)
    BY <1>1, <2>2, <2>3
  <2> QED
    BY <2>4
<1>4. g = body(g)
  <2> HIDE DEF body
  <2> QED
    BY <1>3
<1>5. g[NumRooms] = Within(room, st)
  BY Zenon DEF Within, Widened, OpenAt
<1> HIDE DEF g
<1>6. g[0] = {room} /\ \A k \in 1 .. NumRooms : g[k] = Widened(g[k - 1], st)
  <2>1. PICK h : h = g
    OBVIOUS
  <2>2. h = [k \in 0 .. NumRooms |-> IF k = 0 THEN {room} ELSE Widened(h[k - 1], st)]
    BY <1>4, <2>1
  <2>3. \A k \in 0 .. NumRooms : h[k] = IF k = 0 THEN {room} ELSE Widened(h[k - 1], st)
    BY <2>2
  <2>4. 0 \in 0 .. NumRooms /\ \A k \in 1 .. NumRooms : k \in 0 .. NumRooms /\ k # 0
    BY <1>1
  <2> QED
    BY <2>1, <2>3, <2>4
<1> DEFINE Good == {k \in 0 .. NumRooms : g[k] \in V}
<1>7. 0 \in Good /\ \A k \in 1 .. NumRooms : k - 1 \in Good => k \in Good
  BY <1>1, <1>6, WidenedRooms
<1>8. \A k \in 0 .. NumRooms : k \in Good
  <2> HIDE DEF Good
  <2> QED
    BY <1>1, <1>7, UpTo
<1>9. g \in [0 .. NumRooms -> V]
  BY <1>4, <1>8
<1> QED
  BY <1>5, <1>6, <1>9

\* No open portal leads out of a closed set of rooms.
Closed(rooms, st) == \A p \in OpenAt(rooms, st) : Range(Ends[p]) \subseteq rooms

LEMMA ClosedStays ==
  ASSUME NEW rooms, NEW st
  PROVE  Closed(rooms, st) <=> Widened(rooms, st) = rooms
BY DEF Closed, Widened

\* UpdateRoomGroups finds the least closed set around a room.
LEMMA WithinIsLeast ==
  ASSUME NEW room \in Rooms, NEW st
  PROVE  /\ Within(room, st) \in SUBSET Rooms /\ room \in Within(room, st)
         /\ Closed(Within(room, st), st)
         /\ \A rooms : room \in rooms /\ Closed(rooms, st) => Within(room, st) \subseteq rooms
<1>1. PICK f \in [0 .. NumRooms -> SUBSET Rooms] :
           /\ f[0] = {room} /\ f[NumRooms] = Within(room, st)
           /\ \A k \in 1 .. NumRooms : f[k] = Widened(f[k - 1], st)
  BY ReachedSteps
<1>2. NumRooms \in Nat /\ NumRooms \in 0 .. NumRooms
  BY PathAssumption
<1>3. IsFiniteSet(Rooms) /\ Cardinality(Rooms) = NumRooms
  BY <1>2, FS_Interval, PathAssumption DEF Rooms
<1>4. \A k \in 0 .. NumRooms : IsFiniteSet(f[k]) /\ Cardinality(f[k]) \in Nat /\ Cardinality(f[k]) <= NumRooms
  <2> TAKE k \in 0 .. NumRooms
  <2>1. f[k] \in SUBSET Rooms
    BY <1>1
  <2>2. IsFiniteSet(f[k]) /\ Cardinality(f[k]) <= NumRooms
    BY <1>3, <2>1, FS_Subset
  <2> QED
    BY <2>2, FS_CardinalityType
<1>5. Closed(f[NumRooms], st)
  <2> DEFINE Good == {k \in 0 .. NumRooms : Closed(f[k], st) \/ Cardinality(f[k]) >= k + 1}
  <2>1. 0 \in Good
    <3>1. Cardinality({room}) = 1
      BY FS_Singleton
    <3>2. Cardinality(f[0]) >= 0 + 1 /\ 0 \in 0 .. NumRooms
      BY <1>1, <1>2, <3>1
    <3> QED
      BY <3>2
  <2>2. ASSUME NEW k \in 1 .. NumRooms, k - 1 \in Good
        PROVE  k \in Good
    <3>1. f[k] = Widened(f[k - 1], st) /\ k - 1 \in 0 .. NumRooms
      BY <1>1, <1>2
    <3>2. CASE Closed(f[k - 1], st)
      BY <1>2, <3>1, <3>2, ClosedStays
    <3>3. CASE ~Closed(f[k - 1], st)
      <4>1. f[k] # f[k - 1] /\ f[k - 1] \in SUBSET f[k]
        BY <3>1, <3>3, ClosedStays DEF Widened
      <4>2. IsFiniteSet(f[k])
        BY <1>2, <1>4
      <4>3. Cardinality(f[k - 1]) <= Cardinality(f[k]) /\ Cardinality(f[k - 1]) # Cardinality(f[k])
        BY <4>1, <4>2, FS_Subset
      <4>4. Cardinality(f[k - 1]) \in Nat /\ Cardinality(f[k]) \in Nat
        BY <1>2, <1>4, <3>1
      <4>5. Cardinality(f[k - 1]) >= k
        BY <2>2, <3>3
      <4> QED
        BY <4>3, <4>4, <4>5
    <3> QED
      BY <3>2, <3>3
  <2>3. \A k \in 0 .. NumRooms : k \in Good
    <3> HIDE DEF Good
    <3> QED
      BY <1>2, <2>1, <2>2, UpTo
  <2> QED
    BY <1>2, <1>4, <2>3
<1>6. \A k \in 0 .. NumRooms : room \in f[k]
  <2> DEFINE Good == {k \in 0 .. NumRooms : room \in f[k]}
  <2>1. 0 \in Good /\ \A k \in 1 .. NumRooms : k - 1 \in Good => k \in Good
    BY <1>1, <1>2 DEF Widened
  <2>2. \A k \in 0 .. NumRooms : k \in Good
    <3> HIDE DEF Good
    <3> QED
      BY <1>2, <2>1, UpTo
  <2> QED
    BY <2>2
<1>7. ASSUME NEW rooms, room \in rooms, Closed(rooms, st)
      PROVE  f[NumRooms] \subseteq rooms
  <2> DEFINE Good == {k \in 0 .. NumRooms : f[k] \subseteq rooms}
  <2>1. 0 \in Good
    BY <1>1, <1>2, <1>7
  <2>2. ASSUME NEW k \in 1 .. NumRooms, k - 1 \in Good
        PROVE  k \in Good
    <3>1. f[k] = Widened(f[k - 1], st) /\ f[k - 1] \subseteq rooms
      BY <1>1, <2>2
    <3>2. OpenAt(f[k - 1], st) \subseteq OpenAt(rooms, st)
      BY <3>1 DEF OpenAt
    <3> QED
      BY <1>7, <3>1, <3>2 DEF Widened, Closed
  <2>3. \A k \in 0 .. NumRooms : k \in Good
    <3> HIDE DEF Good
    <3> QED
      BY <1>2, <2>1, <2>2, UpTo
  <2> QED
    BY <1>2, <2>3
<1> QED
  BY <1>1, <1>2, <1>5, <1>6, <1>7

\* A portal that touches the complement of a closed set and the set is not open.
LEMMA ComplementClosed ==
  ASSUME NEW rooms, NEW more, NEW st, Closed(rooms, st), Closed(more, st)
  PROVE  Closed(more \ rooms, st)
<1> SUFFICES ASSUME NEW p \in OpenAt(more \ rooms, st) PROVE Range(Ends[p]) \subseteq more \ rooms
  BY DEF Closed
<1>1. Range(Ends[p]) \subseteq more
  BY DEF Closed, OpenAt
<1>2. p \in OpenAt(rooms, st) => Range(Ends[p]) \subseteq rooms
  BY DEF Closed
<1>3. Range(Ends[p]) \cap rooms = {}
  BY <1>2 DEF OpenAt
<1> QED
  BY <1>1, <1>3

\* The rooms of a group are alike: groups are equal or apart.
LEMMA WithinIsGroup ==
  ASSUME NEW r \in Rooms, NEW st, NEW s \in Within(r, st)
  PROVE  s \in Rooms /\ Within(s, st) = Within(r, st)
<1>1. s \in Rooms
  BY WithinIsLeast
<1>2. Within(s, st) \subseteq Within(r, st)
  BY <1>1, WithinIsLeast
<1>3. r \in Within(s, st)
  <2>1. SUFFICES ASSUME r \notin Within(s, st) PROVE FALSE
    OBVIOUS
  <2>2. Closed(Within(r, st) \ Within(s, st), st)
    BY <1>1, WithinIsLeast, ComplementClosed
  <2>3. r \in Within(r, st) \ Within(s, st)
    BY <2>1, WithinIsLeast
  <2>4. Within(r, st) \subseteq Within(r, st) \ Within(s, st)
    BY <2>2, <2>3, WithinIsLeast
  <2> QED
    BY <1>1, <2>4, WithinIsLeast
<1>4. Within(r, st) \subseteq Within(s, st)
  BY <1>1, <1>3, WithinIsLeast
<1> QED
  BY <1>1, <1>2, <1>4

Components(st) == {Within(r, st) : r \in Rooms}

LEMMA ComponentsAre ==
  ASSUME NEW st
  PROVE  /\ IsFiniteSet(Components(st)) /\ Cardinality(Components(st)) <= NumRooms
         /\ \A c \in Components(st) : c \in SUBSET Rooms /\ c # {} /\ Closed(c, st)
         /\ \A c \in Components(st) : \A r \in c : c = Within(r, st)
<1>1. IsFiniteSet(Rooms) /\ Cardinality(Rooms) = NumRooms
  BY FS_Interval, PathAssumption DEF Rooms
<1>2. IsFiniteSet(Components(st)) /\ Cardinality(Components(st)) <= NumRooms
  <2> DEFINE f == [r \in Rooms |-> Within(r, st)]
  <2>1. f \in Surjection(Rooms, Components(st))
    <3>1. f \in [Rooms -> Components(st)] /\ \A c \in Components(st) : \E r \in Rooms : f[r] = c
      BY DEF Components
    <3> HIDE DEF f
    <3> QED
      BY <3>1, Fun_IsSurj
  <2> HIDE DEF f
  <2> QED
    BY <1>1, <2>1, FS_Surjection
<1>3. ASSUME NEW c \in Components(st)
      PROVE  c \in SUBSET Rooms /\ c # {} /\ Closed(c, st) /\ \A r \in c : c = Within(r, st)
  <2>1. PICK r \in Rooms : c = Within(r, st)
    BY DEF Components
  <2> QED
    BY <2>1, WithinIsLeast, WithinIsGroup
<1> QED
  BY <1>2, <1>3

\* The order of the group numbers.
ByLowestRoom(st) == {x \in Components(st) \X Components(st) : Min(x[1]) < Min(x[2])}

LEMMA LowestRoomOrders ==
  ASSUME NEW st
  PROVE  Orders(ByLowestRoom(st), Components(st))
<1>1. ASSUME NEW c \in Components(st)
      PROVE  Min(c) \in Nat /\ c = Within(Min(c), st)
  <2>1. c \in SUBSET Nat /\ c # {}
    BY ComponentsAre DEF Rooms
  <2>2. Min(c) \in c
    BY <2>1, MinOfNats
  <2> QED
    BY <2>1, <2>2, ComponentsAre
<1>2. \A a, b \in Components(st) : <<a, b>> \in ByLowestRoom(st) <=> Min(a) < Min(b)
  BY DEF ByLowestRoom
<1>3. \A a, b \in Components(st) : Min(a) = Min(b) => a = b
  BY <1>1
<1>4. ASSUME NEW a \in Components(st), NEW b \in Components(st), a # b
      PROVE  Min(a) < Min(b) \/ Min(b) < Min(a)
  BY <1>1, <1>3, <1>4
<1>5. ASSUME NEW a \in Components(st), NEW b \in Components(st), NEW c \in Components(st), Min(a) < Min(b), Min(b) < Min(c)
      PROVE  Min(a) < Min(c)
  BY <1>1, <1>5
<1>6. \A a \in Components(st) : ~(Min(a) < Min(a))
  BY <1>1
<1> QED
  BY <1>2, <1>4, <1>5, <1>6 DEF Orders

\* The groups are the components, each with one number, and a room is in the group with
\* the number GroupOf returns.
LEMMA GroupsAre ==
  ASSUME NEW st
  PROVE  /\ Cardinality(Components(st)) \in Nat
         /\ GroupsOf(st) \in [1 .. Cardinality(Components(st)) -> Components(st)]
         /\ \A c \in Components(st) : \E g \in DOMAIN GroupsOf(st) : GroupsOf(st)[g] = c
         /\ \A r \in Rooms : /\ GroupOf(r, GroupsOf(st)) \in DOMAIN GroupsOf(st)
                             /\ GroupsOf(st)[GroupOf(r, GroupsOf(st))] = Within(r, st)
<1>a. PICK c, R : c = Components(st) /\ R = ByLowestRoom(st)
  OBVIOUS
<1>b. PICK n : n = Cardinality(c)
  OBVIOUS
<1>1. GroupsOf(st) = Line(c, R)
  <2>1. \A x \in c : {y \in c : Min(y) < Min(x)} = Below(c, R, x)
    BY <1>a DEF Below, ByLowestRoom
  <2>2. GroupsOf(st) = [i \in 1 .. n |-> CHOOSE x \in c : Cardinality({y \in c : Min(y) < Min(x)}) = i - 1]
    BY <1>a, <1>b DEF GroupsOf, Sorted, Components
  <2>3. \A i \in 1 .. n : (CHOOSE x \in c : Cardinality({y \in c : Min(y) < Min(x)}) = i - 1)
                            = (CHOOSE x \in c : Cardinality(Below(c, R, x)) = i - 1)
    BY <2>1
  <2> QED
    BY <1>b, <2>2, <2>3 DEF Line
<1>2. /\ n \in Nat /\ Line(c, R) \in [1 .. n -> c]
      /\ \A x \in c : \E i \in 1 .. n : Line(c, R)[i] = x
  <2>1. IsFiniteSet(c) /\ Orders(R, c)
    BY <1>a, ComponentsAre, LowestRoomOrders
  <2> QED
    BY <1>b, <2>1, Lines
<1>3. ASSUME NEW r \in Rooms
      PROVE  /\ GroupOf(r, GroupsOf(st)) \in DOMAIN GroupsOf(st)
             /\ GroupsOf(st)[GroupOf(r, GroupsOf(st))] = Within(r, st)
  <2>1. PICK gs : gs = GroupsOf(st)
    OBVIOUS
  <2>2. PICK i \in DOMAIN gs : gs[i] = Within(r, st)
    BY <1>a, <1>1, <1>2, <2>1 DEF Components
  <2>3. r \in gs[i]
    BY <2>2, WithinIsLeast
  <2>4. GroupOf(r, gs) \in DOMAIN gs /\ r \in gs[GroupOf(r, gs)]
    BY <2>3 DEF GroupOf
  <2>5. gs[GroupOf(r, gs)] \in c
    BY <1>1, <1>2, <2>1, <2>4
  <2> QED
    BY <1>a, <2>1, <2>4, <2>5, ComponentsAre
<1> QED
  BY <1>a, <1>b, <1>1, <1>2, <1>3

-----------------------------------------------------------------------------
(* The search tree. *)

\* Parents come before their children, one level up.
IsTree(T) ==
  /\ Len(T) \in Nat \ {0} /\ DOMAIN T = 1 .. Len(T)
  /\ T[1].depth = 0
  /\ \A n \in 1 .. Len(T) : T[n].depth \in Nat
  /\ \A n \in 2 .. Len(T) : T[n].parent \in 1 .. n - 1 /\ T[n].depth = T[T[n].parent].depth + 1

\* PathTo, of any tree.
WayTo(T, n) ==
  LET depth == T[n].depth
      Up[k \in 0 .. depth] == IF k = 0 THEN n ELSE T[Up[k - 1]].parent IN
  [i \in 1 .. depth + 1 |-> Up[depth + 1 - i]]

\* From a node up to the root.
IsWayUp(T, n, u) ==
  /\ u \in [0 .. T[n].depth -> 1 .. n] /\ u[0] = n
  /\ \A k \in 1 .. T[n].depth : u[k] = T[u[k - 1]].parent

LEMMA WayUpExists ==
  ASSUME NEW T, IsTree(T), NEW n \in 1 .. Len(T)
  PROVE  \E u : IsWayUp(T, n, u)
<1> DEFINE Good == {m \in 0 .. Len(T) : \A j \in 1 .. m : \E u : IsWayUp(T, j, u)}
<1>1. 0 \in Good /\ Len(T) \in Nat
  BY DEF IsTree
<1>2. ASSUME NEW m \in 1 .. Len(T), m - 1 \in Good
      PROVE  m \in Good
  <2>1. SUFFICES \E u : IsWayUp(T, m, u)
    <3>1. ASSUME NEW j \in 1 .. m PROVE j = m \/ j \in 1 .. m - 1
      OBVIOUS
    <3> QED
      BY <1>2, <2>1, <3>1
  <2>2. CASE m = 1
    <3>1. PICK u : u = [k \in 0 .. 0 |-> 1]
      OBVIOUS
    <3>2. IsWayUp(T, 1, u)
      BY <3>1 DEF IsWayUp, IsTree
    <3> QED
      BY <2>2, <3>2
  <2>3. CASE m # 1
    <3>0. m \in 2 .. Len(T)
      BY <1>1, <2>3
    <3>1. PICK p \in 1 .. m - 1 : p = T[m].parent /\ T[m].depth = T[p].depth + 1
      BY <3>0 DEF IsTree
    <3>2. PICK v : IsWayUp(T, p, v)
      BY <1>2, <3>1
    <3>3. PICK d \in Nat : d = T[p].depth
      BY <3>1 DEF IsTree
    <3>4. PICK u : u = [k \in 0 .. d + 1 |-> IF k = 0 THEN m ELSE v[k - 1]]
      OBVIOUS
    <3>5. v \in [0 .. d -> 1 .. p] /\ v[0] = p /\ \A k \in 1 .. d : v[k] = T[v[k - 1]].parent
      BY <3>2, <3>3 DEF IsWayUp
    <3>6. \A k \in 1 .. d + 1 : k - 1 \in 0 .. d /\ u[k] = v[k - 1] /\ u[k] \in 1 .. m
      BY <3>4, <3>5
    <3>7. u \in [0 .. d + 1 -> 1 .. m] /\ u[0] = m
      <4>1. u[0] = m /\ m \in 1 .. m
        BY <1>1, <3>4
      <4>2. \A k \in 0 .. d + 1 : k = 0 \/ k \in 1 .. d + 1
        OBVIOUS
      <4>3. \A k \in 0 .. d + 1 : u[k] \in 1 .. m
        BY <3>6, <4>1, <4>2
      <4> QED
        BY <3>4, <4>1, <4>3
    <3>8. ASSUME NEW k \in 1 .. d + 1
          PROVE  u[k] = T[u[k - 1]].parent
      <4>1. CASE k = 1
        BY <3>1, <3>5, <3>6, <3>7, <4>1
      <4>2. CASE k # 1
        <5>1. k - 1 \in 1 .. d /\ k - 1 \in 1 .. d + 1
          BY <4>2
        <5>2. u[k] = v[k - 1] /\ u[k - 1] = v[k - 1 - 1]
          BY <3>6, <5>1
        <5> QED
          BY <3>5, <5>1, <5>2
      <4> QED
        BY <4>1, <4>2
    <3>9. IsWayUp(T, m, u)
      BY <3>1, <3>3, <3>7, <3>8 DEF IsWayUp
    <3> QED
      BY <3>9
  <2> QED
    BY <2>2, <2>3
<1>3. \A m \in 0 .. Len(T) : m \in Good
  <2> HIDE DEF Good
  <2> QED
    BY <1>1, <1>2, UpTo
<1>4. n \in Good
  BY <1>1, <1>3
<1> QED
  BY <1>1, <1>4

\* There is one way up, and PathTo is that way reversed.
LEMMA WayUpIsPath ==
  ASSUME NEW T, IsTree(T), NEW n \in 1 .. Len(T), NEW u, IsWayUp(T, n, u)
  PROVE  WayTo(T, n) = [i \in 1 .. T[n].depth + 1 |-> u[T[n].depth + 1 - i]]
<1> DEFINE d == T[n].depth
           body(f) == [k \in 0 .. d |-> IF k = 0 THEN n ELSE T[f[k - 1]].parent]
           g == CHOOSE f : f = body(f)
<1>2. WayTo(T, n) = [i \in 1 .. d + 1 |-> g[d + 1 - i]]
  BY Zenon DEF WayTo
<1>1. d \in Nat
  BY DEF IsTree
<1>3. u \in [0 .. d -> 1 .. n] /\ u[0] = n /\ \A k \in 1 .. d : u[k] = T[u[k - 1]].parent
  BY DEF IsWayUp
<1> HIDE DEF d
<1>4. u = body(u)
  BY <1>1, <1>3
<1>5. g = body(g)
  <2> HIDE DEF body
  <2> QED
    BY <1>4
<1> HIDE DEF g
<1>6. g[0] = n /\ \A k \in 1 .. d : g[k] = T[g[k - 1]].parent
  <2>1. PICK h : h = g
    OBVIOUS
  <2>2. h = [k \in 0 .. d |-> IF k = 0 THEN n ELSE T[h[k - 1]].parent]
    BY <1>5, <2>1
  <2>3. \A k \in 0 .. d : h[k] = IF k = 0 THEN n ELSE T[h[k - 1]].parent
    BY <2>2
  <2> QED
    BY <1>1, <2>1, <2>3
<1> DEFINE Good == {k \in 0 .. d : g[k] = u[k]}
<1>7. 0 \in Good
  BY <1>1, <1>3, <1>6
<1>a. ASSUME NEW k \in 1 .. d, k - 1 \in Good
      PROVE  k \in Good
  <2>1. g[k - 1] = u[k - 1] /\ k \in 0 .. d
    BY <1>1, <1>a
  <2>2. g[k] = T[g[k - 1]].parent /\ u[k] = T[u[k - 1]].parent
    BY <1>3, <1>6
  <2> QED
    BY <2>1, <2>2
<1>8. \A k \in 0 .. d : k \in Good
  <2> HIDE DEF Good
  <2> QED
    BY <1>1, <1>7, <1>a, UpTo
<1>9. \A i \in 1 .. d + 1 : g[d + 1 - i] = u[d + 1 - i]
  <2> TAKE i \in 1 .. d + 1
  <2>1. d + 1 - i \in 0 .. d
    BY <1>1
  <2> QED
    BY <1>8, <2>1
<1> QED
  BY <1>2, <1>9 DEF d

\* The way to a node ends there and is as long as the node is deep.
LEMMA WayShape ==
  ASSUME NEW T, IsTree(T), NEW n \in 1 .. Len(T)
  PROVE  /\ T[n].depth \in Nat
         /\ WayTo(T, n) \in [1 .. T[n].depth + 1 -> 1 .. n]
         /\ WayTo(T, n)[T[n].depth + 1] = n
<1>1. PICK d \in Nat : d = T[n].depth
  BY DEF IsTree
<1>2. PICK u : IsWayUp(T, n, u)
  BY WayUpExists
<1>3. WayTo(T, n) = [i \in 1 .. d + 1 |-> u[d + 1 - i]]
  BY <1>1, <1>2, WayUpIsPath
<1>4. u \in [0 .. d -> 1 .. n] /\ u[0] = n
  BY <1>1, <1>2 DEF IsWayUp
<1> QED
  BY <1>1, <1>3, <1>4

\* The way to a child is the way to its parent and the child.
LEMMA WayToChild ==
  ASSUME NEW T, IsTree(T), NEW n \in 2 .. Len(T)
  PROVE  /\ T[n].parent \in 1 .. n - 1 /\ T[n].parent \in 1 .. Len(T)
         /\ T[n].depth = T[T[n].parent].depth + 1
         /\ \A i \in 1 .. T[n].depth : WayTo(T, n)[i] = WayTo(T, T[n].parent)[i]
<1>1. PICK p \in 1 .. n - 1 : p = T[n].parent /\ T[n].depth = T[p].depth + 1
  BY DEF IsTree
<1>2. Len(T) \in Nat /\ n \in 1 .. Len(T) /\ p \in 1 .. Len(T)
  BY <1>1 DEF IsTree
<1>3. PICK d \in Nat : d = T[p].depth
  BY <1>2 DEF IsTree
<1>4. PICK u : IsWayUp(T, n, u)
  BY <1>2, WayUpExists
<1>5. u \in [0 .. d + 1 -> 1 .. n] /\ u[0] = n /\ \A k \in 1 .. d + 1 : u[k] = T[u[k - 1]].parent
  BY <1>1, <1>3, <1>4 DEF IsWayUp
<1>6. PICK v : v = [k \in 0 .. d |-> u[k + 1]]
  OBVIOUS
<1>7. \A k \in 1 .. d : v[k] = T[v[k - 1]].parent
  <2> TAKE k \in 1 .. d
  <2>1. k \in 0 .. d /\ k - 1 \in 0 .. d /\ k + 1 \in 1 .. d + 1
    OBVIOUS
  <2>2. v[k] = u[k + 1] /\ v[k - 1] = u[k - 1 + 1] /\ k - 1 + 1 = k
    BY <1>6, <2>1
  <2>3. u[k + 1] = T[u[k + 1 - 1]].parent /\ k + 1 - 1 = k
    BY <1>5, <2>1
  <2> QED
    BY <2>2, <2>3
<1>8. \A k \in 0 .. d : v[k] \in 1 .. p
  <2> DEFINE Good == {k \in 0 .. d : v[k] \in 1 .. p}
  <2>1. 0 \in Good
    BY <1>1, <1>5, <1>6
  <2>2. ASSUME NEW k \in 1 .. d, k - 1 \in Good
        PROVE  k \in Good
    <3>1. v[k - 1] \in 1 .. p /\ v[k] = T[v[k - 1]].parent
      BY <1>7, <2>2
    <3>2. v[k] \in 1 .. n
      BY <1>5, <1>6
    <3>3. v[k - 1] # 1
      <4>1. SUFFICES ASSUME v[k - 1] = 1 PROVE FALSE
        OBVIOUS
      <4> DEFINE High == {j \in 0 .. d + 1 : T[u[j]].depth = d + 1 - j}
      <4>2. 0 \in High
        BY <1>1, <1>3, <1>5
      <4>3. ASSUME NEW j \in 1 .. d + 1, j - 1 \in High
            PROVE  j \in High
        <5>1. u[j - 1] \in 1 .. n /\ u[j] = T[u[j - 1]].parent /\ T[u[j - 1]].depth = d + 1 - (j - 1)
          BY <1>5, <4>3
        <5>2. u[j - 1] # 1
          BY <5>1 DEF IsTree
        <5>3. u[j - 1] \in 2 .. Len(T)
          BY <1>2, <5>1, <5>2
        <5>4. T[u[j - 1]].depth = T[u[j]].depth + 1
          BY <5>1, <5>3 DEF IsTree
        <5>5. u[j] \in 1 .. Len(T)
          BY <1>2, <1>5
        <5>6. T[u[j]].depth \in Nat
          BY <5>5 DEF IsTree
        <5>7. PICK a \in Nat : a = T[u[j]].depth
          BY <5>6
        <5>8. a + 1 = d + 1 - (j - 1)
          BY <5>1, <5>4, <5>7
        <5>9. j \in 0 .. d + 1 /\ a = d + 1 - j
          BY <5>8
        <5> QED
          BY <5>7, <5>9
      <4>4. \A j \in 0 .. d + 1 : j \in High
        <5> HIDE DEF High
        <5>1. d + 1 \in Nat
          OBVIOUS
        <5> QED
          BY <4>2, <4>3, <5>1, UpTo
      <4>5. k \in 0 .. d + 1 /\ u[k] = 1
        BY <1>6, <4>1
      <4>6. T[u[k]].depth = d + 1 - k
        BY <4>4, <4>5
      <4> QED
        BY <4>5, <4>6 DEF IsTree
    <3>4. v[k - 1] \in 2 .. Len(T)
      BY <1>2, <3>1, <3>3
    <3>5. v[k] \in 1 .. v[k - 1] - 1
      BY <3>1, <3>4 DEF IsTree
    <3> QED
      BY <3>1, <3>5
  <2>3. \A k \in 0 .. d : k \in Good
    <3> HIDE DEF Good
    <3> QED
      BY <2>1, <2>2, UpTo
  <2> QED
    BY <2>3
<1>9. IsWayUp(T, p, v)
  <2>1. v \in [0 .. d -> 1 .. p]
    BY <1>6, <1>8
  <2>2. v[0] = p
    <3>1. v[0] = u[1] /\ u[1] = T[u[0]].parent
      BY <1>5, <1>6
    <3> QED
      BY <1>1, <1>5, <3>1
  <2> QED
    BY <1>3, <1>7, <2>1, <2>2 DEF IsWayUp
<1>a. T[n].depth = d + 1
  BY <1>1, <1>3
<1>b. WayTo(T, p) = [i \in 1 .. d + 1 |-> v[d + 1 - i]]
  BY <1>2, <1>3, <1>9, WayUpIsPath
<1>10. WayTo(T, n) = [i \in 1 .. d + 1 + 1 |-> u[d + 1 + 1 - i]]
  <2>1. PICK e : e = T[n].depth
    OBVIOUS
  <2>2. WayTo(T, n) = [i \in 1 .. e + 1 |-> u[e + 1 - i]]
    BY <1>2, <1>4, <2>1, WayUpIsPath
  <2> QED
    BY <1>a, <2>1, <2>2
<1>11. ASSUME NEW i \in 1 .. d + 1
       PROVE  WayTo(T, n)[i] = WayTo(T, p)[i]
  <2>1. d + 1 - i \in 0 .. d /\ d + 1 - i + 1 = d + 1 + 1 - i
    OBVIOUS
  <2>2. v[d + 1 - i] = u[d + 1 + 1 - i]
    BY <1>6, <2>1
  <2>3. i \in 1 .. d + 1 + 1
    OBVIOUS
  <2> QED
    BY <1>10, <1>b, <2>2, <2>3
<1> QED
  BY <1>1, <1>2, <1>a, <1>11

\* Growing a tree does not change the ways that are in it.
LEMMA WaysKept ==
  ASSUME NEW T, NEW U, IsTree(T), IsTree(U), Len(T) <= Len(U),
         \A m \in 1 .. Len(T) : U[m] = T[m], NEW n \in 1 .. Len(T)
  PROVE  WayTo(U, n) = WayTo(T, n)
<1>1. Len(T) \in Nat /\ Len(U) \in Nat /\ n \in 1 .. Len(U)
  BY DEF IsTree
<1>2. PICK d \in Nat : d = T[n].depth /\ d = U[n].depth
  BY DEF IsTree
<1>3. PICK u : IsWayUp(T, n, u)
  BY WayUpExists
<1>4. u \in [0 .. d -> 1 .. n] /\ u[0] = n /\ \A k \in 1 .. d : u[k] = T[u[k - 1]].parent
  BY <1>2, <1>3 DEF IsWayUp
<1>5. \A k \in 1 .. d : u[k] = U[u[k - 1]].parent
  <2> TAKE k \in 1 .. d
  <2>1. u[k - 1] \in 1 .. n
    BY <1>4
  <2>2. u[k - 1] \in 1 .. Len(T)
    BY <1>1, <2>1
  <2> QED
    BY <1>4, <2>2
<1>6. IsWayUp(U, n, u)
  BY <1>2, <1>4, <1>5 DEF IsWayUp
<1>7. WayTo(T, n) = [i \in 1 .. d + 1 |-> u[d + 1 - i]]
  BY <1>2, <1>3, WayUpIsPath
<1>8. WayTo(U, n) = [i \in 1 .. d + 1 |-> u[d + 1 - i]]
  BY <1>1, <1>2, <1>6, WayUpIsPath
<1> QED
  BY <1>7, <1>8

-----------------------------------------------------------------------------
(* The edges of a room group. *)

\* The order of sortedGroupEdges.
ByPortal(S) == {x \in S \X S : x[1].portal < x[2].portal}

\* The views of a group lead to groups, and no portal has two.
LEMMA ViewsAre ==
  ASSUME NEW st, NEW from \in DOMAIN GroupsOf(st)
  PROVE  LET views == GroupPortalViews(from, GroupsOf(st), st) IN
         /\ IsFiniteSet(views)
         /\ \A e \in views : e \in EdgeType /\ e.to \in DOMAIN GroupsOf(st)
         /\ \A e, f \in views : e.portal = f.portal => e = f
<1>1. PICK gs, views : gs = GroupsOf(st) /\ views = GroupPortalViews(from, gs, st)
  OBVIOUS
<1>2. PICK inside : inside = gs[from]
  OBVIOUS
<1> DEFINE ways == {p \in Portals : st[p] = "closed" /\ Cardinality(Range(Ends[p]) \cap inside) = 1}
           Far(p) == CHOOSE r \in Range(Ends[p]) : r \notin inside
           View(p) == [portal |-> p, to |-> GroupOf(Far(p), gs)]
<1>3. views = {View(p) : p \in ways}
  BY <1>1, <1>2 DEF GroupPortalViews
<1>4. ASSUME NEW p \in ways
      PROVE  View(p).to \in DOMAIN gs /\ View(p).to \in 1 .. NumRooms
  <2>1. Range(Ends[p]) = {Ends[p][1], Ends[p][2]} /\ Ends[p][1] # Ends[p][2] /\ Range(Ends[p]) \subseteq Rooms
    BY EndsOfPortal
  <2>2. PICK a, b : a = Ends[p][1] /\ b = Ends[p][2]
    OBVIOUS
  <2>3. \E r \in Range(Ends[p]) : r \notin inside
    <3>1. SUFFICES ASSUME \A r \in Range(Ends[p]) : r \in inside PROVE FALSE
      OBVIOUS
    <3>2. Range(Ends[p]) \cap inside = {a, b}
      BY <2>1, <2>2, <3>1
    <3>3. Cardinality({a, b}) = 1
      BY <3>2
    <3>4. Cardinality({a, b}) = 2
      <4>1. IsFiniteSet({a}) /\ Cardinality({a}) = 1 /\ b \notin {a}
        BY <2>1, <2>2, FS_Singleton
      <4>2. Cardinality({a} \cup {b}) = Cardinality({a}) + 1
        BY <4>1, FS_AddElement
      <4>3. {a} \cup {b} = {a, b}
        OBVIOUS
      <4> QED
        BY <4>1, <4>2, <4>3
    <3> QED
      BY <3>3, <3>4
  <2>4. Far(p) \in Rooms
    BY <2>1, <2>3
  <2>5. PICK r \in Rooms : r = Far(p)
    BY <2>4
  <2>6. PICK n \in Nat : n = Cardinality(Components(st)) /\ DOMAIN gs = 1 .. n /\ n <= NumRooms
    BY <1>1, GroupsAre, ComponentsAre
  <2>7. GroupOf(r, gs) \in 1 .. n
    BY <1>1, <2>6, GroupsAre
  <2>8. View(p).to = GroupOf(r, gs)
    BY <2>5
  <2> QED
    BY <2>6, <2>7, <2>8, PathAssumption
<1>5. \A e \in views : e \in EdgeType /\ e.to \in DOMAIN gs
  <2> TAKE e \in views
  <2>1. PICK p \in ways : e = View(p)
    BY <1>3
  <2>2. View(p) = [portal |-> p, to |-> View(p).to] /\ p \in Portals
    OBVIOUS
  <2>3. PICK to : to = View(p).to
    OBVIOUS
  <2>4. to \in DOMAIN gs /\ to \in 1 .. NumRooms
    BY <1>4, <2>3
  <2>5. e = [portal |-> p, to |-> to]
    BY <2>1, <2>2, <2>3
  <2> QED
    BY <2>2, <2>4, <2>5 DEF EdgeType
<1>6. \A e, f \in views : e.portal = f.portal => e = f
  <2> TAKE e, f \in views
  <2>1. PICK p \in ways, q \in ways : e = View(p) /\ f = View(q)
    BY <1>3
  <2>2. e.portal = p /\ f.portal = q
    BY <2>1
  <2> QED
    BY <2>1, <2>2
<1>7. IsFiniteSet(views)
  <2>1. IsFiniteSet(ways)
    BY PortalNumbers, FS_Subset
  <2> HIDE DEF ways, View
  <2>2. IsFiniteSet({View(p) : p \in ways})
    <3> DEFINE v == [p \in ways |-> View(p)]
               W == {View(p) : p \in ways}
    <3>1. v \in Surjection(ways, W)
      <4>1. v \in [ways -> W] /\ \A w \in W : \E p \in ways : v[p] = w
        OBVIOUS
      <4> QED
        BY <4>1 DEF Surjection
    <3> HIDE DEF v, W
    <3>2. IsFiniteSet(W)
      BY <2>1, <3>1, FS_Surjection
    <3> QED
      BY <3>2 DEF W
  <2> QED
    BY <1>3, <2>2
<1> QED
  BY <1>1, <1>5, <1>6, <1>7

\* sortedGroupEdges: one edge per closed portal that leaves the group.
LEMMA EdgesAre ==
  ASSUME NEW st, NEW from \in DOMAIN GroupsOf(st)
  PROVE  LET edges == SortedGroupEdges(from, GroupsOf(st), st) IN
         /\ edges \in Seq(EdgeType)
         /\ \A i \in DOMAIN edges : edges[i].to \in DOMAIN GroupsOf(st)
         /\ \A i, j \in DOMAIN edges : edges[i].portal = edges[j].portal => i = j
<1>1. PICK gs : gs = GroupsOf(st)
  OBVIOUS
<1>2. PICK S : S = GroupPortalViews(from, gs, st)
  OBVIOUS
<1>3. /\ IsFiniteSet(S)
      /\ \A e \in S : e \in EdgeType /\ e.to \in DOMAIN gs
      /\ \A e, f \in S : e.portal = f.portal => e = f
  BY <1>1, <1>2, ViewsAre
<1>4. PICK R : R = ByPortal(S)
  OBVIOUS
<1>5. Orders(R, S)
  <2>1. \A x \in S : x.portal \in Nat
    BY <1>3, PortalNumbers DEF EdgeType
  <2>2. \A x, y \in S : <<x, y>> \in R <=> x.portal < y.portal
    BY <1>4 DEF ByPortal
  <2>3. \A x, y \in S : x # y => x.portal < y.portal \/ y.portal < x.portal
    BY <1>3, <2>1
  <2> QED
    BY <2>1, <2>2, <2>3 DEF Orders
<1>6. PICK n : n = Cardinality(S)
  OBVIOUS
<1>7. PICK edges : edges = SortedGroupEdges(from, gs, st)
  OBVIOUS
<1>8. edges = Line(S, R)
  <2>1. \A x \in S : {y \in S : y.portal < x.portal} = Below(S, R, x)
    BY <1>4 DEF Below, ByPortal
  <2>2. edges = [i \in 1 .. n |-> CHOOSE x \in S : Cardinality({y \in S : y.portal < x.portal}) = i - 1]
    BY <1>2, <1>6, <1>7 DEF SortedGroupEdges, Sorted
  <2>3. \A i \in 1 .. n : (CHOOSE x \in S : Cardinality({y \in S : y.portal < x.portal}) = i - 1)
                            = (CHOOSE x \in S : Cardinality(Below(S, R, x)) = i - 1)
    BY <2>1
  <2>4. Line(S, R) = [i \in 1 .. n |-> CHOOSE x \in S : Cardinality(Below(S, R, x)) = i - 1]
    BY <1>6 DEF Line
  <2> QED
    BY <2>2, <2>3, <2>4
<1>9. n \in Nat /\ edges \in [1 .. n -> S] /\ \A i, j \in 1 .. n : edges[i] = edges[j] => i = j
  BY <1>3, <1>5, <1>6, <1>8, Lines
<1>10. edges \in [1 .. n -> EdgeType]
  BY <1>3, <1>9
<1>11. edges \in Seq(EdgeType)
  BY <1>9, <1>10, SeqDef
<1> QED
  BY <1>1, <1>3, <1>7, <1>9, <1>11

-----------------------------------------------------------------------------
(* The state of the search. *)

LEMMA WaysOfSearch ==
  ASSUME NEW n
  PROVE  PathTo(n) = WayTo(search.nodes, n)
BY Zenon DEF PathTo, WayTo, Node

LEMMA SearchIsTree ==
  ASSUME SearchInv
  PROVE  /\ IsTree(search.nodes) /\ Len(search.nodes) \in Nat \ {0} /\ DOMAIN search.nodes = 1 .. Len(search.nodes)
         /\ \A n \in DOMAIN search.nodes : Node(n) \in NodeType
<1>1. PICK T : T = search.nodes
  OBVIOUS
<1>2. /\ T \in Seq(NodeType) /\ T # <<>> /\ T[1].depth = 0
      /\ \A m \in DOMAIN T \ {1} : T[m].parent \in 1 .. m - 1 /\ T[m].depth = T[T[m].parent].depth + 1
  BY <1>1 DEF SearchInv, NodesInv, Node, Root
<1>3. Len(T) \in Nat \ {0} /\ DOMAIN T = 1 .. Len(T)
  BY <1>2, LenProperties, EmptySeq
<1>4. \A n \in 1 .. Len(T) : T[n] \in NodeType
  BY <1>2, <1>3, ElementOfSeq
<1>5. \A n \in 1 .. Len(T) : T[n].depth \in Nat
  BY <1>4 DEF NodeType
<1>6. IsTree(T)
  BY <1>2, <1>3, <1>5 DEF IsTree
<1> QED
  BY <1>1, <1>3, <1>4, <1>6 DEF Node

\* Where the way to a node ends.
LEMMA PathShape ==
  ASSUME SearchInv, NEW n \in DOMAIN search.nodes
  PROVE  /\ n \in 1 .. Len(search.nodes) /\ Node(n).depth \in Nat
         /\ PathTo(n) \in [1 .. Node(n).depth + 1 -> 1 .. n]
         /\ PathTo(n)[Node(n).depth + 1] = n
BY SearchIsTree, WayShape, WaysOfSearch DEF Node

\* A node but the root hangs on the edge it was grown from.
LEMMA ChildOf ==
  ASSUME SearchInv, NEW m \in DOMAIN search.nodes, m # Root
  PROVE  \E n \in DOMAIN search.nodes :
           /\ n = Node(m).parent /\ n \in 1 .. m - 1
           /\ Node(m).depth = Node(n).depth + 1 /\ Node(m).loss = Accumulate(Node(n).loss, Node(m).portal)
           /\ Node(m).group \notin PathGroups(n)
           /\ \E i \in DOMAIN Edges(n) : /\ Tried(n, i)
                                         /\ Edges(n)[i].portal = Node(m).portal /\ Edges(n)[i].to = Node(m).group
           /\ \A i \in 1 .. Node(n).depth + 1 : PathTo(m)[i] = PathTo(n)[i]
<1>1. PICK n : n = Node(m).parent
  OBVIOUS
<1>2. /\ n \in 1 .. m - 1 /\ Node(m).depth = Node(n).depth + 1
      /\ Node(m).loss = Accumulate(Node(n).loss, Node(m).portal)
      /\ Node(m).group \notin PathGroups(n)
      /\ \E i \in DOMAIN Edges(n) : /\ Tried(n, i)
                                    /\ Edges(n)[i].portal = Node(m).portal /\ Edges(n)[i].to = Node(m).group
  BY <1>1 DEF SearchInv, NodesInv
<1>3. PICK T : T = search.nodes
  OBVIOUS
<1>4. IsTree(T) /\ m \in 2 .. Len(T) /\ n \in DOMAIN T
  BY <1>2, <1>3, SearchIsTree DEF Root
<1>5. \A i \in 1 .. T[m].depth : WayTo(T, m)[i] = WayTo(T, T[m].parent)[i]
  BY <1>4, WayToChild
<1>6. \A i \in 1 .. Node(n).depth + 1 : PathTo(m)[i] = PathTo(n)[i]
  BY <1>1, <1>2, <1>3, <1>5, WaysOfSearch DEF Node
<1> QED
  BY <1>1, <1>2, <1>3, <1>4, <1>6

LEMMA NodeGroups ==
  ASSUME SearchInv, NEW n \in DOMAIN search.nodes
  PROVE  Node(n).group \in DOMAIN search.groups
<1> DEFINE Good == {m \in 0 .. Len(search.nodes) : \A k \in 1 .. m : Node(k).group \in DOMAIN search.groups}
<1>1. DOMAIN search.nodes = 1 .. Len(search.nodes) /\ Len(search.nodes) \in Nat /\ search.groups = GroupsOf(state)
  BY SearchIsTree DEF SearchInv
<1>2. 0 \in Good
  BY <1>1
<1>3. ASSUME NEW m \in 1 .. Len(search.nodes), m - 1 \in Good
      PROVE  m \in Good
  <2>1. Node(m).group \in DOMAIN search.groups
    <3>1. CASE m = Root
      <4>1. Node(m).group = GroupOf(SourceRoom, search.groups)
        BY <3>1 DEF SearchInv, NodesInv
      <4> QED
        BY <1>1, <4>1, GroupsAre, PathAssumption
    <3>2. CASE m # Root
      <4>1. PICK k \in DOMAIN search.nodes : /\ k \in 1 .. m - 1
                                             /\ \E i \in DOMAIN Edges(k) : Edges(k)[i].to = Node(m).group
        BY <1>1, <3>2, ChildOf
      <4>2. Node(k).group \in DOMAIN GroupsOf(state)
        BY <1>1, <1>3, <4>1
      <4>3. \A i \in DOMAIN Edges(k) : Edges(k)[i].to \in DOMAIN GroupsOf(state)
        BY <1>1, <4>2, EdgesAre DEF Edges
      <4> QED
        BY <1>1, <4>1, <4>3
    <3> QED
      BY <3>1, <3>2
  <2>2. \A k \in 1 .. m : k = m \/ k \in 1 .. m - 1
    OBVIOUS
  <2> QED
    BY <1>1, <1>3, <2>1, <2>2
<1>4. \A m \in 0 .. Len(search.nodes) : m \in Good
  <2> HIDE DEF Good
  <2> QED
    BY <1>1, <1>2, <1>3, UpTo
<1>5. n \in Good
  BY <1>1, <1>4
<1> QED
  BY <1>1, <1>5

LEMMA EdgesOfNode ==
  ASSUME SearchInv, NEW n \in DOMAIN search.nodes
  PROVE  /\ Edges(n) \in Seq(EdgeType) /\ Len(Edges(n)) \in Nat /\ DOMAIN Edges(n) = 1 .. Len(Edges(n))
         /\ \A i \in DOMAIN Edges(n) : /\ Edges(n)[i] \in EdgeType /\ Edges(n)[i].to \in DOMAIN search.groups
         /\ \A i, j \in DOMAIN Edges(n) : Edges(n)[i].portal = Edges(n)[j].portal => i = j
<1>1. search.groups = GroupsOf(state)
  BY DEF SearchInv
<1>2. PICK edges, g : edges = Edges(n) /\ g = Node(n).group
  OBVIOUS
<1>3. edges = SortedGroupEdges(g, GroupsOf(state), state) /\ g \in DOMAIN GroupsOf(state)
  BY <1>1, <1>2, NodeGroups DEF Edges
<1>4. /\ edges \in Seq(EdgeType) /\ \A i \in DOMAIN edges : edges[i].to \in DOMAIN GroupsOf(state)
      /\ \A i, j \in DOMAIN edges : edges[i].portal = edges[j].portal => i = j
  BY <1>3, EdgesAre
<1>5. Len(edges) \in Nat /\ DOMAIN edges = 1 .. Len(edges) /\ \A i \in DOMAIN edges : edges[i] \in EdgeType
  BY <1>4, LenProperties, ElementOfSeq
<1> QED
  BY <1>1, <1>2, <1>4, <1>5

\* The groups on the way to a child.
LEMMA GroupsOfPath ==
  ASSUME SearchInv, NEW n \in DOMAIN search.nodes
  PROVE  /\ PathGroups(n) = {Node(PathTo(n)[i]).group : i \in 1 .. Node(n).depth + 1}
         /\ Node(n).group \in PathGroups(n)
<1>1. PICK w, d : w = PathTo(n) /\ d = Node(n).depth
  OBVIOUS
<1>2. d \in Nat /\ w \in [1 .. d + 1 -> 1 .. n] /\ w[d + 1] = n
  BY <1>1, PathShape
<1>3. Range(w) = {w[i] : i \in 1 .. d + 1}
  BY <1>2 DEF Range
<1>4. {Node(m).group : m \in Range(w)} = {Node(w[i]).group : i \in 1 .. d + 1}
  BY <1>3
<1>5. n \in Range(w)
  <2>1. d + 1 \in 1 .. d + 1
    BY <1>2
  <2> QED
    BY <1>2, <1>3, <2>1
<1> QED
  BY <1>1, <1>4, <1>5 DEF PathGroups

\* No group is visited twice on a way.
LEMMA GroupsDistinct ==
  ASSUME SearchInv, NEW n \in DOMAIN search.nodes,
         NEW i \in 1 .. Node(n).depth + 1, NEW j \in 1 .. Node(n).depth + 1,
         Node(PathTo(n)[i]).group = Node(PathTo(n)[j]).group
  PROVE  i = j
<1> DEFINE Simple(k) == \A a, b \in 1 .. Node(k).depth + 1 :
                          Node(PathTo(k)[a]).group = Node(PathTo(k)[b]).group => a = b
           Good == {m \in 0 .. Len(search.nodes) : \A k \in 1 .. m : Simple(k)}
<1>1. DOMAIN search.nodes = 1 .. Len(search.nodes) /\ Len(search.nodes) \in Nat
  BY SearchIsTree
<1>2. 0 \in Good
  BY <1>1
<1>3. ASSUME NEW m \in 1 .. Len(search.nodes), m - 1 \in Good
      PROVE  m \in Good
  <2>1. Simple(m)
    <3>1. CASE m = Root
      <4>1. Node(m).depth = 0
        BY <3>1 DEF SearchInv, NodesInv
      <4> QED
        BY <4>1
    <3>2. CASE m # Root
      <4>1. PICK p \in DOMAIN search.nodes :
              /\ p \in 1 .. m - 1 /\ Node(m).depth = Node(p).depth + 1
              /\ Node(m).group \notin PathGroups(p)
              /\ \A a \in 1 .. Node(p).depth + 1 : PathTo(m)[a] = PathTo(p)[a]
        BY <1>1, <3>2, ChildOf
      <4>2. PICK d \in Nat : d = Node(p).depth
        BY PathShape
      <4>3. Simple(p)
        BY <1>3, <4>1
      <4>4. PathTo(m)[d + 1 + 1] = m
        BY <1>1, <4>1, <4>2, PathShape
      <4>5. \A a \in 1 .. d + 1 : Node(PathTo(m)[a]).group # Node(m).group
        BY <4>1, <4>2, GroupsOfPath
      <4>6. \A a \in 1 .. d + 1 + 1 : a \in 1 .. d + 1 \/ a = d + 1 + 1
        BY <4>2
      <4> QED
        BY <4>1, <4>2, <4>3, <4>4, <4>5, <4>6
    <3> QED
      BY <3>1, <3>2
  <2>2. \A k \in 1 .. m : k = m \/ k \in 1 .. m - 1
    OBVIOUS
  <2> HIDE DEF Simple
  <2> QED
    BY <1>1, <1>3, <2>1, <2>2
<1>4. \A m \in 0 .. Len(search.nodes) : m \in Good
  <2> HIDE DEF Good
  <2> QED
    BY <1>1, <1>2, <1>3, UpTo
<1>5. n \in Good
  BY <1>1, <1>4
<1> QED
  BY <1>1, <1>5

-----------------------------------------------------------------------------
(* The stack. *)

\* Each frame is one level deeper than the one below it.
LEMMA StackIs ==
  ASSUME SearchInv
  PROVE  /\ search.stack \in Seq(FrameType) /\ Len(search.stack) \in Nat
         /\ DOMAIN search.stack = 1 .. Len(search.stack)
         /\ \A i \in 1 .. Len(search.stack) :
              /\ search.stack[i] \in FrameType
              /\ search.stack[i].node \in DOMAIN search.nodes /\ Node(search.stack[i].node).depth = i - 1
              /\ search.stack[i].edges = Edges(search.stack[i].node)
              /\ search.stack[i].cursor \in 1 .. Len(search.stack[i].edges) + 1
         /\ \A i, j \in 1 .. Len(search.stack) : search.stack[i].node = search.stack[j].node => i = j
<1>1. PICK s : s = search.stack
  OBVIOUS
<1>2. s \in Seq(FrameType) /\ Len(s) \in Nat /\ DOMAIN s = 1 .. Len(s)
  BY <1>1, LenProperties DEF SearchInv, StackInv
<1>3. ASSUME NEW i \in 1 .. Len(s)
      PROVE  /\ s[i] \in FrameType /\ s[i].node \in DOMAIN search.nodes /\ Node(s[i].node).depth = i - 1
             /\ s[i].edges = Edges(s[i].node) /\ s[i].cursor \in 1 .. Len(s[i].edges) + 1
  <2>1. /\ s[i].node \in DOMAIN search.nodes /\ PathTo(s[i].node) = [j \in 1 .. i |-> s[j].node]
        /\ s[i].edges = Edges(s[i].node) /\ s[i].cursor \in 1 .. Len(s[i].edges) + 1
    BY <1>1, <1>2 DEF SearchInv, StackInv
  <2>2. s[i] \in FrameType
    BY <1>2, ElementOfSeq
  <2>3. PICK d \in Nat : d = Node(s[i].node).depth
    BY <2>1, PathShape
  <2>4. PICK w : w = PathTo(s[i].node)
    OBVIOUS
  <2>5. DOMAIN w = 1 .. d + 1 /\ DOMAIN w = 1 .. i
    BY <2>1, <2>3, <2>4, PathShape
  <2>6. d + 1 \in 1 .. i /\ i \in 1 .. d + 1
    BY <1>2, <2>3, <2>5
  <2>7. d = i - 1
    BY <1>2, <2>6
  <2> QED
    BY <2>1, <2>2, <2>3, <2>7
<1>4. \A i, j \in 1 .. Len(s) : s[i].node = s[j].node => i = j
  <2> TAKE i, j \in 1 .. Len(s)
  <2>1. Node(s[i].node).depth = i - 1 /\ Node(s[j].node).depth = j - 1
    BY <1>3
  <2> QED
    BY <1>2, <2>1
<1> QED
  BY <1>1, <1>2, <1>3, <1>4

\* The top frame is at the last node of the way.
LEMMA TopIs ==
  ASSUME SearchInv, search.stack # <<>>
  PROVE  /\ Len(search.stack) \in Nat \ {0} /\ Top = search.stack[Len(search.stack)]
         /\ Top.node \in DOMAIN search.nodes /\ Top.edges = Edges(Top.node)
         /\ Top.cursor \in 1 .. Len(Top.edges) + 1
         /\ Node(Top.node).depth = Len(search.stack) - 1
         /\ \A i \in 1 .. Len(search.stack) : PathTo(Top.node)[i] = search.stack[i].node
         /\ search.onPath = PathGroups(Top.node)
<1>1. PICK s, L : s = search.stack /\ L = Len(s)
  OBVIOUS
<1>2. L \in Nat \ {0} /\ DOMAIN s = 1 .. L /\ L \in 1 .. L
  BY <1>1, StackIs, EmptySeq
<1>3. Top = s[L]
  BY <1>1 DEF Top, Last
<1>4. PICK n : n = s[L].node
  OBVIOUS
<1>5. /\ n \in DOMAIN search.nodes /\ Node(n).depth = L - 1 /\ s[L].edges = Edges(n)
      /\ s[L].cursor \in 1 .. Len(s[L].edges) + 1
  BY <1>1, <1>2, <1>4, StackIs
<1>6. PathTo(n) = [j \in 1 .. L |-> s[j].node]
  BY <1>1, <1>2, <1>4 DEF SearchInv, StackInv
<1>7. search.onPath = {Node(f.node).group : f \in Range(s)}
  BY <1>1 DEF SearchInv, StackInv
<1>8. Range(s) = {s[i] : i \in 1 .. L}
  BY <1>2 DEF Range
<1>9. {Node(f.node).group : f \in Range(s)} = {Node(s[i].node).group : i \in 1 .. L}
  BY <1>8
<1>10. PathGroups(n) = {Node(PathTo(n)[i]).group : i \in 1 .. L}
  <2>1. PICK d : d = Node(n).depth
    OBVIOUS
  <2>2. PathGroups(n) = {Node(PathTo(n)[i]).group : i \in 1 .. d + 1}
    BY <1>5, <2>1, GroupsOfPath
  <2>3. d + 1 = L
    BY <1>2, <1>5, <2>1
  <2> QED
    BY <2>2, <2>3
<1>11. search.onPath = PathGroups(n)
  BY <1>6, <1>7, <1>9, <1>10
<1> QED
  BY <1>1, <1>2, <1>3, <1>4, <1>5, <1>6, <1>11

\* Tried, of any stack.
TriedOn(s, n, i) == \A f \in Range(s) : f.node = n => i < f.cursor

LEMMA TriedOf ==
  ASSUME NEW n, NEW i
  PROVE  Tried(n, i) <=> TriedOn(search.stack, n, i)
BY DEF Tried, TriedOn

\* Considering an edge makes it tried and changes no other frame.
LEMMA ConsideredIs ==
  ASSUME SearchInv, HasEdge
  PROVE  /\ Considered \in Seq(FrameType) /\ Len(Considered) = Len(search.stack)
         /\ \A i \in 1 .. Len(search.stack) :
              /\ Considered[i].node = search.stack[i].node /\ Considered[i].edges = search.stack[i].edges
              /\ Considered[i].cursor \in 1 .. Len(Considered[i].edges) + 1
         /\ \A n, i : TriedOn(Considered, n, i) /\ i \in Nat <=>
                        i \in Nat /\ (Tried(n, i) \/ (n = Top.node /\ i = Top.cursor))
<1>1. PICK s, L : s = search.stack /\ L = Len(s)
  OBVIOUS
<1>2. L \in Nat \ {0} /\ DOMAIN s = 1 .. L /\ s \in Seq(FrameType) /\ L \in 1 .. L
  BY <1>1, StackIs, TopIs DEF HasEdge
<1>3. PICK f : f = s[L]
  OBVIOUS
<1>4. Top = f /\ f \in FrameType /\ f.cursor <= Len(f.edges)
  BY <1>1, <1>2, <1>3, StackIs, TopIs DEF HasEdge
<1>5. PICK c, l : c = f.cursor /\ l = Len(f.edges)
  OBVIOUS
<1>6. c \in 1 .. l /\ l \in Nat
  <2>1. f.cursor \in 1 .. Len(f.edges) + 1 /\ f.edges \in Seq(EdgeType)
    BY <1>1, <1>2, <1>3, <1>4, StackIs DEF FrameType
  <2>2. Len(f.edges) \in Nat
    BY <2>1, LenProperties
  <2> QED
    BY <1>4, <1>5, <2>1, <2>2
<1>7. PICK g : g = [f EXCEPT !.cursor = c + 1]
  OBVIOUS
<1>8. g \in FrameType /\ g.node = f.node /\ g.edges = f.edges /\ g.cursor = c + 1
  BY <1>4, <1>6, <1>7 DEF FrameType
<1>9. PICK t : t = Considered
  OBVIOUS
<1>10. t = [s EXCEPT ![L] = g]
  BY <1>1, <1>3, <1>5, <1>7, <1>9 DEF Considered
<1>11. t \in Seq(FrameType) /\ Len(t) = L /\ DOMAIN t = 1 .. L
  BY <1>2, <1>8, <1>10, <1>1, ExceptSeq
<1>12. t[L] = g /\ \A i \in 1 .. L : i # L => t[i] = s[i]
  BY <1>2, <1>10
<1>13. ASSUME NEW i \in 1 .. L
       PROVE  /\ t[i].node = s[i].node /\ t[i].edges = s[i].edges /\ t[i].cursor \in 1 .. Len(t[i].edges) + 1
  <2>1. CASE i = L
    BY <1>3, <1>5, <1>6, <1>8, <1>12, <2>1
  <2>2. CASE i # L
    BY <1>1, <1>12, <2>2, StackIs
  <2> QED
    BY <2>1, <2>2
<1>14. ASSUME NEW n, NEW i \in Nat
       PROVE  TriedOn(t, n, i) <=> Tried(n, i) \/ (n = f.node /\ i = c)
  <2>1. \A j \in 1 .. L : s[j].node = f.node => j = L
    BY <1>1, <1>2, <1>3, StackIs
  <2>2. TriedOn(t, n, i) <=> \A j \in 1 .. L : t[j].node = n => i < t[j].cursor
    BY <1>11 DEF TriedOn, Range
  <2>3. Tried(n, i) <=> \A j \in 1 .. L : s[j].node = n => i < s[j].cursor
    BY <1>1, <1>2 DEF Tried, Range
  <2>4. CASE n = f.node
    <3>1. TriedOn(t, n, i) <=> i < c + 1
      BY <1>2, <1>8, <1>12, <1>13, <2>1, <2>2, <2>4
    <3>2. Tried(n, i) <=> i < c
      BY <1>2, <1>3, <1>5, <2>1, <2>3, <2>4
    <3> QED
      BY <1>6, <2>4, <3>1, <3>2
  <2>5. CASE n # f.node
    <3>1. \A j \in 1 .. L : t[j].node = n => j # L
      BY <1>3, <1>13, <2>5
    <3>2. \A j \in 1 .. L : s[j].node = n => j # L
      BY <1>3, <2>5
    <3> QED
      BY <1>12, <1>13, <2>2, <2>3, <2>5, <3>1, <3>2
  <2> QED
    BY <2>4, <2>5
<1> QED
  BY <1>1, <1>4, <1>5, <1>9, <1>11, <1>13, <1>14

\* The edge at hand has not been tried and has no child.
LEMMA EdgeAtHand ==
  ASSUME SearchInv, HasEdge
  PROVE  /\ Top.node \in DOMAIN search.nodes /\ Top.cursor \in DOMAIN Edges(Top.node)
         /\ Edge = Edges(Top.node)[Top.cursor] /\ Edge \in EdgeType
         /\ ~Tried(Top.node, Top.cursor) /\ ~HasChild(Top.node, Edge.portal)
<1>1. PICK n, c : n = Top.node /\ c = Top.cursor
  OBVIOUS
<1>2. /\ n \in DOMAIN search.nodes /\ Top.edges = Edges(n) /\ c \in 1 .. Len(Edges(n)) + 1 /\ c <= Len(Edges(n))
      /\ Len(Edges(n)) \in Nat /\ DOMAIN Edges(n) = 1 .. Len(Edges(n))
  BY <1>1, TopIs, EdgesOfNode DEF HasEdge
<1>3. c \in DOMAIN Edges(n) /\ Edge = Edges(n)[c]
  BY <1>1, <1>2 DEF Edge
<1>4. ~Tried(n, c)
  <2>1. Top \in Range(search.stack)
    <3>1. Top = search.stack[Len(search.stack)] /\ Len(search.stack) \in DOMAIN search.stack
      BY TopIs, StackIs DEF HasEdge
    <3> QED
      BY <3>1 DEF Range
  <2>2. ~(c < Top.cursor)
    BY <1>1, <1>2
  <2> QED
    BY <1>1, <2>1, <2>2 DEF Tried
<1>5. ~HasChild(n, Edge.portal)
  <2>1. SUFFICES ASSUME NEW m \in DOMAIN search.nodes, Node(m).parent = n, Node(m).portal = Edge.portal
                 PROVE  FALSE
    BY DEF HasChild
  <2>2. m # Root
    <3>1. m = Root => Node(m).parent = 0
      BY DEF SearchInv, NodesInv
    <3>2. n # 0
      BY <1>2, SearchIsTree
    <3> QED
      BY <2>1, <3>1, <3>2
  <2>3. PICK i \in DOMAIN Edges(n) : Tried(n, i) /\ Edges(n)[i].portal = Node(m).portal
    BY <2>1, <2>2, ChildOf
  <2>4. i = c
    BY <1>2, <1>3, <2>1, <2>3, EdgesOfNode
  <2> QED
    BY <1>4, <2>3, <2>4
<1> QED
  BY <1>1, <1>2, <1>3, <1>4, <1>5, EdgesOfNode

-----------------------------------------------------------------------------
(* The steps of the search. *)

LEMMA SearchFields ==
  ASSUME SearchInv
  PROVE  DOMAIN search = {"groups", "nodes", "truncated", "onPath", "stack"}
BY DEF SearchInv, NoSearch

\* What a step that grows no child leaves alone.
LEMMA TreeKept ==
  ASSUME SearchInv, search'.groups = search.groups, search'.nodes = search.nodes, state' = state
  PROVE  /\ \A n : /\ Node(n)' = Node(n) /\ PathTo(n)' = PathTo(n) /\ Edges(n)' = Edges(n)
                   /\ PathGroups(n)' = PathGroups(n)
         /\ \A n, p : HasChild(n, p)' <=> HasChild(n, p)
<1>1. \A n : Node(n)' = Node(n)
  BY DEF Node
<1>2. \A n : PathTo(n)' = PathTo(n)
  BY DEF PathTo, Node
<1>3. \A n : Edges(n)' = Edges(n)
  BY <1>1 DEF Edges
<1>4. \A n : PathGroups(n)' = PathGroups(n)
  BY <1>1, <1>2 DEF PathGroups
<1>5. \A n, p : HasChild(n, p)' <=> HasChild(n, p)
  BY <1>1 DEF HasChild
<1> QED
  BY <1>1, <1>2, <1>3, <1>4, <1>5

\* No edge is untried again.
LEMMA NodesKept ==
  ASSUME SearchInv, search'.groups = search.groups, search'.nodes = search.nodes, state' = state, limits' = limits,
         \A n \in DOMAIN search.nodes : \A i \in DOMAIN Edges(n) : Tried(n, i) => Tried(n, i)'
  PROVE  NodesInv'
<1>1. /\ \A n : /\ Node(n)' = Node(n) /\ PathTo(n)' = PathTo(n) /\ Edges(n)' = Edges(n)
                /\ PathGroups(n)' = PathGroups(n)
  BY TreeKept
<1>2. NodesInv
  BY DEF SearchInv
<1>3. ASSUME NEW m \in DOMAIN search'.nodes, m # Root
      PROVE  /\ Node(m)'.parent \in 1 .. m - 1
             /\ Node(m)'.depth = Node(Node(m).parent)'.depth + 1
             /\ Node(m)'.loss = Accumulate(Node(Node(m).parent).loss, Node(m).portal)'
             /\ Node(m)'.group \notin PathGroups(Node(m).parent)'
             /\ \E i \in DOMAIN Edges(Node(m).parent)' :
                  /\ Tried(Node(m).parent, i)'
                  /\ Edges(Node(m).parent)'[i].portal = Node(m)'.portal
                  /\ Edges(Node(m).parent)'[i].to = Node(m)'.group
  <2>1. PICK n \in DOMAIN search.nodes :
           /\ n = Node(m).parent /\ n \in 1 .. m - 1
           /\ Node(m).depth = Node(n).depth + 1 /\ Node(m).loss = Accumulate(Node(n).loss, Node(m).portal)
           /\ Node(m).group \notin PathGroups(n)
           /\ \E i \in DOMAIN Edges(n) : /\ Tried(n, i)
                                         /\ Edges(n)[i].portal = Node(m).portal /\ Edges(n)[i].to = Node(m).group
    BY <1>3, ChildOf
  <2>2. Node(m).parent' = n
    BY <1>1, <2>1
  <2> QED
    BY <1>1, <2>1, <2>2 DEF Accumulate
<1>5. /\ search'.nodes \in Seq(NodeType) \ {<<>>}
      /\ Node(Root)' = [group |-> GroupOf(SourceRoom, search'.groups), depth |-> 0, parent |-> 0, portal |-> 0,
                        loss |-> [b \in Bands |-> 0]]
  BY <1>1, <1>2 DEF NodesInv
<1>6. \A m \in DOMAIN search'.nodes : ActiveBands(Node(m)'.loss, WithDefaults(limits').floor) # {}
  BY <1>1, <1>2 DEF NodesInv
<1>7. \A m, n \in DOMAIN search'.nodes :
       Node(m)'.parent = Node(n)'.parent /\ Node(m)'.portal = Node(n)'.portal => m = n
  BY <1>1, <1>2 DEF NodesInv
<1> QED
  BY <1>3, <1>5, <1>6, <1>7 DEF NodesInv

\* A step that only considers an edge keeps the stack on its way.
LEMMA StackKept ==
  ASSUME SearchInv, HasEdge, search'.groups = search.groups, search'.nodes = search.nodes, state' = state,
         search'.stack = Considered, search'.onPath = search.onPath
  PROVE  StackInv'
<1>1. PICK s, t, L : s = search.stack /\ t = Considered /\ L = Len(s)
  OBVIOUS
<1>2. /\ t \in Seq(FrameType) /\ Len(t) = L
      /\ \A i \in 1 .. L : /\ t[i].node = s[i].node /\ t[i].edges = s[i].edges
                           /\ t[i].cursor \in 1 .. Len(t[i].edges) + 1
  BY <1>1, ConsideredIs
<1>3. L \in Nat /\ DOMAIN s = 1 .. L /\ DOMAIN t = 1 .. L
  BY <1>1, <1>2, StackIs, LenProperties
<1>4. ASSUME NEW i \in 1 .. L
      PROVE  /\ t[i].node \in DOMAIN search.nodes /\ PathTo(t[i].node) = [j \in 1 .. i |-> t[j].node]
             /\ t[i].edges = Edges(t[i].node) /\ t[i].cursor \in 1 .. Len(t[i].edges) + 1
  <2>1. /\ s[i].node \in DOMAIN search.nodes /\ s[i].edges = Edges(s[i].node)
        /\ PathTo(s[i].node) = [j \in 1 .. i |-> s[j].node]
    BY <1>1, <1>3 DEF SearchInv, StackInv
  <2>2. \A j \in 1 .. i : t[j].node = s[j].node
    BY <1>2, <1>3
  <2>3. [j \in 1 .. i |-> t[j].node] = [j \in 1 .. i |-> s[j].node]
    BY <2>2
  <2> QED
    BY <1>2, <2>1, <2>3
<1>5. {Node(f.node).group : f \in Range(t)} = {Node(f.node).group : f \in Range(s)}
  <2>1. Range(t) = {t[i] : i \in 1 .. L} /\ Range(s) = {s[i] : i \in 1 .. L}
    BY <1>3 DEF Range
  <2>2. \A i \in 1 .. L : Node(t[i].node).group = Node(s[i].node).group
    BY <1>2
  <2>3. ASSUME NEW f \in Range(t)
        PROVE  \E g \in Range(s) : Node(f.node).group = Node(g.node).group
    BY <2>1, <2>2
  <2>4. ASSUME NEW f \in Range(s)
        PROVE  \E g \in Range(t) : Node(f.node).group = Node(g.node).group
    BY <2>1, <2>2
  <2> QED
    BY <2>3, <2>4
<1>6. search.onPath = {Node(f.node).group : f \in Range(t)}
  BY <1>1, <1>5 DEF SearchInv, StackInv
<1>7. \A n : Node(n)' = Node(n) /\ PathTo(n)' = PathTo(n) /\ Edges(n)' = Edges(n)
  BY TreeKept
<1>8. search'.stack = t
  BY <1>1
<1> QED
  BY <1>2, <1>3, <1>4, <1>6, <1>7, <1>8 DEF StackInv

\* The frame whose edges are all considered leaves nothing untried.
LEMMA PopFrameKeeps ==
  ASSUME SearchInv, PopFrame, state' = state, limits' = limits
  PROVE  SearchInv'
<1>1. PICK s, L : s = search.stack /\ L = Len(s)
  OBVIOUS
<1>2. /\ L \in Nat \ {0} /\ DOMAIN s = 1 .. L /\ s \in Seq(FrameType) /\ L \in 1 .. L
      /\ Top = s[L] /\ Top.node \in DOMAIN search.nodes /\ Top.edges = Edges(Top.node)
      /\ Top.cursor > Len(Edges(Top.node))
  BY <1>1, StackIs, TopIs DEF PopFrame
<1>3. PICK t : t = Front(s)
  OBVIOUS
<1>4. PICK o : o = search.onPath \ {Node(Top.node).group}
  OBVIOUS
<1>5. /\ DOMAIN search' = DOMAIN search /\ search'.groups = search.groups /\ search'.nodes = search.nodes
      /\ search'.truncated = search.truncated /\ search'.stack = t /\ search'.onPath = o
  <2>1. search' = [search EXCEPT !.onPath = o, !.stack = t]
    BY <1>1, <1>3, <1>4 DEF PopFrame
  <2> QED
    BY <2>1, SearchFields
<1>6. t \in Seq(FrameType) /\ Len(t) = L - 1 /\ DOMAIN t = 1 .. L - 1 /\ \A i \in 1 .. L - 1 : t[i] = s[i]
  <2>1. t = SubSeq(s, 1, L - 1)
    BY <1>1, <1>3 DEF Front
  <2> QED
    BY <1>1, <1>2, <2>1, SubSeqProperties, LenProperties
<1>7. /\ \A n : /\ Node(n)' = Node(n) /\ PathTo(n)' = PathTo(n) /\ Edges(n)' = Edges(n)
                /\ PathGroups(n)' = PathGroups(n)
      /\ \A n, p : HasChild(n, p)' <=> HasChild(n, p)
  BY <1>5, TreeKept
<1>8. ASSUME NEW n \in DOMAIN search.nodes, NEW i \in DOMAIN Edges(n)
      PROVE  Tried(n, i)' <=> Tried(n, i)
  <2>1. Tried(n, i)' <=> \A j \in 1 .. L - 1 : s[j].node = n => i < s[j].cursor
    BY <1>5, <1>6 DEF Tried, Range
  <2>2. Tried(n, i) <=> \A j \in 1 .. L : s[j].node = n => i < s[j].cursor
    BY <1>1, <1>2 DEF Tried, Range
  <2>3. s[L].node = n => i < s[L].cursor
    <3>1. Len(Edges(n)) \in Nat /\ DOMAIN Edges(n) = 1 .. Len(Edges(n))
      BY EdgesOfNode
    <3>2. s[L].cursor \in 1 .. Len(s[L].edges) + 1
      BY <1>1, <1>2, StackIs
    <3>3. s[L].node = n => s[L].cursor > Len(Edges(n)) /\ s[L].cursor \in Int
      BY <1>2, <3>1, <3>2
    <3> QED
      BY <3>1, <3>3
  <2>4. \A j \in 1 .. L : j = L \/ j \in 1 .. L - 1
    BY <1>2
  <2>5. \A j \in 1 .. L - 1 : j \in 1 .. L
    BY <1>2
  <2> QED
    BY <2>1, <2>2, <2>3, <2>4, <2>5
<1>9. NodesInv'
  BY <1>5, <1>8, NodesKept
<1>10. StackInv'
  <2>1. ASSUME NEW i \in 1 .. L - 1
        PROVE  /\ t[i].node \in DOMAIN search.nodes /\ PathTo(t[i].node) = [j \in 1 .. i |-> t[j].node]
               /\ t[i].edges = Edges(t[i].node) /\ t[i].cursor \in 1 .. Len(t[i].edges) + 1
    <3>1. i \in DOMAIN s
      BY <1>2
    <3>2. /\ s[i].node \in DOMAIN search.nodes /\ s[i].edges = Edges(s[i].node)
          /\ PathTo(s[i].node) = [j \in 1 .. i |-> s[j].node] /\ s[i].cursor \in 1 .. Len(s[i].edges) + 1
      BY <1>1, <3>1 DEF SearchInv, StackInv
    <3>3. \A j \in 1 .. i : t[j] = s[j]
      BY <1>2, <1>6
    <3>4. [j \in 1 .. i |-> t[j].node] = [j \in 1 .. i |-> s[j].node]
      BY <3>3
    <3> QED
      BY <1>6, <3>2, <3>4
  <2>2. o = {Node(f.node).group : f \in Range(t)}
    <3>1. search.onPath = {Node(f.node).group : f \in Range(s)}
      BY <1>1 DEF SearchInv, StackInv
    <3>2. Range(s) = {s[i] : i \in 1 .. L} /\ Range(t) = {t[i] : i \in 1 .. L - 1}
      BY <1>2, <1>6 DEF Range
    <3>3. \A i \in 1 .. L - 1 : Node(s[i].node).group # Node(s[L].node).group
      <4> TAKE i \in 1 .. L - 1
      <4>1. i \in 1 .. L /\ i # L
        BY <1>2
      <4>2. Node(s[L].node).depth + 1 = L
        BY <1>1, <1>2, TopIs
      <4>3. PathTo(s[L].node)[i] = s[i].node /\ PathTo(s[L].node)[L] = s[L].node
        BY <1>1, <1>2, <4>1, TopIs
      <4> QED
        BY <1>2, <4>1, <4>2, <4>3, GroupsDistinct
    <3>4. ASSUME NEW g \in o
          PROVE  \E f \in Range(t) : g = Node(f.node).group
      <4>1. PICK i \in 1 .. L : g = Node(s[i].node).group
        BY <1>4, <3>1, <3>2
      <4>2. i # L
        BY <1>2, <1>4, <4>1
      <4>3. i \in 1 .. L - 1
        BY <1>2, <4>1, <4>2
      <4> QED
        BY <1>6, <3>2, <4>1, <4>3
    <3>5. ASSUME NEW f \in Range(t)
          PROVE  Node(f.node).group \in o
      <4>1. PICK i \in 1 .. L - 1 : f = s[i]
        BY <1>6, <3>2
      <4>2. i \in 1 .. L
        BY <1>2
      <4>3. Node(f.node).group \in search.onPath
        BY <3>1, <3>2, <4>1, <4>2
      <4> QED
        BY <1>2, <1>4, <3>3, <4>1, <4>3
    <3> QED
      BY <3>4, <3>5
  <2> QED
    BY <1>5, <1>6, <1>7, <2>1, <2>2 DEF StackInv
<1>11. TruncationInv'
  <2>1. \A n \in DOMAIN search.nodes : \A i \in DOMAIN Edges(n) : Cut(n, i)' <=> Cut(n, i)
    BY <1>7, <1>8 DEF Cut
  <2>2. TruncationInv
    BY DEF SearchInv
  <2> QED
    BY <1>5, <1>7, <2>1, <2>2 DEF TruncationInv
<1> QED
  BY <1>5, <1>9, <1>10, <1>11 DEF SearchInv, NoSearch

\* What considering an edge changes for the invariant.
LEMMA TriedNow ==
  ASSUME SearchInv, HasEdge, search'.stack = Considered, state' = state
  PROVE  \A n \in DOMAIN search.nodes : \A i \in DOMAIN Edges(n) :
           Tried(n, i)' <=> Tried(n, i) \/ (n = Top.node /\ i = Top.cursor)
<1>1. ASSUME NEW n \in DOMAIN search.nodes, NEW i \in DOMAIN Edges(n)
      PROVE  Tried(n, i)' <=> Tried(n, i) \/ (n = Top.node /\ i = Top.cursor)
  <2>1. i \in Nat
    BY EdgesOfNode
  <2>2. Tried(n, i)' <=> TriedOn(Considered, n, i)
    BY DEF Tried, TriedOn
  <2> QED
    BY <2>1, <2>2, ConsideredIs
<1> QED
  BY <1>1

LEMMA SkipCycleKeeps ==
  ASSUME SearchInv, SkipCycle, state' = state, limits' = limits
  PROVE  SearchInv'
<1>1. HasEdge /\ Edge.to \in PathGroups(Top.node)
  BY TopIs DEF SkipCycle, HasEdge
<1>2. /\ DOMAIN search' = DOMAIN search /\ search'.groups = search.groups /\ search'.nodes = search.nodes
      /\ search'.truncated = search.truncated /\ search'.stack = Considered /\ search'.onPath = search.onPath
  BY SearchFields DEF SkipCycle
<1>3. /\ \A n : /\ Node(n)' = Node(n) /\ PathTo(n)' = PathTo(n) /\ Edges(n)' = Edges(n)
                /\ PathGroups(n)' = PathGroups(n)
      /\ \A n, p : HasChild(n, p)' <=> HasChild(n, p)
  BY <1>2, TreeKept
<1>4. \A n \in DOMAIN search.nodes : \A i \in DOMAIN Edges(n) :
        Tried(n, i)' <=> Tried(n, i) \/ (n = Top.node /\ i = Top.cursor)
  BY <1>1, <1>2, TriedNow
<1>5. NodesInv' /\ StackInv'
  BY <1>1, <1>2, <1>4, NodesKept, StackKept
<1>6. TruncationInv'
  <2>1. \A n \in DOMAIN search.nodes : \A i \in DOMAIN Edges(n) : Cut(n, i)' <=> Cut(n, i)
    BY <1>1, <1>3, <1>4, EdgeAtHand DEF Cut
  <2>2. TruncationInv
    BY DEF SearchInv
  <2> QED
    BY <1>2, <1>3, <2>1, <2>2 DEF TruncationInv
<1> QED
  BY <1>2, <1>5, <1>6 DEF SearchInv, NoSearch

LEMMA CutBranchKeeps ==
  ASSUME SearchInv, CutBranch, state' = state, limits' = limits
  PROVE  SearchInv'
<1>1. HasEdge /\ Edge.to \notin PathGroups(Top.node)
  BY TopIs DEF CutBranch, HasEdge
<1>2. /\ DOMAIN search' = DOMAIN search /\ search'.groups = search.groups /\ search'.nodes = search.nodes
      /\ search'.truncated = TRUE /\ search'.stack = Considered /\ search'.onPath = search.onPath
  BY SearchFields DEF CutBranch
<1>3. /\ \A n : /\ Node(n)' = Node(n) /\ PathTo(n)' = PathTo(n) /\ Edges(n)' = Edges(n)
                /\ PathGroups(n)' = PathGroups(n)
      /\ \A n, p : HasChild(n, p)' <=> HasChild(n, p)
  BY <1>2, TreeKept
<1>4. \A n \in DOMAIN search.nodes : \A i \in DOMAIN Edges(n) :
        Tried(n, i)' <=> Tried(n, i) \/ (n = Top.node /\ i = Top.cursor)
  BY <1>1, <1>2, TriedNow
<1>5. NodesInv' /\ StackInv'
  BY <1>1, <1>2, <1>4, NodesKept, StackKept
<1>6. TruncationInv'
  <2>1. PICK n, i : n = Top.node /\ i = Top.cursor
    OBVIOUS
  <2>2. /\ n \in DOMAIN search.nodes /\ i \in DOMAIN Edges(n) /\ Edge = Edges(n)[i]
        /\ ~HasChild(n, Edge.portal)
    BY <1>1, <2>1, EdgeAtHand
  <2>3. Cut(n, i)'
    BY <1>1, <1>3, <1>4, <2>1, <2>2 DEF Cut
  <2> QED
    BY <1>2, <1>3, <2>2, <2>3 DEF TruncationInv
<1> QED
  BY <1>2, <1>5, <1>6 DEF SearchInv, NoSearch

\* The accumulated loss of a path is a loss.
LEMMA AccumulateIs ==
  ASSUME NEW loss \in [Bands -> Nat], NEW p \in Portals
  PROVE  /\ Accumulate(loss, p) \in [Bands -> Nat]
         /\ \A b \in Bands : Accumulate(loss, p)[b] =
              IF loss[b] + Loss[p][b] <= Opaque THEN loss[b] + Loss[p][b] ELSE Opaque
<1>1. ASSUME NEW b \in Bands
      PROVE  /\ Min({loss[b] + Loss[p][b], Opaque}) \in Nat
             /\ Min({loss[b] + Loss[p][b], Opaque}) =
                  IF loss[b] + Loss[p][b] <= Opaque THEN loss[b] + Loss[p][b] ELSE Opaque
  <2>1. loss[b] \in Nat /\ Loss[p][b] \in Nat /\ Opaque \in Nat
    BY PathAssumption
  <2>2. PICK a \in Nat : a = loss[b] + Loss[p][b]
    BY <2>1
  <2>3. Min({a, Opaque}) = IF a <= Opaque THEN a ELSE Opaque
    BY <2>1, MinOfTwo
  <2> QED
    BY <2>1, <2>2, <2>3
<1> QED
  BY <1>1 DEF Accumulate

\* The tree with one more child.
LEMMA GrownTree ==
  ASSUME SearchInv, GrowPath, state' = state, NEW c, c = Len(search.nodes) + 1
  PROVE  /\ DOMAIN search' = DOMAIN search /\ search'.groups = search.groups /\ search'.truncated = search.truncated
         /\ search'.nodes \in Seq(NodeType) \ {<<>>} /\ DOMAIN search'.nodes = 1 .. c
         /\ search'.onPath = search.onPath \cup {Edge.to}
         /\ search'.stack = Append(Considered, Frame(c, Edges(c)'))
         /\ Node(c)' = [group |-> Edge.to, depth |-> Node(Top.node).depth + 1, parent |-> Top.node,
                        portal |-> Edge.portal, loss |-> Accumulate(Node(Top.node).loss, Edge.portal)]
         /\ \A n \in DOMAIN search.nodes : /\ n \in DOMAIN search'.nodes /\ n # c
                                           /\ Node(n)' = Node(n) /\ PathTo(n)' = PathTo(n)
                                           /\ Edges(n)' = Edges(n) /\ PathGroups(n)' = PathGroups(n)
         /\ PathTo(c)' \in [1 .. Len(search.stack) + 1 -> Nat] /\ PathTo(c)'[Len(search.stack) + 1] = c
         /\ \A j \in 1 .. Len(search.stack) : PathTo(c)'[j] = search.stack[j].node
<1>1. HasEdge /\ search.stack # <<>>
  BY DEF GrowPath, HasEdge
<1>2. PICK T, K, top, e : T = search.nodes /\ K = Len(T) /\ top = Top.node /\ e = Edge
  OBVIOUS
<1>3. /\ K \in Nat \ {0} /\ DOMAIN T = 1 .. K /\ IsTree(T) /\ T \in Seq(NodeType)
      /\ \A n \in 1 .. K : T[n] \in NodeType
  BY <1>2, SearchIsTree DEF SearchInv, NodesInv, Node
<1>4. top \in 1 .. K /\ e \in EdgeType
  BY <1>1, <1>2, <1>3, EdgeAtHand
<1>5. PICK l : l = Accumulate(T[top].loss, e.portal)
  OBVIOUS
<1>6. PICK d \in Nat : d = T[top].depth
  BY <1>3, <1>4 DEF IsTree
<1>7. PICK child : child = [group |-> e.to, depth |-> d + 1, parent |-> top, portal |-> e.portal, loss |-> l]
  OBVIOUS
<1>8. child \in NodeType
  <2>1. T[top].loss \in [Bands -> Nat]
    BY <1>3, <1>4 DEF NodeType
  <2>2. e.portal \in Portals /\ e.to \in 1 .. NumRooms
    BY <1>4 DEF EdgeType
  <2>3. e.portal \in Nat /\ e.to \in Nat
    <3>1. NumRooms \in Nat
      BY PathAssumption
    <3>2. \A p \in Portals : p \in Nat
      BY PortalNumbers
    <3> QED
      BY <2>2, <3>1, <3>2
  <2>4. l \in [Bands -> Nat]
    BY <1>5, <2>1, <2>2, AccumulateIs
  <2>5. top \in Nat /\ d + 1 \in Nat
    BY <1>3, <1>4, <1>6
  <2> QED
    BY <1>7, <2>3, <2>4, <2>5 DEF NodeType
<1>9. PICK U : U = Append(T, child)
  OBVIOUS
<1>10. /\ U \in Seq(NodeType) /\ U # <<>> /\ Len(U) = K + 1 /\ DOMAIN U = 1 .. K + 1
       /\ U[K + 1] = child /\ \A n \in 1 .. K : U[n] = T[n]
  BY <1>2, <1>3, <1>8, <1>9, AppendProperties, LenProperties
<1>11. PICK t, f, o : /\ t = Considered /\ o = search.onPath \cup {e.to}
                      /\ f = Frame(K + 1, SortedGroupEdges(e.to, search.groups, state))
  OBVIOUS
<1>12. search' = [search EXCEPT !.nodes = U, !.onPath = o, !.stack = Append(t, f)]
  BY <1>2, <1>5, <1>6, <1>7, <1>9, <1>11 DEF GrowPath, Node
<1>13. /\ DOMAIN search' = DOMAIN search /\ search'.groups = search.groups /\ search'.truncated = search.truncated
       /\ search'.nodes = U /\ search'.onPath = o /\ search'.stack = Append(t, f)
  BY <1>12, SearchFields
<1>14. IsTree(U)
  <2>1. \A n \in 1 .. K + 1 : n \in 1 .. K \/ n = K + 1
    BY <1>3
  <2>2. \A n \in 1 .. K : T[n].depth \in Nat
    BY <1>3 DEF IsTree
  <2>3. \A n \in 1 .. K + 1 : U[n].depth \in Nat
    BY <1>7, <1>10, <2>1, <2>2
  <2>4. ASSUME NEW n \in 2 .. K + 1
        PROVE  U[n].parent \in 1 .. n - 1 /\ U[n].depth = U[U[n].parent].depth + 1
    <3>1. CASE n = K + 1
      BY <1>3, <1>4, <1>6, <1>7, <1>10, <3>1
    <3>2. CASE n # K + 1
      <4>1. n \in 2 .. K
        BY <1>3, <3>2
      <4>2. T[n].parent \in 1 .. n - 1 /\ T[n].depth = T[T[n].parent].depth + 1
        BY <1>2, <1>3, <4>1 DEF IsTree
      <4>3. n \in 1 .. K /\ T[n].parent \in 1 .. K
        BY <1>3, <4>1, <4>2
      <4> QED
        BY <1>10, <4>2, <4>3
    <3> QED
      BY <3>1, <3>2
  <2>5. U[1].depth = 0
    BY <1>3, <1>10 DEF IsTree
  <2> QED
    BY <1>3, <1>10, <2>3, <2>4, <2>5 DEF IsTree
<1>15. Node(K + 1)' = child /\ \A n \in 1 .. K : Node(n)' = Node(n)
  BY <1>2, <1>10, <1>13 DEF Node
<1>16. \A n : PathTo(n)' = WayTo(U, n)
  <2>1. \A n : PathTo(n)' = WayTo(search'.nodes, n)
    BY Zenon DEF PathTo, WayTo, Node
  <2> QED
    BY <1>13, <2>1
<1>17. \A n \in 1 .. K : PathTo(n)' = PathTo(n)
  <2> TAKE n \in 1 .. K
  <2>1. WayTo(U, n) = WayTo(T, n)
    BY <1>2, <1>3, <1>10, <1>14, WaysKept
  <2> QED
    BY <1>2, <1>16, <2>1, WaysOfSearch
<1>18. \A n \in 1 .. K : Edges(n)' = Edges(n)
  BY <1>13, <1>15 DEF Edges
<1>19. \A n \in 1 .. K : PathGroups(n)' = PathGroups(n)
  <2> TAKE n \in 1 .. K
  <2>1. PICK w, k : w = PathTo(n) /\ k = Node(n).depth
    OBVIOUS
  <2>2. k \in Nat /\ w \in [1 .. k + 1 -> 1 .. n]
    BY <1>2, <1>3, <2>1, PathShape
  <2>3. \A m \in Range(w) : m \in 1 .. K
    BY <1>3, <2>2 DEF Range
  <2>4. \A m \in Range(w) : Node(m)' = Node(m)
    BY <1>15, <2>3
  <2>5. PathGroups(n) = {Node(m).group : m \in Range(w)}
    BY <2>1 DEF PathGroups
  <2>6. PathGroups(n)' = {Node(m)'.group : m \in Range(w)}
    BY <1>17, <2>1 DEF PathGroups
  <2> QED
    BY <2>4, <2>5, <2>6
<1>20. f = Frame(K + 1, Edges(K + 1)')
  BY <1>7, <1>11, <1>13, <1>15 DEF Edges
<1>21. /\ PathTo(K + 1)' \in [1 .. Len(search.stack) + 1 -> Nat]
       /\ PathTo(K + 1)'[Len(search.stack) + 1] = K + 1
       /\ \A j \in 1 .. Len(search.stack) : PathTo(K + 1)'[j] = search.stack[j].node
  <2>1. PICK L : L = Len(search.stack)
    OBVIOUS
  <2>2. /\ L \in Nat \ {0} /\ d = L - 1 /\ \A i \in 1 .. L : PathTo(top)[i] = search.stack[i].node
    BY <1>1, <1>2, <1>6, <2>1, TopIs DEF Node
  <2>3. PICK w : w = WayTo(U, K + 1)
    OBVIOUS
  <2>4. U[K + 1].depth = L /\ U[K + 1].parent = top
    BY <1>7, <1>10, <2>2
  <2>5. K + 1 \in 1 .. Len(U) /\ K + 1 \in 2 .. Len(U)
    BY <1>3, <1>10
  <2>6. w \in [1 .. L + 1 -> 1 .. K + 1] /\ w[L + 1] = K + 1
    <3>1. /\ w \in [1 .. U[K + 1].depth + 1 -> 1 .. K + 1] /\ w[U[K + 1].depth + 1] = K + 1
      BY <1>14, <2>3, <2>5, WayShape
    <3> QED
      BY <2>4, <3>1
  <2>7. \A i \in 1 .. L : w[i] = WayTo(U, top)[i]
    <3>1. \A i \in 1 .. U[K + 1].depth : WayTo(U, K + 1)[i] = WayTo(U, U[K + 1].parent)[i]
      BY <1>14, <2>5, WayToChild
    <3> QED
      BY <2>3, <2>4, <3>1
  <2>8. WayTo(U, top) = PathTo(top)
    BY <1>4, <1>16, <1>17
  <2>9. w \in [1 .. L + 1 -> Nat]
    BY <1>3, <2>6
  <2>10. \A i \in 1 .. L : w[i] = search.stack[i].node
    BY <2>2, <2>7, <2>8
  <2> QED
    BY <1>16, <2>1, <2>3, <2>6, <2>9, <2>10
<1>22. \A n \in 1 .. K : n \in 1 .. K + 1 /\ n # K + 1
  BY <1>3
<1>23. c = K + 1
  BY <1>2
<1>24. child = [group |-> Edge.to, depth |-> Node(Top.node).depth + 1, parent |-> Top.node,
                portal |-> Edge.portal, loss |-> Accumulate(Node(Top.node).loss, Edge.portal)]
  BY <1>2, <1>5, <1>6, <1>7 DEF Node
<1> QED
  BY <1>2, <1>3, <1>10, <1>11, <1>13, <1>15, <1>17, <1>18, <1>19, <1>20, <1>21, <1>22, <1>23, <1>24

\* What growing a child changes for the edges.
LEMMA GrownEdges ==
  ASSUME SearchInv, GrowPath, state' = state, NEW c, c = Len(search.nodes) + 1
  PROVE  /\ \A n \in DOMAIN search.nodes : \A i \in DOMAIN Edges(n) :
              Tried(n, i)' <=> Tried(n, i) \/ (n = Top.node /\ i = Top.cursor)
         /\ \A i \in DOMAIN Edges(c)' : ~Tried(c, i)'
         /\ \A n \in DOMAIN search.nodes : \A p :
              HasChild(n, p)' <=> HasChild(n, p) \/ (n = Top.node /\ p = Edge.portal)
         /\ Edges(c)' \in Seq(EdgeType) /\ Edge.to \in DOMAIN search.groups
<1>1. HasEdge
  BY DEF GrowPath
<1>2. PICK K : K = Len(search.nodes)
  OBVIOUS
<1>3. K \in Nat \ {0} /\ DOMAIN search.nodes = 1 .. K /\ c = K + 1 /\ DOMAIN search'.nodes = 1 .. c
  BY <1>2, SearchIsTree, GrownTree
<1>4. PICK t, f : t = Considered /\ f = Frame(c, Edges(c)')
  OBVIOUS
<1>5. t \in Seq(FrameType) /\ search'.stack = Append(t, f)
  BY <1>1, <1>4, GrownTree, ConsideredIs
<1>6. f.node = c /\ f.edges = Edges(c)' /\ f.cursor = 1
  BY <1>4 DEF Frame
<1>7. PICK L : L = Len(t)
  OBVIOUS
<1>8. L \in Nat /\ DOMAIN t = 1 .. L
  BY <1>5, <1>7, LenProperties
<1>9. Range(search'.stack) = Range(t) \cup {f}
  <2>1. PICK u : u = Append(t, f)
    OBVIOUS
  <2>2. DOMAIN u = 1 .. L + 1 /\ u[L + 1] = f /\ \A i \in 1 .. L : u[i] = t[i]
    BY <1>5, <1>7, <1>8, <2>1
  <2>3. \A i \in 1 .. L + 1 : i \in 1 .. L \/ i = L + 1
    BY <1>8
  <2>4. L + 1 \in 1 .. L + 1 /\ \A i \in 1 .. L : i \in 1 .. L + 1
    BY <1>8
  <2> QED
    BY <1>5, <1>8, <2>1, <2>2, <2>3, <2>4 DEF Range
<1>10. ASSUME NEW n \in DOMAIN search.nodes, NEW i \in DOMAIN Edges(n)
       PROVE  Tried(n, i)' <=> Tried(n, i) \/ (n = Top.node /\ i = Top.cursor)
  <2>1. i \in Nat
    BY EdgesOfNode
  <2>2. n # c
    BY <1>3
  <2>3. Tried(n, i)' <=> TriedOn(t, n, i)
    BY <1>6, <1>9, <2>2 DEF Tried, TriedOn
  <2> QED
    BY <1>1, <1>4, <2>1, <2>3, ConsideredIs
<1>11. Edge.to \in DOMAIN search.groups
  BY <1>1, EdgeAtHand, EdgesOfNode
<1>12. Edges(c)' \in Seq(EdgeType)
  <2>1. Node(c)'.group = Edge.to /\ search'.groups = GroupsOf(state)
    BY GrownTree DEF SearchInv
  <2>2. Edges(c)' = SortedGroupEdges(Edge.to, GroupsOf(state), state)
    BY <2>1 DEF Edges
  <2>3. Edge.to \in DOMAIN GroupsOf(state)
    BY <1>11 DEF SearchInv
  <2> QED
    BY <2>2, <2>3, EdgesAre
<1>13. ASSUME NEW i \in DOMAIN Edges(c)'
       PROVE  ~Tried(c, i)'
  <2>1. i \in Nat \ {0}
    BY <1>12, LenProperties
  <2>2. ~(i < f.cursor)
    BY <1>6, <2>1
  <2> QED
    BY <1>6, <1>9, <2>2 DEF Tried
<1>14. ASSUME NEW n \in DOMAIN search.nodes, NEW p
       PROVE  HasChild(n, p)' <=> HasChild(n, p) \/ (n = Top.node /\ p = Edge.portal)
  <2>1. Node(c)'.parent = Top.node /\ Node(c)'.portal = Edge.portal
    BY GrownTree
  <2>2. \A m \in DOMAIN search.nodes : Node(m)' = Node(m)
    BY GrownTree
  <2>3. \A m \in 1 .. c : m \in 1 .. K \/ m = c
    BY <1>3
  <2>4. \A m \in 1 .. K : m \in 1 .. c
    BY <1>3
  <2>5. c \in 1 .. c
    BY <1>3
  <2> QED
    BY <1>3, <2>1, <2>2, <2>3, <2>4, <2>5 DEF HasChild
<1> QED
  BY <1>10, <1>11, <1>12, <1>13, <1>14

LEMMA GrownNodes ==
  ASSUME SearchInv, GrowPath, state' = state, limits' = limits
  PROVE  NodesInv'
<1>1. PICK K, c : K = Len(search.nodes) /\ c = K + 1
  OBVIOUS
<1>2. PICK top, e, cursor : top = Top.node /\ e = Edge /\ cursor = Top.cursor
  OBVIOUS
<1>3. /\ K \in Nat \ {0} /\ DOMAIN search.nodes = 1 .. K /\ DOMAIN search'.nodes = 1 .. c
      /\ search'.groups = search.groups /\ search'.nodes \in Seq(NodeType) \ {<<>>}
      /\ Node(c)' = [group |-> e.to, depth |-> Node(top).depth + 1, parent |-> top,
                     portal |-> e.portal, loss |-> Accumulate(Node(top).loss, e.portal)]
      /\ \A n \in 1 .. K : /\ n # c /\ Node(n)' = Node(n)
                           /\ Edges(n)' = Edges(n) /\ PathGroups(n)' = PathGroups(n)
  BY <1>1, <1>2, SearchIsTree, GrownTree
<1>4. /\ \A n \in 1 .. K : \A i \in DOMAIN Edges(n) :
           Tried(n, i)' <=> Tried(n, i) \/ (n = top /\ i = cursor)
  BY <1>1, <1>2, <1>3, GrownEdges
<1>5. /\ top \in 1 .. K /\ cursor \in DOMAIN Edges(top) /\ e = Edges(top)[cursor]
      /\ ~HasChild(top, e.portal) /\ search.onPath = PathGroups(top)
      /\ e.to \notin PathGroups(top)
      /\ ActiveBands(Accumulate(Node(top).loss, e.portal), WithDefaults(limits).floor) # {}
  BY <1>2, <1>3, EdgeAtHand, TopIs DEF GrowPath, HasEdge, Inaudible
<1>6. NodesInv
  BY DEF SearchInv
<1>7. \A m \in 1 .. c : m \in 1 .. K \/ m = c
  BY <1>1, <1>3
<1>8. ASSUME NEW m \in DOMAIN search'.nodes, m # Root
      PROVE  /\ Node(m)'.parent \in 1 .. m - 1
             /\ Node(m)'.depth = Node(Node(m).parent)'.depth + 1
             /\ Node(m)'.loss = Accumulate(Node(Node(m).parent).loss, Node(m).portal)'
             /\ Node(m)'.group \notin PathGroups(Node(m).parent)'
             /\ \E i \in DOMAIN Edges(Node(m).parent)' :
                  /\ Tried(Node(m).parent, i)'
                  /\ Edges(Node(m).parent)'[i].portal = Node(m)'.portal
                  /\ Edges(Node(m).parent)'[i].to = Node(m)'.group
  <2>1. CASE m \in 1 .. K
    <3>1. PICK n \in 1 .. K :
             /\ n = Node(m).parent /\ n \in 1 .. m - 1
             /\ Node(m).depth = Node(n).depth + 1 /\ Node(m).loss = Accumulate(Node(n).loss, Node(m).portal)
             /\ Node(m).group \notin PathGroups(n)
             /\ \E i \in DOMAIN Edges(n) : /\ Tried(n, i)
                                           /\ Edges(n)[i].portal = Node(m).portal /\ Edges(n)[i].to = Node(m).group
      BY <1>3, <1>8, <2>1, ChildOf
    <3>2. Node(m).parent' = n /\ Node(m)' = Node(m) /\ Node(n)' = Node(n)
      BY <1>3, <2>1, <3>1
    <3>3. Accumulate(Node(n).loss, Node(m).portal)' = Accumulate(Node(n).loss, Node(m).portal)
      BY <3>2 DEF Accumulate
    <3> QED
      BY <1>3, <1>4, <3>1, <3>2, <3>3
  <2>2. CASE m = c
    <3>1. Node(c).parent' = top /\ Node(top)' = Node(top)
      BY <1>3, <1>5
    <3>2. top \in 1 .. c - 1
      BY <1>1, <1>3, <1>5
    <3>3. Accumulate(Node(top).loss, e.portal)' = Accumulate(Node(top).loss, e.portal)
      BY <3>1 DEF Accumulate
    <3>4. Tried(top, cursor)'
      BY <1>4, <1>5
    <3> QED
      BY <1>3, <1>5, <2>2, <3>1, <3>2, <3>3, <3>4
  <2> QED
    BY <1>3, <1>7, <2>1, <2>2
<1>9. Node(Root)' = [group |-> GroupOf(SourceRoom, search'.groups), depth |-> 0, parent |-> 0, portal |-> 0,
                     loss |-> [b \in Bands |-> 0]]
  <2>1. Root \in 1 .. K
    BY <1>3 DEF Root
  <2>2. Node(Root) = [group |-> GroupOf(SourceRoom, search.groups), depth |-> 0, parent |-> 0, portal |-> 0,
                      loss |-> [b \in Bands |-> 0]]
    BY <1>6 DEF NodesInv
  <2> QED
    BY <1>3, <2>1, <2>2
<1>10. \A m \in DOMAIN search'.nodes : ActiveBands(Node(m)'.loss, WithDefaults(limits').floor) # {}
  <2> TAKE m \in DOMAIN search'.nodes
  <2>1. CASE m = c
    <3>1. Node(c)'.loss = Accumulate(Node(top).loss, e.portal)
      BY <1>3
    <3> QED
      BY <1>5, <2>1, <3>1
  <2>2. CASE m \in 1 .. K
    <3>1. ActiveBands(Node(m).loss, WithDefaults(limits).floor) # {}
      BY <1>3, <1>6, <2>2 DEF NodesInv
    <3> QED
      BY <1>3, <2>2, <3>1
  <2> QED
    BY <1>3, <1>7, <2>1, <2>2
<1>11. \A m, n \in DOMAIN search'.nodes :
         Node(m)'.parent = Node(n)'.parent /\ Node(m)'.portal = Node(n)'.portal => m = n
  <2>1. \A m \in 1 .. K : ~(Node(m)'.parent = top /\ Node(m)'.portal = e.portal)
    BY <1>3, <1>5 DEF HasChild
  <2>2. \A m, n \in 1 .. K : Node(m)'.parent = Node(n)'.parent /\ Node(m)'.portal = Node(n)'.portal => m = n
    BY <1>3, <1>6 DEF NodesInv
  <2>3. Node(c)'.parent = top /\ Node(c)'.portal = e.portal
    BY <1>3
  <2> QED
    BY <1>3, <1>7, <2>1, <2>2, <2>3
<1> QED
  BY <1>3, <1>8, <1>9, <1>10, <1>11 DEF NodesInv

LEMMA GrowPathKeeps ==
  ASSUME SearchInv, GrowPath, state' = state, limits' = limits
  PROVE  SearchInv'
<1>1. PICK K, c : K = Len(search.nodes) /\ c = K + 1
  OBVIOUS
<1>2. PICK s, t, L : s = search.stack /\ t = Considered /\ L = Len(s)
  OBVIOUS
<1>3. HasEdge
  BY DEF GrowPath
<1>4. /\ K \in Nat \ {0} /\ DOMAIN search.nodes = 1 .. K /\ DOMAIN search'.nodes = 1 .. c
      /\ DOMAIN search' = DOMAIN search /\ search'.groups = search.groups /\ search'.truncated = search.truncated
      /\ Node(c)'.group = Edge.to
      /\ \A n \in 1 .. K : /\ Node(n)' = Node(n) /\ PathTo(n)' = PathTo(n)
                           /\ Edges(n)' = Edges(n) /\ PathGroups(n)' = PathGroups(n)
      /\ PathTo(c)' = [j \in 1 .. L + 1 |-> IF j = L + 1 THEN c ELSE s[j].node]
  <2>1. K \in Nat \ {0} /\ DOMAIN search.nodes = 1 .. K
    BY <1>1, SearchIsTree
  <2>2. c = Len(search.nodes) + 1
    BY <1>1
  <2>3. /\ DOMAIN search'.nodes = 1 .. c /\ DOMAIN search' = DOMAIN search
        /\ search'.groups = search.groups /\ search'.truncated = search.truncated
        /\ \A n \in DOMAIN search.nodes : /\ Node(n)' = Node(n) /\ PathTo(n)' = PathTo(n)
                                          /\ Edges(n)' = Edges(n) /\ PathGroups(n)' = PathGroups(n)
    BY <2>2, GrownTree
  <2>4. Node(c)'.group = Edge.to
    BY <2>2, GrownTree
  <2>5. PathTo(c)' = [j \in 1 .. L + 1 |-> IF j = L + 1 THEN c ELSE s[j].node]
    <3>1. /\ PathTo(c)' \in [1 .. L + 1 -> Nat] /\ PathTo(c)'[L + 1] = c
          /\ \A j \in 1 .. L : PathTo(c)'[j] = s[j].node
      BY <1>2, <2>2, GrownTree
    <3>2. L \in Nat
      BY <1>2, StackIs
    <3>3. \A j \in 1 .. L + 1 : PathTo(c)'[j] = IF j = L + 1 THEN c ELSE s[j].node
      <4>1. \A j \in 1 .. L + 1 : j = L + 1 \/ j \in 1 .. L
        BY <3>2
      <4> QED
        BY <3>1, <4>1
    <3> QED
      BY <3>1, <3>3
  <2> QED
    BY <2>1, <2>3, <2>4, <2>5
<1>5. \A n \in 1 .. c : n \in 1 .. K \/ n = c
  BY <1>1, <1>4
<1>6. NodesInv'
  BY GrownNodes
<1>7. PICK f, u : f = Frame(c, Edges(c)') /\ u = Append(t, f)
  OBVIOUS
<1>8. search'.stack = u /\ search'.onPath = search.onPath \cup {Edge.to} /\ Edges(c)' \in Seq(EdgeType)
  BY <1>1, <1>2, <1>7, GrownTree, GrownEdges
<1>9. /\ L \in Nat /\ DOMAIN s = 1 .. L
      /\ t \in Seq(FrameType) /\ Len(t) = L /\ DOMAIN t = 1 .. L
      /\ \A i \in 1 .. L : /\ t[i].node = s[i].node /\ t[i].edges = s[i].edges
                           /\ t[i].cursor \in 1 .. Len(t[i].edges) + 1
  BY <1>2, <1>3, StackIs, ConsideredIs, LenProperties
<1>10. f \in FrameType /\ f.node = c /\ f.edges = Edges(c)' /\ f.cursor = 1
  BY <1>1, <1>4, <1>7, <1>8 DEF Frame, FrameType
<1>11. /\ u \in Seq(FrameType) /\ Len(u) = L + 1 /\ DOMAIN u = 1 .. L + 1 /\ u[L + 1] = f
       /\ \A i \in 1 .. L : u[i] = t[i]
  BY <1>7, <1>9, <1>10, AppendProperties, LenProperties
<1>12. \A i \in 1 .. L + 1 : i \in 1 .. L \/ i = L + 1
  BY <1>9
<1>13. StackInv'
  <2>1. ASSUME NEW i \in 1 .. L
        PROVE  /\ u[i].node \in DOMAIN search'.nodes /\ PathTo(u[i].node) = [j \in 1 .. i |-> u[j].node]
               /\ u[i].node \in 1 .. K
               /\ u[i].edges = Edges(u[i].node) /\ u[i].cursor \in 1 .. Len(u[i].edges) + 1
    <3>1. /\ s[i].node \in 1 .. K /\ s[i].edges = Edges(s[i].node)
          /\ PathTo(s[i].node) = [j \in 1 .. i |-> s[j].node]
      <4>1. i \in DOMAIN s
        BY <1>9
      <4>2. /\ s[i].node \in DOMAIN search.nodes /\ s[i].edges = Edges(s[i].node)
            /\ PathTo(s[i].node) = [j \in 1 .. i |-> s[j].node]
        BY <1>2, <4>1 DEF SearchInv, StackInv
      <4> QED
        BY <1>4, <4>2
    <3>2. \A j \in 1 .. i : u[j].node = s[j].node
      BY <1>9, <1>11
    <3>3. [j \in 1 .. i |-> u[j].node] = [j \in 1 .. i |-> s[j].node]
      BY <3>2
    <3>4. s[i].node \in 1 .. c
      BY <1>1, <1>4, <3>1
    <3> QED
      BY <1>4, <1>9, <1>11, <3>1, <3>3, <3>4
  <2>2. /\ u[L + 1].node \in DOMAIN search'.nodes /\ PathTo(c)' = [j \in 1 .. L + 1 |-> u[j].node]
        /\ u[L + 1].edges = Edges(c)' /\ u[L + 1].cursor \in 1 .. Len(u[L + 1].edges) + 1
    <3>1. c \in 1 .. c
      BY <1>1, <1>4
    <3>2. \A j \in 1 .. L + 1 : u[j].node = IF j = L + 1 THEN c ELSE s[j].node
      BY <1>9, <1>10, <1>11, <1>12
    <3>3. Len(Edges(c)') \in Nat
      BY <1>8, LenProperties
    <3> QED
      BY <1>4, <1>10, <1>11, <3>1, <3>2, <3>3
  <2>3. search'.onPath = {Node(g.node)'.group : g \in Range(u)}
    <3>1. search.onPath = {Node(g.node).group : g \in Range(s)}
      BY <1>2 DEF SearchInv, StackInv
    <3>2. Range(s) = {s[i] : i \in 1 .. L} /\ Range(u) = {u[i] : i \in 1 .. L + 1}
      BY <1>9, <1>11 DEF Range
    <3>3. \A i \in 1 .. L : Node(u[i].node)' = Node(s[i].node)
      BY <1>4, <1>9, <1>11, <2>1
    <3>4. ASSUME NEW g \in search'.onPath
          PROVE  \E h \in Range(u) : g = Node(h.node)'.group
      <4>1. CASE g = Edge.to
        <5>1. u[L + 1] \in Range(u)
          BY <1>9, <3>2
        <5> QED
          BY <1>4, <1>10, <1>11, <4>1, <5>1
      <4>2. CASE g \in search.onPath
        <5>1. PICK i \in 1 .. L : g = Node(s[i].node).group
          BY <3>1, <3>2, <4>2
        <5>2. u[i] \in Range(u)
          BY <1>9, <3>2
        <5> QED
          BY <3>3, <5>1, <5>2
      <4> QED
        BY <1>8, <4>1, <4>2
    <3>5. ASSUME NEW h \in Range(u)
          PROVE  Node(h.node)'.group \in search'.onPath
      <4>1. PICK i \in 1 .. L + 1 : h = u[i]
        BY <3>2
      <4>2. CASE i = L + 1
        BY <1>4, <1>8, <1>10, <1>11, <4>1, <4>2
      <4>3. CASE i \in 1 .. L
        BY <1>8, <3>1, <3>2, <3>3, <4>1, <4>3
      <4> QED
        BY <1>12, <4>2, <4>3
    <3> QED
      BY <3>4, <3>5
  <2>4. ASSUME NEW i \in 1 .. L + 1
        PROVE  /\ u[i].node \in DOMAIN search'.nodes /\ PathTo(u[i].node)' = [j \in 1 .. i |-> u[j].node]
               /\ u[i].edges = Edges(u[i].node)' /\ u[i].cursor \in 1 .. Len(u[i].edges) + 1
    <3>1. CASE i = L + 1
      BY <1>10, <1>11, <2>2, <3>1
    <3>2. CASE i \in 1 .. L
      <4>1. PICK n \in 1 .. K : n = u[i].node
        BY <2>1, <3>2
      <4>2. /\ n \in DOMAIN search'.nodes /\ PathTo(n) = [j \in 1 .. i |-> u[j].node]
            /\ u[i].edges = Edges(n) /\ u[i].cursor \in 1 .. Len(u[i].edges) + 1
        BY <2>1, <3>2, <4>1
      <4> QED
        BY <1>4, <4>1, <4>2
    <3> QED
      BY <1>12, <3>1, <3>2
  <2> QED
    <3>1. \A i \in DOMAIN search'.stack :
             /\ search'.stack[i].node \in DOMAIN search'.nodes
             /\ PathTo(search.stack[i].node)' = [j \in 1 .. i |-> search'.stack[j].node]
             /\ search'.stack[i].edges = Edges(search.stack[i].node)'
             /\ search'.stack[i].cursor \in 1 .. Len(search'.stack[i].edges) + 1
      BY <1>8, <1>11, <2>4
    <3>2. search'.stack \in Seq(FrameType) /\ search'.onPath = {Node(g.node)'.group : g \in Range(search'.stack)}
      BY <1>8, <1>11, <2>3
    <3> QED
      BY <3>1, <3>2 DEF StackInv
<1>14. TruncationInv'
  <2>1. /\ \A n \in 1 .. K : \A i \in DOMAIN Edges(n) :
             Tried(n, i)' <=> Tried(n, i) \/ (n = Top.node /\ i = Top.cursor)
        /\ \A i \in DOMAIN Edges(c)' : ~Tried(c, i)'
        /\ \A n \in 1 .. K : \A p :
             HasChild(n, p)' <=> HasChild(n, p) \/ (n = Top.node /\ p = Edge.portal)
    BY <1>1, <1>4, GrownEdges
  <2>2. /\ Top.node \in 1 .. K /\ Top.cursor \in DOMAIN Edges(Top.node) /\ Edge = Edges(Top.node)[Top.cursor]
        /\ ~Tried(Top.node, Top.cursor)
    BY <1>3, <1>4, EdgeAtHand
  <2>3. ASSUME NEW n \in 1 .. K, NEW i \in DOMAIN Edges(n)
        PROVE  Cut(n, i)' <=> Cut(n, i)
    <3>1. n = Top.node /\ Edges(n)[i].portal = Edge.portal => i = Top.cursor
      BY <1>4, <2>2, EdgesOfNode
    <3> QED
      BY <1>4, <2>1, <2>2, <3>1 DEF Cut
  <2>4. \A i \in DOMAIN Edges(c)' : ~Cut(c, i)'
    BY <2>1 DEF Cut
  <2>5. \A n \in 1 .. K : n \in 1 .. c
    BY <1>1, <1>4
  <2>6. TruncationInv
    BY DEF SearchInv
  <2>7. (\E n \in DOMAIN search'.nodes : \E i \in DOMAIN Edges(n)' : Cut(n, i)')
          <=> \E n \in DOMAIN search.nodes : \E i \in DOMAIN Edges(n) : Cut(n, i)
    BY <1>4, <1>5, <2>3, <2>4, <2>5
  <2> QED
    BY <1>4, <2>6, <2>7 DEF TruncationInv
<1> QED
  BY <1>4, <1>6, <1>13, <1>14 DEF SearchInv, NoSearch

\* The root is audible, for the limits a renderer may be configured with.
LEMMA RootAudible ==
  ASSUME limits \in LimitsType
  PROVE  ActiveBands([b \in Bands |-> 0], WithDefaults(limits).floor) # {}
<1>1. PICK f \in Int : f = limits.floor
  BY DEF LimitsType
<1>2. WithDefaults(limits).floor = Default(f, 6)
  BY <1>1 DEF WithDefaults, LimitsType
<1>3. Default(f, 6) \in Nat \ {0}
  BY DEF Default
<1>4. Opaque \in Nat \ {0} /\ Bands # {}
  <2>1. Opaque \in Nat \ {0} /\ NumBands \in Nat \ {0}
    BY PathAssumption
  <2>2. 1 \in Bands
    BY <2>1 DEF Bands
  <2> QED
    BY <2>1, <2>2
<1> QED
  BY <1>2, <1>3, <1>4 DEF ActiveBands

LEMMA NewSearchIs ==
  ASSUME limits \in LimitsType, search' = NewSearch(state), state' = state, limits' = limits
  PROVE  SearchInv'
<1>1. PICK gs, g : gs = GroupsOf(state) /\ g = GroupOf(SourceRoom, gs)
  OBVIOUS
<1>2. PICK root, frame : /\ root = [group |-> g, depth |-> 0, parent |-> 0, portal |-> 0,
                                    loss |-> [b \in Bands |-> 0]]
                         /\ frame = Frame(Root, SortedGroupEdges(g, gs, state))
  OBVIOUS
<1>3. search' = [groups |-> gs, nodes |-> <<root>>, truncated |-> FALSE, onPath |-> {g}, stack |-> <<frame>>]
  BY <1>1, <1>2 DEF NewSearch
<1>4. /\ search'.groups = gs /\ search'.nodes = <<root>> /\ search'.truncated = FALSE /\ search'.onPath = {g}
      /\ search'.stack = <<frame>> /\ DOMAIN search' = {"groups", "nodes", "truncated", "onPath", "stack"}
  BY <1>3
<1>5. g \in DOMAIN gs /\ g \in Nat
  <2>1. g \in DOMAIN gs
    BY <1>1, GroupsAre, PathAssumption
  <2>2. PICK n \in Nat : DOMAIN gs = 1 .. n
    BY <1>1, GroupsAre
  <2> QED
    BY <2>1, <2>2
<1>6. root \in NodeType
  BY <1>2, <1>5 DEF NodeType
<1>7. Node(Root)' = root /\ DOMAIN search'.nodes = {Root} /\ search'.nodes \in Seq(NodeType) \ {<<>>}
  BY <1>4, <1>6 DEF Node, Root
<1>8. PICK edges : edges = SortedGroupEdges(g, gs, state)
  OBVIOUS
<1>9. Edges(Root)' = edges /\ edges \in Seq(EdgeType) /\ Len(edges) \in Nat /\ DOMAIN edges = 1 .. Len(edges)
  <2>1. Edges(Root)' = edges
    BY <1>2, <1>4, <1>7, <1>8 DEF Edges
  <2> QED
    BY <1>1, <1>5, <1>8, <2>1, EdgesAre, LenProperties
<1>10. /\ frame \in FrameType /\ frame.node = Root /\ frame.edges = edges /\ frame.cursor = 1
  BY <1>2, <1>8, <1>9 DEF Frame, FrameType, Root
<1>11. PathTo(Root)' = <<Root>>
  <2>1. PICK T : T = <<root>>
    OBVIOUS
  <2>2. Len(T) = 1 /\ DOMAIN T = 1 .. 1 /\ T[1] = root
    BY <2>1
  <2>3. T[1].depth = 0
    BY <1>2, <2>2
  <2>4. IsTree(T)
    BY <2>2, <2>3 DEF IsTree
  <2>5. PathTo(Root)' = WayTo(search'.nodes, Root)
    BY Zenon DEF PathTo, WayTo, Node, Root
  <2>6. WayTo(T, 1) \in [1 .. T[1].depth + 1 -> 1 .. 1]
    <3>1. 1 \in 1 .. Len(T)
      BY <2>2
    <3> QED
      BY <2>4, <3>1, WayShape
  <2>7. PICK w : w = WayTo(T, 1)
    OBVIOUS
  <2>8. w \in [1 .. 1 -> 1 .. 1]
    BY <2>3, <2>6, <2>7
  <2>9. w = <<1>>
    BY <2>8
  <2> QED
    BY <1>4, <2>1, <2>5, <2>7, <2>9 DEF Root
<1>12. NodesInv'
  <2>1. ActiveBands(root.loss, WithDefaults(limits').floor) # {}
    BY <1>2, RootAudible
  <2>2. Node(Root)' = [group |-> GroupOf(SourceRoom, search'.groups), depth |-> 0, parent |-> 0, portal |-> 0,
                       loss |-> [b \in Bands |-> 0]]
    BY <1>1, <1>2, <1>4, <1>7
  <2>3. \A m \in DOMAIN search'.nodes : m = Root
    BY <1>7
  <2>4. \A m \in DOMAIN search'.nodes : ActiveBands(Node(m)'.loss, WithDefaults(limits').floor) # {}
    BY <1>7, <2>1, <2>3
  <2> QED
    BY <1>7, <2>2, <2>3, <2>4 DEF NodesInv
<1>13. StackInv'
  <2>1. PICK s : s = <<frame>>
    OBVIOUS
  <2>2. s \in Seq(FrameType) /\ Len(s) = 1 /\ DOMAIN s = 1 .. 1 /\ s[1] = frame /\ Range(s) = {frame}
    BY <1>10, <2>1 DEF Range
  <2>3. \A i \in DOMAIN s : i = 1
    BY <2>2
  <2>4. <<Root>> = [j \in 1 .. 1 |-> s[j].node]
    BY <1>10, <2>2
  <2>5. \A i \in DOMAIN s : /\ s[i].node \in DOMAIN search'.nodes /\ PathTo(s[i].node)' = [j \in 1 .. i |-> s[j].node]
                            /\ s[i].edges = Edges(s[i].node)' /\ s[i].cursor \in 1 .. Len(s[i].edges) + 1
    BY <1>7, <1>9, <1>10, <1>11, <2>2, <2>3, <2>4
  <2>6. {g} = {Node(f.node)'.group : f \in Range(s)}
    BY <1>2, <1>7, <1>10, <2>2
  <2>7. search'.stack = s
    BY <1>4, <2>1
  <2>8. \A i \in DOMAIN search'.stack :
           /\ search'.stack[i].node \in DOMAIN search'.nodes
           /\ PathTo(search.stack[i].node)' = [j \in 1 .. i |-> search'.stack[j].node]
           /\ search'.stack[i].edges = Edges(search.stack[i].node)'
           /\ search'.stack[i].cursor \in 1 .. Len(search'.stack[i].edges) + 1
    BY <2>5, <2>7
  <2>9. search'.stack \in Seq(FrameType) /\ search'.onPath = {Node(x.node)'.group : x \in Range(search'.stack)}
    BY <1>4, <2>2, <2>6, <2>7
  <2> QED
    BY <2>8, <2>9 DEF StackInv
<1>14. TruncationInv'
  <2>1. \A i \in DOMAIN edges : ~Tried(Root, i)'
    <3> TAKE i \in DOMAIN edges
    <3>1. ~(i < frame.cursor)
      BY <1>9, <1>10
    <3>2. frame \in Range(<<frame>>)
      BY DEF Range
    <3> QED
      BY <1>4, <1>10, <3>1, <3>2 DEF Tried
  <2>2. \A n \in DOMAIN search'.nodes : \A i \in DOMAIN Edges(n)' : ~Cut(n, i)'
    BY <1>7, <1>9, <2>1 DEF Cut
  <2> QED
    BY <1>4, <2>2 DEF TruncationInv
<1> QED
  BY <1>1, <1>4, <1>12, <1>13, <1>14 DEF SearchInv, NoSearch

\* The search keeps its invariant.
LEMMA ExpandPathsKeeps ==
  ASSUME SearchInv, ExpandPaths, state' = state, limits' = limits
  PROVE  SearchInv'
BY PopFrameKeeps, SkipCycleKeeps, CutBranchKeeps, GrowPathKeeps DEF ExpandPaths

-----------------------------------------------------------------------------
(* The simple paths, and what the search finds of them. *)

\* Paths by portals and by the groups they visit.
PathType(gs) == [portals : Seq(Portals), visited : Seq(DOMAIN gs) \ {<<>>}]

\* The edges that lead a path on.
Onward(path, gs, st) ==
  {x \in Range(SortedGroupEdges(Last(path.visited), gs, st)) : x.to \notin Range(path.visited)}

\* A path and one more edge.
PathWith(path, e) == [portals |-> Append(path.portals, e.portal), visited |-> Append(path.visited, e.to)]

Extensions(path, gs, st) == {PathWith(path, e) : e \in Onward(path, gs, st)}

StartPath(gs) == [portals |-> <<>>, visited |-> <<GroupOf(SourceRoom, gs)>>]

\* One portal more at a time, whatever is chosen for Long.
IsLong(L, st) ==
  LET gs == GroupsOf(st) IN
  /\ L \in [0 .. NumRooms - 1 -> SUBSET PathType(gs)]
  /\ L[0] = {StartPath(gs)}
  /\ \A k \in 1 .. NumRooms - 1 : L[k] = UNION {Extensions(path, gs, st) : path \in L[k - 1]}
  /\ SimplePaths(st) = UNION {L[k] : k \in 0 .. NumRooms - 1}

LEMMA LastOf ==
  ASSUME NEW S, NEW s \in Seq(S) \ {<<>>}
  PROVE  Last(s) \in S /\ Len(s) \in Nat \ {0} /\ Last(s) = s[Len(s)]
<1>1. Len(s) \in Nat \ {0}
  BY LenProperties, EmptySeq
<1>2. Len(s) \in 1 .. Len(s)
  BY <1>1
<1>3. s[Len(s)] \in S
  BY <1>2, ElementOfSeq
<1> QED
  BY <1>1, <1>3 DEF Last

LEMMA ExtensionsAre ==
  ASSUME NEW st, NEW path \in PathType(GroupsOf(st))
  PROVE  Extensions(path, GroupsOf(st), st) \in SUBSET PathType(GroupsOf(st))
<1>1. PICK gs : gs = GroupsOf(st)
  OBVIOUS
<1>2. path.portals \in Seq(Portals) /\ path.visited \in Seq(DOMAIN gs) \ {<<>>}
  BY <1>1 DEF PathType
<1>3. PICK edges : edges = SortedGroupEdges(Last(path.visited), gs, st)
  OBVIOUS
<1>4. Last(path.visited) \in DOMAIN gs
  BY <1>2, LastOf
<1>5. edges \in Seq(EdgeType) /\ \A i \in DOMAIN edges : edges[i].to \in DOMAIN gs
  BY <1>1, <1>3, <1>4, EdgesAre
<1>6. ASSUME NEW e \in Onward(path, gs, st)
      PROVE  PathWith(path, e) \in PathType(gs)
  <2>1. PICK i \in DOMAIN edges : e = edges[i]
    BY <1>3 DEF Onward, Range
  <2>2. e \in EdgeType /\ e.to \in DOMAIN gs
    BY <1>5, <2>1, LenProperties, ElementOfSeq
  <2>3. PICK p, g : p = e.portal /\ g = e.to
    OBVIOUS
  <2>4. p \in Portals /\ g \in DOMAIN gs
    BY <2>2, <2>3 DEF EdgeType
  <2>5. PICK a, b : a = path.portals /\ b = path.visited
    OBVIOUS
  <2>6. Append(a, p) \in Seq(Portals) /\ Append(b, g) \in Seq(DOMAIN gs) /\ Append(b, g) # <<>>
    BY <1>2, <2>4, <2>5, AppendProperties
  <2> QED
    BY <2>3, <2>5, <2>6 DEF PathWith, PathType
<1> QED
  BY <1>1, <1>6 DEF Extensions

LEMMA LongExists ==
  ASSUME NEW st
  PROVE  \E L : IsLong(L, st)
<1> DEFINE N == NumRooms - 1
           gs == GroupsOf(st)
           start == {StartPath(gs)}
           more(X) == UNION {Extensions(path, gs, st) : path \in X}
           body(f) == [k \in 0 .. N |-> IF k = 0 THEN start ELSE more(f[k - 1])]
           g == CHOOSE f : f = body(f)
           V == SUBSET PathType(gs)
           F == [x \in (1 .. N) \X V |-> more(x[2])]
<1>1. N \in Nat
  BY PathAssumption
<1>2. \A X \in V : more(X) \in V
  BY ExtensionsAre
<1>3. start \in V
  <2>1. PICK h : h = GroupOf(SourceRoom, gs)
    OBVIOUS
  <2>2. h \in DOMAIN gs
    BY <2>1, GroupsAre, PathAssumption
  <2>3. <<h>> \in Seq(DOMAIN gs) /\ <<h>> # <<>> /\ <<>> \in Seq(Portals)
    BY <2>2
  <2> HIDE DEF gs
  <2>4. StartPath(gs) \in PathType(gs)
    BY <2>1, <2>3 DEF StartPath, PathType
  <2> QED
    BY <2>4
<1>4. SimplePaths(st) = UNION {g[k] : k \in 0 .. N}
  BY Zenon DEF SimplePaths, StartPath, Extensions, Onward, PathWith
<1>5. F \in [(1 .. N) \X V -> V]
  <2> HIDE DEF V, more
  <2> QED
    BY <1>2
<1>6. \E f \in [0 .. N -> V] : f = body(f)
  <2>1. PICK f \in [0 .. N -> V] : Steps(f, start, F, N)
    <3> HIDE DEF F, V, N, start
    <3> QED
      BY <1>1, <1>3, <1>5, StepsExist
  <2> HIDE DEF V, more, start, N
  <2>2. \A k \in 1 .. N : f[k] = more(f[k - 1])
    <3> TAKE k \in 1 .. N
    <3>1. f[k - 1] \in V /\ <<k, f[k - 1]>> \in (1 .. N) \X V
      BY <1>1, <2>1
    <3>2. f[k] = F[<<k, f[k - 1]>>]
      BY <2>1 DEF Steps
    <3> QED
      BY <3>1, <3>2
  <2>3. f[0] = start /\ f = [k \in 0 .. N |-> f[k]]
    BY <2>1 DEF Steps
  <2>4. f = body(f)
    BY <1>1, <2>2, <2>3
  <2> QED
    BY <2>4
<1>7. g = body(g)
  <2> HIDE DEF body
  <2> QED
    BY <1>6
<1> HIDE DEF g, N, V, more, start
<1>8. g[0] = start /\ \A k \in 1 .. N : g[k] = more(g[k - 1])
  <2>1. PICK h : h = g
    OBVIOUS
  <2>2. h = [k \in 0 .. N |-> IF k = 0 THEN start ELSE more(h[k - 1])]
    BY <1>7, <2>1
  <2>3. \A k \in 0 .. N : h[k] = IF k = 0 THEN start ELSE more(h[k - 1])
    BY <2>2
  <2>4. 0 \in 0 .. N /\ \A k \in 1 .. N : k \in 0 .. N /\ k # 0
    BY <1>1
  <2> QED
    BY <2>1, <2>3, <2>4
<1> DEFINE Good == {k \in 0 .. N : g[k] \in V}
<1>9. 0 \in Good /\ \A k \in 1 .. N : k - 1 \in Good => k \in Good
  BY <1>1, <1>2, <1>3, <1>8
<1>10. \A k \in 0 .. N : k \in Good
  <2> HIDE DEF Good
  <2> QED
    BY <1>1, <1>9, UpTo
<1>11. g \in [0 .. N -> V]
  BY <1>7, <1>10
<1>12. IsLong(g, st)
  BY <1>4, <1>8, <1>11 DEF IsLong, N, V, more, start
<1> QED
  BY <1>12

LEMMA AppendAsFunction ==
  ASSUME NEW S, NEW s \in Seq(S), NEW n \in Nat, Len(s) = n, NEW x
  PROVE  Append(s, x) = [j \in 1 .. n + 1 |-> IF j <= n THEN s[j] ELSE x]
<1>1. s \in Seq(S \cup {x}) /\ x \in S \cup {x}
  BY SeqMonotonic
<1>2. /\ Len(Append(s, x)) = n + 1 /\ Append(s, x)[n + 1] = x /\ Append(s, x) \in Seq(S \cup {x})
      /\ \A j \in 1 .. n : Append(s, x)[j] = s[j]
  BY <1>1, AppendProperties
<1>3. Append(s, x) = [j \in 1 .. n + 1 |-> Append(s, x)[j]]
  BY <1>2, LenProperties
<1>4. \A j \in 1 .. n + 1 : Append(s, x)[j] = IF j <= n THEN s[j] ELSE x
  <2> TAKE j \in 1 .. n + 1
  <2>1. j \in 1 .. n \/ j = n + 1
    OBVIOUS
  <2> QED
    BY <1>2, <2>1
<1> QED
  BY <1>3, <1>4

\* The way down gets deeper by one.
LEMMA DepthsOfPath ==
  ASSUME SearchInv, NEW n \in DOMAIN search.nodes, NEW i \in 1 .. Node(n).depth + 1
  PROVE  Node(PathTo(n)[i]).depth = i - 1
<1> DEFINE Deeper(k) == \A a \in 1 .. Node(k).depth + 1 : Node(PathTo(k)[a]).depth = a - 1
           Good == {m \in 0 .. Len(search.nodes) : \A k \in 1 .. m : Deeper(k)}
<1>1. DOMAIN search.nodes = 1 .. Len(search.nodes) /\ Len(search.nodes) \in Nat
  BY SearchIsTree
<1>2. 0 \in Good
  BY <1>1
<1>3. ASSUME NEW m \in 1 .. Len(search.nodes), m - 1 \in Good
      PROVE  m \in Good
  <2>1. Deeper(m)
    <3>1. PICK d \in Nat : d = Node(m).depth
      BY <1>1, PathShape
    <3>2. PathTo(m)[d + 1] = m
      BY <1>1, <3>1, PathShape
    <3> SUFFICES ASSUME NEW a \in 1 .. d + 1 PROVE Node(PathTo(m)[a]).depth = a - 1
      BY <3>1
    <3>3. CASE m = Root
      <4>1. d = 0
        BY <3>1, <3>3 DEF SearchInv, NodesInv
      <4>2. a = d + 1
        BY <4>1
      <4> QED
        BY <3>1, <3>2, <4>2
    <3>4. CASE m # Root
      <4>1. PICK p \in DOMAIN search.nodes :
              /\ p \in 1 .. m - 1 /\ d = Node(p).depth + 1
              /\ \A b \in 1 .. Node(p).depth + 1 : PathTo(m)[b] = PathTo(p)[b]
        BY <1>1, <3>1, <3>4, ChildOf
      <4>2. PICK e \in Nat : e = Node(p).depth
        BY PathShape
      <4>3. Deeper(p)
        BY <1>3, <4>1
      <4>4. CASE a = d + 1
        BY <3>1, <3>2, <4>4
      <4>5. CASE a # d + 1
        <5>1. a \in 1 .. e + 1
          BY <3>1, <4>1, <4>2, <4>5
        <5> QED
          BY <4>1, <4>2, <4>3, <5>1
      <4> QED
        BY <4>4, <4>5
    <3> QED
      BY <3>3, <3>4
  <2>2. \A k \in 1 .. m : k = m \/ k \in 1 .. m - 1
    OBVIOUS
  <2> HIDE DEF Deeper
  <2> QED
    BY <1>1, <1>3, <2>1, <2>2
<1>4. \A m \in 0 .. Len(search.nodes) : m \in Good
  <2> HIDE DEF Good
  <2> QED
    BY <1>1, <1>2, <1>3, UpTo
<1>5. n \in Good
  BY <1>1, <1>4
<1> QED
  BY <1>1, <1>5

\* The path a node stands for.
PathAt(n) == [portals |-> PortalSequence(n), visited |-> [i \in 1 .. Node(n).depth + 1 |-> Node(PathTo(n)[i]).group]]

LEMMA RootPath ==
  ASSUME SearchInv
  PROVE  Root \in DOMAIN search.nodes /\ Node(Root).depth = 0 /\ PathAt(Root) = StartPath(search.groups)
<1>1. Root \in DOMAIN search.nodes
  BY SearchIsTree DEF Root
<1>2. Node(Root).depth = 0 /\ Node(Root).group = GroupOf(SourceRoom, search.groups)
  BY DEF SearchInv, NodesInv
<1>3. PICK w : w = PathTo(Root)
  OBVIOUS
<1>4. w[1] = Root
  <2>1. w[Node(Root).depth + 1] = Root
    BY <1>1, <1>3, PathShape
  <2> QED
    BY <1>2, <2>1
<1>5. PortalSequence(Root) = <<>>
  BY <1>2 DEF PortalSequence
<1>6. [i \in 1 .. Node(Root).depth + 1 |-> Node(w[i]).group] = <<GroupOf(SourceRoom, search.groups)>>
  BY <1>2, <1>4
<1> QED
  BY <1>1, <1>2, <1>3, <1>5, <1>6 DEF PathAt, StartPath

\* How long a path is, what it visits and where it ends.
LEMMA PathAtIs ==
  ASSUME SearchInv, NEW n \in DOMAIN search.nodes
  PROVE  /\ PathAt(n).portals = PortalSequence(n) /\ PortalSequence(n) \in Seq(Portals)
         /\ Len(PortalSequence(n)) = Node(n).depth
         /\ PathAt(n).visited \in Seq(DOMAIN search.groups) \ {<<>>} /\ Len(PathAt(n).visited) = Node(n).depth + 1
         /\ Last(PathAt(n).visited) = Node(n).group /\ Range(PathAt(n).visited) = PathGroups(n)
<1>1. PICK d, w : d = Node(n).depth /\ w = PathTo(n)
  OBVIOUS
<1>2. d \in Nat /\ w \in [1 .. d + 1 -> 1 .. n] /\ w[d + 1] = n /\ n \in 1 .. Len(search.nodes)
  BY <1>1, PathShape
<1>3. DOMAIN search.nodes = 1 .. Len(search.nodes) /\ Len(search.nodes) \in Nat
  BY SearchIsTree
<1>4. \A i \in 1 .. d + 1 : w[i] \in DOMAIN search.nodes
  BY <1>2, <1>3
<1>5. PICK v : v = [i \in 1 .. d + 1 |-> Node(w[i]).group]
  OBVIOUS
<1>6. v \in [1 .. d + 1 -> DOMAIN search.groups]
  BY <1>4, <1>5, NodeGroups
<1>7. v \in Seq(DOMAIN search.groups) /\ Len(v) = d + 1 /\ v # <<>>
  <2>1. d + 1 \in Nat /\ d + 1 # 0
    BY <1>2
  <2>2. v \in Seq(DOMAIN search.groups)
    BY <1>6, <2>1, IsASeq
  <2>3. Len(v) = d + 1
    BY <1>6, <2>1, <2>2, LenProperties
  <2> QED
    BY <2>1, <2>2, <2>3, EmptySeq
<1>8. Last(v) = Node(n).group
  BY <1>2, <1>5, <1>7 DEF Last
<1>9. Range(v) = PathGroups(n)
  <2>1. PathGroups(n) = {Node(w[i]).group : i \in 1 .. d + 1}
    BY <1>1, GroupsOfPath
  <2> QED
    BY <1>5, <2>1 DEF Range
<1>10. \A i \in 1 .. d : Node(w[i + 1]).portal \in Portals
  <2> TAKE i \in 1 .. d
  <2>1. i + 1 \in 1 .. d + 1 /\ i + 1 # 1
    BY <1>2
  <2>2. PICK m : m = w[i + 1]
    OBVIOUS
  <2>3. m \in DOMAIN search.nodes
    BY <1>4, <2>1, <2>2
  <2>4. m # Root
    <3>1. SUFFICES ASSUME m = Root PROVE FALSE
      OBVIOUS
    \* The root is on its own way only, and every other way starts there.
    <3>2. Node(m).depth = i
      <4>1. Node(w[i + 1]).depth = i + 1 - 1
        BY <1>1, <2>1, DepthsOfPath
      <4> QED
        BY <1>2, <2>2, <4>1
    <3>3. Node(Root).depth = 0
      BY RootPath
    <3> QED
      BY <3>1, <3>2, <3>3
  <2>5. PICK k \in DOMAIN search.nodes : \E j \in DOMAIN Edges(k) : Edges(k)[j].portal = Node(m).portal
    BY <2>3, <2>4, ChildOf
  <2>6. \A j \in DOMAIN Edges(k) : Edges(k)[j] \in EdgeType
    BY EdgesOfNode
  <2> QED
    BY <2>2, <2>5, <2>6 DEF EdgeType
<1>11. PICK s : s = PortalSequence(n)
  OBVIOUS
<1>12. s = [i \in 1 .. d |-> Node(w[i + 1]).portal]
  BY <1>1, <1>11 DEF PortalSequence
<1>13. s \in Seq(Portals) /\ Len(s) = d
  <2>1. s \in [1 .. d -> Portals]
    BY <1>10, <1>12
  <2>2. s \in Seq(Portals)
    BY <1>2, <2>1, IsASeq
  <2> QED
    BY <1>2, <2>1, <2>2, LenProperties
<1>14. PathAt(n).visited = v /\ PathAt(n).portals = s
  BY <1>1, <1>5, <1>11 DEF PathAt
<1> QED
  BY <1>1, <1>7, <1>8, <1>9, <1>11, <1>13, <1>14

\* The path of a child is its parent's with the edge it was grown from.
LEMMA PathOfChild ==
  ASSUME SearchInv, NEW m \in DOMAIN search.nodes, m # Root
  PROVE  \E n \in DOMAIN search.nodes : \E i \in DOMAIN Edges(n) :
           /\ n = Node(m).parent /\ n \in 1 .. m - 1 /\ Node(m).depth = Node(n).depth + 1
           /\ Node(m).loss = Accumulate(Node(n).loss, Node(m).portal)
           /\ Edges(n)[i].portal = Node(m).portal /\ Edges(n)[i].to = Node(m).group
           /\ Edges(n)[i].to \notin PathGroups(n)
           /\ PathAt(m) = PathWith(PathAt(n), Edges(n)[i])
           /\ PortalSequence(m) = Append(PortalSequence(n), Node(m).portal)
<1>1. PICK n \in DOMAIN search.nodes :
        /\ n = Node(m).parent /\ n \in 1 .. m - 1 /\ Node(m).depth = Node(n).depth + 1
        /\ Node(m).loss = Accumulate(Node(n).loss, Node(m).portal)
        /\ Node(m).group \notin PathGroups(n)
        /\ \E i \in DOMAIN Edges(n) : Edges(n)[i].portal = Node(m).portal /\ Edges(n)[i].to = Node(m).group
        /\ \A i \in 1 .. Node(n).depth + 1 : PathTo(m)[i] = PathTo(n)[i]
  BY ChildOf
<1>2. PICK i \in DOMAIN Edges(n) : Edges(n)[i].portal = Node(m).portal /\ Edges(n)[i].to = Node(m).group
  BY <1>1
<1>3. PICK d, u, w : d = Node(n).depth /\ u = PathTo(m) /\ w = PathTo(n)
  OBVIOUS
<1>4. d \in Nat /\ u[d + 1 + 1] = m /\ Node(m).depth = d + 1
  BY <1>1, <1>3, PathShape
<1>5. PICK p, g : p = Node(m).portal /\ g = Node(m).group
  OBVIOUS
<1>6. PortalSequence(m) = Append(PortalSequence(n), p)
  <2>1. PICK s : s = PortalSequence(n)
    OBVIOUS
  <2>2. s \in Seq(Portals) /\ Len(s) = d /\ s = [j \in 1 .. d |-> Node(w[j + 1]).portal]
    BY <1>3, <2>1, PathAtIs DEF PortalSequence
  <2>3. PortalSequence(m) = [j \in 1 .. d + 1 |-> Node(u[j + 1]).portal]
    BY <1>3, <1>4 DEF PortalSequence
  <2>4. \A j \in 1 .. d + 1 : Node(u[j + 1]).portal = IF j <= d THEN s[j] ELSE p
    <3> TAKE j \in 1 .. d + 1
    <3>1. CASE j = d + 1
      BY <1>4, <1>5, <3>1
    <3>2. CASE j # d + 1
      <4>1. j \in 1 .. d /\ j + 1 \in 1 .. d + 1
        BY <1>4, <3>2
      <4> QED
        BY <1>1, <1>3, <1>4, <2>2, <4>1
    <3> QED
      BY <3>1, <3>2
  <2>5. Append(s, p) = [j \in 1 .. d + 1 |-> IF j <= d THEN s[j] ELSE p]
    BY <1>4, <2>2, AppendAsFunction
  <2> QED
    BY <2>1, <2>3, <2>4, <2>5
<1>7. PathAt(m).visited = Append(PathAt(n).visited, g)
  <2>1. PICK v : v = PathAt(n).visited
    OBVIOUS
  <2>2. v \in Seq(DOMAIN search.groups) /\ Len(v) = d + 1 /\ v = [j \in 1 .. d + 1 |-> Node(w[j]).group]
    <3>1. v \in Seq(DOMAIN search.groups) /\ Len(v) = d + 1
      BY <1>3, <2>1, PathAtIs
    <3> QED
      BY <1>3, <2>1, <3>1 DEF PathAt
  <2>3. PathAt(m).visited = [j \in 1 .. d + 1 + 1 |-> Node(u[j]).group]
    BY <1>3, <1>4 DEF PathAt
  <2>4. \A j \in 1 .. d + 1 + 1 : Node(u[j]).group = IF j <= d + 1 THEN v[j] ELSE g
    <3> TAKE j \in 1 .. d + 1 + 1
    <3>1. CASE j = d + 1 + 1
      BY <1>4, <1>5, <3>1
    <3>2. CASE j # d + 1 + 1
      <4>1. j \in 1 .. d + 1
        BY <1>4, <3>2
      <4> QED
        BY <1>1, <1>3, <1>4, <2>2, <4>1
    <3> QED
      BY <3>1, <3>2
  <2>5. Append(v, g) = [j \in 1 .. d + 1 + 1 |-> IF j <= d + 1 THEN v[j] ELSE g]
    BY <1>4, <2>2, AppendAsFunction
  <2> QED
    BY <2>1, <2>3, <2>4, <2>5
<1>8. PathAt(m) = PathWith(PathAt(n), Edges(n)[i])
  BY <1>2, <1>5, <1>6, <1>7, PathAtIs DEF PathWith, PathAt
<1> QED
  BY <1>1, <1>2, <1>5, <1>6, <1>8

\* A way that visits no group twice is shorter than there are rooms.
LEMMA ShortPaths ==
  ASSUME NEW st, NEW k \in Nat, NEW v \in [1 .. k -> DOMAIN GroupsOf(st)],
         \A i, j \in 1 .. k : v[i] = v[j] => i = j
  PROVE  k <= NumRooms
<1>1. PICK n \in Nat : n = Cardinality(Components(st)) /\ DOMAIN GroupsOf(st) = 1 .. n /\ n <= NumRooms
  BY GroupsAre, ComponentsAre
<1>2. IsFiniteSet(1 .. n) /\ Cardinality(1 .. n) = n /\ IsFiniteSet(1 .. k) /\ Cardinality(1 .. k) = k
  <2>1. IsFiniteSet(1 .. n) /\ Cardinality(1 .. n) = IF 1 > n THEN 0 ELSE n - 1 + 1
    BY FS_Interval
  <2>2. IsFiniteSet(1 .. k) /\ Cardinality(1 .. k) = IF 1 > k THEN 0 ELSE k - 1 + 1
    BY FS_Interval
  <2> QED
    BY <2>1, <2>2
<1>3. v \in Injection(1 .. k, 1 .. n)
  BY <1>1 DEF Injection, IsInjective
<1>4. Cardinality(1 .. k) <= Cardinality(1 .. n)
  BY <1>2, <1>3, FS_Injection
<1> QED
  BY <1>1, <1>2, <1>4, PathAssumption

\* The way to a node and one group that is not on it.
LEMMA DepthBound ==
  ASSUME SearchInv, NEW n \in DOMAIN search.nodes
  PROVE  /\ Node(n).depth \in 0 .. NumRooms - 1
         /\ \A g \in DOMAIN search.groups : g \notin PathGroups(n) => Node(n).depth + 1 \in 1 .. NumRooms - 1
<1>1. PICK d, v : d = Node(n).depth /\ v = PathAt(n).visited
  OBVIOUS
<1>2. d \in Nat /\ v \in [1 .. d + 1 -> DOMAIN search.groups] /\ Range(v) = PathGroups(n)
      /\ \A i \in 1 .. d + 1 : v[i] = Node(PathTo(n)[i]).group
  <2>1. d \in Nat
    BY <1>1, PathShape
  <2>2. v \in Seq(DOMAIN search.groups) /\ Len(v) = d + 1 /\ Range(v) = PathGroups(n)
    BY <1>1, PathAtIs
  <2>3. v \in [1 .. d + 1 -> DOMAIN search.groups]
    BY <2>2, LenProperties
  <2>4. \A i \in 1 .. d + 1 : v[i] = Node(PathTo(n)[i]).group
    BY <1>1 DEF PathAt
  <2> QED
    BY <2>1, <2>2, <2>3, <2>4
<1>3. ASSUME NEW i \in 1 .. d + 1, NEW j \in 1 .. d + 1, v[i] = v[j]
      PROVE  i = j
  <2>1. Node(PathTo(n)[i]).group = Node(PathTo(n)[j]).group
    BY <1>2, <1>3
  <2>2. i \in 1 .. Node(n).depth + 1 /\ j \in 1 .. Node(n).depth + 1
    BY <1>1
  <2> QED
    BY <2>1, <2>2, GroupsDistinct
<1>4. search.groups = GroupsOf(state)
  BY DEF SearchInv
<1>5. NumRooms \in Nat
  BY PathAssumption
<1>6. d + 1 <= NumRooms
  <2>1. PICK k \in Nat : k = d + 1
    BY <1>2
  <2>2. v \in [1 .. k -> DOMAIN GroupsOf(state)] /\ \A i, j \in 1 .. k : v[i] = v[j] => i = j
    BY <1>2, <1>3, <1>4, <2>1
  <2>3. k <= NumRooms
    BY <2>2, ShortPaths
  <2> QED
    BY <2>1, <2>3
<1>7. ASSUME NEW g \in DOMAIN search.groups, g \notin PathGroups(n)
      PROVE  d + 1 + 1 <= NumRooms
  <2>1. PICK k \in Nat : k = d + 1 + 1
    BY <1>2
  <2>2. PICK u : u = [i \in 1 .. k |-> IF i = k THEN g ELSE v[i]]
    OBVIOUS
  <2>3. \A i \in 1 .. k : i = k \/ i \in 1 .. d + 1
    BY <1>2, <2>1
  <2>4. u \in [1 .. k -> DOMAIN GroupsOf(state)]
    BY <1>2, <1>4, <1>7, <2>2, <2>3
  <2>5. \A i \in 1 .. d + 1 : v[i] # g
    BY <1>2, <1>7 DEF Range
  <2>6. \A i, j \in 1 .. k : u[i] = u[j] => i = j
    BY <1>3, <2>2, <2>3, <2>5
  <2>7. k <= NumRooms
    BY <2>4, <2>6, ShortPaths
  <2> QED
    BY <2>1, <2>7
<1> QED
  BY <1>1, <1>2, <1>5, <1>6, <1>7

\* An edge off the way of a node leads its path on.
LEMMA EdgeOnward ==
  ASSUME SearchInv, NEW n \in DOMAIN search.nodes
  PROVE  \A e : e \in Onward(PathAt(n), GroupsOf(state), state)
                  <=> \E i \in DOMAIN Edges(n) : e = Edges(n)[i] /\ e.to \notin PathGroups(n)
<1>1. PICK edges : edges = Edges(n)
  OBVIOUS
<1>2. edges = SortedGroupEdges(Last(PathAt(n).visited), GroupsOf(state), state)
  BY <1>1, PathAtIs DEF Edges, SearchInv
<1>3. Range(PathAt(n).visited) = PathGroups(n)
  BY PathAtIs
<1>4. Range(edges) = {edges[i] : i \in DOMAIN edges}
  BY DEF Range
<1> QED
  BY <1>1, <1>2, <1>3, <1>4 DEF Onward

\* Every node is a simple path.
LEMMA NodesAreSimple ==
  ASSUME SearchInv, NEW L, IsLong(L, state), NEW n \in DOMAIN search.nodes
  PROVE  PathAt(n) \in L[Node(n).depth]
<1> DEFINE In(k) == PathAt(k) \in L[Node(k).depth]
           Good == {m \in 0 .. Len(search.nodes) : \A k \in 1 .. m : In(k)}
<1>1. DOMAIN search.nodes = 1 .. Len(search.nodes) /\ Len(search.nodes) \in Nat /\ search.groups = GroupsOf(state)
  BY SearchIsTree DEF SearchInv
<1>2. 0 \in Good
  BY <1>1
<1>3. ASSUME NEW m \in 1 .. Len(search.nodes), m - 1 \in Good
      PROVE  m \in Good
  <2>1. In(m)
    <3>1. CASE m = Root
      BY <1>1, <3>1, RootPath DEF IsLong
    <3>2. CASE m # Root
      <4>1. PICK p \in DOMAIN search.nodes : \E i \in DOMAIN Edges(p) :
              /\ p \in 1 .. m - 1 /\ Node(m).depth = Node(p).depth + 1
              /\ Edges(p)[i].to \notin PathGroups(p)
              /\ PathAt(m) = PathWith(PathAt(p), Edges(p)[i])
        BY <1>1, <3>2, PathOfChild
      <4>2. PICK i \in DOMAIN Edges(p) :
              /\ p \in 1 .. m - 1 /\ Node(m).depth = Node(p).depth + 1
              /\ Edges(p)[i].to \notin PathGroups(p)
              /\ PathAt(m) = PathWith(PathAt(p), Edges(p)[i])
        BY <4>1
      <4>3. PICK d : d = Node(p).depth
        OBVIOUS
      <4>4. d \in Nat /\ d + 1 \in 0 .. NumRooms - 1
        BY <1>1, <4>2, <4>3, DepthBound, PathShape
      <4>5. PathAt(p) \in L[d]
        BY <1>3, <4>2, <4>3
      <4>6. Edges(p)[i] \in Onward(PathAt(p), GroupsOf(state), state)
        BY <4>2, EdgeOnward
      <4>7. PathAt(m) \in Extensions(PathAt(p), GroupsOf(state), state)
        BY <4>2, <4>6 DEF Extensions
      <4>8. d + 1 \in 1 .. NumRooms - 1 /\ d + 1 - 1 = d
        BY <4>4
      <4>9. L[d + 1] = UNION {Extensions(path, GroupsOf(state), state) : path \in L[d]}
        <5>1. \A k \in 1 .. NumRooms - 1 : L[k] = UNION {Extensions(path, GroupsOf(state), state) : path \in L[k - 1]}
          BY DEF IsLong
        <5>2. PICK k, X : k = d + 1 /\ X = L[d]
          OBVIOUS
        <5>3. L[k] = UNION {Extensions(path, GroupsOf(state), state) : path \in L[k - 1]} /\ L[k - 1] = X
          BY <4>4, <4>8, <5>1, <5>2
        <5> QED
          BY <5>2, <5>3
      <4> QED
        BY <4>2, <4>3, <4>5, <4>7, <4>9
    <3> QED
      BY <3>1, <3>2
  <2>2. \A k \in 1 .. m : k = m \/ k \in 1 .. m - 1
    OBVIOUS
  <2> HIDE DEF In
  <2> QED
    BY <1>1, <1>3, <2>1, <2>2
<1>4. \A m \in 0 .. Len(search.nodes) : m \in Good
  <2> HIDE DEF Good
  <2> QED
    BY <1>1, <1>2, <1>3, UpTo
<1>5. n \in Good
  BY <1>1, <1>4
<1> QED
  BY <1>1, <1>5

\* No path is found twice.
LEMMA NodesDiffer ==
  ASSUME SearchInv, NEW m \in DOMAIN search.nodes, NEW n \in DOMAIN search.nodes,
         PortalSequence(m) = PortalSequence(n)
  PROVE  m = n
<1> DEFINE Once(k) == \A j \in 1 .. k : PortalSequence(j) = PortalSequence(k) => j = k
           Good == {h \in 0 .. Len(search.nodes) : \A k \in 1 .. h : Once(k)}
<1>1. DOMAIN search.nodes = 1 .. Len(search.nodes) /\ Len(search.nodes) \in Nat
  BY SearchIsTree
<1>2. 0 \in Good
  BY <1>1
<1>3. ASSUME NEW h \in 1 .. Len(search.nodes), h - 1 \in Good
      PROVE  h \in Good
  <2>1. Once(h)
    <3> SUFFICES ASSUME NEW j \in 1 .. h, PortalSequence(j) = PortalSequence(h) PROVE j = h
      OBVIOUS
    <3>1. j \in DOMAIN search.nodes /\ h \in DOMAIN search.nodes /\ Node(j).depth = Node(h).depth
      BY <1>1, PathAtIs
    <3>2. CASE j = Root \/ h = Root
      <4>1. Node(j).depth = 0 /\ Node(h).depth = 0
        BY <3>1, <3>2, RootPath
      <4>2. ASSUME NEW k \in DOMAIN search.nodes, Node(k).depth = 0
            PROVE  k = Root
        <5>1. SUFFICES ASSUME k # Root PROVE FALSE
          OBVIOUS
        <5>2. PICK p \in DOMAIN search.nodes : Node(k).depth = Node(p).depth + 1
          BY <5>1, ChildOf
        <5>3. Node(p).depth \in Nat
          BY PathShape
        <5> QED
          BY <4>2, <5>2, <5>3
      <4> QED
        BY <3>1, <4>1, <4>2
    <3>3. CASE j # Root /\ h # Root
      <4>1. PICK p \in DOMAIN search.nodes :
              /\ p = Node(j).parent /\ p \in 1 .. j - 1
              /\ PortalSequence(j) = Append(PortalSequence(p), Node(j).portal)
        BY <3>1, <3>3, PathOfChild
      <4>2. PICK q \in DOMAIN search.nodes :
              /\ q = Node(h).parent /\ q \in 1 .. h - 1
              /\ PortalSequence(h) = Append(PortalSequence(q), Node(h).portal)
        BY <3>1, <3>3, PathOfChild
      <4>3. PICK s, t, x, y : s = PortalSequence(p) /\ t = PortalSequence(q) /\ x = Node(j).portal /\ y = Node(h).portal
        OBVIOUS
      <4>4. s \in Seq(Portals) /\ t \in Seq(Portals) /\ Append(s, x) = Append(t, y)
        BY <4>1, <4>2, <4>3, PathAtIs
      <4>5. x \in Portals /\ y \in Portals
        <5>1. PICK a \in DOMAIN search.nodes : \E i \in DOMAIN Edges(a) : Edges(a)[i].portal = x
          BY <3>1, <3>3, <4>3, ChildOf
        <5>2. PICK b \in DOMAIN search.nodes : \E i \in DOMAIN Edges(b) : Edges(b)[i].portal = y
          BY <3>1, <3>3, <4>3, ChildOf
        <5>3. ASSUME NEW c \in DOMAIN search.nodes, NEW i \in DOMAIN Edges(c)
              PROVE  Edges(c)[i].portal \in Portals
          <6>1. Edges(c)[i] \in EdgeType
            BY EdgesOfNode
          <6> QED
            BY <6>1 DEF EdgeType
        <5> QED
          BY <5>1, <5>2, <5>3
      <4>6. s = t /\ x = y
        BY <4>4, <4>5, AppendInjective
      <4>7. p = q
        <5>1. p \in 1 .. h - 1
          BY <4>1
        <5>2. Once(p) /\ Once(q)
          BY <1>3, <4>2, <5>1
        <5>3. p \in 1 .. q \/ q \in 1 .. p
          BY <4>1, <4>2
        <5> QED
          BY <4>3, <4>6, <5>2, <5>3
      <4> QED
        BY <3>1, <4>1, <4>2, <4>3, <4>6, <4>7 DEF SearchInv, NodesInv
    <3> QED
      BY <3>2, <3>3
  <2>2. \A k \in 1 .. h : k = h \/ k \in 1 .. h - 1
    OBVIOUS
  <2> HIDE DEF Once
  <2> QED
    BY <1>1, <1>3, <2>1, <2>2
<1>4. \A h \in 0 .. Len(search.nodes) : h \in Good
  <2> HIDE DEF Good
  <2> QED
    BY <1>1, <1>2, <1>3, UpTo
<1>5. Once(m) /\ Once(n)
  <2>1. m \in Good /\ n \in Good /\ m \in 1 .. m /\ n \in 1 .. n
    BY <1>1, <1>4
  <2> QED
    BY <2>1
<1>6. m \in 1 .. n \/ n \in 1 .. m
  BY <1>1
<1> QED
  BY <1>5, <1>6

\* With an empty stack every edge has been tried.
LEMMA AllTried ==
  ASSUME SearchInv, search.stack = <<>>
  PROVE  \A n \in DOMAIN search.nodes : \A i \in DOMAIN Edges(n) :
           Cut(n, i) <=> Edges(n)[i].to \notin PathGroups(n) /\ ~HasChild(n, Edges(n)[i].portal)
<1>1. Range(search.stack) = {}
  BY DEF Range
<1>2. \A n, i : Tried(n, i)
  BY <1>1 DEF Tried
<1> QED
  BY <1>2 DEF Cut

\* A search that was not cut has found every simple path.
LEMMA AllFound ==
  ASSUME SearchInv, search.stack = <<>>, ~search.truncated, NEW L, IsLong(L, state),
         NEW k \in 0 .. NumRooms - 1, NEW path \in L[k]
  PROVE  \E n \in DOMAIN search.nodes : PathAt(n) = path
<1> DEFINE N == NumRooms - 1
           Found(h) == \A x \in L[h] : \E n \in DOMAIN search.nodes : PathAt(n) = x
           Good == {h \in 0 .. N : Found(h)}
<1>1. N \in Nat /\ search.groups = GroupsOf(state)
  BY PathAssumption DEF SearchInv
<1>2. 0 \in Good
  BY <1>1, RootPath DEF IsLong
<1>3. ASSUME NEW h \in 1 .. N, h - 1 \in Good
      PROVE  h \in Good
  <2>1. L[h] = UNION {Extensions(x, GroupsOf(state), state) : x \in L[h - 1]}
    BY DEF IsLong
  <2>2. PICK X : X = L[h - 1]
    OBVIOUS
  <2>3. \A x \in X : \E n \in DOMAIN search.nodes : PathAt(n) = x
    BY <1>3, <2>2
  <2>4. ASSUME NEW x \in L[h]
        PROVE  \E n \in DOMAIN search.nodes : PathAt(n) = x
    <3>1. PICK y \in X : x \in Extensions(y, GroupsOf(state), state)
      BY <2>1, <2>2
    <3>2. PICK n \in DOMAIN search.nodes : PathAt(n) = y
      BY <2>3
    <3>3. PICK e \in Onward(PathAt(n), GroupsOf(state), state) : x = PathWith(PathAt(n), e)
      BY <3>1, <3>2 DEF Extensions
    <3>4. PICK i \in DOMAIN Edges(n) : e = Edges(n)[i] /\ e.to \notin PathGroups(n)
      BY <3>3, EdgeOnward
    <3>5. ~Cut(n, i)
      BY DEF SearchInv, TruncationInv
    <3>6. HasChild(n, e.portal)
      BY <3>4, <3>5, AllTried
    <3>7. PICK m \in DOMAIN search.nodes : Node(m).parent = n /\ Node(m).portal = e.portal
      BY <3>6 DEF HasChild
    <3>8. m # Root
      <4>1. Node(Root).parent = 0
        BY DEF SearchInv, NodesInv
      <4>2. n # 0
        BY SearchIsTree
      <4> QED
        BY <3>7, <4>1, <4>2
    <3>9. PICK j \in DOMAIN Edges(n) : /\ Edges(n)[j].portal = Node(m).portal
                                       /\ PathAt(m) = PathWith(PathAt(n), Edges(n)[j])
      BY <3>7, <3>8, PathOfChild
    <3>10. j = i
      BY <3>4, <3>7, <3>9, EdgesOfNode
    <3> QED
      BY <3>3, <3>4, <3>9, <3>10
  <2> QED
    BY <1>1, <2>4
<1>4. \A h \in 0 .. N : h \in Good
  <2> HIDE DEF Good
  <2> QED
    BY <1>1, <1>2, <1>3, UpTo
<1>5. k \in Good
  BY <1>4
<1> QED
  BY <1>5

\* A search that was cut has missed one: the edge it was cut at leads on.
LEMMA OneMissed ==
  ASSUME SearchInv, search.stack = <<>>, search.truncated, NEW L, IsLong(L, state)
  PROVE  \E k \in 0 .. NumRooms - 1 : \E path \in L[k] :
           \A m \in DOMAIN search.nodes : PortalSequence(m) # path.portals
<1>1. PICK n \in DOMAIN search.nodes : \E i \in DOMAIN Edges(n) : Cut(n, i)
  BY DEF SearchInv, TruncationInv
<1>2. PICK i \in DOMAIN Edges(n) : Cut(n, i)
  BY <1>1
<1>3. PICK e : e = Edges(n)[i]
  OBVIOUS
<1>4. e.to \notin PathGroups(n) /\ ~HasChild(n, e.portal) /\ e.to \in DOMAIN search.groups /\ e.portal \in Portals
  <2>1. Edges(n)[i] \in EdgeType /\ Edges(n)[i].to \in DOMAIN search.groups
    BY EdgesOfNode
  <2> QED
    BY <1>2, <1>3, <2>1, AllTried DEF EdgeType
<1>5. PICK d : d = Node(n).depth
  OBVIOUS
<1>6. d \in Nat /\ d + 1 \in 1 .. NumRooms - 1
  BY <1>4, <1>5, DepthBound, PathShape
<1>7. PICK path : path = PathWith(PathAt(n), e)
  OBVIOUS
<1>8. path \in L[d + 1]
  <2>1. PathAt(n) \in L[d]
    BY <1>5, NodesAreSimple
  <2>2. e \in Onward(PathAt(n), GroupsOf(state), state)
    BY <1>3, <1>4, EdgeOnward
  <2>3. path \in Extensions(PathAt(n), GroupsOf(state), state)
    BY <1>7, <2>2 DEF Extensions
  <2>4. \A k \in 1 .. NumRooms - 1 : L[k] = UNION {Extensions(x, GroupsOf(state), state) : x \in L[k - 1]}
    BY DEF IsLong
  <2>5. PICK k, X : k = d + 1 /\ X = L[d]
    OBVIOUS
  <2>6. L[k] = UNION {Extensions(x, GroupsOf(state), state) : x \in L[k - 1]} /\ L[k - 1] = X
    BY <1>6, <2>4, <2>5
  <2> QED
    BY <2>1, <2>3, <2>5, <2>6
<1>9. ASSUME NEW m \in DOMAIN search.nodes, PortalSequence(m) = path.portals
      PROVE  FALSE
  <2>1. PICK s, p : s = PortalSequence(n) /\ p = e.portal
    OBVIOUS
  <2>2. path.portals = Append(s, p) /\ s \in Seq(Portals) /\ p \in Portals
    BY <1>4, <1>7, <2>1, PathAtIs DEF PathWith
  <2>3. m # Root
    <3>1. PortalSequence(Root) = <<>>
      BY RootPath, PathAtIs DEF StartPath
    <3>2. Append(s, p) # <<>>
      BY <2>2, AppendProperties
    <3> QED
      BY <1>9, <2>2, <3>1, <3>2
  <2>4. PICK q \in DOMAIN search.nodes : \E j \in DOMAIN Edges(q) :
          /\ q = Node(m).parent /\ Edges(q)[j].portal = Node(m).portal
          /\ PortalSequence(m) = Append(PortalSequence(q), Node(m).portal)
    BY <2>3, PathOfChild
  <2>5. PICK t, y : t = PortalSequence(q) /\ y = Node(m).portal
    OBVIOUS
  <2>6. t \in Seq(Portals) /\ y \in Portals
    <3>1. PICK j \in DOMAIN Edges(q) : Edges(q)[j].portal = y
      BY <2>4, <2>5
    <3>2. Edges(q)[j] \in EdgeType
      BY EdgesOfNode
    <3> QED
      BY <2>5, <3>1, <3>2, PathAtIs DEF EdgeType
  <2>7. s = t /\ p = y
    <3>1. Append(s, p) = Append(t, y)
      BY <1>9, <2>2, <2>4, <2>5
    <3> QED
      BY <2>2, <2>6, <3>1, AppendInjective
  <2>8. n = q
    BY <2>1, <2>5, <2>7, NodesDiffer
  <2> QED
    BY <1>4, <2>1, <2>4, <2>5, <2>7, <2>8 DEF HasChild
<1>10. d + 1 \in 0 .. NumRooms - 1
  BY <1>6
<1> QED
  BY <1>8, <1>9, <1>10

\* SearchHonest is what is left of the invariant when the stack is empty.
LEMMA SearchEndsHonest ==
  ASSUME SearchInv
  PROVE  SearchHonest
<1> SUFFICES ASSUME search.stack = <<>>
             PROVE  LET found == {PortalSequence(n) : n \in DOMAIN search.nodes}
                        simple == {path.portals : path \in SimplePaths(state)} IN
                    /\ Cardinality(found) = Len(search.nodes)
                    /\ found \subseteq simple
                    /\ search.truncated <=> found # simple
  BY DEF SearchHonest
<1>1. PICK L : IsLong(L, state)
  BY LongExists
<1>2. SimplePaths(state) = UNION {L[k] : k \in 0 .. NumRooms - 1}
  BY <1>1 DEF IsLong
<1>3. PICK K, found, simple : /\ K = Len(search.nodes) /\ found = {PortalSequence(n) : n \in DOMAIN search.nodes}
                              /\ simple = {path.portals : path \in SimplePaths(state)}
  OBVIOUS
<1>4. K \in Nat /\ DOMAIN search.nodes = 1 .. K
  BY <1>3, SearchIsTree
<1>5. Cardinality(found) = K
  <2>1. PICK f : f = [n \in 1 .. K |-> PortalSequence(n)]
    OBVIOUS
  <2>2. f \in [1 .. K -> found] /\ \A s \in found : \E n \in 1 .. K : f[n] = s
    BY <1>3, <1>4, <2>1
  <2>3. \A m, n \in 1 .. K : f[m] = f[n] => m = n
    BY <1>4, <2>1, NodesDiffer
  <2>4. f \in Bijection(1 .. K, found)
    BY <2>2, <2>3 DEF Bijection, Injection, IsInjective, Surjection
  <2>5. IsFiniteSet(1 .. K) /\ Cardinality(1 .. K) = K
    <3>1. IsFiniteSet(1 .. K) /\ Cardinality(1 .. K) = IF 1 > K THEN 0 ELSE K - 1 + 1
      BY <1>4, FS_Interval
    <3> QED
      BY <1>4, <3>1
  <2> QED
    <3>1. ExistsBijection(1 .. K, found)
      BY <2>4 DEF ExistsBijection
    <3>2. Cardinality(1 .. K) = Cardinality(found)
      BY <2>5, <3>1, FS_Bijection
    <3> QED
      BY <2>5, <3>2
<1>6. found \subseteq simple
  <2>1. ASSUME NEW n \in DOMAIN search.nodes
        PROVE  PortalSequence(n) \in simple
    <3>1. PathAt(n) \in SimplePaths(state)
      BY <1>1, <1>2, NodesAreSimple, DepthBound
    <3>2. PathAt(n).portals = PortalSequence(n)
      BY PathAtIs
    <3> QED
      BY <1>3, <3>1, <3>2
  <2> QED
    BY <1>3, <2>1
<1>7. ~search.truncated => found = simple
  <2>1. ASSUME ~search.truncated, NEW path \in SimplePaths(state)
        PROVE  path.portals \in found
    <3>1. PICK k \in 0 .. NumRooms - 1 : path \in L[k]
      BY <1>2
    <3>2. PICK n \in DOMAIN search.nodes : PathAt(n) = path
      BY <1>1, <2>1, <3>1, AllFound
    <3> QED
      BY <1>3, <3>2, PathAtIs
  <2> QED
    BY <1>3, <1>6, <2>1
<1>8. search.truncated => found # simple
  <2>1. ASSUME search.truncated
        PROVE  found # simple
    <3>1. PICK k \in 0 .. NumRooms - 1 : \E path \in L[k] :
             \A m \in DOMAIN search.nodes : PortalSequence(m) # path.portals
      BY <1>1, <2>1, OneMissed
    <3>2. PICK path \in L[k] : \A m \in DOMAIN search.nodes : PortalSequence(m) # path.portals
      BY <3>1
    <3>3. path.portals \in simple
      BY <1>2, <1>3, <3>2
    <3> QED
      BY <1>3, <3>2, <3>3
  <2> QED
    BY <2>1
<1> QED
  BY <1>3, <1>5, <1>6, <1>7, <1>8

-----------------------------------------------------------------------------
(* What a path takes from the bands. *)

LEMMA LossOf ==
  ASSUME NEW p \in Portals, NEW b \in Bands
  PROVE  Loss[p][b] \in Nat
BY PathAssumption

\* The losses of a path added up, whatever is chosen for Sum.
LEMMA LossSteps ==
  ASSUME NEW s \in Seq(Portals), NEW b \in Bands
  PROVE  \E f \in [0 .. Len(s) -> Nat] :
           /\ f[0] = 0 /\ f[Len(s)] = PathLossIn(s, b)
           /\ \A i \in 1 .. Len(s) : f[i] = f[i - 1] + Loss[s[i]][b]
<1> DEFINE N == Len(s)
           body(f) == [i \in 0 .. N |-> IF i = 0 THEN 0 ELSE f[i - 1] + Loss[s[i]][b]]
           g == CHOOSE f : f = body(f)
           F == [x \in (1 .. N) \X Nat |-> x[2] + Loss[s[x[1]]][b]]
<1>1. N \in Nat /\ \A i \in 1 .. N : Loss[s[i]][b] \in Nat
  BY LenProperties, ElementOfSeq, LossOf
<1>2. F \in [(1 .. N) \X Nat -> Nat]
  BY <1>1
<1>3. \E f : f = body(f)
  <2>1. PICK f \in [0 .. N -> Nat] : Steps(f, 0, F, N)
    <3> HIDE DEF F, N
    <3> QED
      BY <1>1, <1>2, StepsExist
  <2>2. \A k \in 1 .. N : f[k] = f[k - 1] + Loss[s[k]][b]
    <3> HIDE DEF N
    <3> TAKE k \in 1 .. N
    <3>1. f[k - 1] \in Nat /\ <<k, f[k - 1]>> \in (1 .. N) \X Nat
      BY <1>1, <2>1
    <3>2. f[k] = F[<<k, f[k - 1]>>]
      BY <2>1 DEF Steps
    <3> QED
      BY <3>1, <3>2
  <2>3. f[0] = 0 /\ f = [k \in 0 .. N |-> f[k]]
    BY <2>1 DEF Steps
  <2>4. f = body(f)
    <3> HIDE DEF N
    <3>1. \A k \in 0 .. N : f[k] = IF k = 0 THEN 0 ELSE f[k - 1] + Loss[s[k]][b]
      <4> TAKE k \in 0 .. N
      <4>1. k # 0 => k \in 1 .. N
        BY <1>1
      <4> QED
        BY <2>2, <2>3, <4>1
    <3>2. [k \in 0 .. N |-> f[k]] = [k \in 0 .. N |-> IF k = 0 THEN 0 ELSE f[k - 1] + Loss[s[k]][b]]
      BY <3>1
    <3> QED
      BY <2>3, <3>2
  <2> QED
    BY <2>4
<1>4. g = body(g)
  <2> HIDE DEF body
  <2> QED
    BY <1>3
<1>5. g[N] = PathLossIn(s, b)
  BY Zenon DEF PathLossIn
<1> HIDE DEF g, N
<1>6. g[0] = 0 /\ \A k \in 1 .. N : g[k] = g[k - 1] + Loss[s[k]][b]
  <2>1. PICK h : h = g
    OBVIOUS
  <2>2. h = [k \in 0 .. N |-> IF k = 0 THEN 0 ELSE h[k - 1] + Loss[s[k]][b]]
    BY <1>4, <2>1
  <2>3. \A k \in 0 .. N : h[k] = IF k = 0 THEN 0 ELSE h[k - 1] + Loss[s[k]][b]
    BY <2>2
  <2>4. 0 \in 0 .. N /\ \A k \in 1 .. N : k \in 0 .. N /\ k # 0
    BY <1>1
  <2> QED
    BY <2>1, <2>3, <2>4
<1> DEFINE Good == {k \in 0 .. N : g[k] \in Nat}
<1>7. 0 \in Good /\ \A k \in 1 .. N : k - 1 \in Good => k \in Good
  <2>1. ASSUME NEW k \in 1 .. N, g[k - 1] \in Nat
        PROVE  g[k] \in Nat
    <3>1. PICK x, y : x = g[k - 1] /\ y = Loss[s[k]][b]
      OBVIOUS
    <3>2. x \in Nat /\ y \in Nat /\ g[k] = x + y
      BY <1>1, <1>6, <2>1, <3>1
    <3> QED
      BY <3>2
  <2>2. 0 \in 0 .. N /\ \A k \in 1 .. N : k \in 0 .. N
    BY <1>1
  <2> QED
    BY <1>6, <2>1, <2>2
<1>8. \A k \in 0 .. N : k \in Good
  <2> HIDE DEF Good
  <2> QED
    BY <1>1, <1>7, UpTo
<1>9. g \in [0 .. N -> Nat]
  BY <1>4, <1>8
<1> QED
  BY <1>5, <1>6, <1>9 DEF N

\* A portal more takes what it takes.
LEMMA LossAdds ==
  ASSUME NEW b \in Bands
  PROVE  /\ PathLossIn(<<>>, b) = 0
         /\ \A s \in Seq(Portals) : PathLossIn(s, b) \in Nat
         /\ \A s \in Seq(Portals), p \in Portals :
              PathLossIn(Append(s, p), b) = PathLossIn(s, b) + Loss[p][b]
<1>1. PathLossIn(<<>>, b) = 0
  <2>1. PICK e : e = <<>>
    OBVIOUS
  <2>2. e \in Seq(Portals) /\ Len(e) = 0
    BY <2>1
  <2>3. PathLossIn(e, b) = 0
    BY <2>2, LossSteps
  <2> QED
    BY <2>1, <2>3
<1>2. ASSUME NEW s \in Seq(Portals)
      PROVE  PathLossIn(s, b) \in Nat
  <2>1. PICK f \in [0 .. Len(s) -> Nat] : f[Len(s)] = PathLossIn(s, b)
    BY LossSteps
  <2>2. Len(s) \in 0 .. Len(s)
    BY LenProperties
  <2> QED
    BY <2>1, <2>2
<1>3. ASSUME NEW s \in Seq(Portals), NEW p \in Portals
      PROVE  PathLossIn(Append(s, p), b) = PathLossIn(s, b) + Loss[p][b]
  <2>1. PICK N, t : N = Len(s) /\ t = Append(s, p)
    OBVIOUS
  <2>2. /\ N \in Nat /\ t \in Seq(Portals) /\ Len(t) = N + 1 /\ t[N + 1] = p
        /\ \A i \in 1 .. N : t[i] = s[i]
    BY <2>1, LenProperties, AppendProperties
  <2>3. PICK f \in [0 .. N -> Nat] : /\ f[0] = 0 /\ f[N] = PathLossIn(s, b)
                                     /\ \A i \in 1 .. N : f[i] = f[i - 1] + Loss[s[i]][b]
    BY <2>1, LossSteps
  <2>4. PICK h \in [0 .. N + 1 -> Nat] : /\ h[0] = 0 /\ h[N + 1] = PathLossIn(t, b)
                                         /\ \A i \in 1 .. N + 1 : h[i] = h[i - 1] + Loss[t[i]][b]
    <3>1. PICK M : M = Len(t)
      OBVIOUS
    <3>2. \E h \in [0 .. M -> Nat] : /\ h[0] = 0 /\ h[M] = PathLossIn(t, b)
                                     /\ \A i \in 1 .. M : h[i] = h[i - 1] + Loss[t[i]][b]
      BY <2>2, <3>1, LossSteps
    <3>3. M = N + 1
      BY <2>2, <3>1
    <3> QED
      BY <3>2, <3>3
  <2> DEFINE Good == {k \in 0 .. N : f[k] = h[k]}
  <2>5. 0 \in Good
    BY <2>2, <2>3, <2>4
  <2>6. ASSUME NEW k \in 1 .. N, k - 1 \in Good
        PROVE  k \in Good
    <3>1. k \in 1 .. N + 1 /\ k \in 0 .. N
      BY <2>2
    <3> QED
      BY <2>2, <2>3, <2>4, <2>6, <3>1
  <2>7. \A k \in 0 .. N : k \in Good
    <3> HIDE DEF Good
    <3> QED
      BY <2>2, <2>5, <2>6, UpTo
  <2>8. f[N] = h[N]
    BY <2>2, <2>7
  <2>9. h[N + 1] = h[N] + Loss[p][b]
    <3>1. N + 1 \in 1 .. N + 1 /\ N + 1 - 1 = N
      BY <2>2
    <3> QED
      BY <2>2, <2>4, <3>1
  <2> QED
    BY <2>1, <2>3, <2>4, <2>8, <2>9
<1> QED
  BY <1>1, <1>2, <1>3

\* A node carries the loss of its path.
LEMMA NodeLoss ==
  ASSUME SearchInv, NEW n \in DOMAIN search.nodes
  PROVE  Node(n).loss = PathLoss(PortalSequence(n)) /\ Node(n).loss \in [Bands -> 0 .. Opaque]
<1>0. Opaque \in Nat \ {0}
  BY PathAssumption
<1> DEFINE Adds(k) == \A b \in Bands : Node(k).loss[b] = Min({PathLossIn(PortalSequence(k), b), Opaque})
           Good == {m \in 0 .. Len(search.nodes) : \A k \in 1 .. m : Adds(k)}
<1>1. DOMAIN search.nodes = 1 .. Len(search.nodes) /\ Len(search.nodes) \in Nat
  BY SearchIsTree
<1>2. 0 \in Good
  BY <1>1
<1>3. ASSUME NEW m \in 1 .. Len(search.nodes), m - 1 \in Good
      PROVE  m \in Good
  <2>1. Adds(m)
    <3>1. CASE m = Root
      <4>1. Node(m).loss = [b \in Bands |-> 0]
        BY <3>1 DEF SearchInv, NodesInv
      <4>2. PortalSequence(m) = <<>>
        BY <3>1, RootPath, PathAtIs DEF StartPath
      <4>3. Min({0, Opaque}) = 0
        BY <1>0, MinOfTwo
      <4> QED
        BY <4>1, <4>2, <4>3, LossAdds
    <3>2. CASE m # Root
      <4>1. PICK q \in DOMAIN search.nodes :
              /\ q \in 1 .. m - 1 /\ Node(m).loss = Accumulate(Node(q).loss, Node(m).portal)
              /\ PortalSequence(m) = Append(PortalSequence(q), Node(m).portal)
              /\ \E i \in DOMAIN Edges(q) : Edges(q)[i].portal = Node(m).portal
        BY <1>1, <3>2, PathOfChild
      <4>2. PICK s, p : s = PortalSequence(q) /\ p = Node(m).portal
        OBVIOUS
      <4>3. p \in Portals
        <5>1. \A i \in DOMAIN Edges(q) : Edges(q)[i] \in EdgeType
          BY EdgesOfNode
        <5> QED
          BY <4>1, <4>2, <5>1 DEF EdgeType
      <4>4. s \in Seq(Portals)
        BY <4>2, PathAtIs
      <4>5. Adds(q)
        BY <1>3, <4>1
      <4>6. ASSUME NEW b \in Bands
            PROVE  Node(m).loss[b] = Min({PathLossIn(PortalSequence(m), b), Opaque})
        <5>1. PICK x, y, z : x = PathLossIn(s, b) /\ y = Loss[p][b] /\ z = Node(q).loss[b]
          OBVIOUS
        <5>2. x \in Nat /\ y \in Nat /\ PathLossIn(PortalSequence(m), b) = x + y
          BY <4>1, <4>2, <4>3, <4>4, <5>1, LossAdds, LossOf
        <5>3. z = Min({x, Opaque})
          BY <4>2, <4>5, <5>1
        <5>4. z = IF x <= Opaque THEN x ELSE Opaque
          BY <1>0, <5>2, <5>3, MinOfTwo
        <5>5. Node(m).loss[b] = Min({z + y, Opaque})
          BY <4>1, <4>2, <5>1 DEF Accumulate
        <5>6. Min({z + y, Opaque}) = IF z + y <= Opaque THEN z + y ELSE Opaque
          BY <1>0, <5>2, <5>4, MinOfTwo
        <5>7. Min({x + y, Opaque}) = IF x + y <= Opaque THEN x + y ELSE Opaque
          BY <1>0, <5>2, MinOfTwo
        <5> QED
          BY <1>0, <5>2, <5>4, <5>5, <5>6, <5>7
      <4> QED
        BY <4>6
    <3> QED
      BY <3>1, <3>2
  <2>2. \A k \in 1 .. m : k = m \/ k \in 1 .. m - 1
    OBVIOUS
  <2> QED
    BY <1>3, <2>1, <2>2
<1>4. \A h \in 0 .. Len(search.nodes) : h \in Good
  <2> HIDE DEF Good
  <2> QED
    BY <1>1, <1>2, <1>3, UpTo
<1>5. Adds(n)
  BY <1>1, <1>4
<1>6. PICK l : l = Node(n).loss
  OBVIOUS
<1>7. l \in [Bands -> Nat]
  <2>1. Node(n) \in NodeType
    BY SearchIsTree
  <2> QED
    BY <1>6, <2>1 DEF NodeType
<1>8. PICK s : s = PortalSequence(n)
  OBVIOUS
<1>9. l = PathLoss(s)
  BY <1>5, <1>6, <1>7, <1>8 DEF PathLoss
<1>10. \A b \in Bands : l[b] \in 0 .. Opaque
  <2> TAKE b \in Bands
  <2>1. PICK x : x = PathLossIn(s, b)
    OBVIOUS
  <2>2. x \in Nat /\ l[b] = Min({x, Opaque})
    BY <1>5, <1>6, <1>8, <2>1, LossAdds, PathAtIs
  <2> QED
    BY <1>0, <2>2, MinOfTwo
<1> QED
  BY <1>6, <1>7, <1>8, <1>9, <1>10

-----------------------------------------------------------------------------
(* The energy of a path is a number. *)

Powers == CHOOSE f : f = [k \in 0 .. Opaque |-> IF k = 0 THEN 1 ELSE 10 * f[k - 1]]

LEMMA PowersAre == Powers \in [0 .. Opaque -> Nat]
<1> DEFINE N == Opaque
           body(f) == [k \in 0 .. N |-> IF k = 0 THEN 1 ELSE 10 * f[k - 1]]
           F == [x \in (1 .. N) \X Nat |-> 10 * x[2]]
<1>1. N \in Nat
  BY PathAssumption
<1>2. F \in [(1 .. N) \X Nat -> Nat]
  OBVIOUS
<1>3. \E f : f = body(f)
  <2>1. PICK f \in [0 .. N -> Nat] : Steps(f, 1, F, N)
    <3> HIDE DEF F, N
    <3> QED
      BY <1>1, <1>2, StepsExist
  <2>2. \A k \in 1 .. N : f[k] = 10 * f[k - 1]
    <3> HIDE DEF N
    <3> TAKE k \in 1 .. N
    <3>1. f[k - 1] \in Nat /\ <<k, f[k - 1]>> \in (1 .. N) \X Nat
      BY <1>1, <2>1
    <3>2. f[k] = F[<<k, f[k - 1]>>]
      BY <2>1 DEF Steps
    <3> QED
      BY <3>1, <3>2
  <2>3. f[0] = 1 /\ f = [k \in 0 .. N |-> f[k]]
    BY <2>1 DEF Steps
  <2>4. f = body(f)
    <3> HIDE DEF N
    <3>1. \A k \in 0 .. N : f[k] = IF k = 0 THEN 1 ELSE 10 * f[k - 1]
      <4> TAKE k \in 0 .. N
      <4>1. k # 0 => k \in 1 .. N
        BY <1>1
      <4> QED
        BY <2>2, <2>3, <4>1
    <3>2. [k \in 0 .. N |-> f[k]] = [k \in 0 .. N |-> IF k = 0 THEN 1 ELSE 10 * f[k - 1]]
      BY <3>1
    <3> QED
      BY <2>3, <3>2
  <2> QED
    BY <2>4
<1>4. Powers = body(Powers)
  <2>1. Powers = CHOOSE f : f = body(f)
    BY DEF Powers
  <2> HIDE DEF body
  <2> QED
    BY <1>3, <2>1
<1> HIDE DEF N
<1>5. PICK h : h = Powers
  OBVIOUS
<1>6. h = [k \in 0 .. N |-> IF k = 0 THEN 1 ELSE 10 * h[k - 1]]
  BY <1>4, <1>5
<1>7. \A k \in 0 .. N : h[k] = IF k = 0 THEN 1 ELSE 10 * h[k - 1]
  BY <1>6
<1> DEFINE Good == {k \in 0 .. N : h[k] \in Nat}
<1>8. 0 \in Good
  BY <1>1, <1>7
<1>9. ASSUME NEW k \in 1 .. N, k - 1 \in Good
      PROVE  k \in Good
  <2>1. k \in 0 .. N /\ k # 0
    BY <1>1
  <2>2. PICK x : x = h[k - 1]
    OBVIOUS
  <2>3. x \in Nat /\ h[k] = 10 * x
    BY <1>7, <1>9, <2>1, <2>2
  <2> QED
    BY <2>1, <2>3
<1>10. \A k \in 0 .. N : k \in Good
  <2> HIDE DEF Good
  <2> QED
    BY <1>1, <1>8, <1>9, UpTo
<1>11. h \in [0 .. N -> Nat]
  BY <1>6, <1>10
<1> QED
  BY <1>5, <1>11 DEF N

LEMMA EnergyIs ==
  ASSUME NEW loss \in [Bands -> 0 .. Opaque]
  PROVE  PathEnergy(loss) \in Nat
<1> DEFINE N == NumBands
           term(b) == IF loss[b] = Opaque THEN 0 ELSE Powers[Opaque - loss[b]]
           body(f) == [b \in 0 .. N |-> IF b = 0 THEN 0 ELSE f[b - 1] + term(b)]
           g == CHOOSE f : f = body(f)
           F == [x \in (1 .. N) \X Nat |-> x[2] + term(x[1])]
<1>1. N \in Nat /\ Opaque \in Nat /\ Bands = 1 .. N
  BY PathAssumption DEF Bands
<1>2. PathEnergy(loss) = g[N]
  BY Zenon DEF PathEnergy, Powers
<1>3. \A b \in 1 .. N : term(b) \in Nat
  <2> HIDE DEF N
  <2> TAKE b \in 1 .. N
  <2>1. PICK l : l = loss[b]
    OBVIOUS
  <2>2. l \in 0 .. Opaque
    BY <1>1, <2>1
  <2>3. Opaque - l \in 0 .. Opaque
    BY <1>1, <2>2
  <2> QED
    BY <2>1, <2>3, PowersAre
<1> HIDE DEF term
<1>4. F \in [(1 .. N) \X Nat -> Nat]
  BY <1>3
<1>5. \E f : f = body(f)
  <2>1. PICK f \in [0 .. N -> Nat] : Steps(f, 0, F, N)
    <3> HIDE DEF F, N
    <3> QED
      BY <1>1, <1>4, StepsExist
  <2>2. \A k \in 1 .. N : f[k] = f[k - 1] + term(k)
    <3> HIDE DEF N
    <3> TAKE k \in 1 .. N
    <3>1. f[k - 1] \in Nat /\ <<k, f[k - 1]>> \in (1 .. N) \X Nat
      BY <1>1, <2>1
    <3>2. f[k] = F[<<k, f[k - 1]>>]
      BY <2>1 DEF Steps
    <3> QED
      BY <3>1, <3>2
  <2>3. f[0] = 0 /\ f = [k \in 0 .. N |-> f[k]]
    BY <2>1 DEF Steps
  <2>4. f = body(f)
    <3> HIDE DEF N
    <3>1. \A k \in 0 .. N : f[k] = IF k = 0 THEN 0 ELSE f[k - 1] + term(k)
      <4> TAKE k \in 0 .. N
      <4>1. k # 0 => k \in 1 .. N
        BY <1>1
      <4> QED
        BY <2>2, <2>3, <4>1
    <3>2. [k \in 0 .. N |-> f[k]] = [k \in 0 .. N |-> IF k = 0 THEN 0 ELSE f[k - 1] + term(k)]
      BY <3>1
    <3> QED
      BY <2>3, <3>2
  <2> QED
    BY <2>4
<1>6. g = body(g)
  <2> HIDE DEF body
  <2> QED
    BY <1>5
<1> HIDE DEF g, N
<1>7. PICK h : h = g
  OBVIOUS
<1>8. h = [k \in 0 .. N |-> IF k = 0 THEN 0 ELSE h[k - 1] + term(k)]
  BY <1>6, <1>7
<1>9. \A k \in 0 .. N : h[k] = IF k = 0 THEN 0 ELSE h[k - 1] + term(k)
  BY <1>8
<1> DEFINE Good == {k \in 0 .. N : h[k] \in Nat}
<1>10. 0 \in Good
  BY <1>1, <1>9
<1>11. ASSUME NEW k \in 1 .. N, k - 1 \in Good
       PROVE  k \in Good
  <2>1. k \in 0 .. N /\ k # 0
    BY <1>1
  <2>2. PICK x, y : x = h[k - 1] /\ y = term(k)
    OBVIOUS
  <2>3. x \in Nat /\ y \in Nat /\ h[k] = x + y
    BY <1>3, <1>9, <1>11, <2>1, <2>2
  <2> QED
    BY <2>1, <2>3
<1>12. \A k \in 0 .. N : k \in Good
  <2> HIDE DEF Good
  <2> QED
    BY <1>1, <1>10, <1>11, UpTo
<1>13. h[N] \in Nat
  <2>1. N \in 0 .. N
    BY <1>1
  <2> QED
    BY <1>12, <2>1
<1> QED
  BY <1>2, <1>7, <1>13

-----------------------------------------------------------------------------
(* The ranking. *)

EnergyOf(n) == PathEnergy(Node(n).loss)

\* Strongest first, ties in search order.
ByEnergy(S) ==
  {x \in S \X S : EnergyOf(x[1]) > EnergyOf(x[2]) \/ (EnergyOf(x[1]) = EnergyOf(x[2]) /\ x[1] < x[2])}

\* The ranking holds every leaf once, no weaker one before a stronger one.
LEMMA RankedIs ==
  ASSUME SearchInv
  PROVE  \E K \in Nat :
           /\ Cardinality(Leaves) = K /\ Ranked \in [1 .. K -> Leaves]
           /\ \A n \in Leaves : EnergyOf(n) \in Nat /\ \E i \in 1 .. K : Ranked[i] = n
           /\ \A i, j \in 1 .. K : i < j => EnergyOf(Ranked[i]) >= EnergyOf(Ranked[j])
<1>1. PICK S, R : S = Leaves /\ R = ByEnergy(Leaves)
  OBVIOUS
<1>2. \A n \in S : n \in DOMAIN search.nodes /\ n \in Nat /\ EnergyOf(n) \in Nat
  <2>1. ASSUME NEW n \in S
        PROVE  n \in DOMAIN search.nodes /\ n \in Nat /\ EnergyOf(n) \in Nat
    <3>1. n \in DOMAIN search.nodes
      BY <1>1 DEF Leaves
    <3>2. PICK loss : loss = Node(n).loss
      OBVIOUS
    <3>3. loss \in [Bands -> 0 .. Opaque]
      BY <3>1, <3>2, NodeLoss
    <3>4. PathEnergy(loss) \in Nat
      BY <3>3, EnergyIs
    <3>5. n \in Nat
      BY <3>1, SearchIsTree
    <3> QED
      BY <3>1, <3>2, <3>4, <3>5 DEF EnergyOf
  <2> QED
    BY <2>1
<1>3. IsFiniteSet(S)
  <2>1. PICK L \in Nat : DOMAIN search.nodes = 1 .. L
    BY SearchIsTree
  <2>2. IsFiniteSet(1 .. L)
    BY <2>1, FS_Interval
  <2>3. S \in SUBSET (1 .. L)
    BY <1>2, <2>1
  <2> QED
    BY <2>2, <2>3, FS_Subset
<1>4. \A x, y \in S : <<x, y>> \in R <=> EnergyOf(x) > EnergyOf(y) \/ (EnergyOf(x) = EnergyOf(y) /\ x < y)
  BY <1>1 DEF ByEnergy
<1>5. Orders(R, S)
  <2>1. \A x \in S : <<x, x>> \notin R
    BY <1>2, <1>4
  <2>2. \A x, y \in S : x # y => <<x, y>> \in R \/ <<y, x>> \in R
    BY <1>2, <1>4
  <2>3. ASSUME NEW x \in S, NEW y \in S, NEW z \in S, <<x, y>> \in R, <<y, z>> \in R
        PROVE  <<x, z>> \in R
    <3>1. PICK a, b, c : a = EnergyOf(x) /\ b = EnergyOf(y) /\ c = EnergyOf(z)
      OBVIOUS
    <3>2. a \in Nat /\ b \in Nat /\ c \in Nat /\ x \in Nat /\ y \in Nat /\ z \in Nat
      BY <1>2, <3>1
    <3>3. (a > b \/ (a = b /\ x < y)) /\ (b > c \/ (b = c /\ y < z))
      BY <1>4, <2>3, <3>1
    <3>4. a > c \/ (a = c /\ x < z)
      BY <3>2, <3>3
    <3> QED
      BY <1>4, <3>1, <3>4
  <2> QED
    BY <2>1, <2>2, <2>3 DEF Orders
<1>6. PICK K : K = Cardinality(S)
  OBVIOUS
<1>7. PICK ranked : ranked = Ranked
  OBVIOUS
<1>8. ranked = Line(S, R)
  <2> DEFINE before(x) == {y \in S : LET ea == PathEnergy(Node(y).loss)
                                         eb == PathEnergy(Node(x).loss) IN ea > eb \/ (ea = eb /\ y < x)}
  <2>1. \A x \in S : before(x) = Below(S, R, x)
    BY <1>4 DEF Below, EnergyOf
  <2>2. ranked = [i \in 1 .. K |-> CHOOSE x \in S : Cardinality(before(x)) = i - 1]
    BY <1>1, <1>6, <1>7 DEF Ranked, Sorted
  <2> HIDE DEF before
  <2>3. \A i \in 1 .. K : (CHOOSE x \in S : Cardinality(before(x)) = i - 1)
                            = (CHOOSE x \in S : Cardinality(Below(S, R, x)) = i - 1)
    BY <2>1
  <2>4. Line(S, R) = [i \in 1 .. K |-> CHOOSE x \in S : Cardinality(Below(S, R, x)) = i - 1]
    BY <1>6 DEF Line
  <2> QED
    BY <2>2, <2>3, <2>4
<1>9. /\ K \in Nat /\ ranked \in [1 .. K -> S]
      /\ \A x \in S : \E i \in 1 .. K : ranked[i] = x
      /\ \A i, j \in 1 .. K : i < j => <<ranked[i], ranked[j]>> \in R
  BY <1>3, <1>5, <1>6, <1>8, Lines
<1>10. ASSUME NEW i \in 1 .. K, NEW j \in 1 .. K, i < j
       PROVE  EnergyOf(ranked[i]) >= EnergyOf(ranked[j])
  <2>1. PICK x \in S, y \in S : x = ranked[i] /\ y = ranked[j]
    BY <1>9
  <2>2. <<x, y>> \in R /\ EnergyOf(x) \in Nat /\ EnergyOf(y) \in Nat
    BY <1>2, <1>9, <1>10, <2>1
  <2>3. EnergyOf(x) > EnergyOf(y) \/ EnergyOf(x) = EnergyOf(y)
    BY <1>4, <2>2
  <2> QED
    BY <2>1, <2>2, <2>3
<1> QED
  BY <1>1, <1>2, <1>6, <1>7, <1>9, <1>10

\* rankPaths keeps the first of the ranking, one at least.
LEMMA KeptPaths ==
  ASSUME SearchInv, limits \in LimitsType, NEW K \in Nat \ {0}, Ranked \in [1 .. K -> Leaves]
  PROVE  \E k \in 1 .. K : /\ DOMAIN RankPaths = 1 .. k /\ Len(RankPaths) = k
                           /\ \A i \in 1 .. k : RankPaths[i] = PathOf(Ranked[i])
<1>1. PICK ranked : ranked = Ranked
  OBVIOUS
<1>2. ranked \in Seq(Leaves) /\ Len(ranked) = K
  <2>1. ranked \in Seq(Leaves)
    BY <1>1, IsASeq
  <2> QED
    BY <1>1, <2>1, LenProperties
<1>3. PICK most : most = Default(limits.maxPaths, 32)
  OBVIOUS
<1>4. most \in Nat \ {0}
  <2>1. limits.maxPaths \in Int
    BY DEF LimitsType
  <2> QED
    BY <1>3, <2>1 DEF Default
<1>5. PICK k : k = Min({K, most})
  OBVIOUS
<1>6. k \in 1 .. K
  BY <1>4, <1>5, MinOfTwo
<1>7. PICK kept : kept = SubSeq(ranked, 1, k)
  OBVIOUS
<1>8. kept \in Seq(Leaves) /\ Len(kept) = k /\ \A i \in 1 .. k : kept[i] = ranked[i]
  <2>1. \A i \in 1 .. k : ranked[i] \in Leaves
    BY <1>1, <1>6
  <2>2. /\ SubSeq(ranked, 1, k) \in Seq(Leaves)
        /\ Len(SubSeq(ranked, 1, k)) = IF 1 <= k THEN k - 1 + 1 ELSE 0
        /\ \A i \in 1 .. k - 1 + 1 : SubSeq(ranked, 1, k)[i] = ranked[1 + i - 1]
    BY <1>6, <2>1, SubSeqProperties
  <2>3. k \in Int /\ 1 <= k /\ k - 1 + 1 = k /\ \A i \in 1 .. k : 1 + i - 1 = i
    BY <1>6
  <2> QED
    BY <1>7, <2>2, <2>3
<1>9. DOMAIN kept = 1 .. k
  BY <1>8, LenProperties
<1>10. RankPaths = [i \in DOMAIN kept |-> PathOf(kept[i])]
  BY <1>1, <1>2, <1>3, <1>5, <1>7 DEF RankPaths
<1>11. PICK paths : paths = RankPaths
  OBVIOUS
<1>12. paths = [i \in 1 .. k |-> PathOf(kept[i])]
  BY <1>9, <1>10, <1>11
<1>13. \A i \in 1 .. k : paths[i] = PathOf(ranked[i])
  BY <1>8, <1>12
<1>14. DOMAIN paths = 1 .. k /\ Len(paths) = k
  BY <1>6, <1>12
<1> QED
  BY <1>1, <1>6, <1>11, <1>13, <1>14

\* The leaves stand for simple paths to the receiver; without truncation for all.
LEMMA LeavesReach ==
  ASSUME SearchInv, search.stack = <<>>
  PROVE  /\ \A n \in Leaves : /\ PortalSequence(n) \in SimplePathsToReceiver(state)
                              /\ EnergyOf(n) = PathEnergy(PathLoss(PortalSequence(n)))
                              /\ ActiveBands(PathLoss(PortalSequence(n)), WithDefaults(limits).floor) # {}
         /\ ~search.truncated => \A s \in SimplePathsToReceiver(state) : \E n \in Leaves : PortalSequence(n) = s
<1>1. PICK L : IsLong(L, state)
  BY LongExists
<1>2. SimplePaths(state) = UNION {L[k] : k \in 0 .. NumRooms - 1}
  BY <1>1 DEF IsLong
<1>3. PICK group : group = GroupOf(ReceiverRoom, GroupsOf(state))
  OBVIOUS
<1>4. SimplePathsToReceiver(state) = {path.portals : path \in {q \in SimplePaths(state) : Last(q.visited) = group}}
  BY <1>3 DEF SimplePathsToReceiver
<1>5. Leaves = {n \in DOMAIN search.nodes : Node(n).group = group}
  BY <1>3 DEF Leaves, SearchInv
<1>6. ASSUME NEW n \in Leaves
      PROVE  /\ PortalSequence(n) \in SimplePathsToReceiver(state)
             /\ EnergyOf(n) = PathEnergy(PathLoss(PortalSequence(n)))
             /\ ActiveBands(PathLoss(PortalSequence(n)), WithDefaults(limits).floor) # {}
  <2>1. n \in DOMAIN search.nodes /\ Node(n).group = group
    BY <1>5
  <2>2. PICK path : path = PathAt(n)
    OBVIOUS
  <2>3. path \in SimplePaths(state)
    BY <1>1, <1>2, <2>1, <2>2, NodesAreSimple, DepthBound
  <2>4. path.portals = PortalSequence(n) /\ Last(path.visited) = group
    BY <2>1, <2>2, PathAtIs
  <2>5. PortalSequence(n) \in SimplePathsToReceiver(state)
    BY <1>4, <2>3, <2>4
  <2>6. Node(n).loss = PathLoss(PortalSequence(n))
    BY <2>1, NodeLoss
  <2>7. ActiveBands(Node(n).loss, WithDefaults(limits).floor) # {}
    BY <2>1 DEF SearchInv, NodesInv
  <2> QED
    BY <2>5, <2>6, <2>7 DEF EnergyOf
<1>7. ASSUME ~search.truncated, NEW s \in SimplePathsToReceiver(state)
      PROVE  \E n \in Leaves : PortalSequence(n) = s
  <2>1. PICK path \in SimplePaths(state) : path.portals = s /\ Last(path.visited) = group
    BY <1>4
  <2>2. PICK k \in 0 .. NumRooms - 1 : path \in L[k]
    BY <1>2
  <2>3. PICK n \in DOMAIN search.nodes : PathAt(n) = path
    BY <1>1, <1>7, <2>2, AllFound
  <2>4. PortalSequence(n) = s /\ Node(n).group = group
    BY <2>1, <2>3, PathAtIs
  <2> QED
    BY <1>5, <2>4
<1> QED
  BY <1>6, <1>7

LEMMA NewPathsFor ==
  ASSUME SearchInv, search.stack = <<>>, Leaves # {}, limits \in LimitsType
  PROVE  PathsFor(NewPathPlan, state, limits)
<1>1. PICK K \in Nat :
        /\ Cardinality(Leaves) = K /\ Ranked \in [1 .. K -> Leaves]
        /\ \A n \in Leaves : EnergyOf(n) \in Nat /\ \E i \in 1 .. K : Ranked[i] = n
        /\ \A i, j \in 1 .. K : i < j => EnergyOf(Ranked[i]) >= EnergyOf(Ranked[j])
  BY RankedIs
<1>2. K # 0
  BY <1>1
<1>3. PICK k \in 1 .. K : /\ DOMAIN RankPaths = 1 .. k /\ Len(RankPaths) = k
                          /\ \A i \in 1 .. k : RankPaths[i] = PathOf(Ranked[i])
  BY <1>1, <1>2, KeptPaths
<1>4. PICK p, paths, reach : p = NewPathPlan /\ paths = RankPaths /\ reach = SimplePathsToReceiver(state)
  OBVIOUS
<1>5. p.paths = paths /\ p.searchTruncated = search.truncated /\ p.found = K
  BY <1>1, <1>4 DEF NewPathPlan
<1>6. PICK planned : planned = {p.paths[i].portals : i \in DOMAIN p.paths}
  OBVIOUS
<1>7. \A i \in 1 .. k : /\ Ranked[i] \in Leaves
                        /\ paths[i].portals = PortalSequence(Ranked[i]) /\ paths[i].energy = EnergyOf(Ranked[i])
  <2> TAKE i \in 1 .. k
  <2>1. i \in 1 .. K
    BY <1>3
  <2>2. paths[i] = PathOf(Ranked[i]) /\ Ranked[i] \in Leaves
    BY <1>1, <1>3, <1>4, <2>1
  <2> QED
    BY <2>2 DEF PathOf, EnergyOf
<1>8. planned = {paths[i].portals : i \in 1 .. k}
  BY <1>3, <1>4, <1>5, <1>6
<1>9. planned # {}
  <2>1. 1 \in 1 .. k
    BY <1>3
  <2> QED
    BY <1>8, <2>1
<1>10. planned \subseteq reach /\ \A s \in planned : ActiveBands(PathLoss(s), WithDefaults(limits).floor) # {}
  <2>1. ASSUME NEW s \in planned
        PROVE  s \in reach /\ ActiveBands(PathLoss(s), WithDefaults(limits).floor) # {}
    <3>1. PICK n \in Leaves : s = PortalSequence(n)
      BY <1>7, <1>8
    <3> QED
      BY <1>4, <3>1, LeavesReach
  <2> QED
    BY <2>1
<1>11. ASSUME ~Truncated(p)
       PROVE  planned = reach
  <2>1. ~search.truncated /\ ~(k < K)
    BY <1>3, <1>4, <1>5, <1>11 DEF Truncated
  <2>2. k = K
    BY <1>3, <2>1
  <2>3. ASSUME NEW s \in reach
        PROVE  s \in planned
    <3>1. PICK n \in Leaves : PortalSequence(n) = s
      BY <1>4, <2>1, LeavesReach
    <3>2. PICK i \in 1 .. k : Ranked[i] = n
      BY <1>1, <2>2
    <3> QED
      BY <1>7, <1>8, <3>1, <3>2
  <2> QED
    BY <1>10, <2>3
<1>12. ASSUME NEW i \in 1 .. k, NEW j \in 1 .. k, i < j
       PROVE  paths[i].energy >= paths[j].energy
  <2>1. i \in 1 .. K /\ j \in 1 .. K
    BY <1>3
  <2> QED
    BY <1>1, <1>7, <1>12, <2>1
<1>13. ASSUME ~search.truncated, NEW s \in reach \ planned, NEW i \in 1 .. k
       PROVE  paths[i].energy >= PathEnergy(PathLoss(s))
  <2>1. PICK n \in Leaves : PortalSequence(n) = s
    BY <1>4, <1>13, LeavesReach
  <2>2. PICK j \in 1 .. K : Ranked[j] = n
    BY <1>1
  <2>3. j \notin 1 .. k
    BY <1>7, <1>8, <1>13, <2>1, <2>2
  <2>4. i \in 1 .. K /\ i < j
    BY <1>3, <2>3
  <2>5. EnergyOf(Ranked[i]) >= EnergyOf(n)
    BY <1>1, <2>2, <2>4
  <2>6. EnergyOf(n) = PathEnergy(PathLoss(s))
    BY <2>1, LeavesReach
  <2> QED
    BY <1>7, <2>5, <2>6
<1>14. DOMAIN p.paths = 1 .. k
  BY <1>3, <1>4, <1>5
<1> QED
  BY <1>4, <1>5, <1>6, <1>9, <1>10, <1>11, <1>12, <1>13, <1>14 DEF PathsFor

-----------------------------------------------------------------------------
(* What a portal change leaves alone. *)

\* A group away from the portal that changed is the group it was, with its signature.
LEMMA AwayFromPortal ==
  ASSUME NEW st, NEW old, NEW p \in Portals, \A q \in Portals : q # p => old[q] = st[q],
         NEW c \in Components(st), c \cap Range(Ends[p]) = {}
  PROVE  c \in Components(old) /\ GroupSignature(c, old) = GroupSignature(c, st)
<1>1. c \in SUBSET Rooms /\ c # {} /\ Closed(c, st) /\ \A r \in c : c = Within(r, st)
  BY ComponentsAre
<1>2. PICK r \in Rooms : r \in c /\ c = Within(r, st)
  BY <1>1
<1>3. Closed(c, old)
  <2>1. OpenAt(c, old) = OpenAt(c, st)
    BY DEF OpenAt
  <2> QED
    BY <1>1, <2>1 DEF Closed
<1>4. Within(r, old) \subseteq c
  BY <1>2, <1>3, WithinIsLeast
<1>5. Closed(Within(r, old), st)
  <2>1. OpenAt(Within(r, old), st) = OpenAt(Within(r, old), old)
    BY <1>4 DEF OpenAt
  <2>2. Closed(Within(r, old), old)
    BY WithinIsLeast
  <2> QED
    BY <2>1, <2>2 DEF Closed
<1>6. c \subseteq Within(r, old)
  <2>1. r \in Within(r, old)
    BY WithinIsLeast
  <2> QED
    BY <1>2, <1>5, <2>1, WithinIsLeast
<1>7. c \in Components(old)
  BY <1>4, <1>6 DEF Components
<1>8. GroupSignature(c, old) = GroupSignature(c, st)
  <2>1. \A q \in Incident(c) : old[q] = st[q]
    BY DEF Incident
  <2>2. {<<q, old[q]>> : q \in Incident(c)} = {<<q, st[q]>> : q \in Incident(c)}
    BY <2>1
  <2> QED
    BY <2>2 DEF GroupSignature
<1> QED
  BY <1>7, <1>8

LEMMA SignaturesAre ==
  ASSUME NEW st
  PROVE  Range(GroupSignatures(GroupsOf(st), st)) = {GroupSignature(c, st) : c \in Components(st)}
<1>1. PICK gs : gs = GroupsOf(st)
  OBVIOUS
<1>2. gs \in [DOMAIN gs -> Components(st)] /\ \A c \in Components(st) : \E g \in DOMAIN gs : gs[g] = c
  BY <1>1, GroupsAre
<1>3. Range(GroupSignatures(gs, st)) = {GroupSignature(gs[g], st) : g \in DOMAIN gs}
  BY DEF GroupSignatures, Range
<1>4. {GroupSignature(gs[g], st) : g \in DOMAIN gs} = {GroupSignature(c, st) : c \in Components(st)}
  BY <1>2
<1> QED
  BY <1>1, <1>3, <1>4

\* Signatures that are new after a change at p belong to the groups at p.
LEMMA NewSignatures ==
  ASSUME NEW st, NEW old, NEW p \in Portals, \A q \in Portals : q # p => old[q] = st[q],
         NEW added, added = Range(GroupSignatures(GroupsOf(st), st)) \ Range(GroupSignatures(GroupsOf(old), old))
  PROVE  /\ Cardinality(added) <= 2
         /\ \A s \in added : s.rooms \cap Range(Ends[p]) # {}
<1>1. PICK a \in Rooms, b \in Rooms : Range(Ends[p]) = {a, b}
  BY EndsOfPortal
<1>2. PICK sa, sb : sa = GroupSignature(Within(a, st), st) /\ sb = GroupSignature(Within(b, st), st)
  OBVIOUS
<1>3. ASSUME NEW s \in added
      PROVE  s \in {sa, sb} /\ s.rooms \cap {a, b} # {}
  <2>1. PICK c \in Components(st) : s = GroupSignature(c, st)
    BY SignaturesAre
  <2>2. s \notin {GroupSignature(d, old) : d \in Components(old)}
    BY SignaturesAre
  <2>3. c \cap {a, b} # {}
    BY <1>1, <2>1, <2>2, AwayFromPortal
  <2>4. c = Within(a, st) \/ c = Within(b, st)
    BY <2>3, ComponentsAre
  <2>5. s.rooms = c
    BY <2>1 DEF GroupSignature
  <2> QED
    BY <1>2, <2>1, <2>3, <2>4, <2>5
<1>4. IsFiniteSet({sa}) /\ Cardinality({sa}) = 1
  BY FS_Singleton
<1>5. IsFiniteSet({sa} \cup {sb}) /\ Cardinality({sa} \cup {sb}) <= 2
  <2>1. PICK one : one = {sa}
    OBVIOUS
  <2>2. IsFiniteSet(one) /\ Cardinality(one) = 1
    BY <1>4, <2>1
  <2>3. IsFiniteSet(one \cup {sb})
    BY <2>2, FS_AddElement
  <2>4. Cardinality(one \cup {sb}) = Cardinality(one)
          \/ Cardinality(one \cup {sb}) = Cardinality(one) + 1
    BY <2>2, FS_AddElement
  <2> QED
    BY <2>1, <2>2, <2>3, <2>4
<1>6. added \in SUBSET ({sa} \cup {sb})
  BY <1>3
<1>7. Cardinality(added) <= Cardinality({sa} \cup {sb}) /\ IsFiniteSet(added)
  BY <1>5, <1>6, FS_Subset
<1>8. Cardinality(added) \in Nat /\ Cardinality({sa} \cup {sb}) \in Nat
  BY <1>5, <1>7, FS_CardinalityType
<1> QED
  BY <1>1, <1>3, <1>5, <1>7, <1>8
\* groupResponseKey covers all that solveHop reads: an open portal with both ends in
\* the group is one of the portals the signature hashes.
LEMMA KeyTellsFactor ==
  ASSUME NEW key, NEW groups, NEW st
  PROVE  FactorOf(GroupResponseKey(key, groups, st)) = SolveHop(key, groups, st)
<1>1. PICK rooms : rooms = groups[key.group]
  OBVIOUS
<1>2. PICK portals : portals = {<<p, st[p]>> : p \in Incident(rooms)}
  OBVIOUS
<1>3. {p \in Portals : <<p, "open">> \in portals /\ Range(Ends[p]) \subseteq rooms}
        = {p \in Portals : st[p] = "open" /\ Range(Ends[p]) \subseteq rooms}
  <2>1. ASSUME NEW p \in Portals, <<p, "open">> \in portals
        PROVE  st[p] = "open"
    BY <1>2, <2>1
  <2>2. ASSUME NEW p \in Portals, st[p] = "open", Range(Ends[p]) \subseteq rooms
        PROVE  <<p, "open">> \in portals
    <3>1. Range(Ends[p]) # {}
      <4>1. PICK e : e = Ends[p]
        OBVIOUS
      <4>2. e \in Rooms \X Rooms
        BY <4>1, EndsOfPortal
      <4>3. e[1] \in Range(e)
        BY <4>2 DEF Range
      <4> QED
        BY <4>1, <4>3
    <3>2. p \in Incident(rooms)
      BY <2>2, <3>1 DEF Incident
    <3> QED
      BY <1>2, <2>2, <3>2
  <2> QED
    BY <2>1, <2>2
<1>4. PICK r : r = GroupResponseKey(key, groups, st)
  OBVIOUS
<1>5. r.entry = key.entry /\ r.exit = key.exit /\ r.signature.rooms = rooms /\ r.signature.portals = portals
  BY <1>1, <1>2, <1>4 DEF GroupResponseKey, GroupSignature
<1>6. FactorOf(r) = [rooms |-> rooms, entry |-> key.entry, exit |-> key.exit,
                     apertures |-> {p \in Portals : <<p, "open">> \in portals /\ Range(Ends[p]) \subseteq rooms}]
  BY <1>5 DEF FactorOf
<1>7. SolveHop(key, groups, st) =
        [rooms |-> rooms, entry |-> key.entry, exit |-> key.exit,
         apertures |-> {p \in Portals : st[p] = "open" /\ Range(Ends[p]) \subseteq rooms}]
  BY <1>1 DEF SolveHop
<1> QED
  BY <1>3, <1>4, <1>6, <1>7

\* The plan prepare returns is for the states it searched, and has no factors yet.
LEMMA NewPlanFor ==
  ASSUME PlanIInv, Prepared
  PROVE  PlanFor(NewPathPlan, state, limits)
<1>1. SearchInv /\ search.stack = <<>> /\ Leaves # {} /\ limits \in LimitsType
  BY DEF PlanIInv, PlansInv, Prepared
<1>2. search.groups = GroupsOf(state)
  BY <1>1 DEF SearchInv
<1>3. PathsFor(NewPathPlan, state, limits)
  BY <1>1, NewPathsFor
<1>4. PICK p : p = NewPathPlan
  OBVIOUS
<1>5. /\ {"groups", "factors", "signatures", "paths", "searchTruncated", "found"} \subseteq DOMAIN p
      /\ p.groups = search.groups /\ p.factors = {} /\ p.signatures = GroupSignatures(search.groups, state)
  BY <1>4 DEF NewPathPlan
<1> QED
  BY <1>2, <1>3, <1>4, <1>5 DEF PlanFor

-----------------------------------------------------------------------------
(* The calls up to their hops. *)

LEMMA PlanInitKeeps ==
  ASSUME PlanInit
  PROVE  PlanIInv
<1>1. CallInv
  BY DEF PlanInit, CallInv
<1>2. PlansInv
  <2>1. limits \in LimitsType
    <3>1. PICK l \in Limits : limits = SearchLimits(l)
      BY DEF PlanInit
    <3>2. l \in LimitsType
      BY PathAssumption
    <3>3. PICK d, f : d = Default(l.maxDepth, 4) /\ f = Default(l.floor, 6)
      OBVIOUS
    <3>4. d \in Int /\ f \in Int
      BY <3>2, <3>3 DEF Default, LimitsType
    <3>5. limits = [l EXCEPT !.maxDepth = d, !.floor = f]
      BY <3>1, <3>3 DEF SearchLimits
    <3> QED
      BY <3>2, <3>4, <3>5 DEF LimitsType
  <2>2. call.op = "Prepare" /\ call.at = "prepare"
    BY DEF PlanInit
  <2> QED
    BY <2>1, <2>2, PlanAssumption DEF PlanInit, PlansInv
<1>3. CacheInv
  BY DEF PlanInit, CacheInv
<1> QED
  BY <1>1, <1>2, <1>3 DEF PlanIInv

LEMMA StartSearchKeeps ==
  ASSUME PlanIInv, StartSearch
  PROVE  PlanIInv'
<1>1. /\ call.at = "prepare" /\ search' = NewSearch(state) /\ call' = [call EXCEPT !.at = "search"]
      /\ state' = state /\ scene' = scene /\ plan' = plan /\ inner' = inner /\ cache' = cache
      /\ limits' = limits /\ CallInv /\ PlansInv /\ CacheInv
  BY DEF StartSearch, PlanIInv
<1>2. /\ DOMAIN call' = DOMAIN call /\ call'.at = "search"
      /\ \A x \in DOMAIN call \ {"at"} : call'[x] = call[x]
  BY <1>1 DEF CallInv
<1>3. call'.op = call.op
  BY <1>1, <1>2 DEF CallInv
<1>4. call.op = "Apply" => call'.portal = call.portal /\ call'.restore = call.restore
  BY <1>1, <1>2 DEF CallInv
<1>5. CallInv'
  BY <1>1, <1>2, <1>3, <1>4 DEF CallInv
<1>6. SearchInv'
  <2>1. limits \in LimitsType
    BY <1>1 DEF PlansInv
  <2> QED
    BY <1>1, <2>1, NewSearchIs
<1>7. PlansInv'
  BY <1>1, <1>2, <1>3, <1>4, <1>6 DEF PlansInv
<1>8. CacheInv'
  BY <1>1 DEF CacheInv
<1> QED
  BY <1>5, <1>7, <1>8 DEF PlanIInv

LEMMA SearchStepKeeps ==
  ASSUME PlanIInv, SearchStep
  PROVE  PlanIInv'
<1>1. /\ call.at = "search" /\ ExpandPaths /\ call' = call /\ state' = state /\ scene' = scene
      /\ plan' = plan /\ inner' = inner /\ cache' = cache /\ limits' = limits
      /\ CallInv /\ PlansInv /\ CacheInv
  BY DEF SearchStep, PlanIInv
<1>2. SearchInv'
  <2>1. SearchInv
    BY <1>1 DEF PlansInv
  <2> QED
    BY <1>1, <2>1, ExpandPathsKeeps
<1>3. CallInv' /\ CacheInv'
  BY <1>1 DEF CallInv, CacheInv
<1>4. PlansInv'
  BY <1>1, <1>2 DEF PlansInv
<1> QED
  BY <1>3, <1>4 DEF PlanIInv

\* A call ends and leaves a plan of the scene.
LEMMA Ended ==
  ASSUME call' = Idle, state' = scene', scene' \in [Portals -> States], cache' = cache, CacheInv,
         search' = NoSearch, limits' = limits, limits \in LimitsType,
         plan' = NoPlan \/ PlanFor(plan', scene', limits)
  PROVE  PlanIInv'
<1>1. call'.op = "none" /\ call'.at = "idle" /\ DOMAIN call' = {"op", "at"}
  BY DEF Idle
<1>2. CallInv'
  BY <1>1 DEF CallInv
<1>3. PlansInv'
  BY <1>1 DEF PlansInv
<1>4. CacheInv'
  BY DEF CacheInv
<1> QED
  BY <1>2, <1>3, <1>4 DEF PlanIInv

LEMMA PrepareKeeps ==
  ASSUME PlanIInv, Prepare \/ Applied \/ ApplyFails
  PROVE  PlanIInv'
<1>1. CallInv /\ PlansInv /\ CacheInv /\ limits \in LimitsType
  BY DEF PlanIInv, PlansInv
<1>2. CASE Prepare \/ Applied
  <2>1. /\ call' = Idle /\ state' = state /\ scene' = scene /\ cache' = cache
        /\ call.op \in {"Prepare", "Apply"} /\ search' = NoSearch /\ limits' = limits
        /\ plan' = NoPlan \/ (Prepared /\ plan' = NewPathPlan)
    BY <1>2 DEF Prepare, Applied
  <2>2. state = scene /\ scene \in [Portals -> States]
    BY <1>1, <2>1 DEF PlansInv
  <2>3. plan' = NoPlan \/ PlanFor(plan', scene, limits)
    BY <2>1, <2>2, NewPlanFor
  <2> QED
    BY <1>1, <2>1, <2>2, <2>3, Ended
<1>3. CASE ApplyFails
  <2>1. /\ call' = Idle /\ state' = scene' /\ cache' = cache /\ plan' = plan /\ call.op = "Apply"
        /\ scene' = [scene EXCEPT ![call.portal] = call.restore] /\ search' = NoSearch /\ limits' = limits
    BY <1>3 DEF ApplyFails
  <2>2. /\ scene \in [Portals -> States] /\ call.portal \in Portals /\ call.restore \in States
        /\ plan = NoPlan \/ PlanFor(plan, scene', limits)
    BY <1>1, <2>1 DEF PlansInv, CallInv
  <2>3. scene' \in [Portals -> States]
    BY <2>1, <2>2
  <2> QED
    BY <1>1, <2>1, <2>2, <2>3, Ended
<1> QED
  BY <1>2, <1>3

LEMMA ApplyKeeps ==
  ASSUME PlanIInv, NEW p \in Portals, NEW s \in States, NEW a, Apply(p, s, a)
  PROVE  PlanIInv'
<1>1. /\ call.op = "none" /\ call.at = "idle" /\ state' = scene' /\ plan' = plan /\ plan # NoPlan
      /\ cache' = cache /\ limits' = limits /\ search' = search
      /\ scene' = [scene EXCEPT ![p] = EffectiveState(s, a)]
      /\ call' = [op |-> "Apply", at |-> "prepare", portal |-> p, restore |-> scene[p]]
      /\ CallInv /\ PlansInv /\ CacheInv
  BY DEF Apply, Called, Idle, PlanIInv
<1>2. /\ scene \in [Portals -> States] /\ (plan = NoPlan \/ PlanFor(plan, scene, limits))
      /\ limits \in LimitsType /\ search = NoSearch
  BY <1>1 DEF PlansInv
<1>3. EffectiveState(s, a) \in States
  BY DEF EffectiveState, States
<1>4. PICK x \in States : x = EffectiveState(s, a)
  BY <1>3
<1>5. scene' \in [Portals -> States] /\ scene[p] \in States
  BY <1>1, <1>2, <1>4
<1>6. [scene' EXCEPT ![p] = scene[p]] = scene
  BY <1>1, <1>2
<1>7. /\ call'.op = "Apply" /\ call'.at = "prepare" /\ call'.portal = p /\ call'.restore = scene[p]
      /\ DOMAIN call' = {"op", "at", "portal", "restore"}
  BY <1>1
<1>8. CallInv'
  BY <1>5, <1>7 DEF CallInv
<1>9. PlansInv'
  <2>1. [scene' EXCEPT ![call'.portal] = call'.restore] = scene
    BY <1>6, <1>7
  <2> QED
    BY <1>1, <1>2, <1>5, <1>7, <2>1 DEF PlansInv
<1>10. CacheInv'
  BY <1>1 DEF CacheInv
<1> QED
  BY <1>8, <1>9, <1>10 DEF PlanIInv

LEMMA RenderCallKeeps ==
  ASSUME PlanIInv, RenderMono \/ RenderBinaural \/ \E p \in Portals : PortalCache(p)
  PROVE  PlanIInv'
<1>1. /\ call.op = "none" /\ call.at = "idle" /\ plan # NoPlan /\ plan' = plan /\ scene' = scene /\ cache' = cache
      /\ limits' = limits /\ search' = search
      /\ CallInv /\ PlansInv /\ CacheInv
  BY DEF RenderMono, RenderBinaural, PortalCache, Called, Idle, PlanIInv
<1>2. /\ scene \in [Portals -> States] /\ PlanFor(plan, scene, limits) /\ state = scene
      /\ limits \in LimitsType /\ search = NoSearch
  BY <1>1 DEF PlansInv
<1>3. CacheInv'
  BY <1>1 DEF CacheInv
<1>4. CASE RenderMono
  <2>1. call'.op = "RenderMono" /\ call'.at = "hop" /\ DOMAIN call' = {"op", "at", "path", "hop"} /\ state' = state
    BY <1>4 DEF RenderMono
  <2>2. CallInv'
    BY <2>1 DEF CallInv
  <2>3. Rendered' = plan
    BY <1>1, <2>1 DEF Rendered
  <2>4. PlansInv'
    BY <1>1, <1>2, <2>1, <2>3 DEF PlansInv
  <2> QED
    BY <1>3, <2>2, <2>4 DEF PlanIInv
<1>5. CASE RenderBinaural \/ \E p \in Portals : PortalCache(p)
  <2>1. /\ call'.op \in {"RenderBinaural", "PortalCache"} /\ call'.at = "prepare"
        /\ {"op", "at"} \subseteq DOMAIN call'
        /\ call'.op = "PortalCache" => {"portal", "number"} \subseteq DOMAIN call'
        /\ call'.op # "PortalCache" => state' = scene
    BY <1>5 DEF RenderBinaural, PortalCache
  <2>2. CallInv'
    BY <2>1 DEF CallInv
  <2>3. PlansInv'
    BY <1>1, <1>2, <2>1 DEF PlansInv
  <2> QED
    BY <1>3, <2>2, <2>3 DEF PlanIInv
<1> QED
  BY <1>4, <1>5

LEMMA StartHopsKeeps ==
  ASSUME PlanIInv, StartHops
  PROVE  PlanIInv'
<1>1. /\ call.op \in {"RenderBinaural", "PortalCache"} /\ Prepared /\ inner' = NewPathPlan
      /\ state' = state /\ scene' = scene /\ plan' = plan /\ cache' = cache
      /\ search' = NoSearch /\ limits' = limits /\ CallInv /\ PlansInv /\ CacheInv
  BY DEF StartHops, PlanIInv
<1>2. /\ call'.op = call.op /\ call'.at = "hop" /\ DOMAIN call' = DOMAIN call \cup {"path", "hop"}
  BY <1>1 DEF StartHops, CallInv
<1>3. CallInv'
  BY <1>1, <1>2 DEF CallInv
<1>4. Rendered' = NewPathPlan
  BY <1>1, <1>2 DEF Rendered
<1>5. PlanFor(NewPathPlan, state, limits)
  BY <1>1, NewPlanFor
<1>6. PlansInv'
  BY <1>1, <1>2, <1>4, <1>5 DEF PlansInv
<1>7. CacheInv'
  BY <1>1 DEF CacheInv
<1> QED
  BY <1>3, <1>6, <1>7 DEF PlanIInv

LEMMA RenderFailsKeeps ==
  ASSUME PlanIInv, RenderFails
  PROVE  PlanIInv'
<1>1. /\ call.op # "Apply" /\ call' = Idle /\ state' = scene /\ scene' = scene /\ plan' = plan
      /\ cache' = cache /\ search' = NoSearch /\ limits' = limits /\ PlansInv /\ CacheInv
  BY DEF RenderFails, PlanIInv, CallInv
<1>2. limits \in LimitsType /\ scene \in [Portals -> States] /\ (plan = NoPlan \/ PlanFor(plan, scene, limits))
  BY <1>1 DEF PlansInv
<1> QED
  BY <1>1, <1>2, Ended

-----------------------------------------------------------------------------
(* The hops. *)

\* Wherever the render goes after a hop, it is enough that the plans are for their
\* states and the cache is sound.
LEMMA AdvanceKeeps ==
  ASSUME PlanIInv, call.at = "hop", Advance, scene' = scene, limits' = limits, search' = search,
         plan' = NoPlan \/ PlanFor(plan', scene, limits),
         PlanFor((IF call.op = "RenderMono" THEN plan' ELSE inner'), state, limits),
         CacheInv'
  PROVE  PlanIInv'
<1>1. CallInv /\ PlansInv /\ CacheInv'
  BY DEF PlanIInv
<1>2. /\ call.op \in {"RenderMono", "RenderBinaural", "PortalCache"} /\ {"op", "at"} \subseteq DOMAIN call
      /\ call.op = "PortalCache" => {"portal", "number"} \subseteq DOMAIN call
  BY <1>1 DEF CallInv
<1>3. /\ scene \in [Portals -> States] /\ (call.op # "PortalCache" => state = scene)
      /\ limits \in LimitsType /\ search = NoSearch
  BY <1>1 DEF PlansInv
<1>4. CASE NextHop \/ NextPath
  <2>1. state' = state
    BY <1>4 DEF NextHop, NextPath
  <2>2. DOMAIN call' = DOMAIN call /\ \A x \in DOMAIN call \ {"hop", "path"} : call'[x] = call[x]
    <3>1. CASE NextHop
      <4>1. PICK h : h = call.hop + 1
        OBVIOUS
      <4>2. call' = [call EXCEPT !.hop = h]
        BY <3>1, <4>1 DEF NextHop
      <4> QED
        BY <4>2
    <3>2. CASE NextPath
      <4>1. PICK h : h = call.path + 1
        OBVIOUS
      <4>2. call' = [call EXCEPT !.path = h, !.hop = 1]
        BY <3>2, <4>1 DEF NextPath
      <4> QED
        BY <4>2
    <3> QED
      BY <1>4, <3>1, <3>2
  <2>3. call'.op = call.op /\ call'.at = "hop"
    BY <1>2, <2>2
  <2>4. CallInv'
    BY <1>2, <2>2, <2>3 DEF CallInv
  <2>5. Rendered' = IF call.op = "RenderMono" THEN plan' ELSE inner'
    BY <2>3 DEF Rendered
  <2>6. PlansInv'
    BY <1>2, <1>3, <2>1, <2>3, <2>5 DEF PlansInv
  <2> QED
    BY <1>1, <2>4, <2>6 DEF PlanIInv
<1>5. CASE NextPortalState
  <2>1. /\ call'.op = "PortalCache" /\ call'.at = "prepare"
        /\ {"op", "at", "portal", "number"} \subseteq DOMAIN call'
    BY <1>5 DEF NextPortalState
  <2>2. CallInv'
    BY <2>1 DEF CallInv
  <2>3. PlansInv'
    BY <1>3, <2>1 DEF PlansInv
  <2> QED
    BY <1>1, <2>2, <2>3 DEF PlanIInv
<1>6. CASE RenderReturns
  <2>1. call'.op = "none" /\ call'.at = "idle" /\ {"op", "at"} \subseteq DOMAIN call' /\ state' = scene
    BY <1>6 DEF RenderReturns, Idle
  <2>2. CallInv'
    BY <2>1 DEF CallInv
  <2>3. PlansInv'
    BY <1>3, <2>1 DEF PlansInv
  <2> QED
    BY <1>1, <2>2, <2>3 DEF PlanIInv
<1> QED
  BY <1>4, <1>5, <1>6 DEF Advance

\* storeFactor of what solveHop would return now leaves both plans for their states.
LEMMA StoreFactorKeeps ==
  ASSUME PlanIInv, call.at = "hop", NEW factor, StoreFactor(factor),
         factor = SolveHop(HopKey, Rendered.groups, state)
  PROVE  /\ plan' = NoPlan \/ PlanFor(plan', scene, limits)
         /\ PlanFor((IF call.op = "RenderMono" THEN plan' ELSE inner'), state, limits)
<1>1. /\ PlanFor(Rendered, state, limits) /\ call.op # "Apply" /\ (call.op = "RenderMono" => state = scene)
      /\ plan = NoPlan \/ PlanFor(plan, scene, limits)
  BY DEF PlanIInv, PlansInv, CallInv
<1>2. PICK key, memo, p : key = HopKey /\ memo = Memo(HopKey) /\ p = Rendered
  OBVIOUS
<1>3. PICK q : q = [p EXCEPT !.factors = (@ \ memo) \cup {[key |-> key, factor |-> factor]}]
  OBVIOUS
<1>4. /\ call.op = "RenderMono" => plan' = q
      /\ call.op # "RenderMono" => inner' = q /\ plan' = plan
  BY <1>2, <1>3 DEF StoreFactor, Rendered
<1>5. /\ {"groups", "factors", "signatures", "paths", "searchTruncated", "found"} \subseteq DOMAIN p
      /\ p.groups = GroupsOf(state) /\ p.signatures = GroupSignatures(p.groups, state)
      /\ PathsFor(p, state, limits)
      /\ \A f \in p.factors : f.factor = SolveHop(f.key, p.groups, state)
  BY <1>1, <1>2 DEF PlanFor
<1>6. PICK fs : fs = (p.factors \ memo) \cup {[key |-> key, factor |-> factor]}
  OBVIOUS
<1>7. /\ DOMAIN q = DOMAIN p /\ q.groups = p.groups /\ q.signatures = p.signatures /\ q.factors = fs
      /\ q.paths = p.paths /\ q.searchTruncated = p.searchTruncated /\ q.found = p.found
  BY <1>3, <1>5, <1>6
<1>8. factor = SolveHop(key, p.groups, state)
  BY <1>2
<1>9. ASSUME NEW f \in fs
      PROVE  f.factor = SolveHop(f.key, p.groups, state)
  <2>1. CASE f \in p.factors
    BY <1>5, <2>1
  <2>2. CASE f = [key |-> key, factor |-> factor]
    BY <1>8, <2>2
  <2> QED
    BY <1>6, <2>1, <2>2
<1>10. PathsFor(q, state, limits)
  BY <1>5, <1>7 DEF PathsFor, Truncated
<1>11. PlanFor(q, state, limits)
  BY <1>5, <1>7, <1>9, <1>10 DEF PlanFor
<1> QED
  BY <1>1, <1>4, <1>11

LEMMA HopFromMemoKeeps ==
  ASSUME PlanIInv, HopFromMemo
  PROVE  PlanIInv'
<1>1. /\ call.at = "hop" /\ Advance /\ scene' = scene /\ plan' = plan /\ inner' = inner /\ cache' = cache
      /\ limits' = limits /\ search' = search
      /\ CallInv /\ PlansInv /\ CacheInv
  BY DEF HopFromMemo, PlanIInv
<1>2. plan' = NoPlan \/ PlanFor(plan', scene, limits)
  BY <1>1 DEF PlansInv, CallInv
<1>3. PlanFor((IF call.op = "RenderMono" THEN plan' ELSE inner'), state, limits)
  BY <1>1 DEF PlansInv, Rendered
<1>4. CacheInv'
  BY <1>1 DEF CacheInv
<1> QED
  BY <1>1, <1>2, <1>3, <1>4, AdvanceKeeps

LEMMA HopFromCacheKeeps ==
  ASSUME PlanIInv, HopFromCache
  PROVE  PlanIInv'
<1>1. /\ call.at = "hop" /\ Advance /\ scene' = scene /\ cache' = cache /\ CacheInv
      /\ limits' = limits /\ search' = search
  BY DEF HopFromCache, PlanIInv
<1>2. PICK e \in Stored : StoreFactor(e.factor)
  BY DEF HopFromCache
<1>3. e \in cache /\ e.key = GroupResponseKey(HopKey, Rendered.groups, state)
  BY <1>2 DEF Stored
<1>4. e.factor = FactorOf(e.key)
  BY <1>1, <1>3 DEF CacheInv
<1>5. FactorOf(GroupResponseKey(HopKey, Rendered.groups, state)) = SolveHop(HopKey, Rendered.groups, state)
  BY KeyTellsFactor
<1>6. e.factor = SolveHop(HopKey, Rendered.groups, state)
  BY <1>3, <1>4, <1>5
<1>7. /\ plan' = NoPlan \/ PlanFor(plan', scene, limits)
      /\ PlanFor((IF call.op = "RenderMono" THEN plan' ELSE inner'), state, limits)
  BY <1>1, <1>2, <1>6, StoreFactorKeeps
<1>8. CacheInv'
  BY <1>1 DEF CacheInv
<1> QED
  BY <1>1, <1>7, <1>8, AdvanceKeeps

LEMMA HopSimulatedKeeps ==
  ASSUME PlanIInv, HopSimulated
  PROVE  PlanIInv'
<1>1. PICK key, factor : /\ key = GroupResponseKey(HopKey, Rendered.groups, state)
                         /\ factor = SolveHop(HopKey, Rendered.groups, state)
  OBVIOUS
<1>2. /\ call.at = "hop" /\ Advance /\ scene' = scene /\ StoreFactor(factor) /\ CacheInv
      /\ limits' = limits /\ search' = search
      /\ cache' = (cache \ Stored) \cup {[key |-> key, factor |-> factor]}
  BY <1>1 DEF HopSimulated, PlanIInv
<1>3. /\ plan' = NoPlan \/ PlanFor(plan', scene, limits)
      /\ PlanFor((IF call.op = "RenderMono" THEN plan' ELSE inner'), state, limits)
  BY <1>1, <1>2, StoreFactorKeeps
<1>4. factor = FactorOf(key)
  BY <1>1, KeyTellsFactor
<1>5. ASSUME NEW e \in cache'
      PROVE  e.factor = FactorOf(e.key)
  <2>1. CASE e \in cache
    BY <1>2, <2>1 DEF CacheInv
  <2>2. CASE e = [key |-> key, factor |-> factor]
    <3>1. e.key = key /\ e.factor = factor
      BY <2>2
    <3> QED
      BY <1>4, <3>1
  <2> QED
    BY <1>2, <2>1, <2>2
<1>6. CacheInv'
  BY <1>5 DEF CacheInv
<1> QED
  BY <1>2, <1>3, <1>6, AdvanceKeeps

-----------------------------------------------------------------------------
(* The theorem. *)

LEMMA SearchInvSame ==
  ASSUME SearchInv, search' = search, state' = state, limits' = limits
  PROVE  SearchInv'
<1>1. /\ \A n : /\ Node(n)' = Node(n) /\ PathTo(n)' = PathTo(n) /\ Edges(n)' = Edges(n)
                /\ PathGroups(n)' = PathGroups(n)
      /\ \A n, p : HasChild(n, p)' <=> HasChild(n, p)
  BY TreeKept
<1>2. \A n, i : Tried(n, i)' <=> Tried(n, i)
  BY DEF Tried
<1>3. NodesInv'
  BY <1>2, NodesKept
<1>4. StackInv'
  BY <1>1 DEF SearchInv, StackInv
<1>5. TruncationInv'
  BY <1>1, <1>2 DEF SearchInv, TruncationInv, Cut
<1> QED
  BY <1>3, <1>4, <1>5 DEF SearchInv

LEMMA PlanNextKeeps ==
  ASSUME PlanIInv, [PlanNext]_planVars
  PROVE  PlanIInv'
<1>1. CASE UNCHANGED planVars
  <2>1. /\ call' = call /\ state' = state /\ scene' = scene /\ plan' = plan /\ inner' = inner
        /\ cache' = cache /\ search' = search /\ limits' = limits
    BY <1>1 DEF planVars
  <2>2. CallInv' /\ CacheInv'
    BY <2>1 DEF PlanIInv, CallInv, CacheInv
  <2>3. SearchInv => SearchInv'
    BY <2>1, SearchInvSame
  <2>4. PlansInv'
    <3>1. Rendered' = Rendered
      BY <2>1 DEF Rendered
    <3> QED
      BY <2>1, <2>3, <3>1 DEF PlanIInv, PlansInv
  <2> QED
    BY <2>2, <2>4 DEF PlanIInv
<1>2. CASE PlanNext
  <2>1. CASE StartSearch \/ SearchStep
    BY <2>1, StartSearchKeeps, SearchStepKeeps
  <2>2. CASE Prepare \/ ApplyFails \/ Applied
    BY <2>2, PrepareKeeps
  <2>3. CASE \E p \in Portals, s \in States, a \in {50, 100} : Apply(p, s, a)
    BY <2>3, ApplyKeeps
  <2>4. CASE RenderMono \/ RenderBinaural \/ (\E p \in Portals : PortalCache(p))
    BY <2>4, RenderCallKeeps
  <2>5. CASE StartHops \/ RenderFails
    BY <2>5, StartHopsKeeps, RenderFailsKeeps
  <2>6. CASE HopFromMemo \/ HopFromCache \/ HopSimulated
    BY <2>6, HopFromMemoKeeps, HopFromCacheKeeps, HopSimulatedKeeps
  <2> QED
    BY <1>2, <2>1, <2>2, <2>3, <2>4, <2>5, <2>6 DEF PlanNext
<1> QED
  BY <1>1, <1>2

LEMMA PlanInvFresh ==
  ASSUME PlanIInv
  PROVE  FactorsFresh
<1>1. CallInv /\ PlansInv
  BY DEF PlanIInv
<1>2. ASSUME plan # NoPlan, call.op # "Apply"
      PROVE  \A f \in plan.factors : f.factor = SolveHop(f.key, GroupsOf(scene), scene)
  BY <1>1, <1>2 DEF PlansInv, PlanFor
<1>3. ASSUME call.at = "hop"
      PROVE  \A f \in Rendered.factors : f.factor = SolveHop(f.key, GroupsOf(state), state)
  BY <1>1, <1>3 DEF PlansInv, PlanFor
<1> QED
  BY <1>2, <1>3 DEF FactorsFresh

\* A factor that Plan.RenderMono, RenderBinaural or PortalCache composes was simulated
\* for the groups and the portal states it renders, whatever portal changes were made,
\* failed or were rolled back before, and whatever the response cache kept or evicted.
THEOREM FactorsAreFresh == PlanSpec => []FactorsFresh
<1>1. PlanInit => PlanIInv
  BY PlanInitKeeps
<1>2. PlanIInv /\ [PlanNext]_planVars => PlanIInv'
  BY PlanNextKeeps
<1>3. PlanIInv => FactorsFresh
  BY PlanInvFresh
<1> QED
  BY <1>1, <1>2, <1>3, PTL DEF PlanSpec

\* The search of a plan keeps its promise while it runs; otherwise there is no tree.
LEMMA PlanInvHonest ==
  ASSUME PlanIInv
  PROVE  SearchHonest
<1>1. CASE call.at = "search"
  <2>1. SearchInv
    BY <1>1 DEF PlanIInv, PlansInv
  <2> QED
    BY <2>1, SearchEndsHonest
<1>2. CASE call.at # "search"
  <2>1. search.nodes = <<>>
    BY <1>2 DEF PlanIInv, PlansInv, NoSearch
  <2> QED
    BY <2>1 DEF SearchHonest
<1> QED
  BY <1>1, <1>2

\* Every search a plan makes ends with each simple path found once, or with some found
\* once and the truncation reported: SearchPaths loses no path silently at its depth,
\* node and audibility limits, and a cycle or a dead end never counts as a loss.
THEOREM SearchIsHonest == PlanSpec => []SearchHonest
<1>1. PlanInit => PlanIInv
  BY PlanInitKeeps
<1>2. PlanIInv /\ [PlanNext]_planVars => PlanIInv'
  BY PlanNextKeeps
<1>3. PlanIInv => SearchHonest
  BY PlanInvHonest
<1> QED
  BY <1>1, <1>2, <1>3, PTL DEF PlanSpec

LEMMA PlanInvCurrent ==
  ASSUME PlanIInv
  PROVE  PlanCurrent
<1>1. SUFFICES ASSUME call = Idle, plan # NoPlan
               PROVE  /\ plan.groups = GroupsOf(scene)
                      /\ plan.signatures = GroupSignatures(plan.groups, scene)
                      /\ PathsFor(plan, scene, limits)
  BY DEF PlanCurrent
<1>2. call.op # "Apply"
  BY <1>1 DEF Idle
<1>3. PlanFor(plan, scene, limits)
  BY <1>1, <1>2 DEF PlanIInv, PlansInv
<1> QED
  BY <1>3 DEF PlanFor

\* Between two calls a Plan is the one a fresh Prepare of its scene would return: the
\* groups and signatures of the scene as it is, and of the audible simple paths to the
\* receiver the strongest, all of them unless it reports truncation.
THEOREM PlansAreCurrent == PlanSpec => []PlanCurrent
<1>1. PlanInit => PlanIInv
  BY PlanInitKeeps
<1>2. PlanIInv /\ [PlanNext]_planVars => PlanIInv'
  BY PlanNextKeeps
<1>3. PlanIInv => PlanCurrent
  BY PlanInvCurrent
<1> QED
  BY <1>1, <1>2, <1>3, PTL DEF PlanSpec

\* The step that ends a successful Apply.
LEMMA AppliedIsLocal ==
  ASSUME PlanIInv, PlanNext, call.op = "Apply", plan' # plan
  PROVE  LET added == Range(plan'.signatures) \ Range(plan.signatures) IN
         /\ Cardinality(added) <= 2
         /\ \A s \in added : s.rooms \cap Range(Ends[call.portal]) # {}
<1>1. Applied
  <2>1. CallInv
    BY DEF PlanIInv
  <2>2. call.at # "hop" /\ call # Idle
    BY <2>1 DEF CallInv, Idle
  <2> QED
    BY <2>2 DEF PlanNext, StartSearch, SearchStep, Prepare, ApplyFails, Apply, RenderMono, RenderBinaural,
                PortalCache, Called, StartHops, RenderFails, HopFromMemo, HopFromCache, HopSimulated
<1>2. PICK p \in Portals, v \in States : p = call.portal /\ v = call.restore
  BY DEF PlanIInv, CallInv
<1>3. PICK old : old = [scene EXCEPT ![p] = v]
  OBVIOUS
<1>4. scene \in [Portals -> States] /\ state = scene /\ PlanFor(plan, old, limits)
  BY <1>2, <1>3 DEF PlanIInv, PlansInv
<1>5. \A q \in Portals : q # p => old[q] = state[q]
  BY <1>3, <1>4
<1>6. plan' = NewPathPlan /\ PlanFor(NewPathPlan, state, limits)
  BY <1>1, NewPlanFor DEF Applied
<1>7. /\ plan'.signatures = GroupSignatures(GroupsOf(state), state)
      /\ plan.signatures = GroupSignatures(GroupsOf(old), old)
  BY <1>4, <1>6 DEF PlanFor
<1>8. PICK added : added = Range(plan'.signatures) \ Range(plan.signatures)
  OBVIOUS
<1>9. Cardinality(added) <= 2 /\ \A s \in added : s.rooms \cap Range(Ends[p]) # {}
  BY <1>5, <1>7, <1>8, NewSignatures
<1> QED
  BY <1>2, <1>8, <1>9

\* A toggle changes the signatures of at most two room groups, both at the toggled
\* portal: Plan.Apply keeps the cached responses of every other group.
THEOREM TogglesAreLocal == PlanSpec => ToggleIsLocal
<1>1. PlanInit => PlanIInv
  BY PlanInitKeeps
<1>2. PlanIInv /\ [PlanNext]_planVars => PlanIInv'
  BY PlanNextKeeps
<1> DEFINE Local == call.op = "Apply" /\ plan' # plan =>
        LET added == Range(plan'.signatures) \ Range(plan.signatures) IN
        /\ Cardinality(added) <= 2
        /\ \A s \in added : s.rooms \cap Range(Ends[call.portal]) # {}
<1>3. PlanIInv /\ [PlanNext]_planVars => [Local]_planVars
  BY AppliedIsLocal
<1>4. [][Local]_planVars => ToggleIsLocal
  BY DEF ToggleIsLocal
<1> HIDE DEF Local
<1> QED
  BY <1>1, <1>2, <1>3, <1>4, PTL DEF PlanSpec
=============================================================================
