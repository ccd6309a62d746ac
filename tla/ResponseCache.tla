---------------------------- MODULE ResponseCache ----------------------------
(***************************************************************************)
(* The byte-budgeted LRU cache of crossroom/cache.go.                      *)
(*                                                                         *)
(* A key is a pair of the group signature and the rest of the cacheKey; a  *)
(* cached factor is a pointer, modelled by the name of the object.  Every  *)
(* exported call runs under c.mu.  get and the bookkeeping of put are one   *)
(* step each; the loop of evictLocked takes one step per evicted entry      *)
(* while the mutex stays taken (evicting).  invalidateSignature, which only *)
(* tests call, is left out.                                                 *)
(***************************************************************************)
EXTENDS Integers, SequencesExt

CONSTANTS
  Keys,               \* cacheKey values: <<group signature, the other fields>>
  Objects,            \* the groupFactor objects a pointer may name
  None,               \* the nil pointer
  CacheBytes,         \* the maxBytes argument of NewResponseCache
  DefaultCacheBytes   \* the constant of the same name

ASSUME CacheAssumption ==
  /\ None \notin Objects
  /\ CacheBytes \in Int
  /\ DefaultCacheBytes \in Nat \ {0}

VARIABLES
  order,      \* c.order, front (most recently used) first, as keys
  factorOf,   \* entry.factor of every key in c.entries, None for the others
  bytesOf,    \* entry.bytes of every key in c.entries, 0 for the others
  bytes,      \* c.bytes
  evicting,   \* a put holds c.mu and is in the loop of evictLocked
  hits, misses, evictions      \* c.stats

cacheVars == <<order, factorOf, bytesOf, bytes, evicting, hits, misses, evictions>>

\* The budget NewResponseCache settles on.
NewResponseCache == IF CacheBytes <= 0 THEN DefaultCacheBytes ELSE CacheBytes

Entries == {k \in Keys : factorOf[k] # None}

CacheInit ==
  /\ order = <<>>
  /\ factorOf = [k \in Keys |-> None]
  /\ bytesOf = [k \in Keys |-> 0]
  /\ bytes = 0
  /\ evicting = FALSE
  /\ hits = 0 /\ misses = 0 /\ evictions = 0

\* order.MoveToFront of a present key, order.PushFront of a new one.
MoveToFront(key) == <<key>> \o RemoveFirst(order, key)

\* get of a present and of an absent key.
GetHit(key) ==
  /\ ~evicting
  /\ key \in Entries
  /\ order' = MoveToFront(key)
  /\ hits' = hits + 1
  /\ UNCHANGED <<factorOf, bytesOf, bytes, evicting, misses, evictions>>

GetMiss(key) ==
  /\ ~evicting
  /\ key \notin Entries
  /\ misses' = misses + 1
  /\ UNCHANGED <<order, factorOf, bytesOf, bytes, evicting, hits, evictions>>

MutantPut(key, object, size) ==     \* replacing an entry forgets its old size
  /\ ~evicting
  /\ factorOf' = [factorOf EXCEPT ![key] = object]
  /\ bytesOf' = [bytesOf EXCEPT ![key] = size]
  /\ bytes' = bytes + size
  /\ order' = MoveToFront(key)
  /\ evicting' = (bytes' > NewResponseCache)
  /\ UNCHANGED <<hits, misses, evictions>>

\* put up to its call of evictLocked.  bytesOf of an absent key is 0, so one
\* formula covers the replacement of an entry and a new one.
Put(key, object, size) ==
  /\ ~evicting
  /\ factorOf' = [factorOf EXCEPT ![key] = object]
  /\ bytesOf' = [bytesOf EXCEPT ![key] = size]
  /\ bytes' = bytes + (size - bytesOf[key])
  /\ order' = MoveToFront(key)
  /\ evicting' = (bytes' > NewResponseCache)
  /\ UNCHANGED <<hits, misses, evictions>>

\* removeLocked of the element of a key.
RemoveLocked(key) ==
  /\ order' = RemoveFirst(order, key)
  /\ factorOf' = [factorOf EXCEPT ![key] = None]
  /\ bytesOf' = [bytesOf EXCEPT ![key] = 0]
  /\ bytes' = bytes - bytesOf[key]

\* One turn of the loop of evictLocked.  Its return on an empty list is not an
\* alternative here: with exact byte counts the list is never empty
\* (EvictionFindsAnEntry).
EvictOldest ==
  /\ evicting
  /\ order # <<>>
  /\ RemoveLocked(Last(order))
  /\ evictions' = evictions + 1
  /\ evicting' = (bytes' > NewResponseCache)
  /\ UNCHANGED <<hits, misses>>

-----------------------------------------------------------------------------
(* What the cache promises. *)

\* The list and the map of the cache hold the same keys, each once: get, put,
\* and eviction update both (removeLocked).
OrderMatchesEntries ==
  /\ \A k \in Keys : k \in Entries <=> \E i \in DOMAIN order : order[i] = k
  /\ \A i, j \in DOMAIN order : i # j => order[i] # order[j]

\* c.bytes is the sum of the sizes of the entries, through replacements and
\* evictions.
BytesExact == bytes = MapThenSumSet(LAMBDA k : bytesOf[k], Entries)

\* Whoever finds the mutex free finds the cache within its budget.
WithinBudget == ~evicting => bytes <= NewResponseCache

\* The cache stays sound under concurrent renders: the list and the map agree,
\* the byte count is exact and the budget holds, also when one factor alone is
\* larger than the budget.
CacheSound == OrderMatchesEntries /\ BytesExact /\ WithinBudget

\* The inductive invariant.
CacheTypes ==
  /\ order \in Seq(Keys) /\ bytesOf \in [Keys -> Nat] /\ evicting \in BOOLEAN
  /\ IsFiniteSet(Entries)
  /\ \A k \in Keys : factorOf[k] = None => bytesOf[k] = 0

CacheIInv == CacheTypes /\ CacheSound

=============================================================================
