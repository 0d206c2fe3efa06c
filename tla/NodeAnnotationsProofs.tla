------------------------ MODULE NodeAnnotationsProofs ------------------------
(***************************************************************************)
(* Facts about the time locks that the proofs about both jobs rest on, and *)
(* what syncNodeLockCache does with a lock depending on its time, for every*)
(* time stamp.                                                             *)
(***************************************************************************)
EXTENDS NodeAnnotations, FiniteSetTheorems, TLAPS

-----------------------------------------------------------------------------
(* Annotations *)

(* A stamp stays a stamp. *)
LEMMA AgedType == \A v \in Annotation : Aged(v) \in Annotation
BY AnnotationAssumption DEF Aged, Annotation

(* A lock that LockDiscarded spares has a positive duration, so that what  *)
(* syncNodeLockCache adds to the cache is never expired on arrival.        *)
LEMMA KeptDuration ==
    \A v \in Annotation : LockKept(v) => LockDuration(v) \in Nat \ {0}
BY AnnotationAssumption
   DEF Annotation, LockKept, LockExists, LockDiscarded, LockDuration

(* What main.go:441 makes of the sign of AnnotationLockCheck: of the locks *)
(* that have a time, the callers discard exactly those whose time has not  *)
(* passed, and those they keep they keep the longer the older they are.    *)
THEOREM ActiveLocksDiscarded ==
    /\ \A v \in Int : LockDiscarded(v) <=> v >= 0
    /\ \A v, w \in Int : LockKept(v) /\ w < v =>
          LockKept(w) /\ LockDuration(w) > LockDuration(v)
BY AnnotationAssumption DEF LockDiscarded, LockKept, LockExists, LockDuration

(* Time never makes a kept lock one that is discarded: it stays for ever.  *)
THEOREM KeptForEver == \A v \in Annotation : LockKept(v) => LockKept(Aged(v))
BY AnnotationAssumption
   DEF Annotation, LockKept, LockDiscarded, LockExists, LockDuration, Aged

-----------------------------------------------------------------------------
(* Lock caches *)

(* The operations of the lock cache keep its type. *)
LEMMA CacheTyped ==
    ASSUME NEW S, NEW cache \in [S -> CacheItem]
    PROVE  /\ EmptyCache(S) \in [S -> CacheItem]
           /\ \A n, d : d \in Nat => CacheAdd(cache, n, d) \in [S -> CacheItem]
           /\ \A n : CacheDelete(cache, n) \in [S -> CacheItem]
           /\ DeleteExpired(cache) \in [S -> CacheItem]
           /\ CacheAged(cache) \in [S -> CacheItem]
<1> USE AnnotationAssumption DEF CacheItem, CacheHolds
<1>1. EmptyCache(S) \in [S -> CacheItem]
  BY DEF EmptyCache
<1>2. ASSUME NEW n, NEW d \in Nat PROVE CacheAdd(cache, n, d) \in [S -> CacheItem]
  <2>1. CASE n \in S
    BY <2>1 DEF CacheAdd
  <2>2. CASE n \notin S
    BY <2>2 DEF CacheAdd
  <2> QED BY <2>1, <2>2
<1>3. ASSUME NEW n PROVE CacheDelete(cache, n) \in [S -> CacheItem]
  <2>1. CASE n \in S
    BY <2>1 DEF CacheDelete
  <2>2. CASE n \notin S
    BY <2>2 DEF CacheDelete
  <2> QED BY <2>1, <2>2
<1>4. DeleteExpired(cache) \in [S -> CacheItem]
  BY DEF DeleteExpired
<1>5. CacheAged(cache) \in [S -> CacheItem]
  BY DEF CacheAged
<1> QED BY <1>1, <1>2, <1>3, <1>4, <1>5

(* What the operations of the lock cache do to the number of its items.    *)
LEMMA ItemsCounted ==
    ASSUME NEW S, IsFiniteSet(S), NEW cache \in [S -> CacheItem]
    PROVE  /\ ItemCount(cache) \in Nat
           /\ \A n \in S, d \in Nat : ItemCount(CacheAdd(cache, n, d)) <= ItemCount(cache) + 1
           /\ \A n \in S : ItemCount(CacheDelete(cache, n)) <= ItemCount(cache)
           /\ ItemCount(DeleteExpired(cache)) <= ItemCount(cache)
           /\ ItemCount(CacheAged(cache)) <= ItemCount(cache)
           /\ (\E n \in S : cache[n] # Absent) => ItemCount(cache) >= 1
<1> USE AnnotationAssumption
<1> DEFINE Items(c) == {n \in DOMAIN c : c[n] # Absent}
<1>1. ASSUME NEW T \in SUBSET S PROVE IsFiniteSet(T) /\ Cardinality(T) \in Nat
  BY FS_Subset, FS_CardinalityType
<1>2. ASSUME NEW c \in [S -> CacheItem], NEW T \in SUBSET S, Items(c) \subseteq T
      PROVE  ItemCount(c) <= Cardinality(T)
  BY <1>1, <1>2, FS_Subset DEF ItemCount
<1>3. Items(cache) \in SUBSET S /\ ItemCount(cache) = Cardinality(Items(cache))
  BY DEF ItemCount
<1>4. ASSUME NEW n \in S, NEW d \in Nat
      PROVE  ItemCount(CacheAdd(cache, n, d)) <= ItemCount(cache) + 1
  <2>1. Items(CacheAdd(cache, n, d)) \subseteq Items(cache) \cup {n}
    BY <1>4 DEF CacheAdd, CacheItem
  <2>2. Cardinality(Items(cache) \cup {n}) <= Cardinality(Items(cache)) + 1
    BY <1>1, <1>3, FS_AddElement
  <2>3. Items(cache) \cup {n} \in SUBSET S
    BY <1>3
  <2>4. CacheAdd(cache, n, d) \in [S -> CacheItem]
    BY CacheTyped
  <2>5. ItemCount(CacheAdd(cache, n, d)) <= Cardinality(Items(cache) \cup {n})
    BY <1>2, <2>1, <2>3, <2>4
  <2>6. /\ ItemCount(CacheAdd(cache, n, d)) \in Nat
        /\ Cardinality(Items(cache) \cup {n}) \in Nat
        /\ Cardinality(Items(cache)) \in Nat
    BY <1>1, <1>3, <2>3, <2>4 DEF ItemCount
  <2> QED BY <1>3, <2>2, <2>5, <2>6
<1>5. ItemCount(DeleteExpired(cache)) <= ItemCount(cache)
  <2>1. Items(DeleteExpired(cache)) \subseteq Items(cache)
    BY DEF DeleteExpired
  <2> QED BY <1>2, <1>3, <2>1, CacheTyped
<1>6. ItemCount(CacheAged(cache)) <= ItemCount(cache)
  <2>1. Items(CacheAged(cache)) \subseteq Items(cache)
    BY DEF CacheAged, CacheHolds
  <2> QED BY <1>2, <1>3, <2>1, CacheTyped
<1>7. ASSUME NEW n \in S PROVE ItemCount(CacheDelete(cache, n)) <= ItemCount(cache)
  <2>1. Items(CacheDelete(cache, n)) \subseteq Items(cache)
    BY DEF CacheDelete
  <2> QED BY <1>2, <1>3, <2>1, CacheTyped
<1>8. ASSUME NEW n \in S, cache[n] # Absent PROVE ItemCount(cache) >= 1
  <2>1. {n} \subseteq Items(cache) /\ IsFiniteSet(Items(cache))
    BY <1>1, <1>3, <1>8
  <2>2. Cardinality({n}) <= Cardinality(Items(cache)) /\ Cardinality({n}) = 1
    BY <2>1, FS_Subset, FS_Singleton
  <2> QED BY <1>1, <1>3, <2>2
<1> QED BY <1>1, <1>3, <1>4, <1>5, <1>6, <1>7, <1>8
=============================================================================
