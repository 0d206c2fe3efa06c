--------------------------- MODULE NodeAnnotations ---------------------------
(***************************************************************************)
(* The time locks of azure-k8s-autopilot.  A lock lives in two places: as  *)
(* an RFC3339 annotation of the Kubernetes node (k8s/node.go) and as an    *)
(* item of an in-memory go-cache, one cache per job (autopilot/main.go).   *)
(*                                                                         *)
(* Time is relative: a time stamp is the number of time units left until   *)
(* it is reached, negative once it has passed.  Horizon is the only bound: *)
(* stamps further in the past than Horizon are not told apart.             *)
(***************************************************************************)
EXTENDS Integers, FiniteSets

CONSTANTS
    Horizon,    \* how far in the past a time stamp is still told apart
    Absent,     \* the annotation (or the cache item) does not exist
    Invalid     \* the annotation is empty or not an RFC3339 time

ASSUME AnnotationAssumption ==
    /\ Horizon \in Nat
    /\ Absent \notin Int
    /\ Invalid \notin Int
    /\ Absent # Invalid

(* The values of a lock annotation and of an item of a lock cache. *)
Annotation == Int \cup {Absent, Invalid}
CacheItem == Nat \cup {Absent}

-----------------------------------------------------------------------------
(* Annotations of a node *)

(* A time stamp one time unit later. *)
Aged(v) == IF v \in Int /\ v > -Horizon THEN v - 1 ELSE v

(* AnnotationLockCheck: whether the annotation exists, and time.Since of   *)
(* its time, which is POSITIVE once the time has passed; nil (here         *)
(* Invalid) when it does not parse.                                        *)
LockExists(v) == v # Absent
LockDuration(v) == IF v \in Int THEN -v ELSE Invalid

(* The test every caller of AnnotationLockCheck makes before it discards   *)
(* the annotation: lockDuration == nil || lockDuration.Seconds() <= 0.     *)
LockDiscarded_NilOnly(v) == LockExists(v) /\ LockDuration(v) = Invalid
LockDiscarded(v) ==
    /\ LockExists(v)
    /\ LockDuration(v) = Invalid \/ LockDuration(v) <= 0

(* What callers do with a lock they keep: Add(name, true, *lockDuration).  *)
LockKept(v) == LockExists(v) /\ ~LockDiscarded(v)

(* Node.AnnotationLockSet, in one patch: the lock annotation and, when the *)
(* autoscaler is to be held off, the scale-down guard with its expiry.     *)
AnnotationLockSet(o, duration, scaledown) ==
    IF scaledown > 0
    THEN [o EXCEPT !.lock = duration, !.expire = scaledown, !.disable = TRUE]
    ELSE [o EXCEPT !.lock = duration]

(* Node.Cleanup, for an object whose expiry is discarded: the guard goes   *)
(* with its expiry, in one patch, which fails when one of them is missing. *)
Cleanup(o) ==
    IF LockExists(o.expire) /\ o.disable
    THEN [o EXCEPT !.expire = Absent, !.disable = FALSE]
    ELSE o

-----------------------------------------------------------------------------
(* go-cache: items expire by themselves, an expired item is still counted  *)
(* until the janitor or DeleteExpired removes it.                          *)

EmptyCache(S) == [n \in S |-> Absent]
ItemCount(cache) == Cardinality({n \in DOMAIN cache : cache[n] # Absent})
CacheHolds(cache, n) == cache[n] # Absent /\ cache[n] # 0

(* Add fails, and changes nothing, when the item exists and is not expired. *)
CacheAdd(cache, n, duration) ==
    IF CacheHolds(cache, n) THEN cache ELSE [cache EXCEPT ![n] = duration]

CacheDelete(cache, n) == [cache EXCEPT ![n] = Absent]
DeleteExpired(cache) ==
    [n \in DOMAIN cache |-> IF cache[n] = 0 THEN Absent ELSE cache[n]]
CacheAged(cache) ==
    [n \in DOMAIN cache |->
        IF CacheHolds(cache, n) THEN cache[n] - 1 ELSE cache[n]]
=============================================================================
