--------------------------- MODULE RepairJobProofs ---------------------------
(***************************************************************************)
(* Proofs about the repair job, for every finite set of nodes: type        *)
(* correctness, the limit, and that repairs are needed when there is one at*)
(* a time.                                                                 *)
(*                                                                         *)
(* CandidateInv says that the node under repair is behind the walk;        *)
(* FreshInv, that the rest of the snapshot is no older than what the watch *)
(* has shown, until a node is locked.                                      *)
(***************************************************************************)
EXTENDS RepairJob, NodeAnnotationsProofs

-----------------------------------------------------------------------------
(* Types *)

LEMMA AgedStatusType ==
    /\ \A s \in Status : AgedStatus(s) \in Status
    /\ \A o \in NodeObject : AgedNode(o) \in NodeObject /\ StatusOf(o) \in Status
<1>1. \A i \in Silence : Longer(i) \in Silence
  BY RepairAssumption DEF Silence, Longer
<1>2. \A s \in Status : AgedStatus(s) \in Status
  BY <1>1 DEF Status, AgedStatus
<1>3. ASSUME NEW o \in NodeObject PROVE AgedNode(o) \in NodeObject /\ StatusOf(o) \in Status
  <2>1. AgedStatus(o) \in NodeObject
    BY <1>1 DEF NodeObject, AgedStatus
  <2>2. Aged(o.lock) \in Annotation /\ Aged(o.expire) \in Annotation
    BY AgedType DEF NodeObject
  <2>3. AgedStatus(o).lock = o.lock /\ AgedStatus(o).expire = o.expire
    BY DEF NodeObject, AgedStatus
  <2>4. AgedNode(o) \in NodeObject
    BY <2>1, <2>2, <2>3 DEF NodeObject, AgedNode
  <2>5. StatusOf(o) \in Status
    BY DEF NodeObject, Status, StatusOf
  <2> QED BY <2>4, <2>5
<1> QED BY <1>2, <1>3

(* A lock and its scale-down guard, and a cleanup, leave a node object.    *)
LEMMA NodeChanged ==
    ASSUME NEW o \in NodeObject
    PROVE  /\ \A d \in Nat : AnnotationLockSet(o, d, ScaledownLock) \in NodeObject
           /\ Cleanup(o) \in NodeObject
           /\ [o EXCEPT !.lock = Absent] \in NodeObject
<1>1. Absent \in Annotation /\ ScaledownLock \in Annotation /\ \A d \in Nat : d \in Annotation
  BY RepairAssumption DEF Annotation
<1>2. ASSUME NEW d \in Nat PROVE AnnotationLockSet(o, d, ScaledownLock) \in NodeObject
  <2>1. [o EXCEPT !.lock = d, !.expire = ScaledownLock, !.disable = TRUE] \in NodeObject
    BY <1>1 DEF NodeObject
  <2>2. [o EXCEPT !.lock = d] \in NodeObject
    BY <1>1 DEF NodeObject
  <2> QED BY <2>1, <2>2 DEF AnnotationLockSet
<1>3. Cleanup(o) \in NodeObject
  BY <1>1 DEF Cleanup, NodeObject
<1>4. [o EXCEPT !.lock = Absent] \in NodeObject
  BY <1>1 DEF NodeObject
<1> QED BY <1>2, <1>3, <1>4

LEMMA InitType == Init => TypeOK
<1> SUFFICES ASSUME Init PROVE TypeOK
  OBVIOUS
<1>1. [ready |-> TRUE, silent |-> 0, cordoned |-> FALSE,
       lock |-> Absent, expire |-> Absent, disable |-> FALSE] \in NodeObject
  BY RepairAssumption DEF NodeObject, Silence, Annotation
<1>2. api \in [Nodes -> NodeObject]
  BY <1>1 DEF Init
<1>3. locks \in [Nodes -> CacheItem]
  BY DEF Init, EmptyCache, CacheItem
<1> QED
  BY <1>2, <1>3, RepairAssumption
     DEF Init, TypeOK, Nothing, ProvisioningState, Location

(* The process and the walk keep the types.                                *)
LEMMA RunType == TypeOK /\ (Cron \/ Run \/ Crash) => TypeOK'
<1> SUFFICES ASSUME TypeOK, Cron \/ Run \/ Crash PROVE TypeOK'
  OBVIOUS
<1> USE DEF TypeOK
<1>l. Location = {"down", "stopped", "idle", "list", "next", "check", "begin", "repairing",
                  "lock", "lockerror"}
  BY DEF Location, InRun, InRepair
<1>e. /\ EmptyCache(Nodes) \in [Nodes -> CacheItem]
      /\ Nothing \in [Nodes -> Status \cup {NoNode}]
      /\ Nothing \in [Nodes -> NodeObject \cup {NoNode}]
  BY CacheTyped DEF Nothing
<1>n. Needing \in SUBSET Nodes
  BY DEF Needing, Listed
<1>1. CASE Start
  BY <1>1, <1>l, <1>e, RepairAssumption DEF Start
<1>2. CASE Crash
  BY <1>2, <1>l, <1>e DEF Crash, Terminated, Fault
<1>3. CASE CronTick
  <2>1. PICK done \in SUBSET Discarded :
          /\ Calls(Discarded, done)
          /\ api' = [n \in Nodes |-> IF n \in done THEN [api[n] EXCEPT !.lock = Absent]
                                                  ELSE api[n]]
    BY <1>3, Zenon DEF CronTick, SyncedLocks
  <2>2. api' \in [Nodes -> NodeObject]
    BY <2>1, NodeChanged
  <2>3. \A n \in Listed(list) : list[n].lock \in Annotation
    BY DEF Listed, NodeObject
  <2>4. locks' \in [Nodes -> CacheItem]
    BY <1>3, <2>3, KeptDuration DEF CronTick, SyncedLocks, Kept, Listed, CacheItem
  <2>5. pc' \in Location /\ due' \in Nat
    BY <1>3, <1>l, RepairAssumption DEF CronTick, SyncedLocks
  <2>6. faults' \in Nat
    BY <2>1 DEF Calls, Fault, NoFault
  <2>7. UNCHANGED <<vm, list, snap, cur, self, dryRun, seen, outside>>
    BY <1>3 DEF CronTick, SyncedLocks
  <2> QED BY <2>2, <2>4, <2>5, <2>6, <2>7
<1>4. CASE CronSkip
  BY <1>4, RepairAssumption DEF CronSkip, jobVars
<1>5. CASE ListNodes
  <2>1. /\ \A n \in Nodes : Cleanup(api[n]) \in NodeObject
        /\ \A n \in Listed(list) : StatusOf(list[n]) \in Status
    BY NodeChanged, AgedStatusType DEF Listed
  <2>2. api' \in [Nodes -> NodeObject]
    BY <1>5, <2>1 DEF ListNodes
  <2>3. snap' \in [Nodes -> Status \cup {NoNode}]
    BY <1>5, <2>1 DEF ListNodes
  <2>4. pc' \in Location /\ UNCHANGED <<vm, list, locks, cur, self, dryRun, due, outside>>
    BY <1>5, <1>l DEF ListNodes
  <2>5. faults' \in Nat /\ seen' = Needing
    BY <1>5 DEF ListNodes, Calls, Fault, NoFault
  <2> QED BY <2>2, <2>3, <2>4, <2>5, <1>n
<1>6. ASSUME NEW n \in Nodes, VisitHealthy(n) \/ Skip(n) \/ PretendRepair(n) \/ Repair(n)
      PROVE  TypeOK'
  <2>1. snap' \in [Nodes -> Status \cup {NoNode}]
    BY <1>6 DEF VisitHealthy, Skip, PretendRepair, Repair, Visited
  <2>2. locks' \in [Nodes -> CacheItem]
    BY <1>6, CacheTyped, RepairAssumption DEF VisitHealthy, Skip, PretendRepair, Repair
  <2>3. pc' \in Location /\ cur' \in Nodes \cup {NoNode}
    BY <1>6, <1>l DEF VisitHealthy, Skip, PretendRepair, Repair
  <2>4. UNCHANGED <<api, vm, list, self, dryRun, due, seen, faults, outside>>
    BY <1>6 DEF VisitHealthy, Skip, PretendRepair, Repair, WalkFrame
  <2> QED BY <2>1, <2>2, <2>3, <2>4
<1>7. CASE SelfEvict
  BY <1>7, <1>l, <1>e DEF SelfEvict, Terminated, WalkFrame, Fault, NoFault
<1>8. CASE RunEnds
  BY <1>8, <1>l DEF RunEnds, WalkFrame
<1>9. CASE CheckState \/ PollRepair
  BY <1>9, <1>l DEF CheckState, PollRepair, Goes, Fails, Fault, NoFault
<1>10. CASE BeginRepair
  BY <1>10, <1>l DEF BeginRepair, Goes, Fails, Fault, NoFault, ProvisioningState
<1>11. CASE LockRepaired \/ LockFailed
  <2>1. PICK d \in Nat : Lock(d)
    BY <1>11, RepairAssumption DEF LockRepaired, LockFailed
  <2>2. locks' \in [Nodes -> CacheItem]
    BY <2>1, CacheTyped DEF Lock
  <2>3. api' = [api EXCEPT ![cur] = AnnotationLockSet(@, d, ScaledownLock)] \/ api' = api
    BY <2>1, Zenon DEF Lock
  <2>a. \A n \in Nodes : AnnotationLockSet(api[n], d, ScaledownLock) \in NodeObject
    BY NodeChanged
  <2>4. api' \in [Nodes -> NodeObject]
    BY <2>3, <2>a
  <2>5. /\ pc' \in Location /\ cur' = NoNode /\ seen' = Needing
        /\ UNCHANGED <<vm, list, snap, self, dryRun, due, outside>>
    BY <2>1, <1>l DEF Lock
  <2>6. faults' \in Nat
    BY <2>1 DEF Lock, Fault, NoFault
  <2> QED BY <2>2, <2>4, <2>5, <2>6, <1>n
<1> QED
  BY <1>1, <1>2, <1>3, <1>4, <1>5, <1>6, <1>7, <1>8, <1>9, <1>10, <1>11 DEF Cron, Run

(* What is around the process keeps the types.                             *)
LEMMA AroundType == TypeOK /\ Environment => TypeOK'
<1> SUFFICES ASSUME TypeOK, Environment PROVE TypeOK'
  OBVIOUS
<1> USE DEF TypeOK
<1>1. CASE Crash
  BY <1>1, RunType
<1>2. CASE Janitor
  BY <1>2, CacheTyped DEF Janitor
<1>3. CASE Tick
  <2>1. /\ api' \in [Nodes -> NodeObject]
        /\ list' \in [Nodes -> NodeObject \cup {NoNode}]
        /\ snap' \in [Nodes -> Status \cup {NoNode}]
    BY <1>3, AgedStatusType DEF Tick, Listed
  <2>2. locks' \in [Nodes -> CacheItem]
    BY <1>3, CacheTyped DEF Tick
  <2>3. due' \in Nat /\ UNCHANGED <<vm, pc, cur, self, dryRun, seen, faults, outside>>
    BY <1>3 DEF Tick
  <2> QED BY <2>1, <2>2, <2>3
<1>4. ASSUME NEW n \in Nodes, \/ NodeFails(n) \/ Heartbeat(n) \/ NodeRecovers(n) \/ ToggleCordon(n)
                              \/ AzureCompletes(n) \/ OtherOperation(n)
      PROVE  TypeOK'
  <2>1. 0 \in Silence
    BY RepairAssumption DEF Silence
  <2>2. api' \in [Nodes -> NodeObject]
    <3>1. PICK o \in NodeObject : api' = [api EXCEPT ![n] = o] \/ api' = api
      <4>1. /\ [api[n] EXCEPT !.ready = FALSE] \in NodeObject
            /\ [api[n] EXCEPT !.silent = 0] \in NodeObject
            /\ [api[n] EXCEPT !.ready = TRUE, !.silent = 0] \in NodeObject
            /\ [api[n] EXCEPT !.cordoned = ~@] \in NodeObject
        BY <2>1 DEF NodeObject
      <4>2. \/ api' = [api EXCEPT ![n] = [api[n] EXCEPT !.ready = FALSE]]
            \/ api' = [api EXCEPT ![n] = [api[n] EXCEPT !.silent = 0]]
            \/ api' = [api EXCEPT ![n] = [api[n] EXCEPT !.ready = TRUE, !.silent = 0]]
            \/ api' = [api EXCEPT ![n] = [api[n] EXCEPT !.cordoned = ~@]]
            \/ api' = api
        BY <1>4 DEF NodeFails, Heartbeat, NodeRecovers, ToggleCordon, AzureCompletes,
                    OtherOperation
      <4> QED BY <4>1, <4>2
    <3> QED BY <3>1
  <2>3. vm' \in [Nodes -> ProvisioningState]
    BY <1>4 DEF NodeFails, Heartbeat, NodeRecovers, ToggleCordon, AzureCompletes,
                OtherOperation, ProvisioningState
  <2>4. faults' \in Nat /\ outside' \in Nat
    BY <1>4 DEF NodeFails, Heartbeat, NodeRecovers, ToggleCordon, AzureCompletes,
                OtherOperation, Outside, Fault, NoFault
  <2>5. UNCHANGED <<list, locks, pc, snap, cur, self, dryRun, due, seen>>
    BY <1>4 DEF NodeFails, Heartbeat, NodeRecovers, ToggleCordon, AzureCompletes,
                OtherOperation, Around, jobVars
  <2> QED BY <2>2, <2>3, <2>4, <2>5
<1>5. CASE WatchRestart
  BY <1>5 DEF WatchRestart, Outside, Nothing, jobVars
<1>6. ASSUME NEW n \in Nodes, WatchEvent(n) PROVE TypeOK'
  BY <1>6 DEF WatchEvent, Deliver, jobVars
<1> QED BY <1>1, <1>2, <1>3, <1>4, <1>5, <1>6 DEF Environment

LEMMA NextType == TypeOK /\ [Next]_vars => TypeOK'
<1>1. TypeOK /\ UNCHANGED vars => TypeOK'
  BY DEF TypeOK, vars, jobVars
<1> QED BY <1>1, RunType, AroundType DEF Next

(* Type correctness; in particular the lock cache never gets an item whose *)
(* time has passed.                                                        *)
THEOREM TypeCorrect == Spec => []TypeOK
  BY InitType, NextType, PTL DEF Spec

-----------------------------------------------------------------------------
(* The node under repair *)

(* The node under repair has been visited: the walk does not come back to  *)
(* it.                                                                     *)
CandidateInv == TypeOK /\ (pc \in InRepair => cur \in Nodes /\ snap[cur] = NoNode)

(* What time does to the snapshot: the nodes still to be visited remain.   *)
LEMMA AgedListed ==
    ASSUME TypeOK, Tick
    PROVE  \A n \in Nodes : snap'[n] = NoNode <=> snap[n] = NoNode
  BY StatusAssumption, AgedStatusType DEF TypeOK, Tick, Listed

LEMMA NextCandidate == CandidateInv /\ [Next]_vars => CandidateInv'
<1> SUFFICES ASSUME CandidateInv, [Next]_vars, pc' \in InRepair
             PROVE  cur' \in Nodes /\ snap'[cur'] = NoNode
  BY NextType DEF CandidateInv
<1>0. TypeOK /\ snap \in [Nodes -> Status \cup {NoNode}]
  BY DEF CandidateInv, TypeOK
<1> USE DEF InRepair
<1>1. ASSUME NEW n \in Nodes, Repair(n) PROVE cur' \in Nodes /\ snap'[cur'] = NoNode
  BY <1>0, <1>1 DEF Repair, Visited
<1>2. CASE CheckState \/ BeginRepair \/ PollRepair
  BY <1>2 DEF CandidateInv, CheckState, BeginRepair, PollRepair, Goes, Fails
<1>3. CASE Tick
  BY <1>0, <1>3, AgedListed DEF CandidateInv, Tick
<1>4. CASE \/ CronSkip \/ Janitor \/ WatchRestart \/ UNCHANGED vars
           \/ \E n \in Nodes : \/ NodeFails(n) \/ Heartbeat(n) \/ NodeRecovers(n)
                              \/ ToggleCordon(n) \/ AzureCompletes(n) \/ OtherOperation(n)
                              \/ WatchEvent(n)
  <2>1. UNCHANGED <<pc, cur, snap>>
    BY <1>4 DEF CronSkip, Janitor, WatchRestart, WatchEvent, Deliver, vars, jobVars, NodeFails,
                Heartbeat, NodeRecovers, ToggleCordon, AzureCompletes, OtherOperation, Around
  <2> QED BY <2>1 DEF CandidateInv
<1>5. CASE \/ Start \/ Crash \/ CronTick \/ ListNodes \/ SelfEvict \/ RunEnds \/ LockRepaired
           \/ LockFailed \/ \E n \in Nodes : VisitHealthy(n) \/ Skip(n) \/ PretendRepair(n)
  <2>1. pc' \notin InRepair
    BY <1>5 DEF Start, Crash, Terminated, CronTick, SyncedLocks, ListNodes, SelfEvict, RunEnds, LockRepaired,
                LockFailed, Lock, VisitHealthy, Skip, PretendRepair, At
  <2> QED BY <2>1
<1> QED BY <1>1, <1>2, <1>3, <1>4, <1>5 DEF Next, Cron, Run, Environment

LEMMA CandidateInvariant == Spec => []CandidateInv
<1>1. Init => CandidateInv
  BY InitType DEF Init, CandidateInv, InRepair
<1> QED BY <1>1, NextCandidate, PTL DEF Spec

-----------------------------------------------------------------------------
(* WithinLimit: the lock cache and repair.concurrency *)

LEMMA NextWithinLimit == CandidateInv /\ WithinLimit /\ [Next]_vars => WithinLimit'
<1> SUFFICES ASSUME CandidateInv, WithinLimit, [Next]_vars, RepairLimit > 0
             PROVE  /\ pc' \in InRun => ItemCount(locks') <= RepairLimit
                    /\ pc' \in InRepair => ItemCount(locks') < RepairLimit
  BY DEF WithinLimit
<1> DEFINE Limited == /\ pc' \in InRun => ItemCount(locks') <= RepairLimit
                      /\ pc' \in InRepair => ItemCount(locks') < RepairLimit
<1>0. /\ TypeOK /\ locks \in [Nodes -> CacheItem] /\ locks' \in [Nodes -> CacheItem]
      /\ IsFiniteSet(Nodes) /\ RepairLimit \in Nat
  BY NextType, RepairAssumption DEF CandidateInv, TypeOK
<1>c. /\ ItemCount(locks) \in Nat /\ ItemCount(locks') \in Nat
      /\ \A n \in Nodes, d \in Nat : ItemCount(CacheAdd(locks, n, d)) <= ItemCount(locks) + 1
      /\ \A n \in Nodes : ItemCount(CacheDelete(locks, n)) <= ItemCount(locks)
      /\ ItemCount(DeleteExpired(locks)) <= ItemCount(locks)
      /\ ItemCount(CacheAged(locks)) <= ItemCount(locks)
  BY <1>0, ItemsCounted
<1> USE DEF WithinLimit, InRun, InRepair
<1>1. CASE LockRepaired \/ LockFailed
  <2>1. PICK d \in Nat : locks' = CacheAdd(locks, cur, d)
    BY <1>1, RepairAssumption DEF LockRepaired, LockFailed, Lock
  <2>2. cur \in Nodes /\ pc \in InRepair /\ pc' = "next"
    BY <1>1 DEF LockRepaired, LockFailed, Lock, CandidateInv
  <2> QED BY <1>c, <1>0, <2>1, <2>2
<1>2. ASSUME NEW n \in Nodes, VisitHealthy(n) \/ Skip(n) \/ PretendRepair(n) \/ Repair(n)
      PROVE  Limited
  <2>1. CASE VisitHealthy(n) \/ Skip(n)
    <3>1. pc = "next" /\ pc' = "next" /\ ItemCount(locks') <= ItemCount(locks)
      BY <2>1, <1>c DEF VisitHealthy, Skip, At
    <3> QED BY <3>1, <1>c, <1>0
  <2>2. CASE PretendRepair(n)
    <3>1. pc = "next" /\ pc' = "next" /\ ItemCount(locks') <= ItemCount(locks) + 1
      BY <2>2, <1>c, RepairAssumption DEF PretendRepair, At
    <3>2. ItemCount(locks) < RepairLimit
      BY <2>2, <1>c, <1>0 DEF PretendRepair, Admitted, LimitReached
    <3> QED BY <3>1, <3>2, <1>c, <1>0
  <2>3. CASE Repair(n)
    BY <2>3, <1>c, <1>0 DEF Repair, Admitted, LimitReached
  <2> QED BY <1>2, <2>1, <2>2, <2>3
<1>3. CASE CronTick
  <2>1. pc' \notin InRepair /\ (pc' \in InRun => ~LimitReached')
    BY <1>3 DEF CronTick, SyncedLocks
  <2> QED BY <1>c, <1>0, <2>1 DEF LimitReached
<1>4. CASE Janitor \/ Tick
  <2>1. pc' = pc /\ ItemCount(locks') <= ItemCount(locks)
    BY <1>4, <1>c DEF Janitor, Tick
  <2> QED BY <1>c, <1>0, <2>1
<1>5. CASE Start \/ Crash \/ SelfEvict \/ RunEnds
  <2>1. pc' \notin InRun
    BY <1>5 DEF Start, Crash, Terminated, SelfEvict, RunEnds
  <2> QED BY <2>1
<1>6. CASE \/ CronSkip \/ ListNodes \/ CheckState \/ BeginRepair \/ PollRepair \/ UNCHANGED vars
           \/ WatchRestart
           \/ \E n \in Nodes : \/ NodeFails(n) \/ Heartbeat(n) \/ NodeRecovers(n)
                              \/ ToggleCordon(n) \/ AzureCompletes(n) \/ OtherOperation(n)
                              \/ WatchEvent(n)
  <2>1. locks' = locks /\ (pc' \in InRun => pc \in InRun) /\ (pc' \in InRepair => pc \in InRepair)
    BY <1>6 DEF CronSkip, ListNodes, CheckState, BeginRepair, PollRepair, Goes, Fails, vars,
                jobVars, NodeFails, Heartbeat, NodeRecovers, ToggleCordon, AzureCompletes,
                OtherOperation, Around, WatchRestart, WatchEvent, Deliver
  <2> QED BY <2>1
<1> QED BY <1>1, <1>2, <1>3, <1>4, <1>5, <1>6 DEF Next, Cron, Run, Environment

(* The repair job never works on a node while its lock cache is full, and  *)
(* so never holds more locks than repair.concurrency: in dry runs, too, and*)
(* although the walk deletes the locks of healthy nodes.                   *)
THEOREM LocksWithinLimit == Spec => []WithinLimit
<1>1. Init => WithinLimit
  BY DEF Init, WithinLimit, InRun, InRepair
<1> QED BY <1>1, NextWithinLimit, CandidateInvariant, PTL DEF Spec

-----------------------------------------------------------------------------
(* RepairsNeeded: the snapshot and the list *)

(* Until a node is locked in a walk, the walk has not waited, and what is  *)
(* left of its snapshot has been in the list since it began.               *)
Fresh == \A n \in Nodes : snap[n] # NoNode /\ NeedsRepair(snap[n]) => n \in seen
FreshInv ==
    pc = "next" => \/ Fresh
                   \/ \E m \in Nodes : snap[m] = NoNode /\ CacheHolds(locks, m)

LEMMA NextFresh == CandidateInv /\ FreshInv /\ [Next]_vars => FreshInv'
<1> SUFFICES ASSUME CandidateInv, FreshInv, [Next]_vars, pc' = "next" PROVE FreshInv'
  BY DEF FreshInv
<1>0. TypeOK /\ TypeOK'
  BY NextType DEF CandidateInv
<1>1. CASE ListNodes
  <2>1. \A n \in Nodes : IF n \in Listed(list) THEN snap'[n] = StatusOf(list[n]) ELSE snap'[n] = NoNode
    BY <1>1 DEF ListNodes
  <2>2. \A n \in Listed(list) : NeedsRepair(StatusOf(list[n])) => n \in Needing
    BY DEF Needing, NeedsRepair, StatusOf
  <2>3. seen' = Needing
    BY <1>1 DEF ListNodes
  <2> QED BY <2>1, <2>2, <2>3 DEF FreshInv, Fresh
<1>2. CASE LockRepaired \/ LockFailed
  <2>1. PICK d \in Nat \ {0} : locks' = CacheAdd(locks, cur, d)
    BY <1>2, RepairAssumption DEF LockRepaired, LockFailed, Lock
  <2>2. cur \in Nodes /\ snap[cur] = NoNode /\ snap' = snap
    BY <1>2 DEF LockRepaired, LockFailed, Lock, CandidateInv, InRepair
  <2>3. CacheHolds(locks', cur)
    <3>1. d # Absent
      BY AnnotationAssumption
    <3> QED BY <3>1, <2>1, <2>2, <1>0 DEF TypeOK, CacheAdd, CacheHolds
  <2> QED BY <2>2, <2>3 DEF FreshInv
<1>3. ASSUME NEW n \in Nodes, VisitHealthy(n) \/ Skip(n) \/ PretendRepair(n) PROVE FreshInv'
  <2>1. /\ pc = "next" /\ snap[n] # NoNode /\ snap' = [snap EXCEPT ![n] = NoNode] /\ seen' = seen
        /\ \A m \in Nodes \ {n} : locks'[m] = locks[m]
    BY <1>3, <1>0 DEF VisitHealthy, Skip, PretendRepair, At, Listed, Visited, WalkFrame, CacheAdd,
                      CacheDelete, TypeOK
  <2>2. CASE Fresh
    BY <2>1, <2>2, <1>0 DEF FreshInv, Fresh, TypeOK
  <2>3. CASE \E m \in Nodes : snap[m] = NoNode /\ CacheHolds(locks, m)
    BY <2>1, <2>3, <1>0 DEF FreshInv, CacheHolds, TypeOK
  <2> QED BY <2>1, <2>2, <2>3 DEF FreshInv
<1>4. CASE Janitor
  <2>1. \A m \in Nodes : CacheHolds(locks, m) => CacheHolds(locks', m)
    BY <1>4, <1>0 DEF Janitor, DeleteExpired, CacheHolds, TypeOK
  <2>2. UNCHANGED <<pc, snap, seen>>
    BY <1>4 DEF Janitor
  <2> QED BY <2>1, <2>2 DEF FreshInv, Fresh
<1>5. CASE \/ WatchRestart \/ UNCHANGED vars
           \/ \E n \in Nodes : \/ NodeFails(n) \/ Heartbeat(n) \/ NodeRecovers(n)
                              \/ ToggleCordon(n) \/ AzureCompletes(n) \/ OtherOperation(n)
                              \/ WatchEvent(n)
  <2>1. UNCHANGED <<pc, snap, locks>> /\ seen \subseteq seen'
    BY <1>5 DEF WatchRestart, vars, jobVars, NodeFails, Heartbeat, NodeRecovers, ToggleCordon,
                AzureCompletes, OtherOperation, Around, WatchEvent, Deliver
  <2> QED BY <2>1 DEF FreshInv, Fresh
<1>6. CASE \/ Start \/ Crash \/ CronTick \/ CronSkip \/ SelfEvict \/ RunEnds \/ CheckState
           \/ BeginRepair \/ PollRepair \/ Tick \/ \E n \in Nodes : Repair(n)
  <2>1. pc' # "next"
    BY <1>6 DEF Start, Crash, Terminated, CronTick, SyncedLocks, CronSkip, SelfEvict, RunEnds, CheckState,
                BeginRepair, PollRepair, Goes, Fails, Tick, Repair, jobVars
  <2> QED BY <2>1
<1> QED BY <1>1, <1>2, <1>3, <1>4, <1>5, <1>6 DEF Next, Cron, Run, Environment

(* Only Repair takes up a node. *)
LEMMA OnlyRepairStarts ==
    ASSUME TypeOK, [Next]_vars, pc = "next", pc' = "check"
    PROVE  \E n \in Nodes : Repair(n)
<1>1. CASE Cron \/ Environment \/ UNCHANGED vars
  BY <1>1 DEF Cron, CronTick, SyncedLocks, CronSkip, Environment, Crash, Terminated, Janitor, Tick, NodeFails,
              Heartbeat, NodeRecovers, ToggleCordon, AzureCompletes, OtherOperation, Around, vars,
              jobVars, WatchRestart, WatchEvent, Deliver
<1>2. CASE Run
  BY <1>2 DEF Run, Start, ListNodes, SelfEvict, Terminated, RunEnds, CheckState, BeginRepair,
              PollRepair, LockRepaired, LockFailed, Lock, VisitHealthy, Skip, PretendRepair, WalkFrame
<1> QED BY <1>1, <1>2 DEF Next

(* With a concurrency of one, a repair starts only on a node that the watch*)
(* has shown to need it since the run listed the nodes or last waited for  *)
(* Azure, however far the watch is behind: the lock of the first repair    *)
(* ends the walk before its snapshot is too old.                           *)
THEOREM RepairsAreNeeded == ASSUME RepairLimit = 1 PROVE Spec => RepairsNeeded
<1>1. Init => FreshInv
  BY DEF Init, FreshInv
<1>2. ASSUME CandidateInv, FreshInv, [Next]_vars, NEW n \in Nodes,
             pc = "next", pc' = "check", cur' = n
      PROVE  n \in seen
  <2>1. Repair(n)
    BY <1>2, OnlyRepairStarts DEF CandidateInv, Repair
  <2>2. snap[n] # NoNode /\ NeedsRepair(snap[n]) /\ ~(ItemCount(locks) >= 1)
    BY <2>1, RepairAssumption DEF Repair, At, Listed, Admitted, LimitReached
  <2>3. ~\E m \in Nodes : CacheHolds(locks, m)
    <3>1. locks \in [Nodes -> CacheItem] /\ IsFiniteSet(Nodes)
      BY <1>2, RepairAssumption DEF CandidateInv, TypeOK
    <3>2. (\E m \in Nodes : locks[m] # Absent) => ItemCount(locks) >= 1
      BY <3>1, ItemsCounted
    <3> QED BY <2>2, <3>2 DEF CacheHolds
  <2> QED BY <1>2, <2>2, <2>3 DEF FreshInv, Fresh
<1>3. CandidateInv /\ FreshInv /\ [Next]_vars =>
        [\A n \in Nodes : pc = "next" /\ pc' = "check" /\ cur' = n => n \in seen]_vars
  BY <1>2
<1> QED BY <1>1, <1>3, NextFresh, CandidateInvariant, PTL DEF Spec, RepairsNeeded
=============================================================================
