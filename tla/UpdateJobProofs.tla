--------------------------- MODULE UpdateJobProofs ---------------------------
(***************************************************************************)
(* Proofs about the update job, for every finite set of nodes: type        *)
(* correctness, the safety properties that the runs of MCUpdateJob check,  *)
(* and that UpdateJob implements UpdateProtocol.                           *)
(*                                                                         *)
(* The argument follows the candidate.  CandidateInv says what a run has   *)
(* established about the node it works on at each place of its program     *)
(* (marked from MarkOngoing to Unmark, updated from PollUpdate on);        *)
(* AloneInv, what the candidate loop knows of the other nodes; ApplyInv,   *)
(* that Azure only updates marked instances.                               *)
(***************************************************************************)
EXTENDS UpdateJob, NodeAnnotationsProofs

-----------------------------------------------------------------------------
(* Lock annotations and lock caches *)

(* The operations of the lock cache keep its type. *)
LEMMA CacheType ==
    ASSUME NEW cache \in [Nodes -> CacheItem]
    PROVE  /\ EmptyCache(Nodes) \in [Nodes -> CacheItem]
           /\ \A n, d : d \in Nat => CacheAdd(cache, n, d) \in [Nodes -> CacheItem]
           /\ DeleteExpired(cache) \in [Nodes -> CacheItem]
           /\ CacheAged(cache) \in [Nodes -> CacheItem]
BY CacheTyped

(* Time leaves a view of the node list a view of the node list.            *)
LEMMA AgedViewType ==
    \A view \in [Nodes -> NodeObject \cup {NoNode}] :
        AgedView(view) \in [Nodes -> NodeObject \cup {NoNode}]
BY AgedType DEF AgedView, AgedNode, NodeObject

(* Time leaves the node objects of the API server node objects.            *)
LEMMA AgedApiType ==
    \A view \in [Nodes -> NodeObject] : AgedView(view) \in [Nodes -> NodeObject]
BY AgedType DEF AgedView, AgedNode, NodeObject

(* A patch of one node, by whichever call, leaves node objects. *)
LEMMA NodePatched ==
    ASSUME NEW view \in [Nodes -> NodeObject], NEW n
    PROVE  /\ \A b \in BOOLEAN :
                /\ [view EXCEPT ![n].cordoned = b] \in [Nodes -> NodeObject]
                /\ [view EXCEPT ![n].ongoing = b] \in [Nodes -> NodeObject]
                /\ [view EXCEPT ![n].excluded = b] \in [Nodes -> NodeObject]
                /\ [view EXCEPT ![n].ongoing = TRUE, ![n].disable = b]
                      \in [Nodes -> NodeObject]
           /\ \A d \in Nat :
                [view EXCEPT ![n] = AnnotationLockSet(@, d, ScaledownLock)] \in [Nodes -> NodeObject]
<1>1. CASE n \in Nodes
  <2>1. ASSUME NEW d \in Nat, NEW o \in NodeObject
        PROVE  AnnotationLockSet(o, d, ScaledownLock) \in NodeObject
    <3>1. d \in Annotation /\ ScaledownLock \in Annotation
      BY UpdateAssumption DEF Annotation
    <3>2. /\ [o EXCEPT !.lock = d] \in NodeObject
          /\ [o EXCEPT !.lock = d, !.expire = ScaledownLock, !.disable = TRUE]
                \in NodeObject
      BY <3>1 DEF NodeObject
    <3> QED
      BY <3>2 DEF AnnotationLockSet
  <2>2. view[n] \in NodeObject
    BY <1>1
  <2>3. \A b \in BOOLEAN :
            /\ [view EXCEPT ![n].cordoned = b] \in [Nodes -> NodeObject]
            /\ [view EXCEPT ![n].ongoing = b] \in [Nodes -> NodeObject]
            /\ [view EXCEPT ![n].excluded = b] \in [Nodes -> NodeObject]
    BY <1>1 DEF NodeObject
  <2>4. \A b \in BOOLEAN : [view EXCEPT ![n].ongoing = TRUE, ![n].disable = b]
                                \in [Nodes -> NodeObject]
    BY <1>1 DEF NodeObject
  <2>5. \A d \in Nat :
            [view EXCEPT ![n] = AnnotationLockSet(@, d, ScaledownLock)] \in [Nodes -> NodeObject]
    BY <1>1, <2>1, <2>2
  <2> QED
    BY <2>3, <2>4, <2>5
<1>2. CASE n \notin Nodes
  BY <1>2 DEF NodeObject
<1> QED
  BY <1>1, <1>2

(* A patch of the candidate leaves node objects.                           *)
LEMMA ApiPatched ==
    ASSUME api \in [Nodes -> NodeObject]
    PROVE  /\ [api EXCEPT ![cur].cordoned = TRUE] \in [Nodes -> NodeObject]
           /\ [api EXCEPT ![cur].cordoned = FALSE] \in [Nodes -> NodeObject]
           /\ [api EXCEPT ![cur].ongoing = TRUE, ![cur].disable = TRUE]
                \in [Nodes -> NodeObject]
           /\ [api EXCEPT ![cur].ongoing = FALSE] \in [Nodes -> NodeObject]
           /\ [api EXCEPT ![cur] = AnnotationLockSet(@, UpdateLock, ScaledownLock)]
                \in [Nodes -> NodeObject]
           /\ [api EXCEPT ![cur] = AnnotationLockSet(@, UpdateLockError, ScaledownLock)]
                \in [Nodes -> NodeObject]
BY UpdateAssumption, NodePatched

(* The same for several nodes, one call each.                              *)
LEMMA NodesPatched ==
    ASSUME api \in [Nodes -> NodeObject], NEW S
    PROVE  /\ [n \in Nodes |-> IF n \in S THEN [api[n] EXCEPT !.cordoned = FALSE]
                                         ELSE api[n]] \in [Nodes -> NodeObject]
           /\ [n \in Nodes |-> IF n \in S THEN [api[n] EXCEPT !.lock = Absent]
                                         ELSE api[n]] \in [Nodes -> NodeObject]
BY DEF NodeObject, Annotation

(* Cleanup leaves node objects.                                            *)
LEMMA CleanedType ==
    ASSUME api \in [Nodes -> NodeObject]
    PROVE  \A S : Cleaned(S) \in [Nodes -> NodeObject]
<1> SUFFICES ASSUME NEW S, NEW n \in Nodes
             PROVE  [api[n] EXCEPT !.expire = Absent, !.disable = FALSE] \in NodeObject
  BY DEF Cleaned, Cleanup
<1>1. Absent \in Annotation
  BY DEF Annotation
<1> QED
  BY <1>1 DEF NodeObject

(* What Azure writes into an instance is an instance.                      *)
LEMMA InstancePatched ==
    ASSUME vm \in [Nodes -> Instance], NEW n
    PROVE  /\ \A s \in ProvisioningState :
                /\ [vm EXCEPT ![n].state = s] \in [Nodes -> Instance]
                /\ \A c \in BOOLEAN :
                     /\ [vm EXCEPT ![n].state = s, ![n].coming = c] \in [Nodes -> Instance]
                     /\ [vm EXCEPT ![n].coming = c, ![n].state = s] \in [Nodes -> Instance]
                     /\ \A b \in BOOLEAN :
                          [vm EXCEPT ![n].latest = b, ![n].coming = c, ![n].state = s]
                             \in [Nodes -> Instance]
           /\ [m \in Nodes |-> [vm[m] EXCEPT !.latest = FALSE, !.coming = FALSE]]
                 \in [Nodes -> Instance]
<1>1. CASE n \in Nodes
  BY <1>1 DEF Instance
<1>2. CASE n \notin Nodes
  BY <1>2 DEF Instance
<1> QED
  BY <1>1, <1>2

(* A change of one instance keeps the type of the scale set.               *)
LEMMA VmPatched ==
    ASSUME vm \in [Nodes -> Instance]
    PROVE  /\ [vm EXCEPT ![cur].state = "updating", ![cur].coming = TRUE]
                 \in [Nodes -> Instance]
           /\ [vm EXCEPT ![cur].state = "redeploying"] \in [Nodes -> Instance]
BY InstancePatched DEF ProvisioningState

(* A change of every instance keeps the type of the scale set.             *)
LEMMA VmChanged ==
    ASSUME vm \in [Nodes -> Instance], NEW n \in Nodes
    PROVE  /\ [vm EXCEPT ![n].state = "failed"] \in [Nodes -> Instance]
           /\ [vm EXCEPT ![n].state = "succeeded"] \in [Nodes -> Instance]
           /\ [vm EXCEPT ![n].coming = FALSE, ![n].state = "failed"] \in [Nodes -> Instance]
           /\ [vm EXCEPT ![n].latest = @ \/ (vm[n].state = "updating" /\ vm[n].coming),
                         ![n].coming = FALSE, ![n].state = "succeeded"] \in [Nodes -> Instance]
BY InstancePatched DEF ProvisioningState, Instance

(* The history of promised waiting times keeps its type.                   *)
LEMMA PromiseType ==
    ASSUME promised \in [Nodes -> Nat]
    PROVE  /\ [promised EXCEPT ![cur] = UpdateLock] \in [Nodes -> Nat]
           /\ [promised EXCEPT ![cur] = UpdateLockError] \in [Nodes -> Nat]
BY UpdateAssumption

-----------------------------------------------------------------------------
(* Types *)

(* The initial states are well typed.                                      *)
LEMMA InitType == Init => TypeOK
<1> SUFFICES ASSUME Init PROVE TypeOK
  OBVIOUS
<1> USE UpdateAssumption, AnnotationAssumption
<1>1. api \in [Nodes -> NodeObject]
  <2>1. {Absent, Invalid} \subseteq Annotation
    BY DEF Annotation
  <2>2. \A l \in {Absent, Invalid} :
            [cordoned |-> FALSE, ongoing |-> FALSE, excluded |-> FALSE, lock |-> l,
             expire |-> Absent, disable |-> FALSE] \in NodeObject
    BY <2>1 DEF NodeObject
  <2> QED
    BY <2>2 DEF Init
<1>2. vm \in [Nodes -> Instance]
  BY DEF Init, Instance, ProvisioningState
<1>3. locks \in [Nodes -> CacheItem]
  BY DEF Init, EmptyCache, CacheItem
<1> QED
  BY <1>1, <1>2, <1>3 DEF Init, TypeOK, Nothing, Location

(* Every step, one action after the other, keeps every variable in its     *)
(* type.                                                                   *)
LEMMA NextType == TypeOK /\ [Next]_vars => TypeOK'
<1> SUFFICES ASSUME TypeOK, [Next]_vars PROVE TypeOK'
  OBVIOUS
<1> USE UpdateAssumption, AnnotationAssumption
<1>a. api \in [Nodes -> NodeObject] /\ vm \in [Nodes -> Instance] /\ locks \in [Nodes -> CacheItem]
  BY DEF TypeOK
<1>1. CASE Start
  <2>1. locks' \in [Nodes -> CacheItem]
    BY <1>1, <1>a, CacheType DEF Start
  <2> QED
    BY <1>1, <2>1 DEF Start, TypeOK, Fault, NoFault, Faults, Calls, Outside, jobVars, history, Location, InRun, InNode, Waiting
<1>2. CASE Crash
  <2>1. locks' \in [Nodes -> CacheItem]
    BY <1>2, <1>a, CacheType DEF Crash, Terminated
  <2> QED
    BY <1>2, <2>1 DEF Crash, TypeOK, Fault, NoFault, Faults, Calls, Outside, jobVars, history, Location, InRun, InNode, Waiting, Terminated, Nothing
<1>3. CASE CronTick
  <2>1. PICK done : api' = [n \in Nodes |-> IF n \in done
                                          THEN [api[n] EXCEPT !.cordoned = FALSE]
                                          ELSE api[n]]
    BY <1>3 DEF CronTick
  <2>2. api' \in [Nodes -> NodeObject]
    BY <2>1, <1>a, NodesPatched, Zenon
  <2> QED
    BY <1>3, <2>1, <2>2 DEF CronTick, TypeOK, Fault, NoFault, Faults, Calls, Outside, jobVars, history, Location, InRun, InNode, Waiting
<1>4. CASE CronSkip
  BY <1>4 DEF CronSkip, TypeOK, Fault, NoFault, Faults, Calls, Outside, jobVars, history, Location, InRun, InNode, Waiting
<1>5. CASE SyncLocks
  <2>1. PICK done : api' = [n \in Nodes |-> IF n \in done
                                          THEN [api[n] EXCEPT !.lock = Absent]
                                          ELSE api[n]]
    BY <1>5 DEF SyncLocks
  <2>2. api' \in [Nodes -> NodeObject]
    BY <2>1, <1>a, NodesPatched, Zenon
  <2>3. locks' \in [Nodes -> CacheItem]
    BY <1>5, KeptDuration DEF SyncLocks, TypeOK, NodeObject, CacheItem, Kept, Listed
  <2> QED
    BY <1>5, <2>1, <2>2, <2>3 DEF SyncLocks, TypeOK, Fault, NoFault, Faults, Calls, Outside, jobVars, history, Location, InRun, InNode, Waiting
<1>6. CASE ListNodes
  <2>1. PICK done : api' = Cleaned(done)
    BY <1>6 DEF ListNodes
  <2>2. api' \in [Nodes -> NodeObject]
    BY <2>1, <1>a, CleanedType, Zenon
  <2> QED
    BY <1>6, <2>1, <2>2 DEF ListNodes, TypeOK, Fault, NoFault, Faults, Calls, Outside, jobVars, history, Location, InRun, InNode, Waiting, Listed
<1>7. CASE RefreshAzure
  BY <1>7 DEF RefreshAzure, TypeOK, Fault, NoFault, Faults, Calls, Outside, jobVars, history, Location, InRun, InNode, Waiting, RunEnds, Nothing, Candidates, Ongoing, Outdated, Listed
<1>8. CASE NextNode
  BY <1>8 DEF NextNode, TypeOK, Fault, NoFault, Faults, Calls, Outside, jobVars, history, Location, InRun, InNode, Waiting, RunEnds, Nothing
<1>9. CASE SelfEvict
  <2>1. locks' = locks \/ locks' = EmptyCache(Nodes)
    BY <1>9 DEF SelfEvict, Terminated
  <2>2. locks' \in [Nodes -> CacheItem]
    BY <2>1, <1>a, CacheType
  <2> QED
    BY <1>9, <2>1, <2>2 DEF SelfEvict, TypeOK, Fault, NoFault, Faults, Calls, Outside, jobVars, history, Location, InRun, InNode, Waiting, Terminated, Nothing
<1>10. CASE MarkOngoing
  <2>1. \/ api' = api
          \/ api' = [api EXCEPT ![cur].ongoing = TRUE, ![cur].disable = TRUE]
    BY <1>10 DEF MarkOngoing
  <2>2. api' \in [Nodes -> NodeObject]
    BY <2>1, <1>a, ApiPatched, Zenon
  <2> QED
    BY <1>10, <2>1, <2>2 DEF MarkOngoing, TypeOK, Fault, NoFault, Faults, Calls, Outside, jobVars, history, Location, InRun, InNode, Waiting, NodeFrame, Goes, Fails
<1>11. CASE CheckState \/ DrainReturns
  BY <1>11 DEF CheckState, DrainReturns, DrainFails, TypeOK, Fault, NoFault, Faults, Calls, Outside, jobVars, history, Location, InRun, InNode, Waiting, NodeFrame, Goes, Fails
<1>12. CASE Drain
  <2>1. \/ api' = api
          \/ api' = [api EXCEPT ![cur].cordoned = TRUE]
    BY <1>12 DEF Drain, DrainFails
  <2>2. api' \in [Nodes -> NodeObject]
    BY <2>1, <1>a, ApiPatched, Zenon
  <2> QED
    BY <1>12, <2>1, <2>2 DEF Drain, DrainFails, TypeOK, Fault, NoFault, Faults, Calls, Outside, jobVars, history, Location, InRun, InNode, Waiting, NodeFrame, Goes, Fails
<1>13. CASE BeginUpdate
  <2>1. \/ vm' = vm
          \/ vm' = [vm EXCEPT ![cur].state = "updating", ![cur].coming = TRUE]
    BY <1>13 DEF BeginUpdate
  <2>2. vm' \in [Nodes -> Instance]
    BY <2>1, <1>a, VmPatched, Zenon
  <2> QED
    BY <1>13, <2>1, <2>2 DEF BeginUpdate, TypeOK, Fault, NoFault, Faults, Calls, Outside, jobVars, history, Location, InRun, InNode, Waiting, NodeFrame, Goes, Fails
<1>14. CASE PollUpdate
  BY <1>14 DEF PollUpdate, TypeOK, Fault, NoFault, Faults, Calls, Outside, jobVars, history, Location, InRun, InNode, Waiting, NodeFrame, Goes, Fails
<1>15. CASE BeginRedeploy
  <2>1. \/ vm' = vm
          \/ vm' = [vm EXCEPT ![cur].state = "redeploying"]
    BY <1>15 DEF BeginRedeploy
  <2>2. vm' \in [Nodes -> Instance]
    BY <2>1, <1>a, VmPatched, Zenon
  <2> QED
    BY <1>15, <2>1, <2>2 DEF BeginRedeploy, TypeOK, Fault, NoFault, Faults, Calls, Outside, jobVars, history, Location, InRun, InNode, Waiting, NodeFrame, Goes, Fails
<1>16. CASE PollRedeploy
  BY <1>16 DEF PollRedeploy, TypeOK, Fault, NoFault, Faults, Calls, Outside, jobVars, history, Location, InRun, InNode, Waiting, NodeFrame, Goes, Fails
<1>17. CASE Uncordon
  <2>1. \/ api' = api
          \/ api' = [api EXCEPT ![cur].cordoned = FALSE]
    BY <1>17 DEF Uncordon
  <2>2. api' \in [Nodes -> NodeObject]
    BY <2>1, <1>a, ApiPatched, Zenon
  <2> QED
    BY <1>17, <2>1, <2>2 DEF Uncordon, TypeOK, Fault, NoFault, Faults, Calls, Outside, jobVars, history, Location, InRun, InNode, Waiting, NodeFrame, Goes, Fails
<1>18. CASE Unmark
  <2>1. \/ api' = api
          \/ api' = [api EXCEPT ![cur].ongoing = FALSE]
    BY <1>18 DEF Unmark
  <2>2. api' \in [Nodes -> NodeObject]
    BY <2>1, <1>a, ApiPatched, Zenon
  <2> QED
    BY <1>18, <2>1, <2>2 DEF Unmark, TypeOK, Fault, NoFault, Faults, Calls, Outside, jobVars, history, Location, InRun, InNode, Waiting, NodeFrame, Goes, Fails
<1>19. CASE LockUpdated
  <2>1. \/ api' = api
          \/ api' = [api EXCEPT ![cur] = AnnotationLockSet(@, UpdateLock, ScaledownLock)]
    BY <1>19 DEF LockUpdated, Lock
  <2>2. api' \in [Nodes -> NodeObject]
    BY <2>1, <1>a, ApiPatched, Zenon
  <2>3. locks' \in [Nodes -> CacheItem]
    BY <1>19, <1>a, CacheType DEF LockUpdated, Lock
  <2>4. promised' \in [Nodes -> Nat]
    BY <1>19, PromiseType DEF LockUpdated, Lock, TypeOK
  <2> QED
    BY <1>19, <2>2, <2>3, <2>4 DEF LockUpdated, TypeOK, Fault, NoFault, Faults, Calls, Outside, jobVars, history, Location, InRun, InNode, Waiting, Lock
<1>20. CASE LockFailed
  <2>1. \/ api' = api
          \/ api' = [api EXCEPT ![cur] = AnnotationLockSet(@, UpdateLockError, ScaledownLock)]
    BY <1>20 DEF LockFailed, Lock
  <2>2. api' \in [Nodes -> NodeObject]
    BY <2>1, <1>a, ApiPatched, Zenon
  <2>3. locks' \in [Nodes -> CacheItem]
    BY <1>20, <1>a, CacheType DEF LockFailed, Lock
  <2>4. promised' \in [Nodes -> Nat]
    BY <1>20, PromiseType DEF LockFailed, Lock, TypeOK
  <2> QED
    BY <1>20, <2>2, <2>3, <2>4 DEF LockFailed, TypeOK, Fault, NoFault, Faults, Calls, Outside, jobVars, history, Location, InRun, InNode, Waiting, Lock, RunEnds, Nothing
<1>21. CASE WatchRestart
  BY <1>21 DEF WatchRestart, TypeOK, Fault, NoFault, Faults, Calls, Outside, jobVars, history, Location, InRun, InNode, Waiting, Nothing
<1>22. CASE NewModel
  <2>1. vm' = [n \in Nodes |-> [vm[n] EXCEPT !.latest = FALSE, !.coming = FALSE]]
    BY <1>22 DEF NewModel
  <2>2. vm' \in [Nodes -> Instance]
    BY <2>1, <1>a, InstancePatched, Zenon
  <2>3. Outside /\ UNCHANGED <<api, list, jobVars, due, history, faults>>
    BY <1>22, Zenon DEF NewModel
  <2> QED
    BY <2>2, <2>3 DEF TypeOK, Outside, jobVars, history
<1>23. CASE RepairCleanup
  <2>1. PICK done : api' = Cleaned(done)
    BY <1>23 DEF RepairCleanup
  <2>2. api' \in [Nodes -> NodeObject]
    BY <2>1, <1>a, CleanedType, Zenon
  <2> QED
    BY <1>23, <2>1, <2>2 DEF RepairCleanup, TypeOK, Fault, NoFault, Faults, Calls, Outside, jobVars, history, Location, InRun, InNode, Waiting
<1>24. CASE Janitor
  <2>1. locks' \in [Nodes -> CacheItem]
    BY <1>24, <1>a, CacheType DEF Janitor
  <2> QED
    BY <1>24, <2>1 DEF Janitor, TypeOK, Fault, NoFault, Faults, Calls, Outside, jobVars, history, Location, InRun, InNode, Waiting
<1>25. CASE Tick
  <2>1. api' \in [Nodes -> NodeObject]
    BY <1>25, <1>a, AgedApiType DEF Tick
  <2>2. /\ list' \in [Nodes -> NodeObject \cup {NoNode}]
          /\ snap' \in [Nodes -> NodeObject \cup {NoNode}]
    BY <1>25, AgedViewType DEF Tick, TypeOK
  <2>3. locks' \in [Nodes -> CacheItem]
    BY <1>25, <1>a, CacheType DEF Tick
  <2> QED
    BY <1>25, <2>1, <2>2, <2>3 DEF Tick, TypeOK, Fault, NoFault, Faults, Calls, Outside, jobVars, history, Location, InRun, InNode, Waiting
<1>26. ASSUME NEW n \in Nodes, Choose(n) PROVE TypeOK'
  BY <1>26 DEF Choose, TypeOK, Fault, NoFault, Faults, Calls, Outside, jobVars, history, Location, InRun, InNode, Waiting
<1>27. ASSUME NEW n \in Nodes, WatchEvent(n) PROVE TypeOK'
  BY <1>27 DEF WatchEvent, Deliver, TypeOK, Fault, NoFault, Faults, Calls, Outside, jobVars, history, Location, InRun, InNode, Waiting
<1>28. ASSUME NEW n \in Nodes, AzureCompletes(n) PROVE TypeOK'
  <2>1. \/ vm' = [vm EXCEPT ![n].latest = @ \/ (vm[n].state = "updating" /\ vm[n].coming),
                            ![n].coming = FALSE, ![n].state = "succeeded"]
        \/ vm' = [vm EXCEPT ![n].coming = FALSE, ![n].state = "failed"]
    BY <1>28 DEF AzureCompletes
  <2>2. /\ [vm EXCEPT ![n].coming = FALSE, ![n].state = "failed"] \in [Nodes -> Instance]
        /\ [vm EXCEPT ![n].latest = @ \/ (vm[n].state = "updating" /\ vm[n].coming),
                      ![n].coming = FALSE, ![n].state = "succeeded"] \in [Nodes -> Instance]
    BY <1>a, VmChanged
  <2>3. vm' \in [Nodes -> Instance]
    BY <2>1, <2>2, Zenon
  <2>4. applied' \in SUBSET Nodes
    BY <1>28 DEF AzureCompletes, TypeOK
  <2> QED
    BY <1>28, <2>3, <2>4 DEF AzureCompletes, TypeOK, Fault, NoFault, jobVars
<1>29. ASSUME NEW n \in Nodes, InstanceChanges(n) PROVE TypeOK'
  <2>1. \/ vm' = [vm EXCEPT ![n].state = "succeeded"]
          \/ vm' = [vm EXCEPT ![n].state = "failed"]
    BY <1>29 DEF InstanceChanges
  <2>2. /\ [vm EXCEPT ![n].state = "failed"] \in [Nodes -> Instance]
        /\ [vm EXCEPT ![n].state = "succeeded"] \in [Nodes -> Instance]
    BY <1>a, VmChanged
  <2>3. vm' \in [Nodes -> Instance]
    BY <2>1, <2>2, Zenon
  <2> QED
    BY <1>29, <2>3 DEF InstanceChanges, TypeOK, Fault, NoFault, Faults, Calls, Outside, jobVars, history, Location, InRun, InNode, Waiting
<1>30. ASSUME NEW n \in Nodes, ToggleExclude(n) PROVE TypeOK'
  <2>1. [api EXCEPT ![n].excluded = ~@] \in [Nodes -> NodeObject]
    BY <1>a DEF NodeObject
  <2>2. api' \in [Nodes -> NodeObject]
    BY <1>30, <2>1, Zenon DEF ToggleExclude
  <2> QED
    BY <1>30, <2>1, <2>2 DEF ToggleExclude, TypeOK, Fault, NoFault, Faults, Calls, Outside, jobVars, history, Location, InRun, InNode, Waiting
<1>31. CASE UNCHANGED vars
  BY <1>31 DEF vars, jobVars, history, TypeOK
<1> QED
  BY <1>1, <1>2, <1>3, <1>4, <1>5, <1>6, <1>7, <1>8, <1>9, <1>10, <1>11,
     <1>12, <1>13, <1>14, <1>15, <1>16, <1>17, <1>18, <1>19, <1>20, <1>21,
     <1>22, <1>23, <1>24, <1>25, <1>26, <1>27, <1>28, <1>29, <1>30, <1>31
     DEF Next, Cron, Run, Environment

(* Every variable of the update job has its type in every behaviour; the   *)
(* lock cache in particular only ever holds items with time left or just   *)
(* expired.                                                                *)
THEOREM TypeCorrect == Spec => []TypeOK
BY InitType, NextType, PTL DEF Spec

-----------------------------------------------------------------------------
(* What the steps do to the marks of the nodes *)

(* The ongoing and exclude annotations stay, and nothing is cordoned. *)
Quiet ==
    \A n \in Nodes : /\ api'[n].ongoing = api[n].ongoing
                     /\ api'[n].excluded = api[n].excluded
                     /\ api'[n].cordoned => api[n].cordoned

(* The steps that patch node objects without touching the ongoing or       *)
(* exclude annotations and without cordoning.                              *)
LEMMA QuietSteps ==
    ASSUME TypeOK,
           \/ CronTick \/ SyncLocks \/ ListNodes \/ Uncordon \/ LockUpdated
           \/ LockFailed \/ RepairCleanup \/ Tick \/ UNCHANGED api
    PROVE  Quiet
<1>a. api \in [Nodes -> NodeObject]
  BY DEF TypeOK
<1>1. CASE CronTick
  <2>1. PICK done : api' = [n \in Nodes |-> IF n \in done
                                       THEN [api[n] EXCEPT !.cordoned = FALSE]
                                       ELSE api[n]]
    BY <1>1 DEF CronTick
  <2> QED
    BY <1>a, <2>1 DEF Quiet, NodeObject
<1>2. CASE SyncLocks
  <2>1. PICK done : api' = [n \in Nodes |-> IF n \in done
                                       THEN [api[n] EXCEPT !.lock = Absent]
                                       ELSE api[n]]
    BY <1>2 DEF SyncLocks
  <2> QED
    BY <1>a, <2>1 DEF Quiet, NodeObject
<1>3. CASE ListNodes \/ RepairCleanup
  <2>1. PICK done : api' = Cleaned(done)
    BY <1>3 DEF ListNodes, RepairCleanup
  <2> QED
    BY <1>a, <2>1 DEF Quiet, Cleaned, Cleanup, NodeObject
<1>4. CASE Uncordon
  <2>1. \/ api' = api
        \/ api' = [api EXCEPT ![cur].cordoned = FALSE]
    BY <1>4 DEF Uncordon
  <2> QED
    BY <1>a, <2>1 DEF Quiet, NodeObject
<1>5. CASE LockUpdated \/ LockFailed
  <2>1. \/ api' = api
        \/ api' = [api EXCEPT ![cur] = AnnotationLockSet(@, UpdateLock, ScaledownLock)]
        \/ api' = [api EXCEPT ![cur] = AnnotationLockSet(@, UpdateLockError, ScaledownLock)]
    BY <1>5 DEF LockUpdated, LockFailed, Lock
  <2>2. \A o \in NodeObject : \A d :
            /\ AnnotationLockSet(o, d, ScaledownLock).ongoing = o.ongoing
            /\ AnnotationLockSet(o, d, ScaledownLock).excluded = o.excluded
            /\ AnnotationLockSet(o, d, ScaledownLock).cordoned = o.cordoned
    BY DEF AnnotationLockSet, NodeObject
  <2> QED
    BY <1>a, <2>1, <2>2 DEF Quiet
<1>6. CASE Tick
  BY <1>a, <1>6 DEF Tick, AgedView, AgedNode, Quiet, NodeObject
<1>7. CASE UNCHANGED api
  BY <1>7 DEF Quiet
<1> QED
  BY <1>1, <1>2, <1>3, <1>4, <1>5, <1>6, <1>7

(* MarkOngoing, Drain, Uncordon and Unmark change one mark of the candidate. *)
LEMMA MarkSteps ==
    ASSUME TypeOK, cur \in Nodes
    PROVE  /\ MarkOngoing /\ pc' # "lockerror" =>
                /\ api'[cur].ongoing
                /\ \A n \in Nodes : /\ n # cur => api'[n].ongoing = api[n].ongoing
                                    /\ api'[n].excluded = api[n].excluded
                                    /\ api'[n].cordoned = api[n].cordoned
           /\ MarkOngoing /\ pc' = "lockerror" => api' = api
           /\ Drain =>
                \A n \in Nodes : /\ api'[n].ongoing = api[n].ongoing
                                 /\ api'[n].excluded = api[n].excluded
                                 /\ n # cur => api'[n].cordoned = api[n].cordoned
           /\ Uncordon /\ pc' # "lockerror" => ~api'[cur].cordoned
           /\ Unmark =>
                \A n \in Nodes : /\ n # cur => api'[n].ongoing = api[n].ongoing
                                 /\ api'[n].ongoing => api[n].ongoing
                                 /\ api'[n].excluded = api[n].excluded
                                 /\ api'[n].cordoned = api[n].cordoned
           /\ Unmark /\ pc' = "lock" => ~api'[cur].ongoing
           /\ Unmark /\ pc' # "lock" => api' = api
<1>a. api \in [Nodes -> NodeObject]
  BY DEF TypeOK
<1> USE DEF Goes, Fails
<1>1. ASSUME MarkOngoing
      PROVE  \/ pc' = "check" /\ api' = [api EXCEPT ![cur].ongoing = TRUE,
                                                   ![cur].disable = TRUE]
             \/ pc' = "lockerror" /\ api' = api
  BY <1>1 DEF MarkOngoing
<1>2. ASSUME Drain
      PROVE  \/ api' = [api EXCEPT ![cur].cordoned = TRUE]
             \/ api' = api
  BY <1>2 DEF Drain, DrainFails
<1>3. ASSUME Uncordon
      PROVE  \/ pc' = "unmark" /\ api' = [api EXCEPT ![cur].cordoned = FALSE]
             \/ pc' = "lockerror" /\ api' = api
  BY <1>3 DEF Uncordon
<1>4. ASSUME Unmark
      PROVE  \/ pc' = "lock" /\ api' = [api EXCEPT ![cur].ongoing = FALSE]
             \/ pc' = "lockerror" /\ api' = api
  BY <1>4 DEF Unmark
<1> QED
  BY <1>a, <1>1, <1>2, <1>3, <1>4 DEF NodeObject

(* An operator who excludes a node leaves the other marks alone.           *)
LEMMA ToggleStep ==
    ASSUME TypeOK, NEW m \in Nodes, ToggleExclude(m)
    PROVE  \A n \in Nodes : /\ api'[n].ongoing = api[n].ongoing
                            /\ api'[n].cordoned = api[n].cordoned
BY DEF TypeOK, ToggleExclude, NodeObject

-----------------------------------------------------------------------------
(* CordonTracked and OngoingEndsUpdated: the candidate along its update *)

(* Between MarkOngoing and Unmark the candidate carries the ongoing        *)
(* annotation; Unmark comes after a successful Uncordon.                   *)
Marked == {"check", "drain", "draining", "update", "updating", "redeploy", "redeploying",
           "uncordon", "unmark"}
CandidateMarked ==
    /\ pc \in InNode => cur \in Nodes
    /\ pc \in Marked => api[cur].ongoing
    /\ pc = "unmark" => ~api[cur].cordoned

(* Once Azure has reported the update done, one has been applied since the *)
(* candidate was marked.                                                   *)
CandidateApplied ==
    /\ pc = "updating" => /\ vm[cur].state # "redeploying"
                          /\ vm[cur].state = "succeeded" => cur \in applied
    /\ pc \in {"redeploy", "redeploying", "uncordon", "unmark"} => cur \in applied

(* MarkedInv is about annotations and cordons alone: it holds whatever else *)
(* happens to the instances.                                               *)
MarkedInv == TypeOK /\ CandidateMarked /\ CordonTracked
CandidateInv == MarkedInv /\ CandidateApplied

(* There is no candidate and no cordoned node at the start.                *)
LEMMA InitCandidate == Init => CandidateInv
BY InitType
   DEF Init, CandidateInv, MarkedInv, CandidateMarked, CordonTracked, CandidateApplied, InNode, Marked

(* Every step keeps the candidate marked and cordons only marked nodes: a  *)
(* drain follows a mark, an unmark follows an uncordon.                    *)
LEMMA NextMarked ==
    MarkedInv /\ [Next]_vars => MarkedInv'
<1> SUFFICES ASSUME MarkedInv, [Next]_vars PROVE CandidateMarked' /\ CordonTracked'
  BY NextType DEF MarkedInv
<1>a. TypeOK /\ CandidateMarked /\ CordonTracked
  BY DEF MarkedInv
<1>b. TypeOK' /\ todo \subseteq Nodes
  BY <1>a, NextType DEF TypeOK
<1> USE DEF CandidateMarked, CordonTracked, Marked, InNode
<1>1. CASE Start \/ CronTick \/ SyncLocks \/ ListNodes \/ RefreshAzure \/ NextNode
           \/ Crash \/ SelfEvict \/ LockUpdated \/ LockFailed
  <2>1. Quiet
    BY <1>a, <1>1, QuietSteps DEF Start, RefreshAzure, NextNode, Crash, Terminated, SelfEvict
  <2>2. pc' \notin InNode
    BY <1>1 DEF Start, CronTick, SyncLocks, ListNodes, RefreshAzure, NextNode, RunEnds,
                Crash, Terminated, SelfEvict, LockUpdated, LockFailed
  <2> QED
    BY <1>a, <2>1, <2>2 DEF Quiet
<1>2. CASE CronSkip \/ WatchRestart \/ NewModel \/ RepairCleanup \/ Janitor \/ Tick
           \/ UNCHANGED vars
           \/ \E n \in Nodes : WatchEvent(n) \/ AzureCompletes(n) \/ InstanceChanges(n)
  <2>1. UNCHANGED <<pc, cur>>
    BY <1>2 DEF CronSkip, WatchRestart, NewModel, RepairCleanup, Janitor, Tick, vars,
                jobVars, WatchEvent, Deliver, AzureCompletes, InstanceChanges
  <2>2. Quiet
    BY <1>a, <1>2, QuietSteps DEF CronSkip, WatchRestart, NewModel, Janitor, vars,
                jobVars, WatchEvent, Deliver, AzureCompletes, InstanceChanges
  <2> QED
    BY <1>a, <2>1, <2>2 DEF Quiet
<1>3. ASSUME NEW n \in Nodes, ToggleExclude(n) PROVE CandidateMarked' /\ CordonTracked'
  <2>1. UNCHANGED <<pc, cur>>
    BY <1>3 DEF ToggleExclude, jobVars
  <2> QED
    BY <1>a, <1>3, <2>1, ToggleStep
<1>4. ASSUME NEW n \in Nodes, Choose(n) PROVE CandidateMarked' /\ CordonTracked'
  BY <1>a, <1>4 DEF Choose
<1>5. CASE CheckState \/ DrainReturns \/ BeginUpdate \/ PollUpdate \/ BeginRedeploy \/ PollRedeploy
  <2>1. UNCHANGED <<api, cur>> /\ pc \in Marked
    BY <1>5 DEF CheckState, DrainReturns, DrainFails, BeginUpdate, PollUpdate, BeginRedeploy, PollRedeploy,
                Goes, Fails
  <2>2. pc' \in InNode \ {"unmark"}
    BY <1>5 DEF CheckState, DrainReturns, DrainFails, BeginUpdate, PollUpdate, BeginRedeploy, PollRedeploy,
                Goes, Fails
  <2> QED
    BY <1>a, <2>1, <2>2
<1>6. CASE MarkOngoing
  <2>1. cur \in Nodes /\ cur' = cur /\ pc' \in {"check", "lockerror"}
    BY <1>a, <1>6 DEF MarkOngoing, Goes, Fails
  <2> QED
    BY <1>a, <1>6, <2>1, MarkSteps
<1>7. CASE Drain
  <2>1. cur \in Nodes /\ cur' = cur /\ pc = "drain" /\ pc' \in {"update", "draining", "lockerror"}
    BY <1>a, <1>7 DEF Drain, DrainFails, Goes, Fails
  <2> QED
    BY <1>a, <1>7, <2>1, MarkSteps
<1>8. CASE Uncordon
  <2>1. cur \in Nodes /\ cur' = cur /\ pc = "uncordon" /\ pc' \in {"unmark", "lockerror"}
    BY <1>a, <1>8 DEF Uncordon, Goes, Fails
  <2>2. Quiet
    BY <1>a, <1>8, QuietSteps
  <2> QED
    BY <1>a, <1>8, <2>1, <2>2, MarkSteps DEF Quiet
<1>9. CASE Unmark
  <2>1. cur \in Nodes /\ cur' = cur /\ pc = "unmark" /\ pc' \in {"lock", "lockerror"}
    BY <1>a, <1>9 DEF Unmark, Goes, Fails
  <2> QED
    BY <1>a, <1>9, <2>1, MarkSteps
<1> QED
  BY <1>1, <1>2, <1>3, <1>4, <1>5, <1>6, <1>7, <1>8, <1>9 DEF Next, Cron, Run, Environment

(* Every step keeps what a run knows of its candidate: only a mark takes   *)
(* it out of applied, and marks come before the update.                    *)
LEMMA NextApplied == CandidateInv /\ [Next]_vars => CandidateApplied'
<1> SUFFICES ASSUME CandidateInv, [Next]_vars PROVE CandidateApplied'
  OBVIOUS
<1>a. vm \in [Nodes -> Instance]
  BY DEF CandidateInv, MarkedInv, TypeOK
<1>b. pc \in InNode => cur \in Nodes
  BY DEF CandidateInv, MarkedInv, CandidateMarked
<1>c. CandidateApplied
  BY DEF CandidateInv, MarkedInv
<1> USE DEF CandidateApplied
<1> DEFINE Later == {"updating", "redeploy", "redeploying", "uncordon", "unmark"}
<1>1. CASE pc' \notin Later
  BY <1>1
<1>2. CASE CronSkip \/ WatchRestart \/ RepairCleanup \/ Janitor \/ Tick \/ UNCHANGED vars
           \/ \E n \in Nodes : WatchEvent(n) \/ ToggleExclude(n)
  <2>1. UNCHANGED <<pc, cur, vm, applied>>
    BY <1>2 DEF CronSkip, WatchRestart, RepairCleanup, Janitor, Tick, vars, jobVars, history,
                WatchEvent, Deliver, ToggleExclude
  <2> QED
    BY <1>c, <2>1
<1>3. ASSUME NEW n \in Nodes, AzureCompletes(n) PROVE CandidateApplied'
  <2>1. UNCHANGED <<pc, cur>>
    BY <1>3 DEF AzureCompletes, jobVars
  <2>2. /\ vm'[n].state \in {"succeeded", "failed"}
        /\ vm'[n].state = "succeeded" /\ vm[n].state = "updating" => n \in applied'
        /\ vm[n].state \in {"updating", "redeploying"}
        /\ applied \subseteq applied'
        /\ \A m \in Nodes \ {n} : vm'[m] = vm[m]
    BY <1>a, <1>3 DEF AzureCompletes, Instance
  <2> QED
    BY <1>b, <1>c, <2>1, <2>2 DEF InNode
<1>4. ASSUME NEW n \in Nodes, InstanceChanges(n) PROVE CandidateApplied'
  <2>1. UNCHANGED <<pc, cur, applied>> /\ (n # cur \/ pc \notin {"updating", "redeploying"})
    BY <1>4 DEF InstanceChanges, jobVars, history
  <2>2. \A m \in Nodes \ {n} : vm'[m] = vm[m]
    BY <1>a, <1>4 DEF InstanceChanges, Instance
  <2> QED
    BY <1>b, <1>c, <2>1, <2>2 DEF InNode
<1>5. CASE NewModel
  <2>1. UNCHANGED <<pc, cur, applied>>
    BY <1>5 DEF NewModel, jobVars, history
  <2>2. \A m \in Nodes : vm'[m].state = vm[m].state
    BY <1>a, <1>5 DEF NewModel, Instance
  <2> QED
    BY <1>b, <1>c, <2>1, <2>2 DEF InNode
<1>6. CASE BeginUpdate
  BY <1>a, <1>b, <1>6 DEF BeginUpdate, Goes, Fails, InNode, Instance
<1>7. CASE BeginRedeploy
  BY <1>a, <1>b, <1>c, <1>7 DEF BeginRedeploy, Goes, Fails, InNode, Instance, NodeFrame, history
<1>8. CASE PollUpdate \/ PollRedeploy \/ Uncordon
  BY <1>c, <1>8 DEF PollUpdate, PollRedeploy, Uncordon, Goes, Fails, NodeFrame, history
<1>9. CASE \/ Start \/ CronTick \/ SyncLocks \/ ListNodes \/ RefreshAzure \/ NextNode
           \/ Crash \/ SelfEvict \/ LockUpdated \/ LockFailed \/ MarkOngoing
           \/ CheckState \/ DrainReturns \/ Drain \/ Unmark
           \/ \E n \in Nodes : Choose(n)
  <2>1. pc' \notin Later
    BY <1>9 DEF Start, CronTick, SyncLocks, ListNodes, RefreshAzure, NextNode, RunEnds,
                Crash, Terminated, SelfEvict, LockUpdated, LockFailed, MarkOngoing,
                CheckState, DrainReturns, DrainFails, Drain, Unmark, Choose, Goes, Fails
  <2> QED
    BY <1>1, <2>1
<1> QED
  BY <1>2, <1>3, <1>4, <1>5, <1>6, <1>7, <1>8, <1>9 DEF Next, Cron, Run, Environment

(* The inductive invariant that the theorems below share.                  *)
LEMMA CandidateInvariant == Spec => []CandidateInv
<1>1. CandidateInv /\ [Next]_vars => CandidateInv'
  BY NextType, NextMarked, NextApplied DEF CandidateInv, MarkedInv
<1> QED
  BY <1>1, InitCandidate, PTL DEF Spec

(* No node is left cordoned without the annotation by which a later run    *)
(* finds it, whatever fails and wherever the process is killed.            *)
THEOREM CordonsAreTracked == Spec => []CordonTracked
<1>1. CandidateInv => CordonTracked
  BY DEF CandidateInv, MarkedInv
<1> QED
  BY <1>1, CandidateInvariant, PTL

(* The only step that removes the ongoing annotation is Unmark.            *)
LEMMA OnlyUnmarkEnds ==
    ASSUME TypeOK, CandidateMarked, Next, ~Unmark, NEW n \in Nodes, api[n].ongoing
    PROVE  api'[n].ongoing
<1> USE DEF CandidateMarked, InNode
<1>1. CASE \/ CronTick \/ SyncLocks \/ ListNodes \/ Uncordon \/ LockUpdated
           \/ LockFailed \/ RepairCleanup \/ Tick \/ UNCHANGED api
  BY <1>1, QuietSteps DEF Quiet
<1>2. CASE MarkOngoing
  <2>1. cur \in Nodes /\ pc' \in {"check", "lockerror"}
    BY <1>2 DEF MarkOngoing, Goes, Fails
  <2> QED
    BY <1>2, <2>1, MarkSteps
<1>3. CASE Drain
  <2>1. cur \in Nodes
    BY <1>3 DEF Drain, DrainFails
  <2> QED
    BY <1>3, <2>1, MarkSteps
<1>4. ASSUME NEW m \in Nodes, ToggleExclude(m) PROVE api'[n].ongoing
  BY <1>4, ToggleStep
<1>5. CASE \/ Start \/ Crash \/ CronSkip \/ RefreshAzure \/ NextNode \/ SelfEvict
           \/ CheckState \/ DrainReturns \/ BeginUpdate \/ PollUpdate \/ BeginRedeploy \/ PollRedeploy
           \/ WatchRestart \/ NewModel \/ Janitor
           \/ \E m \in Nodes : Choose(m) \/ WatchEvent(m) \/ AzureCompletes(m)
                               \/ InstanceChanges(m)
  <2>1. UNCHANGED api
    BY <1>5 DEF Start, Crash, Terminated, CronSkip, RefreshAzure, NextNode, SelfEvict,
                CheckState, DrainReturns, DrainFails, BeginUpdate, PollUpdate, BeginRedeploy, PollRedeploy,
                WatchRestart, NewModel, Janitor, Choose, WatchEvent, Deliver, AzureCompletes,
                InstanceChanges
  <2> QED
    BY <1>1, <2>1
<1> QED
  BY <1>1, <1>2, <1>3, <1>4, <1>5 DEF Next, Cron, Run, Environment

(* Unmark comes when the run knows both of its candidate.                  *)
LEMMA EndStep ==
    ASSUME CandidateInv, Next, NEW n \in Nodes, api[n].ongoing, ~api'[n].ongoing
    PROVE  n \in applied /\ ~api[n].cordoned
<1>1. TypeOK /\ CandidateMarked /\ CandidateApplied
  BY DEF CandidateInv, MarkedInv
<1>2. Unmark
  BY <1>1, OnlyUnmarkEnds
<1>3. pc = "unmark" /\ cur \in Nodes
  BY <1>1, <1>2 DEF Unmark, CandidateMarked, InNode
<1>4. n = cur
  BY <1>1, <1>2, <1>3, MarkSteps
<1> QED
  BY <1>1, <1>3, <1>4 DEF CandidateMarked, CandidateApplied

(* The ongoing annotation is removed only from a schedulable node to which *)
(* Azure has applied an update since this attempt marked it (updateNode,   *)
(* after the update and the uncordon), whatever models come in the         *)
(* meantime.                                                               *)
THEOREM OngoingEndsWhenUpdated == Spec => OngoingEndsUpdated
<1>1. CandidateInv /\ [Next]_vars =>
        [\A n \in Nodes : api[n].ongoing /\ ~api[n].ongoing' =>
             n \in applied /\ ~api[n].cordoned]_vars
  BY EndStep
<1> QED
  BY <1>1, CandidateInvariant, PTL DEF Spec, OngoingEndsUpdated

-----------------------------------------------------------------------------
(* StartsAlone: one unfinished update at a time *)

(* The unfinished updates a run must not pass over, and a view of the node *)
(* list that is right about the ongoing annotation of every node.          *)
Unfinished == {n \in Nodes : api[n].ongoing /\ n \notin spared}
Agrees(view) ==
    \A n \in Nodes : view[n] # NoNode /\ view[n].ongoing = api[n].ongoing

(* The run picks its candidates from a list that knows every unfinished    *)
(* update, and takes up another node only once its own is finished.        *)
AloneInv ==
    /\ pc \in {"sync", "list"} => Agrees(list)
    /\ pc = "azure" => Agrees(snap)
    /\ pc = "next" => \/ Unfinished = {}
                      \/ \E n \in Nodes : todo \subseteq {n} /\ api[n].ongoing
    /\ pc = "mark" => api[cur].ongoing \/ Unfinished = {}
    /\ pc \in InNode => todo = {} \/ Unfinished \subseteq {cur}
    /\ pc = "lock" => todo = {} \/ Unfinished = {}

(* Time leaves the ongoing annotation alone.                               *)
LEMMA AgedMarks ==
    \A o \in NodeObject : /\ AgedNode(o) \in NodeObject
                          /\ AgedNode(o).ongoing = o.ongoing
BY AgedType DEF AgedNode, NodeObject

(* Every step keeps AloneInv when runs begin with a watch cache that       *)
(* agrees with the API server.                                             *)
LEMMA NextAlone ==
    ASSUME ~WatchRace, MarkedInv, AloneInv, [Next]_vars
    PROVE  AloneInv'
<1>a. TypeOK /\ CandidateMarked
  BY DEF MarkedInv
<1>b. /\ Quiet /\ spared' = spared => Unfinished' = Unfinished
      /\ Quiet /\ Agrees(list) /\ list' = list => Agrees(list)'
      /\ Quiet /\ Agrees(snap) /\ snap' = snap => Agrees(snap)'
  BY DEF Quiet, Unfinished, Agrees
<1> USE DEF AloneInv, InNode
<1>1. CASE CronTick
  <2>1. list = api /\ pc' = "sync" /\ list' = list
    BY <1>1 DEF CronTick
  <2>2. api \in [Nodes -> NodeObject]
    BY <1>a DEF TypeOK
  <2>3. Agrees(list)'
    BY <1>1, <1>a, <2>1, <2>2, QuietSteps, NodeAssumption DEF Agrees, Quiet
  <2> QED
    BY <2>1, <2>3
<1>2. CASE SyncLocks
  <2>1. pc = "sync" /\ pc' \in {"idle", "list"} /\ list' = list
    BY <1>2 DEF SyncLocks
  <2> QED
    BY <1>2, <1>a, <1>b, <2>1, QuietSteps
<1>3. CASE ListNodes
  <2>1. pc = "list" /\ pc' = "azure" /\ snap' = list
    BY <1>3 DEF ListNodes
  <2>2. Quiet
    BY <1>3, <1>a, QuietSteps
  <2> QED
    BY <2>1, <2>2 DEF Agrees, Quiet
<1>4. CASE RefreshAzure
  <2>1. pc = "azure" /\ pc' \in {"idle", "next"} /\ api' = api
    BY <1>4 DEF RefreshAzure, RunEnds
  <2>2. ASSUME pc' = "next"
        PROVE  \/ Unfinished' = {}
               \/ \E n \in Nodes : todo' \subseteq {n} /\ api'[n].ongoing
    <3>1. /\ todo' \in Candidates(snap)
          /\ spared' = {n \in Listed(snap) : snap[n].excluded}
          /\ Agrees(snap)
      BY <1>4, <2>1, <2>2 DEF RefreshAzure, RunEnds
    <3>2. Ongoing(snap) = Unfinished'
      BY <2>1, <3>1 DEF Ongoing, Listed, Unfinished, Agrees
    <3>3. CASE Unfinished' # {}
      <4>1. PICK n \in Unfinished' : todo' = {n}
        BY <3>1, <3>2, <3>3 DEF Candidates
      <4> QED
        BY <4>1 DEF Unfinished
    <3> QED
      BY <3>3
  <2> QED
    BY <2>1, <2>2
<1>5. ASSUME NEW n \in Nodes, Choose(n) PROVE AloneInv'
  <2>1. pc = "next" /\ pc' = "mark" /\ cur' = n /\ todo' = todo \ {n} /\ n \in todo
        /\ api' = api /\ spared' = spared
    BY <1>5 DEF Choose, history
  <2>2. Unfinished' = Unfinished
    BY <2>1 DEF Unfinished
  <2> QED
    BY <2>1, <2>2
<1>6. CASE MarkOngoing
  <2>1. pc = "mark" /\ cur \in Nodes /\ cur' = cur /\ todo' = todo /\ pc' \in {"check", "lockerror"}
        /\ spared' = spared
    BY <1>6, <1>a DEF MarkOngoing, Goes, Fails, CandidateMarked
  <2>2. Unfinished' \subseteq Unfinished \cup {cur}
    BY <1>6, <1>a, <2>1, MarkSteps DEF Unfinished
  <2> QED
    BY <2>1, <2>2
<1>7. CASE CheckState \/ DrainReturns \/ BeginUpdate \/ PollUpdate \/ BeginRedeploy \/ PollRedeploy
  <2>1. /\ pc \in InNode /\ pc' \in InNode \ {"mark", "lock"}
        /\ UNCHANGED <<api, cur, todo, spared>>
    BY <1>7 DEF NodeFrame, history, CheckState, DrainReturns, DrainFails, BeginUpdate, PollUpdate, BeginRedeploy, PollRedeploy,
                Goes, Fails
  <2>2. Unfinished' = Unfinished
    BY <2>1 DEF Unfinished
  <2> QED
    BY <2>1, <2>2
<1>8. CASE Drain \/ Uncordon
  <2>1. /\ pc \in InNode /\ pc' \in InNode \ {"mark", "lock"}
        /\ UNCHANGED <<cur, todo, spared>> /\ cur \in Nodes
    BY <1>8, <1>a DEF NodeFrame, history, Drain, DrainFails, Uncordon, Goes, Fails, CandidateMarked
  <2>2. Unfinished' = Unfinished
    BY <1>8, <1>a, <2>1, MarkSteps, QuietSteps DEF Unfinished, Quiet
  <2> QED
    BY <2>1, <2>2
<1>9. CASE Unmark
  <2>1. /\ pc = "unmark" /\ pc' \in {"lock", "lockerror"}
        /\ UNCHANGED <<cur, todo, spared>> /\ cur \in Nodes
    BY <1>9, <1>a DEF NodeFrame, history, Unmark, Goes, Fails, CandidateMarked
  <2>2. Unfinished' \subseteq Unfinished
    BY <1>9, <1>a, <2>1, MarkSteps DEF Unfinished
  <2>3. pc' = "lock" => cur \notin Unfinished'
    BY <1>9, <1>a, <2>1, MarkSteps DEF Unfinished
  <2> QED
    BY <2>1, <2>2, <2>3
<1>10. CASE LockUpdated
  <2>1. pc = "lock" /\ pc' = "next" /\ todo' = todo /\ spared' = spared
    BY <1>10 DEF LockUpdated, Lock
  <2>2. Unfinished' = Unfinished
    BY <1>10, <1>a, <1>b, <2>1, QuietSteps
  <2>3. ASSUME todo = {}, Unfinished # {}
        PROVE  \E n \in Nodes : todo' \subseteq {n} /\ api'[n].ongoing
    BY <2>1, <2>2, <2>3 DEF Unfinished
  <2> QED
    BY <2>1, <2>2, <2>3
<1>11. CASE Start \/ NextNode \/ Crash \/ SelfEvict \/ LockFailed
  <2>1. pc' \in {"down", "stopped", "idle"}
    BY <1>11 DEF Start, NextNode, RunEnds, Crash, Terminated, SelfEvict, LockFailed
  <2> QED
    BY <2>1
<1>12. CASE CronSkip \/ NewModel \/ RepairCleanup \/ Janitor \/ Tick \/ UNCHANGED vars
            \/ \E n \in Nodes : AzureCompletes(n) \/ InstanceChanges(n)
  <2>1. UNCHANGED <<pc, cur, todo, spared>> /\ Quiet
    BY <1>12, <1>a, QuietSteps
       DEF history, CronSkip, NewModel, RepairCleanup, Janitor, Tick, vars, jobVars,
           AzureCompletes, InstanceChanges
  <2>2. pc \in {"sync", "list"} => list' = list
    BY <1>12
       DEF CronSkip, NewModel, RepairCleanup, Janitor, Tick, vars, jobVars,
           AzureCompletes, InstanceChanges, Waiting
  <2>3. pc = "azure" /\ Agrees(snap) => Agrees(snap)'
    <3>1. CASE Tick
      <4>1. \A n \in Nodes : snap[n] \in NodeObject =>
                /\ snap'[n] # NoNode
                /\ snap'[n].ongoing = snap[n].ongoing
        BY <3>1, AgedMarks, NodeAssumption DEF Tick, AgedView
      <4>2. \A n \in Nodes : snap[n] # NoNode => snap[n] \in NodeObject
        BY <1>a DEF TypeOK
      <4> QED
        BY <2>1, <4>1, <4>2 DEF Agrees, Quiet
    <3>2. CASE ~Tick
      <4>1. snap' = snap
        BY <1>12, <3>2 DEF CronSkip, NewModel, RepairCleanup, Janitor, vars, jobVars,
           AzureCompletes, InstanceChanges
      <4> QED
        BY <1>b, <2>1, <4>1
    <3> QED
      BY <3>1, <3>2
  <2>4. \A n \in Nodes : api'[n].ongoing = api[n].ongoing
    BY <2>1 DEF Quiet
  <2>5. cur \in Nodes \/ pc \notin InNode
    BY <1>a DEF CandidateMarked
  <2> QED
    BY <1>b, <2>1, <2>2, <2>3, <2>4, <2>5
<1>13. CASE WatchRestart \/ \E n \in Nodes : WatchEvent(n)
  <2>1. UNCHANGED <<api, pc, cur, todo, snap, spared>>
    BY <1>13 DEF WatchRestart, WatchEvent, Deliver, history
  <2>2. Unfinished' = Unfinished /\ (Agrees(snap) => Agrees(snap)')
    BY <2>1 DEF Unfinished, Agrees
  <2>3. pc \in {"sync", "list"} => Agrees(list)'
    BY <1>13, <1>a, <2>1, NodeAssumption DEF WatchRestart, WatchEvent, Deliver, Agrees, TypeOK
  <2> QED
    BY <2>1, <2>2, <2>3
<1>14. ASSUME NEW n \in Nodes, ToggleExclude(n) PROVE AloneInv'
  <2>1. UNCHANGED <<pc, cur, todo, list, snap, spared>>
    BY <1>14 DEF ToggleExclude, jobVars, history
  <2>2. \A m \in Nodes : api'[m].ongoing = api[m].ongoing
    BY <1>14, <1>a, ToggleStep
  <2>3. Unfinished' = Unfinished /\ (Agrees(list) => Agrees(list)') /\ (Agrees(snap) => Agrees(snap)')
    BY <2>1, <2>2 DEF Unfinished, Agrees
  <2>4. cur \in Nodes \/ pc \notin InNode
    BY <1>a DEF CandidateMarked
  <2> QED
    BY <2>1, <2>2, <2>3, <2>4
<1> QED
  BY <1>1, <1>2, <1>3, <1>4, <1>5, <1>6, <1>7, <1>8, <1>9, <1>10, <1>11, <1>12, <1>13, <1>14
     DEF Next, Cron, Run, Environment

(* Only a drain cordons. *)
LEMMA OnlyDrainCordons ==
    ASSUME TypeOK, pc \in InNode => cur \in Nodes, Next, pc # "drain",
           NEW n \in Nodes, api'[n].cordoned
    PROVE  api[n].cordoned
<1>1. CASE \/ CronTick \/ SyncLocks \/ ListNodes \/ Uncordon \/ LockUpdated
           \/ LockFailed \/ RepairCleanup \/ Tick \/ UNCHANGED api
  BY <1>1, QuietSteps DEF Quiet
<1>2. CASE MarkOngoing \/ Unmark
  <2>1. cur \in Nodes
    BY <1>2 DEF MarkOngoing, Unmark, InNode
  <2>2. MarkOngoing => pc' \in {"check", "lockerror"}
    BY DEF MarkOngoing, Goes, Fails
  <2> QED
    BY <1>2, <2>1, <2>2, MarkSteps
<1>3. ASSUME NEW m \in Nodes, ToggleExclude(m) PROVE api[n].cordoned
  BY <1>3, ToggleStep
<1>4. CASE \/ Start \/ Crash \/ CronSkip \/ RefreshAzure \/ NextNode \/ SelfEvict
           \/ CheckState \/ DrainReturns \/ BeginUpdate \/ PollUpdate \/ BeginRedeploy \/ PollRedeploy
           \/ WatchRestart \/ NewModel \/ Janitor
           \/ \E m \in Nodes : Choose(m) \/ WatchEvent(m) \/ AzureCompletes(m)
                               \/ InstanceChanges(m)
  <2>1. UNCHANGED api
    BY <1>4 DEF Start, Crash, Terminated, CronSkip, RefreshAzure, NextNode, SelfEvict,
                CheckState, DrainReturns, DrainFails, BeginUpdate, PollUpdate, BeginRedeploy, PollRedeploy,
                WatchRestart, NewModel, Janitor, Choose, WatchEvent, Deliver, AzureCompletes,
                InstanceChanges
  <2> QED
    BY <1>1, <2>1
<1> QED
  BY <1>1, <1>2, <1>3, <1>4 DEF Next, Cron, Run, Environment, Drain

(* Only MarkOngoing sets the annotation. *)
LEMMA OnlyMarkStarts ==
    ASSUME TypeOK, CandidateMarked, Next, ~MarkOngoing, NEW n \in Nodes, ~api[n].ongoing
    PROVE  ~api'[n].ongoing
<1> USE DEF CandidateMarked, InNode
<1>1. CASE \/ CronTick \/ SyncLocks \/ ListNodes \/ Uncordon \/ LockUpdated
           \/ LockFailed \/ RepairCleanup \/ Tick \/ UNCHANGED api
  BY <1>1, QuietSteps DEF Quiet
<1>2. CASE Unmark
  <2>1. cur \in Nodes
    BY <1>2 DEF Unmark
  <2> QED
    BY <1>2, <2>1, MarkSteps
<1>3. CASE Drain
  <2>1. cur \in Nodes
    BY <1>3 DEF Drain, DrainFails
  <2> QED
    BY <1>3, <2>1, MarkSteps
<1>4. ASSUME NEW m \in Nodes, ToggleExclude(m) PROVE ~api'[n].ongoing
  BY <1>4, ToggleStep
<1>5. CASE \/ Start \/ Crash \/ CronSkip \/ RefreshAzure \/ NextNode \/ SelfEvict
           \/ CheckState \/ DrainReturns \/ BeginUpdate \/ PollUpdate \/ BeginRedeploy \/ PollRedeploy
           \/ WatchRestart \/ NewModel \/ Janitor
           \/ \E m \in Nodes : Choose(m) \/ WatchEvent(m) \/ AzureCompletes(m)
                               \/ InstanceChanges(m)
  <2>1. UNCHANGED api
    BY <1>5 DEF Start, Crash, Terminated, CronSkip, RefreshAzure, NextNode, SelfEvict,
                CheckState, DrainReturns, DrainFails, BeginUpdate, PollUpdate, BeginRedeploy, PollRedeploy,
                WatchRestart, NewModel, Janitor, Choose, WatchEvent, Deliver, AzureCompletes,
                InstanceChanges
  <2> QED
    BY <1>1, <2>1
<1> QED
  BY <1>1, <1>2, <1>3, <1>4, <1>5 DEF Next, Cron, Run, Environment

(* When MarkOngoing sets it, the run knows of no other unfinished update.  *)
LEMMA StartStep ==
    ASSUME MarkedInv, AloneInv, Next, NEW n \in Nodes, NEW m \in Nodes \ {n},
           ~api[n].ongoing, api'[n].ongoing, api[m].ongoing
    PROVE  m \in spared
<1>1. TypeOK /\ CandidateMarked
  BY DEF MarkedInv
<1>2. MarkOngoing
  BY <1>1, OnlyMarkStarts
<1>3. pc = "mark" /\ cur \in Nodes
  BY <1>1, <1>2 DEF MarkOngoing, CandidateMarked, InNode
<1>4. n = cur
  BY <1>1, <1>2, <1>3, MarkSteps DEF MarkOngoing, Goes, Fails
<1> QED
  BY <1>3, <1>4 DEF AloneInv, Unfinished

(* No update starts while that of another node is unfinished, unless the   *)
(* run has listed that one as excluded: as long as the watch cache is up   *)
(* to date when a run begins, whatever operators do in the meantime.       *)
THEOREM UpdatesStartAlone == ASSUME ~WatchRace PROVE Spec => StartsAlone
<1>1. Init => AloneInv
  BY DEF Init, AloneInv, InNode
<1>2. MarkedInv /\ AloneInv /\ [Next]_vars => AloneInv'
  BY NextAlone
<1>3. MarkedInv /\ AloneInv /\ [Next]_vars =>
        [\A n \in Nodes : ~api[n].ongoing /\ api[n].ongoing' =>
             \A m \in Nodes \ {n} : api[m].ongoing => m \in spared]_vars
  BY StartStep
<1>4. CandidateInv => MarkedInv
  BY DEF CandidateInv
<1> QED
  BY <1>1, <1>2, <1>3, <1>4, CandidateInvariant, PTL DEF Spec, StartsAlone

-----------------------------------------------------------------------------
(* WithinLimit: the lock cache and update.concurrency *)

(* What the operations of the lock cache do to the number of its items.    *)
LEMMA ItemCounts ==
    ASSUME NEW cache \in [Nodes -> CacheItem]
    PROVE  /\ ItemCount(cache) \in Nat
           /\ \A n \in Nodes, d \in Nat : ItemCount(CacheAdd(cache, n, d)) <= ItemCount(cache) + 1
           /\ ItemCount(DeleteExpired(cache)) <= ItemCount(cache)
           /\ ItemCount(CacheAged(cache)) <= ItemCount(cache)
BY ItemsCounted, UpdateAssumption

(* Every step keeps the lock cache within update.concurrency while a run   *)
(* is under way.                                                           *)
LEMMA NextWithinLimit == MarkedInv /\ WithinLimit /\ [Next]_vars => WithinLimit'
<1> SUFFICES ASSUME MarkedInv, WithinLimit, [Next]_vars, UpdateLimit > 0
             PROVE  /\ pc' \in InRun => ItemCount(locks') <= UpdateLimit
                    /\ pc' \in InNode => ItemCount(locks') < UpdateLimit
  BY DEF WithinLimit
<1>a. TypeOK /\ CandidateMarked /\ locks \in [Nodes -> CacheItem]
  BY DEF MarkedInv, TypeOK
<1>b. locks' \in [Nodes -> CacheItem]
  BY <1>a, NextType DEF TypeOK
<1>c. UpdateLimit \in Nat /\ ItemCount(locks) \in Nat /\ ItemCount(locks') \in Nat
  BY <1>a, <1>b, ItemCounts, UpdateAssumption
<1> USE DEF WithinLimit, InRun, InNode
<1>1. CASE pc' \notin InRun
  BY <1>1
<1>2. CASE LockUpdated
  <2>1. cur \in Nodes /\ pc \in InNode /\ pc' = "next" /\ locks' = CacheAdd(locks, cur, UpdateLock)
    BY <1>2, <1>a DEF LockUpdated, Lock, CandidateMarked
  <2>2. ItemCount(locks') <= ItemCount(locks) + 1
    BY <1>a, <2>1, ItemCounts, UpdateAssumption
  <2> QED
    BY <1>c, <2>1, <2>2
<1>3. CASE SyncLocks
  <2>1. pc' \notin InNode /\ (pc' \in InRun => ~LimitReached')
    BY <1>3 DEF SyncLocks
  <2> QED
    BY <1>c, <2>1 DEF LimitReached
<1>4. CASE Janitor \/ Tick
  <2>1. pc' = pc /\ ItemCount(locks') <= ItemCount(locks)
    BY <1>4, <1>a, ItemCounts DEF Janitor, Tick
  <2> QED
    BY <1>c, <2>1
<1>5. ASSUME NEW n \in Nodes, Choose(n)
      PROVE  /\ pc' \in InRun => ItemCount(locks') <= UpdateLimit
             /\ pc' \in InNode => ItemCount(locks') < UpdateLimit
  BY <1>5, <1>c DEF Choose, LimitReached
<1>6. CASE Start \/ CronTick \/ Crash \/ SelfEvict \/ NextNode \/ LockFailed
  <2>1. pc' \notin InRun
    BY <1>6 DEF Start, CronTick, Crash, Terminated, SelfEvict, NextNode, LockFailed, RunEnds
  <2> QED
    BY <2>1
<1>7. CASE \/ ListNodes \/ RefreshAzure \/ CronSkip \/ MarkOngoing \/ CheckState \/ DrainReturns \/ Drain
           \/ BeginUpdate \/ PollUpdate \/ BeginRedeploy \/ PollRedeploy \/ Uncordon \/ Unmark
           \/ WatchRestart \/ NewModel \/ RepairCleanup \/ UNCHANGED vars
           \/ \E n \in Nodes : WatchEvent(n) \/ AzureCompletes(n) \/ InstanceChanges(n)
                             \/ ToggleExclude(n)
  <2>1. locks' = locks
    BY <1>7 DEF ListNodes, RefreshAzure, CronSkip, MarkOngoing, CheckState, DrainReturns, DrainFails, Drain, BeginUpdate,
          PollUpdate, BeginRedeploy, PollRedeploy, Uncordon, Unmark, WatchRestart, NewModel,
          RepairCleanup, vars, jobVars, WatchEvent, Deliver, AzureCompletes, InstanceChanges, ToggleExclude, Goes, Fails
  <2>2. /\ pc' \in InRun => pc \in InRun
        /\ pc' \in InNode => pc \in InNode
    BY <1>7 DEF ListNodes, RefreshAzure, CronSkip, MarkOngoing, CheckState, DrainReturns, DrainFails, Drain, BeginUpdate,
          PollUpdate, BeginRedeploy, PollRedeploy, Uncordon, Unmark, WatchRestart, NewModel,
          RepairCleanup, vars, jobVars, WatchEvent, Deliver, AzureCompletes, InstanceChanges, ToggleExclude, Goes, Fails,
          RunEnds
  <2> QED
    BY <2>1, <2>2
<1> QED
  BY <1>2, <1>3, <1>4, <1>5, <1>6, <1>7 DEF Next, Cron, Run, Environment

(* A run never works on a node while the lock cache is full, and so never  *)
(* holds more locks than update.concurrency.                               *)
THEOREM LocksWithinLimit == Spec => []WithinLimit
<1>1. Init => WithinLimit
  BY DEF Init, WithinLimit, InRun, InNode
<1>2. CandidateInv => MarkedInv
  BY DEF CandidateInv
<1> QED
  BY <1>1, <1>2, NextWithinLimit, CandidateInvariant, PTL DEF Spec

-----------------------------------------------------------------------------
(* ImplementsProtocol: UpdateJob refines UpdateProtocol *)

(* Only the job has Azure update an instance, and it waits for the result  *)
(* before it removes the ongoing annotation, also after a restart.         *)
ApplyInv ==
    /\ \A n \in Nodes : vm[n].state = "updating" => api[n].ongoing
    /\ pc \in {"redeploy", "redeploying", "uncordon", "unmark"} =>
          vm[cur].state # "updating"

(* Every step keeps ApplyInv.                                              *)
LEMMA NextApply == MarkedInv /\ ApplyInv /\ [Next]_vars => ApplyInv'
<1> SUFFICES ASSUME MarkedInv, ApplyInv, [Next]_vars PROVE ApplyInv'
  OBVIOUS
<1>a. TypeOK /\ CandidateMarked
  BY DEF MarkedInv
<1>b. vm \in [Nodes -> Instance]
  BY <1>a DEF TypeOK
<1>c. /\ pc \in InNode => cur \in Nodes
      /\ pc \in Marked => api[cur].ongoing
  BY <1>a DEF CandidateMarked
<1> USE DEF ApplyInv, InNode, Marked
<1> DEFINE Later == {"redeploy", "redeploying", "uncordon", "unmark"}
<1>1. CASE Unmark
  <2>1. pc = "unmark" /\ cur \in Nodes /\ vm' = vm /\ pc' \notin Later
    BY <1>1, <1>c DEF Unmark, Goes, Fails
  <2> QED
    BY <1>1, <1>a, <2>1, MarkSteps
<1>2. CASE BeginUpdate
  <2>1. pc = "update" /\ cur \in Nodes /\ api' = api /\ pc' \notin Later /\ api[cur].ongoing
    BY <1>2, <1>c DEF BeginUpdate, Goes, Fails
  <2>2. \A n \in Nodes : n # cur => vm'[n] = vm[n]
    BY <1>2, <1>b DEF BeginUpdate
  <2> QED
    BY <2>1, <2>2
<1>3. CASE BeginRedeploy
  <2>1. pc = "redeploy" /\ cur \in Nodes /\ api' = api /\ cur' = cur
    BY <1>3, <1>c DEF BeginRedeploy, Goes, Fails
  <2>2. /\ \A n \in Nodes : n # cur => vm'[n] = vm[n]
        /\ vm'[cur].state # "updating"
    BY <1>3, <1>b, <2>1 DEF BeginRedeploy, Instance
  <2> QED
    BY <2>1, <2>2
<1>4. ASSUME NEW n \in Nodes, AzureCompletes(n) \/ InstanceChanges(n) PROVE ApplyInv'
  <2>1. UNCHANGED <<api, pc, cur>>
    BY <1>4 DEF AzureCompletes, InstanceChanges, jobVars
  <2>2. /\ \A m \in Nodes : m # n => vm'[m] = vm[m]
        /\ vm'[n].state # "updating"
    BY <1>4, <1>b DEF AzureCompletes, InstanceChanges, Instance
  <2> QED
    BY <1>c, <2>1, <2>2
<1>5. CASE NewModel
  <2>1. UNCHANGED <<api, pc, cur>>
    BY <1>5 DEF NewModel, jobVars
  <2>2. \A m \in Nodes : vm'[m].state = vm[m].state
    BY <1>5, <1>b DEF NewModel, Instance
  <2> QED
    BY <1>c, <2>1, <2>2
<1>6. CASE Next /\ vm' = vm /\ ~Unmark
  <2>1. \A n \in Nodes : api[n].ongoing => api'[n].ongoing
    BY <1>a, <1>6, OnlyUnmarkEnds
  <2>2. CASE PollUpdate \/ PollRedeploy
    BY <1>6, <2>1, <2>2 DEF PollUpdate, PollRedeploy, Goes, Fails
  <2>3. CASE ~PollUpdate /\ ~PollRedeploy
    <3>1. pc' \in Later => pc \in Later /\ cur' = cur
      BY <1>6, <2>3
         DEF Next, Cron, Run, Environment, CronTick, CronSkip, Start, SyncLocks, ListNodes,
             RefreshAzure, NextNode, Choose, SelfEvict, MarkOngoing, CheckState, DrainReturns, DrainFails, Drain,
             BeginUpdate, BeginRedeploy, Uncordon, LockUpdated, LockFailed, RunEnds, Crash,
             Terminated, WatchRestart, NewModel, RepairCleanup, Janitor, Tick, WatchEvent, Deliver,
             AzureCompletes, InstanceChanges, ToggleExclude, Goes, Fails, jobVars
    <3> QED
      BY <1>6, <2>1, <3>1
  <2> QED
    BY <2>2, <2>3
<1>7. CASE UNCHANGED vars
  BY <1>7 DEF vars, jobVars
<1>8. Next => \/ Unmark \/ BeginUpdate \/ BeginRedeploy \/ NewModel
              \/ \E n \in Nodes : AzureCompletes(n) \/ InstanceChanges(n)
              \/ vm' = vm
  BY DEF Next, Cron, Run, Environment, CronTick, CronSkip, Start, SyncLocks, ListNodes,
         RefreshAzure, NextNode, Choose, SelfEvict, MarkOngoing, CheckState, DrainReturns, DrainFails, Drain,
         PollUpdate, PollRedeploy, Uncordon, LockUpdated, LockFailed, Lock, Crash,
         Terminated, WatchRestart, RepairCleanup, Janitor, Tick, WatchEvent, Deliver, ToggleExclude,
         jobVars
<1> QED
  BY <1>1, <1>2, <1>3, <1>4, <1>5, <1>6, <1>7, <1>8

(* A step that only reopens nodes, or changes nothing the protocol sees.   *)
LEMMA QuietOpens ==
    ASSUME Quiet, UNCHANGED <<applied, spared>>
    PROVE  [Protocol!Next]_(Protocol!vars)
<1>1. PICK S \in SUBSET Nodes : S = {n \in Nodes : api[n].cordoned /\ ~api'[n].cordoned}
  OBVIOUS
<1>2. Protocol!Open(S)
  BY <1>1 DEF Quiet, Protocol!Open
<1> QED
  BY <1>2 DEF Protocol!Next

(* Only a mark and the end of an Azure operation change what the history   *)
(* says of updates, and only a new list what it says of exclusions.        *)
LEMMA HistorySteps ==
    ASSUME [Next]_vars, ~MarkOngoing, \A n \in Nodes : ~AzureCompletes(n)
    PROVE  /\ applied' = applied
           /\ ~RefreshAzure => spared' = spared
BY DEF vars, history, NodeFrame, Next, Cron, Run, Environment, CronTick, CronSkip, Start, SyncLocks,
       ListNodes, RefreshAzure, NextNode, Choose, SelfEvict, CheckState, DrainReturns, DrainFails,
       Drain, BeginUpdate, BeginRedeploy, Unmark, PollUpdate, PollRedeploy, Uncordon, LockUpdated,
       LockFailed, Lock, Crash, Terminated, WatchRestart, NewModel, RepairCleanup, Janitor, Tick,
       WatchEvent, Deliver, InstanceChanges, ToggleExclude

(* Every step of the job is a step of the protocol or changes nothing it   *)
(* sees.  Two steps need the invariants: the mark that begins an update    *)
(* (no other may be unfinished) and the one that ends it (an update has    *)
(* been applied and the node is schedulable).                              *)
LEMMA NextProtocol ==
    ASSUME CandidateInv, AloneInv, ApplyInv, [Next]_vars
    PROVE  [Protocol!Next]_(Protocol!vars)
<1>a. TypeOK /\ CandidateMarked /\ CandidateApplied
  BY DEF CandidateInv, MarkedInv
<1>b. api \in [Nodes -> NodeObject]
  BY <1>a DEF TypeOK
<1>c. /\ pc \in InNode => cur \in Nodes
      /\ pc \in Marked => api[cur].ongoing
  BY <1>a DEF CandidateMarked
<1> USE DEF InNode, Marked
<1>1. CASE MarkOngoing
  <2>1. pc = "mark" /\ cur \in Nodes /\ spared' = spared
    BY <1>1, <1>c DEF MarkOngoing
  <2>2. CASE api' = api /\ applied' = applied
    BY <2>1, <2>2, QuietOpens DEF Quiet
  <2>3. CASE pc' # "lockerror"
    <3>1. /\ api' = [api EXCEPT ![cur].ongoing = TRUE, ![cur].disable = TRUE]
          /\ applied' = applied \ {cur}
      BY <1>1, <2>3 DEF MarkOngoing, Fails, Goes
    <3>2. \A m \in Nodes : /\ api'[m].ongoing = (m = cur \/ api[m].ongoing)
                           /\ api'[m].excluded = api[m].excluded
                           /\ api'[m].cordoned = api[m].cordoned
      BY <1>b, <2>1, <3>1 DEF NodeObject
    <3>3. PICK n \in Nodes : n = cur
      BY <2>1
    <3>4. CASE ~api[cur].ongoing
      <4>1. {m \in Nodes : api[m].ongoing} \subseteq {m \in Nodes : api[m].excluded} \cup spared
        BY <2>1, <3>4 DEF AloneInv, Unfinished
      <4>2. Protocol!Begin(n)
        BY <2>1, <3>1, <3>2, <3>3, <3>4, <4>1 DEF Protocol!Begin
      <4> QED
        BY <4>2 DEF Protocol!Next
    <3>5. CASE api[cur].ongoing
      <4>1. Protocol!Retry(n)
        BY <2>1, <3>1, <3>2, <3>3, <3>5 DEF Protocol!Retry
      <4> QED
        BY <4>1 DEF Protocol!Next
    <3> QED
      BY <3>4, <3>5
  <2> QED
    BY <1>1, <2>2, <2>3 DEF MarkOngoing, Fails, Goes
<1>2. CASE Drain
  <2>1. pc = "drain" /\ cur \in Nodes /\ api[cur].ongoing /\ UNCHANGED <<applied, spared>>
    BY <1>2, <1>c DEF Drain, DrainFails, NodeFrame, history
  <2>2. CASE api' = api
    BY <2>1, <2>2, QuietOpens DEF Quiet
  <2>3. CASE api' = [api EXCEPT ![cur].cordoned = TRUE]
    <3>1. PICK n \in Nodes : n = cur
      BY <2>1
    <3>2. Protocol!Close(n)
      BY <1>b, <2>1, <2>3, <3>1 DEF Protocol!Close, NodeObject
    <3> QED
      BY <3>2 DEF Protocol!Next
  <2> QED
    BY <1>2, <2>2, <2>3 DEF Drain, DrainFails
<1>3. CASE Unmark
  <2>1. /\ pc = "unmark" /\ cur \in Nodes /\ api[cur].ongoing
        /\ ~api[cur].cordoned /\ cur \in applied /\ UNCHANGED <<applied, spared>>
    BY <1>3, <1>a, <1>c DEF Unmark, CandidateMarked, CandidateApplied, NodeFrame, history
  <2>2. CASE pc' # "lock"
    BY <1>3, <1>a, <2>1, <2>2, MarkSteps, QuietOpens DEF Quiet
  <2>3. CASE pc' = "lock"
    <3>1. PICK n \in Nodes : n = cur
      BY <2>1
    <3>2. Protocol!Finish(n)
      BY <1>3, <1>a, <2>1, <2>3, <3>1, MarkSteps DEF Protocol!Finish
    <3> QED
      BY <3>2 DEF Protocol!Next
  <2> QED
    BY <2>2, <2>3
<1>4. ASSUME NEW n \in Nodes, AzureCompletes(n) PROVE [Protocol!Next]_(Protocol!vars)
  <2>1. UNCHANGED <<api, spared>>
    BY <1>4 DEF AzureCompletes
  <2>2. CASE vm[n].state = "updating" /\ applied' = applied \cup {n}
    <3>1. api[n].ongoing
      BY <2>2 DEF ApplyInv
    <3>2. Protocol!Apply(n)
      BY <2>1, <2>2, <3>1 DEF Protocol!Apply
    <3> QED
      BY <3>2 DEF Protocol!Next
  <2>3. CASE applied' = applied
    BY <2>1, <2>3, QuietOpens DEF Quiet
  <2> QED
    BY <1>4, <2>2, <2>3 DEF AzureCompletes
<1>5. CASE RefreshAzure
  <2>1. UNCHANGED <<api, applied>> /\ spared' \subseteq Nodes
    BY <1>5, <1>a DEF RefreshAzure, Listed, TypeOK
  <2>2. PICK S \in SUBSET Nodes : S = {m \in Nodes : api'[m].excluded} \cup spared'
    BY <2>1
  <2>3. Protocol!Toggle(S)
    BY <2>1, <2>2 DEF Protocol!Toggle
  <2> QED
    BY <2>3 DEF Protocol!Next
<1>6. ASSUME NEW n \in Nodes, ToggleExclude(n) PROVE [Protocol!Next]_(Protocol!vars)
  <2>1. UNCHANGED <<applied, spared>> /\ spared \subseteq Nodes
    BY <1>6, <1>a DEF ToggleExclude, TypeOK, history
  <2>2. PICK S \in SUBSET Nodes : S = {m \in Nodes : api'[m].excluded} \cup spared'
    BY <2>1
  <2>3. Protocol!Toggle(S)
    BY <1>6, <1>a, <2>1, <2>2, ToggleStep DEF Protocol!Toggle
  <2> QED
    BY <2>3 DEF Protocol!Next
<1>7. CASE /\ ~MarkOngoing /\ ~Drain /\ ~Unmark /\ ~RefreshAzure
           /\ \A n \in Nodes : ~AzureCompletes(n) /\ ~ToggleExclude(n)
  <2>1. UNCHANGED <<applied, spared>>
    BY <1>7, HistorySteps
  <2>2. \/ CronTick \/ SyncLocks \/ ListNodes \/ Uncordon \/ LockUpdated
        \/ LockFailed \/ RepairCleanup \/ Tick \/ UNCHANGED api
    BY <1>7
       DEF vars, Next, Cron, Run, Environment, Start, Crash, Terminated, CronSkip,
           NextNode, SelfEvict, CheckState, DrainReturns, DrainFails, BeginUpdate, PollUpdate,
           BeginRedeploy, PollRedeploy, WatchRestart, NewModel, Janitor, Choose, WatchEvent, Deliver,
           InstanceChanges
  <2>3. Quiet
    BY <1>a, <2>2, QuietSteps
  <2> QED
    BY <2>1, <2>3, QuietOpens
<1> QED
  BY <1>1, <1>2, <1>3, <1>4, <1>5, <1>6, <1>7

(* While the watch keeps up with the cluster when a run begins, the update *)
(* job implements UpdateProtocol: whatever fails and wherever the process  *)
(* is killed, the cluster sees one update at a time, closed nodes only     *)
(* while they are being updated, and no update dropped half-way.           *)
THEOREM ProtocolImplemented == ASSUME ~WatchRace PROVE Spec => ImplementsProtocol
<1> DEFINE Inv == CandidateInv /\ AloneInv /\ ApplyInv
<1>1. Init => Inv /\ Protocol!Init
  <2>1. Init => AloneInv /\ ApplyInv
    BY DEF Init, AloneInv, ApplyInv, InNode
  <2>2. Init => Protocol!Init
    BY DEF Init, Protocol!Init
  <2> QED
    BY <2>1, <2>2, InitCandidate
<1>2. Inv /\ [Next]_vars => Inv' /\ [Protocol!Next]_(Protocol!vars)
  BY NextType, NextMarked, NextApplied, NextAlone, NextApply, NextProtocol DEF CandidateInv, MarkedInv
<1> HIDE DEF Inv
<1> QED
  BY <1>1, <1>2, PTL DEF Spec, ImplementsProtocol, Protocol!Spec
=============================================================================
