------------------------------ MODULE RepairJob ------------------------------
(***************************************************************************)
(* The repair job of azure-k8s-autopilot: one cron entry that looks for    *)
(* nodes that have not been ready for repair.notready-threshold and has    *)
(* Azure restart, redeploy or reimage their machines                       *)
(* (autopilot/task.repair.go, autopilot/lib.azure.go and the cron function *)
(* of autopilot/main.go).                                                  *)
(*                                                                         *)
(* The job reads the nodes from a watch cache that lags behind the API     *)
(* server, walks a snapshot of it and waits for Azure in the middle of the *)
(* walk: time passes, nodes recover, operators cordon, the process is      *)
(* killed.  Each step is one call with the code up to the next one; the    *)
(* code between two calls takes no time.                                   *)
(***************************************************************************)
EXTENDS NodeAnnotations

CONSTANTS
    Nodes,              \* the nodes of the cluster
    NoNode,             \* no node: nothing is chosen, no entry of a node list
    Period,             \* repair.crontab, "@every Period"
    NotReadyThreshold,  \* repair.notready-threshold
    RepairLimit,        \* repair.concurrency, 0 is unlimited
    RepairLock,         \* repair.lock-duration
    RepairLockError,    \* repair.lock-duration-error
    ScaledownLock,      \* repautoscaler.scaledown-locktime, 0 is off
    RepairStates,       \* repair.azure.provisioningstate
    DryRuns,            \* the values of dry-run a start may find
    UpdateEnabled,      \* update.crontab is set: there is an update cron
    Hosts,              \* where the autopilot may be scheduled (NoNode: elsewhere)
    WatchLags,          \* the watch may be behind by more than one unit of time
    Downtime,           \* time may pass between a crash and the next start
    MaxFaults,          \* bound on failing calls and crashes
    MaxOutside          \* bound on what nodes, operators and Azure do by themselves

ASSUME RepairAssumption ==
    /\ NoNode \notin Nodes
    /\ IsFiniteSet(Nodes)
    /\ Period \in Nat \ {0}
    /\ NotReadyThreshold \in Nat \ {0}
    /\ RepairLimit \in Nat
    /\ RepairLock \in Nat \ {0}
    /\ RepairLockError \in Nat \ {0}
    /\ ScaledownLock \in Nat
    /\ {UpdateEnabled, WatchLags, Downtime} \subseteq BOOLEAN
    /\ DryRuns \subseteq BOOLEAN
    /\ DryRuns # {}
    /\ Hosts \subseteq Nodes \cup {NoNode}
    /\ Hosts # {}
    /\ MaxFaults \in Nat
    /\ MaxOutside \in Nat

VARIABLES
    api,        \* the node objects on the API server
    vm,         \* the provisioning states of the machines in Azure
    list,       \* NodeList.list: the watch cache of the node objects
    locks,      \* repair.nodeLock: the lock cache of this job
    pc,         \* what the process is about to do, or waits for
    snap,       \* the nodes of the run not visited yet, as they were listed
    cur,        \* the node being repaired
    self,       \* the node this process runs on
    dryRun,     \* dry-run, an option of this process
    due,        \* time until the next cron tick
    seen,       \* history: nodes the list has shown to need repair (see below)
    faults,     \* failing calls and crashes so far
    outside     \* spontaneous events so far

jobVars == <<locks, pc, snap, cur, self, dryRun>>
vars == <<api, vm, list, jobVars, due, seen, faults, outside>>

(* A node: its Ready condition and the time since its last heartbeat (kept *)
(* only while it is not ready, and up to the threshold), its cordon and    *)
(* its annotations.                                                        *)
Silence == 0 .. NotReadyThreshold
NodeObject == [ready : BOOLEAN, silent : Silence, cordoned : BOOLEAN,
               lock : Annotation, expire : Annotation, disable : BOOLEAN]

(* What repairRun reads of a node in its snapshot. *)
Status == [ready : BOOLEAN, silent : Silence, cordoned : BOOLEAN]
StatusOf(o) == [ready |-> o.ready, silent |-> o.silent, cordoned |-> o.cordoned]

ASSUME StatusAssumption == NoNode \notin Status \cup NodeObject

ProvisioningState == {"succeeded", "failed", "repairing", "updating"}
Settled == {"succeeded", "failed"}

InRepair == {"check", "begin", "repairing", "lock", "lockerror"}
InRun == {"list", "next"} \cup InRepair
Location == {"down", "stopped", "idle"} \cup InRun

(* The nodes of a view (the watch cache or a snapshot of it). *)
Listed(view) == {n \in Nodes : view[n] # NoNode}
Nothing == [n \in Nodes |-> NoNode]

-----------------------------------------------------------------------------
(* Failing calls *)

Fault == faults < MaxFaults /\ faults' = faults + 1
NoFault == UNCHANGED faults

(* Removals of annotations from each of a set of nodes, whose errors are   *)
(* only logged: they succeed for the nodes in done.                        *)
Calls(S, done) == \/ done = S /\ NoFault
                  \/ done # S /\ Fault

-----------------------------------------------------------------------------
(* The decisions of repairRun *)

LimitReached_OffByOne == RepairLimit > 0 /\ ItemCount(locks) > RepairLimit
LimitReached == RepairLimit > 0 /\ ItemCount(locks) >= RepairLimit

(* Not healthy, not cordoned, last heartbeat beyond the threshold. *)
NeedsRepair(s) == ~s.ready /\ ~s.cordoned /\ s.silent >= NotReadyThreshold

(* The nodes of the list that need repair, by what the list says.  The     *)
(* history variable seen holds them since the run listed the nodes or last *)
(* waited for Azure.                                                       *)
Needing == {n \in Listed(list) : NeedsRepair(list[n])}

(* checkVmProvisionState *)
StateAllowed(s) == "*" \in RepairStates \/ s \in RepairStates

-----------------------------------------------------------------------------
Init ==
    /\ api = [n \in Nodes |-> [ready |-> TRUE, silent |-> 0, cordoned |-> FALSE,
                               lock |-> Absent, expire |-> Absent, disable |-> FALSE]]
    /\ vm = [n \in Nodes |-> "succeeded"]
    /\ list = Nothing
    /\ locks = EmptyCache(Nodes)
    /\ pc = "down"
    /\ snap = Nothing
    /\ cur = NoNode
    /\ self \in Hosts
    /\ dryRun \in DryRuns
    /\ due = Period
    /\ seen = {}
    /\ faults = 0
    /\ outside = 0

-----------------------------------------------------------------------------
(* The process: start, crash, cron *)

Start ==
    /\ pc = "down"
    /\ pc' = "idle"
    /\ locks' = EmptyCache(Nodes)
    /\ self' \in Hosts
    /\ dryRun' \in DryRuns
    /\ due' = Period
    /\ UNCHANGED <<api, vm, list, snap, cur, seen, faults, outside>>

Terminated ==
    /\ pc' = "down"
    /\ list' = Nothing
    /\ locks' = EmptyCache(Nodes)
    /\ snap' = Nothing
    /\ cur' = NoNode
    /\ UNCHANGED <<api, vm, self, dryRun, due, seen, outside>>

(* The process is killed, at any point. *)
Crash == pc # "down" /\ Fault /\ Terminated

(* Cron fires: syncNodeLockCache, then the concurrency check. *)
Discarded == {n \in Listed(list) : LockDiscarded(list[n].lock)}
Kept == {n \in Listed(list) : LockKept(list[n].lock)}

SyncedLocks_NoFlush == [n \in Nodes |-> IF n \in Kept THEN LockDuration(list[n].lock)
                                                       ELSE locks[n]]
SyncedLocks == [n \in Nodes |-> IF n \in Kept THEN LockDuration(list[n].lock) ELSE Absent]

CronTick ==
    /\ due = 0
    /\ pc = "idle"
    /\ due' = Period
    /\ \E done \in SUBSET Discarded :
         /\ Calls(Discarded, done)
         /\ api' = [n \in Nodes |-> IF n \in done THEN [api[n] EXCEPT !.lock = Absent]
                                                  ELSE api[n]]
    /\ locks' = SyncedLocks
    /\ IF LimitReached' THEN pc' = "idle" ELSE pc' = "list"
    /\ UNCHANGED <<vm, list, snap, cur, self, dryRun, seen, outside>>

(* SkipIfStillRunning: the run before is still under way. *)
CronSkip ==
    /\ due = 0
    /\ pc = "repairing"
    /\ due' = Period
    /\ UNCHANGED <<api, vm, list, jobVars, seen, faults, outside>>

(* NodeList.Cleanup, then the snapshot. *)
Stale == {n \in Listed(list) : LockDiscarded(list[n].expire)}

ListNodes ==
    /\ pc = "list"
    /\ pc' = "next"
    /\ \E done \in SUBSET Stale :
         /\ Calls(Stale, done)
         /\ api' = [n \in Nodes |-> IF n \in done THEN Cleanup(api[n]) ELSE api[n]]
    /\ snap' = [n \in Nodes |-> IF n \in Listed(list) THEN StatusOf(list[n]) ELSE NoNode]
    /\ seen' = Needing
    /\ UNCHANGED <<vm, list, locks, cur, self, dryRun, due, outside>>

-----------------------------------------------------------------------------
(* The walk over the snapshot, a Go map: in any order *)

At(n) == pc = "next" /\ n \in Listed(snap)
Visited(n) == snap' = [snap EXCEPT ![n] = NoNode]
WalkFrame == UNCHANGED <<api, vm, list, self, dryRun, due, seen, outside>>

(* A healthy node loses its item of the lock cache. *)
VisitHealthy(n) ==
    /\ At(n) /\ Visited(n)
    /\ snap[n].ready
    /\ locks' = CacheDelete(locks, n)
    /\ UNCHANGED <<pc, cur, faults>> /\ WalkFrame

Admitted(n) == NeedsRepair(snap[n]) /\ ~CacheHolds(locks, n) /\ ~LimitReached

(* Cordoned, not silent for long enough, still locked, or limit reached. *)
Skip(n) ==
    /\ At(n) /\ Visited(n)
    /\ ~snap[n].ready
    /\ ~Admitted(n)
    /\ UNCHANGED <<locks, pc, cur, faults>> /\ WalkFrame

PretendRepair(n) ==
    /\ At(n) /\ Visited(n)
    /\ Admitted(n)
    /\ dryRun
    /\ locks' = CacheAdd(locks, n, RepairLock)
    /\ UNCHANGED <<pc, cur, faults>> /\ WalkFrame

Repair(n) ==
    /\ At(n) /\ Visited(n)
    /\ Admitted(n)
    /\ ~dryRun /\ n # self
    /\ cur' = n
    /\ pc' = "check"
    /\ UNCHANGED <<locks, faults>> /\ WalkFrame

(* checkSelfEviction: both crons are stopped and the pod is evicted, or    *)
(* the missing update cron is dereferenced and the process dies.  An error *)
(* of Evict is only logged.                                                *)
SelfEvict ==
    /\ self \in Nodes /\ At(self)
    /\ Admitted(self)
    /\ ~dryRun
    /\ \/ NoFault /\ Terminated
       \/ /\ UpdateEnabled /\ Fault
          /\ pc' = "stopped" /\ snap' = Nothing
          /\ UNCHANGED <<locks, cur>> /\ WalkFrame

RunEnds ==
    /\ pc = "next"
    /\ Listed(snap) = {}
    /\ pc' = "idle"
    /\ UNCHANGED <<locks, snap, cur, faults>> /\ WalkFrame

-----------------------------------------------------------------------------
(* azureVmssInstanceRepair or azureVmRepair for the node cur *)

Goes(place) ==
    /\ pc' = place
    /\ UNCHANGED <<api, list, locks, snap, cur, self, dryRun, due, seen, outside>>
Fails == Goes("lockerror")

CheckState_Skipped ==
    /\ pc = "check"
    /\ NoFault
    /\ Goes("begin")
    /\ UNCHANGED vm

CheckState ==
    /\ pc = "check"
    /\ \/ NoFault /\ StateAllowed(vm[cur]) /\ Goes("begin")
       \/ NoFault /\ ~StateAllowed(vm[cur]) /\ Fails
       \/ Fault /\ Fails
    /\ UNCHANGED vm

(* BeginRestart, BeginRedeploy or BeginReimage: Azure starts to work. *)
BeginRepair ==
    /\ pc = "begin"
    /\ \/ NoFault /\ Goes("repairing") /\ vm' = [vm EXCEPT ![cur] = "repairing"]
       \/ Fault /\ Fails /\ UNCHANGED vm

(* PollUntilDone returns with the result once Azure has finished, or with  *)
(* an error of its own, whatever Azure is doing.                           *)
PollRepair ==
    /\ pc = "repairing"
    /\ \/ NoFault /\ vm[cur] = "succeeded" /\ Goes("lock")
       \/ NoFault /\ vm[cur] = "failed" /\ Fails
       \/ Fault /\ Fails
    /\ UNCHANGED vm

(* The cache item, then the annotations; then on to the next node. *)
Lock_AnnotationOnly(duration) ==
    /\ UNCHANGED locks
    /\ \/ NoFault /\ api' = [api EXCEPT ![cur] = AnnotationLockSet(@, duration, ScaledownLock)]
       \/ Fault /\ UNCHANGED api
    /\ pc' = "next"
    /\ cur' = NoNode
    /\ seen' = Needing
    /\ UNCHANGED <<vm, list, snap, self, dryRun, due, outside>>

Lock(duration) ==
    /\ locks' = CacheAdd(locks, cur, duration)
    /\ \/ NoFault /\ api' = [api EXCEPT ![cur] = AnnotationLockSet(@, duration, ScaledownLock)]
       \/ Fault /\ UNCHANGED api
    /\ pc' = "next"
    /\ cur' = NoNode
    /\ seen' = Needing
    /\ UNCHANGED <<vm, list, snap, self, dryRun, due, outside>>

LockRepaired == pc = "lock" /\ Lock(RepairLock)
LockFailed == pc = "lockerror" /\ Lock(RepairLockError)

-----------------------------------------------------------------------------
(* Around the job: the watch, nodes, operators, Azure, time *)

(* startNodeWatch handles an event: the node object in the list is replaced. *)
Deliver(n) ==
    /\ list' = [list EXCEPT ![n] = api[n]]
    /\ seen' = (IF pc = "next" /\ NeedsRepair(api[n]) THEN seen \cup {n} ELSE seen)
    /\ UNCHANGED <<api, vm, jobVars, due, faults, outside>>

WatchEvent(n) == pc # "down" /\ list[n] # api[n] /\ Deliver(n)

Outside == outside < MaxOutside /\ outside' = outside + 1

(* The watch times out or breaks: startNodeWatch begins with an empty list.*)
WatchRestart ==
    /\ pc # "down"
    /\ Outside
    /\ list' = Nothing
    /\ UNCHANGED <<api, vm, jobVars, due, seen, faults>>

(* Nodes and machines have no hold of the job. *)
Around == UNCHANGED <<list, jobVars, due, seen>>

NodeFails(n) ==
    /\ Around /\ Outside
    /\ api[n].ready
    /\ api' = [api EXCEPT ![n].ready = FALSE]
    /\ UNCHANGED <<vm, faults>>

(* The kubelet of a node that is not ready is heard of again. *)
Heartbeat(n) ==
    /\ Around /\ Outside
    /\ ~api[n].ready /\ api[n].silent > 0
    /\ api' = [api EXCEPT ![n].silent = 0]
    /\ UNCHANGED <<vm, faults>>

NodeRecovers(n) ==
    /\ Around
    /\ ~api[n].ready
    /\ api' = [api EXCEPT ![n].ready = TRUE, ![n].silent = 0]
    /\ UNCHANGED <<vm, faults, outside>>

(* An operator, or the update job, cordons or uncordons a node. *)
ToggleCordon(n) ==
    /\ Around /\ Outside
    /\ api' = [api EXCEPT ![n].cordoned = ~@]
    /\ UNCHANGED <<vm, faults>>

(* Azure finishes an operation, whoever began it. *)
AzureCompletes(n) ==
    /\ Around
    /\ vm[n] \notin Settled
    /\ \/ NoFault /\ vm' = [vm EXCEPT ![n] = "succeeded"]
       \/ Fault /\ vm' = [vm EXCEPT ![n] = "failed"]
    /\ UNCHANGED <<api, outside>>

(* Somebody else begins an operation on a machine. *)
OtherOperation(n) ==
    /\ Around /\ Outside
    /\ vm[n] \in Settled
    /\ vm' = [vm EXCEPT ![n] = "updating"]
    /\ UNCHANGED <<api, faults>>

(* The janitor of the lock cache. *)
Janitor ==
    /\ locks # DeleteExpired(locks)
    /\ locks' = DeleteExpired(locks)
    /\ UNCHANGED <<api, vm, list, pc, snap, cur, self, dryRun, due, seen, faults, outside>>

Longer(s) == IF s < NotReadyThreshold THEN s + 1 ELSE s
AgedStatus(s) == IF s.ready THEN s ELSE [s EXCEPT !.silent = Longer(@)]
AgedNode(o) == [AgedStatus(o) EXCEPT !.lock = Aged(@), !.expire = Aged(@)]

(* Time passes while the process is idle or waits for Azure; cron fires    *)
(* when it is due, and unless it lags the watch delivers within one unit   *)
(* of time.                                                                *)
Tick ==
    /\ pc \in {"idle", "stopped", "repairing"} \cup (IF Downtime THEN {"down"} ELSE {})
    /\ pc \in {"down", "stopped"} \/ due > 0
    /\ WatchLags \/ pc = "down" \/ list = api
    /\ due' = (IF pc \in {"down", "stopped"} THEN due ELSE due - 1)
    /\ api' = [n \in Nodes |-> AgedNode(api[n])]
    /\ list' = [n \in Nodes |-> IF n \in Listed(list) THEN AgedNode(list[n]) ELSE NoNode]
    /\ snap' = [n \in Nodes |-> IF n \in Listed(snap) THEN AgedStatus(snap[n]) ELSE NoNode]
    /\ locks' = CacheAged(locks)
    /\ UNCHANGED <<vm, pc, cur, self, dryRun, seen, faults, outside>>

-----------------------------------------------------------------------------
Cron == CronTick \/ CronSkip

Run ==
    \/ Start \/ ListNodes \/ SelfEvict \/ RunEnds
    \/ CheckState \/ BeginRepair \/ PollRepair \/ LockRepaired \/ LockFailed
    \/ \E n \in Nodes : VisitHealthy(n) \/ Skip(n) \/ PretendRepair(n) \/ Repair(n)

Environment ==
    \/ Crash \/ WatchRestart \/ Janitor \/ Tick
    \/ \E n \in Nodes : \/ WatchEvent(n) \/ NodeFails(n) \/ Heartbeat(n) \/ NodeRecovers(n)
                       \/ ToggleCordon(n) \/ AzureCompletes(n) \/ OtherOperation(n)

Next == Cron \/ Run \/ Environment

Spec == Init /\ [][Next]_vars

(* The process runs when it can and its calls return, cron fires, time     *)
(* passes, the watch delivers, and Azure finishes what it has begun.       *)
Fairness ==
    /\ WF_vars(Run)
    /\ WF_vars(Cron)
    /\ WF_vars(Tick)
    /\ \A n \in Nodes : WF_vars(WatchEvent(n)) /\ WF_vars(AzureCompletes(n))

FairSpec == Spec /\ Fairness

-----------------------------------------------------------------------------
(* Properties *)

(* Every variable has its type. *)
TypeOK ==
    /\ api \in [Nodes -> NodeObject]
    /\ vm \in [Nodes -> ProvisioningState]
    /\ list \in [Nodes -> NodeObject \cup {NoNode}]
    /\ locks \in [Nodes -> CacheItem]
    /\ pc \in Location
    /\ snap \in [Nodes -> Status \cup {NoNode}]
    /\ cur \in Nodes \cup {NoNode}
    /\ self \in Hosts
    /\ dryRun \in DryRuns
    /\ due \in Nat
    /\ seen \in SUBSET Nodes
    /\ faults \in Nat
    /\ outside \in Nat

(* "How many VMs should be redeployed concurrently": during a run the lock *)
(* cache holds no more than repair.concurrency nodes, one place being left *)
(* for the node under repair until it is locked.                           *)
WithinLimit ==
    pc \in InRun /\ RepairLimit > 0 =>
        /\ ItemCount(locks) <= RepairLimit
        /\ pc \in InRepair => ItemCount(locks) < RepairLimit

(* "tried (eg. after 10 mins of NotReady state after last successfull      *)
(* heartbeat)" and "ignore cordoned nodes, maybe maintenance work in       *)
(* progress": a repair starts only on a node that is not ready, not        *)
(* cordoned and silent beyond the threshold, by something the watch has    *)
(* shown since the run listed the nodes or last waited for Azure.          *)
RepairsNeeded ==
    [][\A n \in Nodes : pc = "next" /\ pc' = "check" /\ cur' = n => n \in seen]_vars

(* A repair that Azure still works on, because the process was killed or   *)
(* gave up waiting for it, is not begun a second time.                     *)
RepairsNotRepeated ==
    [][pc = "begin" /\ pc' = "repairing" => vm[cur] # "repairing"]_vars

(* While nodes keep needing repair, repairs keep being attempted; unless a *)
(* lock annotation stays on after its time has passed (the job never       *)
(* removes it, and it keeps its place in the lock cache), the autopilot has*)
(* to leave its own node, which is Lifecycle's concern, or it only pretends*)
PassedLocks == {n \in Nodes : api[n].lock \in Int /\ api[n].lock < 0}
KeepsRepairing ==
    \/ []<>(\A n \in Nodes : ~NeedsRepair(StatusOf(api[n])))
    \/ []<>(pc = "check")
    \/ <>[](PassedLocks # {})
    \/ []<>(pc \in {"down", "stopped"} \/ dryRun)
=============================================================================
