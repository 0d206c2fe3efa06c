------------------------------ MODULE UpdateJob ------------------------------
(***************************************************************************)
(* The update job of azure-k8s-autopilot: one cron entry that looks for    *)
(* VMSS instances that do not run the latest model and, one by one, marks, *)
(* drains, updates, redeploys and uncordons their Kubernetes nodes         *)
(* (autopilot/task.update.go, autopilot/lib.azure.go, autopilot/lib.k8s.go *)
(* and the cron function and lock helpers of autopilot/main.go).           *)
(*                                                                         *)
(* The job reads the nodes from a watch cache that follows the API server, *)
(* calls Azure and kubectl, which take time and may fail, and may be       *)
(* killed between any two steps; what survives is on the API server.       *)
(* Each step is one external call with the code up to the next one.        *)
(***************************************************************************)
EXTENDS NodeAnnotations

CONSTANTS
    Nodes,              \* the nodes of the cluster, all VMSS instances
    NoNode,             \* no node: the watch cache has no entry, nothing is chosen
    Period,             \* update.crontab, "@every Period"
    UpdateLimit,        \* update.concurrency, 0 is unlimited
    UpdateLock,         \* update.lock-duration
    UpdateLockError,    \* update.lock-duration-error
    ScaledownLock,      \* repautoscaler.scaledown-locktime, 0 is off
    FailedThreshold,    \* update.failed-threshold
    RepairStates,       \* repair.azure.provisioningstate
    Reimage,            \* update.azure.vmss.action is "update+reimage"
    DrainEnable, DrainRetry, DrainIgnoreFailure,    \* drain.*
    DryRun,             \* dry-run
    RepairEnabled,      \* repair.crontab is set: the repair job runs beside this one
    Hosts,              \* where the autopilot may be scheduled (NoNode: elsewhere)
    WatchRace,          \* the watch may lag or time out while a run begins or is under way
    Downtime,           \* time may pass between a crash and the next start
    MaxFaults,          \* bound on failing calls and crashes
    MaxOutside          \* bound on what operators and Azure do by themselves

ASSUME UpdateAssumption ==
    /\ NoNode \notin Nodes
    /\ IsFiniteSet(Nodes)
    /\ Period \in Nat \ {0}
    /\ UpdateLimit \in Nat
    /\ UpdateLock \in Nat \ {0}
    /\ UpdateLockError \in Nat \ {0}
    /\ ScaledownLock \in Nat
    /\ FailedThreshold \in Nat
    /\ {Reimage, DrainEnable, DrainRetry, DrainIgnoreFailure, DryRun,
        RepairEnabled, WatchRace, Downtime} \subseteq BOOLEAN
    /\ Hosts \subseteq Nodes \cup {NoNode}
    /\ Hosts # {}
    /\ MaxFaults \in Nat
    /\ MaxOutside \in Nat

VARIABLES
    api,        \* the node objects on the API server
    vm,         \* the VMSS instances in Azure
    list,       \* NodeList.list: the watch cache of the node objects
    locks,      \* update.nodeLock: the lock cache of this job
    pc,         \* what the process is about to do, or waits for
    snap,       \* the node list a run works on (the snapshot it took)
    held,       \* nodes whose snapshot entry is still the watch cache's object
    todo,       \* candidates of the run not looked at yet
    cur,        \* the candidate being updated
    self,       \* the node this process runs on
    due,        \* time until the next cron tick
    promised,   \* history: time until a node may be attempted again
    applied,    \* history: nodes with an update applied since the last mark
    spared,     \* history: nodes that were excluded when the run listed them
    faults,     \* failing calls and crashes so far
    outside     \* spontaneous events so far

jobVars == <<locks, pc, snap, held, todo, cur, self>>
history == <<promised, applied, spared>>
vars == <<api, vm, list, jobVars, due, history, faults, outside>>

NodeObject == [cordoned : BOOLEAN, ongoing : BOOLEAN, excluded : BOOLEAN,
               lock : Annotation, expire : Annotation, disable : BOOLEAN]

ASSUME NodeAssumption == NoNode \notin NodeObject

(* An instance: whether it runs the latest model, whether the update Azure *)
(* works on brings it there, and its provisioning state.                   *)
ProvisioningState == {"succeeded", "failed", "updating", "redeploying"}
Instance == [latest : BOOLEAN, coming : BOOLEAN, state : ProvisioningState]

Waiting == {"azure", "draining", "updating", "redeploying"}
InNode == {"mark", "check", "drain", "draining", "update", "updating", "redeploy",
           "redeploying", "uncordon", "unmark", "lock", "lockerror"}
InRun == {"list", "azure", "next"} \cup InNode
Location == {"down", "stopped", "idle", "sync"} \cup InRun

(* The node objects of a view (the watch cache or a snapshot of it). *)
Listed(view) == {n \in Nodes : view[n] # NoNode}
Nothing == [n \in Nodes |-> NoNode]

-----------------------------------------------------------------------------
(* Failing calls *)

Fault == faults < MaxFaults /\ faults' = faults + 1
NoFault == UNCHANGED faults
Faults(k) == faults + k <= MaxFaults /\ faults' = faults + k

(* Calls on each of a set of nodes, whose errors are only logged: they     *)
(* succeed for the nodes in done.                                          *)
Calls(S, done) == \/ done = S /\ NoFault
                  \/ done # S /\ Fault

-----------------------------------------------------------------------------
(* The node list: Listed nodes that carry an annotation this job reads *)

Discarded(view) == {n \in Listed(view) : LockDiscarded(view[n].lock)}
Kept(view) == {n \in Listed(view) : LockKept(view[n].lock)}

(* updateCollectCandidates: the first ongoing node of the (unordered) list *)
(* and only this one, or else every node behind the latest model.          *)
Ongoing(view) == {n \in Listed(view) : ~view[n].excluded /\ view[n].ongoing}
Outdated(view) == {n \in Listed(view) : ~view[n].excluded /\ ~vm[n].latest}
Candidates_IgnoreOngoing(view) == {Outdated(view)}
Candidates(view) ==
    IF Ongoing(view) # {} THEN {{n} : n \in Ongoing(view)}
                          ELSE {Outdated(view)}

(* NodeCountByProvisionState reads the objects now in the watch cache; one *)
(* that came after the snapshot has no AzureVmss and is not counted.       *)
FailedCount == Cardinality({n \in held : vm[n].state = "failed"})

LimitReached_OffByOne == UpdateLimit > 0 /\ ItemCount(locks) > UpdateLimit
LimitReached == UpdateLimit > 0 /\ ItemCount(locks) >= UpdateLimit

(* checkVmProvisionState, which reads repair's option for updates too. *)
StateAllowed(s) == "*" \in RepairStates \/ s \in RepairStates

-----------------------------------------------------------------------------
Init ==
    /\ api \in [Nodes -> {[cordoned |-> FALSE, ongoing |-> FALSE,
                           excluded |-> FALSE, lock |-> l, expire |-> Absent,
                           disable |-> FALSE] : l \in {Absent, Invalid}}]
    /\ vm = [n \in Nodes |-> [latest |-> FALSE, coming |-> FALSE, state |-> "succeeded"]]
    /\ list = Nothing
    /\ locks = EmptyCache(Nodes)
    /\ pc = "down"
    /\ snap = Nothing
    /\ held = {}
    /\ todo = {}
    /\ cur = NoNode
    /\ self \in Hosts
    /\ due = Period
    /\ promised = [n \in Nodes |-> 0]
    /\ applied = {}
    /\ spared = {}
    /\ faults = 0
    /\ outside = 0

-----------------------------------------------------------------------------
(* The process: start, crash, cron *)

(* Init, leaderElect and Start: an empty lock cache, an empty node list    *)
(* that the watch fills, and the cron schedule from now on.                *)
Start ==
    /\ pc = "down"
    /\ pc' = "idle"
    /\ locks' = EmptyCache(Nodes)
    /\ self' \in Hosts
    /\ due' = Period
    /\ UNCHANGED <<api, vm, list, snap, held, todo, cur, history, faults, outside>>

Terminated ==
    /\ pc' = "down"
    /\ list' = Nothing
    /\ locks' = EmptyCache(Nodes)
    /\ snap' = Nothing
    /\ held' = {}
    /\ todo' = {}
    /\ cur' = NoNode
    /\ UNCHANGED <<api, vm, self, due, history, outside>>

(* The process is killed, at any point. *)
Crash == pc # "down" /\ Fault /\ Terminated

RunEnds == pc' = "idle" /\ snap' = Nothing /\ held' = {} /\ todo' = {} /\ cur' = NoNode

(* Cron fires; autoUncordonExpiredNodes uncordons the cordoned nodes whose *)
(* lock annotation it discards.  Errors are only logged.                   *)
CronTick ==
    /\ due = 0
    /\ pc = "idle"
    /\ WatchRace \/ list = api
    /\ due' = Period
    /\ pc' = "sync"
    /\ LET stale == {n \in Discarded(list) : list[n].cordoned} IN
       \E done \in SUBSET stale :
          /\ Calls(stale, done)
          /\ api' = [n \in Nodes |-> IF n \in done
                        THEN [api[n] EXCEPT !.cordoned = FALSE] ELSE api[n]]
    /\ UNCHANGED <<vm, list, locks, snap, held, todo, cur, self, history, outside>>

(* SkipIfStillRunning: the run before is still under way. *)
CronSkip ==
    /\ due = 0
    /\ pc \in Waiting
    /\ due' = Period
    /\ UNCHANGED <<api, vm, list, jobVars, history, faults, outside>>

(* syncNodeLockCache, then the concurrency check of the cron function. *)
SyncLocks ==
    /\ pc = "sync"
    /\ \E done \in SUBSET Discarded(list) :
          /\ Calls(Discarded(list), done)
          /\ api' = [n \in Nodes |-> IF n \in done
                        THEN [api[n] EXCEPT !.lock = Absent] ELSE api[n]]
    /\ locks' = [n \in Nodes |-> IF n \in Kept(list)
                    THEN LockDuration(list[n].lock) ELSE Absent]
    /\ IF LimitReached' THEN pc' = "idle" ELSE pc' = "list"
    /\ UNCHANGED <<vm, list, snap, held, todo, cur, self, due, history, outside>>

(* NodeList.Cleanup: the calls for the nodes in done succeed. *)
Cleaned(done) == [n \in Nodes |-> IF n \in done THEN Cleanup(api[n]) ELSE api[n]]
Stale(view) == {n \in Listed(view) : LockDiscarded(view[n].expire)}

(* updateRun: Cleanup, then the snapshot of NodeListWithAzure. *)
ListNodes ==
    /\ pc = "list"
    /\ \E done \in SUBSET Stale(list) :
          Calls(Stale(list), done) /\ api' = Cleaned(done)
    /\ snap' = list
    /\ held' = Listed(list)
    /\ pc' = "azure"
    /\ UNCHANGED <<vm, list, locks, todo, cur, self, due, history, outside>>

(* refreshAzureCache, a call to Azure that takes time; then the candidates *)
(* and the sanity check on failed nodes.                                   *)
RefreshAzure ==
    /\ pc = "azure"
    /\ \/ NoFault /\ FailedCount < FailedThreshold /\ ~DryRun
          /\ todo' \in Candidates(snap)
          /\ pc' = "next" /\ snap' = Nothing /\ held' = {} /\ UNCHANGED cur
          /\ spared' = {n \in Listed(snap) : snap[n].excluded}
       \/ NoFault /\ (FailedCount >= FailedThreshold \/ DryRun) /\ RunEnds /\ UNCHANGED spared
       \/ Fault /\ RunEnds /\ UNCHANGED spared
    /\ UNCHANGED <<api, vm, list, locks, self, due, promised, applied, outside>>

(* The candidate loop: the limit is checked again before each node. *)
NextNode ==
    /\ pc = "next"
    /\ \/ todo = {} \/ LimitReached
       /\ RunEnds
    /\ UNCHANGED <<api, vm, list, locks, self, due, history, faults, outside>>

Choose(n) ==
    /\ pc = "next"
    /\ ~LimitReached
    /\ n \in todo
    /\ n # self
    /\ cur' = n
    /\ todo' = todo \ {n}
    /\ pc' = "mark"
    /\ UNCHANGED <<api, vm, list, locks, snap, held, self, due, history, faults, outside>>

(* checkSelfEviction: both crons are stopped (this one only if there is a  *)
(* repair cron) and the pod is evicted.  An error of Evict is only logged. *)
SelfEvict ==
    /\ pc = "next"
    /\ ~LimitReached
    /\ self \in todo
    /\ \/ NoFault /\ Terminated
       \/ /\ Fault
          /\ pc' = (IF RepairEnabled THEN "stopped" ELSE "idle")
          /\ snap' = Nothing /\ held' = {} /\ todo' = {} /\ cur' = NoNode
          /\ UNCHANGED <<api, vm, list, locks, self, due, history, outside>>

-----------------------------------------------------------------------------
(* updateNode and azureVmssInstanceUpdate for the candidate cur *)

(* The candidate's next step; every error leads to the error lock. *)
Goes(place) == pc' = place /\ UNCHANGED <<locks, snap, held, todo, cur, self>>
Fails == Goes("lockerror")
NodeFrame == UNCHANGED <<list, due, history, outside>>

MarkOngoing ==
    /\ pc = "mark"
    /\ \/ NoFault /\ Goes("check")
          /\ api' = [api EXCEPT ![cur].ongoing = TRUE, ![cur].disable = TRUE]
          /\ applied' = applied \ {cur}
       \/ Fault /\ Fails /\ UNCHANGED <<api, applied>>
    /\ UNCHANGED <<vm, list, due, promised, spared, outside>>

CheckState ==
    /\ pc = "check"
    /\ \/ NoFault /\ StateAllowed(vm[cur].state) /\ Goes("drain")
       \/ NoFault /\ ~StateAllowed(vm[cur].state) /\ Fails
       \/ Fault /\ Fails
    /\ UNCHANGED <<api, vm>> /\ NodeFrame

(* k8sDrainNode: kubectl drain cordons the node, then evicts its pods,     *)
(* which takes as long as they like.  It may fail in either part; it has   *)
(* failed for the job when it was retried and failed again.                *)
DrainFails ==
    /\ DrainEnable
    /\ Faults(IF DrainRetry THEN 2 ELSE 1)
    /\ IF DrainIgnoreFailure THEN Goes("update") ELSE Fails

Drain ==
    /\ pc = "drain"
    /\ \/ ~DrainEnable /\ NoFault /\ Goes("update") /\ UNCHANGED api
       \/ DrainEnable /\ NoFault /\ Goes("draining")
          /\ api' = [api EXCEPT ![cur].cordoned = TRUE]
       \/ DrainFails /\ UNCHANGED api
    /\ UNCHANGED vm /\ NodeFrame

DrainReturns ==
    /\ pc = "draining"
    /\ \/ NoFault /\ Goes("update")
       \/ DrainFails
    /\ UNCHANGED <<api, vm>> /\ NodeFrame

(* BeginUpdateInstances, and later BeginRedeploy: Azure starts to work. *)
BeginUpdate ==
    /\ pc = "update"
    /\ \/ NoFault /\ Goes("updating")
          /\ vm' = [vm EXCEPT ![cur].state = "updating", ![cur].coming = TRUE]
       \/ Fault /\ Fails /\ UNCHANGED vm
    /\ UNCHANGED api /\ NodeFrame

BeginRedeploy ==
    /\ pc = "redeploy"
    /\ \/ NoFault /\ Goes("redeploying") /\ vm' = [vm EXCEPT ![cur].state = "redeploying"]
       \/ Fault /\ Fails /\ UNCHANGED vm
    /\ UNCHANGED api /\ NodeFrame

(* PollUntilDone returns with the result once Azure has finished, or with  *)
(* an error of its own, whatever Azure is doing.                           *)
PollUpdate_ErrorIgnored ==
    /\ pc = "updating"
    /\ \/ vm[cur].state \in {"succeeded", "failed"} /\ NoFault
       \/ Fault
    /\ Goes(IF Reimage THEN "redeploy" ELSE "uncordon")
    /\ UNCHANGED <<api, vm>> /\ NodeFrame

PollUpdate ==
    /\ pc = "updating"
    /\ \/ NoFault /\ vm[cur].state = "succeeded"
          /\ Goes(IF Reimage THEN "redeploy" ELSE "uncordon")
       \/ NoFault /\ vm[cur].state = "failed" /\ Fails
       \/ Fault /\ Fails
    /\ UNCHANGED <<api, vm>> /\ NodeFrame

PollRedeploy ==
    /\ pc = "redeploying"
    /\ \/ NoFault /\ vm[cur].state = "succeeded" /\ Goes("uncordon")
       \/ NoFault /\ vm[cur].state = "failed" /\ Fails
       \/ Fault /\ Fails
    /\ UNCHANGED <<api, vm>> /\ NodeFrame

Uncordon_ErrorIgnored ==
    /\ pc = "uncordon"
    /\ \/ NoFault /\ Goes("unmark") /\ api' = [api EXCEPT ![cur].cordoned = FALSE]
       \/ Fault /\ Goes("unmark") /\ UNCHANGED api
    /\ UNCHANGED vm /\ NodeFrame

Uncordon ==
    /\ pc = "uncordon"
    /\ \/ NoFault /\ Goes("unmark") /\ api' = [api EXCEPT ![cur].cordoned = FALSE]
       \/ Fault /\ Fails /\ UNCHANGED api
    /\ UNCHANGED vm /\ NodeFrame

Unmark ==
    /\ pc = "unmark"
    /\ \/ NoFault /\ Goes("lock") /\ api' = [api EXCEPT ![cur].ongoing = FALSE]
       \/ Fault /\ Fails /\ UNCHANGED api
    /\ UNCHANGED vm /\ NodeFrame

(* updateNodeLock: the cache item, then the annotations. *)
Lock(duration) ==
    /\ locks' = CacheAdd(locks, cur, duration)
    /\ \/ NoFault /\ api' = [api EXCEPT ![cur] = AnnotationLockSet(@, duration, ScaledownLock)]
       \/ Fault /\ UNCHANGED api
    /\ promised' = [promised EXCEPT ![cur] = duration]
    /\ UNCHANGED <<vm, list, self, due, applied, spared, outside>>

(* Updated: on to the next candidate.  Failed: the run ends. *)
LockUpdated ==
    /\ pc = "lock"
    /\ Lock(UpdateLock)
    /\ pc' = "next"
    /\ cur' = NoNode
    /\ UNCHANGED <<snap, held, todo>>

LockFailed ==
    /\ pc = "lockerror"
    /\ Lock(UpdateLockError)
    /\ RunEnds

-----------------------------------------------------------------------------
(* Around the job: the watch, Azure, the repair job, operators, time *)

(* startNodeWatch handles an event: the node object in the list is replaced.*)
(* An event may carry nothing this job reads (a heartbeat).                *)
Deliver(n) ==
    /\ list' = [list EXCEPT ![n] = api[n]]
    /\ held' = held \ {n}
    /\ UNCHANGED <<api, vm, locks, pc, snap, todo, cur, self, due, history, faults, outside>>

WatchEvent(n) ==
    /\ pc # "down"
    /\ list[n] # api[n] \/ n \in held
    /\ Deliver(n)

Outside == outside < MaxOutside /\ outside' = outside + 1

(* The watch times out or breaks: startNodeWatch begins with an empty list.*)
WatchRestart ==
    /\ pc # "down"
    /\ WatchRace \/ (pc \in {"idle", "stopped"} /\ due > 0)
    /\ Outside
    /\ list' = Nothing
    /\ held' = {}
    /\ UNCHANGED <<api, vm, locks, pc, snap, todo, cur, self, due, history, faults>>

AzureCompletes(n) ==
    /\ vm[n].state \in {"updating", "redeploying"}
    /\ \/ NoFault
          /\ vm' = [vm EXCEPT ![n].latest = @ \/ (vm[n].state = "updating" /\ vm[n].coming),
                              ![n].coming = FALSE, ![n].state = "succeeded"]
          /\ applied' = IF vm[n].state = "updating" THEN applied \cup {n} ELSE applied
       \/ Fault /\ UNCHANGED applied
          /\ vm' = [vm EXCEPT ![n].coming = FALSE, ![n].state = "failed"]
    /\ UNCHANGED <<api, list, jobVars, due, promised, spared, outside>>

(* An instance fails, or is mended, without the autopilot. *)
InstanceChanges(n) ==
    /\ n # cur \/ pc \notin {"updating", "redeploying"}
    /\ Outside
    /\ \/ vm[n].state = "succeeded" /\ vm' = [vm EXCEPT ![n].state = "failed"]
       \/ vm[n].state = "failed" /\ vm' = [vm EXCEPT ![n].state = "succeeded"]
    /\ UNCHANGED <<api, list, jobVars, due, history, faults>>

(* A new model of the scale set; an update that has begun before does not  *)
(* bring it.                                                               *)
NewModel ==
    /\ Outside
    /\ vm' = [n \in Nodes |-> [vm[n] EXCEPT !.latest = FALSE, !.coming = FALSE]]
    /\ UNCHANGED <<api, list, jobVars, due, history, faults>>

(* An operator sets or removes the exclude annotation. *)
ToggleExclude(n) ==
    /\ Outside
    /\ api' = [api EXCEPT ![n].excluded = ~@]
    /\ UNCHANGED <<vm, list, jobVars, due, history, faults>>

(* The repair job, on a cron entry of its own, also begins with Cleanup. *)
RepairCleanup ==
    /\ RepairEnabled
    /\ pc \notin {"down", "stopped"}
    /\ Stale(list) # {}
    /\ \E done \in SUBSET Stale(list) :
          Calls(Stale(list), done) /\ api' = Cleaned(done)
    /\ UNCHANGED <<vm, list, jobVars, due, history, outside>>

(* The janitor of the lock cache. *)
Janitor ==
    /\ locks # DeleteExpired(locks)
    /\ locks' = DeleteExpired(locks)
    /\ UNCHANGED <<api, vm, list, pc, snap, held, todo, cur, self, due, history, faults, outside>>

AgedNode(o) == [o EXCEPT !.lock = Aged(@), !.expire = Aged(@)]
AgedView(view) == [n \in Nodes |-> IF view[n] = NoNode THEN NoNode ELSE AgedNode(view[n])]

(* Time passes while the process is idle or waits for a call; cron fires   *)
(* when it is due, and the watch delivers within one unit of time.         *)
Tick ==
    /\ pc \in Waiting \cup {"idle", "stopped"} \cup (IF Downtime THEN {"down"} ELSE {})
    /\ pc \in {"down", "stopped"} \/ due > 0
    /\ pc = "down" \/ list = api
    /\ due' = (IF pc \in {"down", "stopped"} THEN due ELSE due - 1)
    /\ api' = AgedView(api)
    /\ list' = AgedView(list)
    /\ snap' = AgedView(snap)
    /\ locks' = CacheAged(locks)
    /\ promised' = [n \in Nodes |-> IF promised[n] > 0 THEN promised[n] - 1 ELSE 0]
    /\ UNCHANGED <<vm, pc, held, todo, cur, self, applied, spared, faults, outside>>

-----------------------------------------------------------------------------
Cron == CronTick \/ CronSkip

Run ==
    \/ Start \/ SyncLocks \/ ListNodes \/ RefreshAzure
    \/ NextNode \/ (\E n \in Nodes : Choose(n)) \/ SelfEvict
    \/ MarkOngoing \/ CheckState \/ Drain \/ DrainReturns
    \/ BeginUpdate \/ PollUpdate
    \/ BeginRedeploy \/ PollRedeploy \/ Uncordon \/ Unmark
    \/ LockUpdated \/ LockFailed

Environment ==
    \/ Crash \/ WatchRestart \/ NewModel \/ RepairCleanup \/ Janitor \/ Tick
    \/ \E n \in Nodes : \/ WatchEvent(n) \/ AzureCompletes(n)
                       \/ InstanceChanges(n) \/ ToggleExclude(n)

Next == Cron \/ Run \/ Environment

Spec == Init /\ [][Next]_vars

(* The process runs when it can and its calls return, cron fires, time     *)
(* passes, the watch delivers, and Azure finishes what it has begun.       *)
Fairness ==
    /\ WF_vars(Run)
    /\ WF_vars(Cron)
    /\ WF_vars(Tick)
    /\ \A n \in Nodes : WF_vars(WatchEvent(n)) /\ WF_vars(AzureCompletes(n))

FairSpec == Spec /\ Fairness

-----------------------------------------------------------------------------
(* Properties *)

(* Every variable has its type; in particular the lock cache never gets an *)
(* item whose time has passed (syncNodeLockCache adds positive durations). *)
TypeOK ==
    /\ api \in [Nodes -> NodeObject]
    /\ vm \in [Nodes -> Instance]
    /\ list \in [Nodes -> NodeObject \cup {NoNode}]
    /\ locks \in [Nodes -> CacheItem]
    /\ pc \in Location
    /\ snap \in [Nodes -> NodeObject \cup {NoNode}]
    /\ held \in SUBSET Nodes
    /\ todo \in SUBSET Nodes
    /\ cur \in Nodes \cup {NoNode}
    /\ self \in Hosts
    /\ due \in Nat
    /\ promised \in [Nodes -> Nat]
    /\ applied \in SUBSET Nodes
    /\ spared \in SUBSET Nodes
    /\ faults \in Nat
    /\ outside \in Nat

(* updateCollectCandidates relies on it to resume a killed or failed update:*)
(* a node the job has cordoned carries the ongoing annotation, whatever    *)
(* call failed and wherever the process was killed.                        *)
CordonTracked == \A n \in Nodes : api[n].cordoned => api[n].ongoing

(* The cron function and the candidate loop: while a run is under way the  *)
(* lock cache holds no more than update.concurrency nodes, and one place   *)
(* is left for the node being updated until updateNodeLock takes it.       *)
WithinLimit ==
    pc \in InRun /\ UpdateLimit > 0 =>
        /\ ItemCount(locks) <= UpdateLimit
        /\ pc \in InNode => ItemCount(locks) < UpdateLimit

(* "continue with update of this node and only this node": no update of a  *)
(* node starts while that of another node is unfinished, unless that one   *)
(* was excluded when the run listed the nodes.                             *)
StartsAlone ==
    [][\A n \in Nodes : ~api[n].ongoing /\ api[n].ongoing' =>
          \A m \in Nodes \ {n} : api[m].ongoing => m \in spared]_vars

(* The ongoing annotation is removed only from a node that is schedulable  *)
(* and whose instance has been updated since the node was last marked: what*)
(* is half-done is not forgotten, nor an earlier update taken for this one.*)
OngoingEndsUpdated ==
    [][\A n \in Nodes : api[n].ongoing /\ ~api[n].ongoing' =>
          n \in applied /\ ~api[n].cordoned]_vars

(* Failed, killed or interrupted, every update is finished in the end: all *)
(* nodes that are not excluded run the latest model and take pods again;   *)
(* unless failed instances keep reaching update.failed-threshold, a lock   *)
(* annotation stays on after its time has passed and keeps the place of the*)
(* limit, or the autopilot has to leave its own node (Lifecycle's concern).*)
FailedInstances == {n \in Nodes : vm[n].state = "failed"}
PassedLocks == {n \in Nodes : api[n].lock \in Int /\ api[n].lock < 0}
Maintained(n) == vm[n].latest /\ ~api[n].cordoned /\ ~api[n].ongoing
EventuallyMaintained ==
    \/ <>[](\A n \in Nodes : api[n].excluded \/ Maintained(n))
    \/ []<>(Cardinality(FailedInstances) >= FailedThreshold)
    \/ UpdateLimit > 0 /\ <>[](PassedLocks # {})
    \/ []<>(pc \in {"down", "stopped"})

(* The promise behind it all: seen through the annotations, the cordons and*)
(* what Azure has applied, every step is one of UpdateProtocol or changes  *)
(* nothing.  An exclusion counts as the operator has it or the run saw it. *)
Protocol == INSTANCE UpdateProtocol
    WITH started  <- {n \in Nodes : api[n].ongoing},
         excluded <- {n \in Nodes : api[n].excluded} \cup spared,
         closed   <- {n \in Nodes : api[n].cordoned}
ImplementsProtocol == Protocol!Spec

-----------------------------------------------------------------------------
(* What the documentation and the comments say and the code does not do *)

(* config/opts.go on update.lock-duration(-error): "Duration how long      *)
(* should be waited for another update on the same node".                  *)
AttemptsWait ==
    [][\A n \in Nodes : pc = "next" /\ pc' = "mark" /\ cur' = n =>
          promised[n] = 0]_vars

(* "Failed node threshold when node update is stopped": a run takes up     *)
(* candidates only when fewer instances than the threshold are failed.     *)
ThresholdStops ==
    [][pc = "azure" /\ pc' = "next" =>
          Cardinality(FailedInstances) < FailedThreshold]_vars
=============================================================================
