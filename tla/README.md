# azure-k8s-autopilot in TLA+

A verification development for azure-k8s-autopilot, the operator that repairs
broken nodes of a Kubernetes cluster on Azure and updates scale set instances
that run an old model. The specifications follow the Go code in `autopilot/`
and `k8s/`; TLC checks them on small clusters, alone and composed, and TLAPS
proves safety properties of both jobs, alone and together, of the leader election,
of the node list and of the health verdict for any number of nodes and pods; some of
them under further assumptions, which the [table of theorems](#proofs) names.

- [The system](#the-system)
- [Modules](#modules)
- [How the models correspond to the code](#how-the-models-correspond-to-the-code)
- [Runs, bounds and what they show](#runs-bounds-and-what-they-show)
- [Fairness](#fairness)
- [Proofs](#proofs)
- [Where code and documentation disagree](#where-code-and-documentation-disagree)
- [Not modelled](#not-modelled)
- [Plan](#plan)

## The system

The autopilot is one working process (other replicas wait for the leader lease).
It has two cron entries, each with its own goroutine, and a goroutine that
keeps a node list up to date. It stores nothing itself: what must survive the
process are annotations of the node objects on the Kubernetes API server.

| Component | Source | State | Operations |
|---|---|---|---|
| Update job | `autopilot/task.update.go`, `lib.azure.go`, `main.go` | lock cache `update.nodeLock`; annotations update-lock, update-ongoing, exclude, scale-down-disabled(-expire); cordon | cron function, auto-uncordon, lock sync, candidates, update of one node, lock |
| Repair job | `autopilot/task.repair.go`, `lib.azure.go`, `main.go` | lock cache `repair.nodeLock`; annotation repair-lock | cron function, lock sync, walk over the nodes, repair of one node, lock |
| Lock annotations and caches | `k8s/node.go`, go-cache | time stamps on nodes, items with expiry in memory | check, set, remove, clean up, sync |
| Node health | `k8s/node.go` | none (a function of the conditions) | `GetHealthStatus` |
| Node list | `k8s/nodelist.go` | map of node objects, Azure instance cache | watch events, restart of the watch, snapshot, refresh from Azure |
| Provider ids | `k8s/misc.go`, `k8s/node.go` | none | `IsAzureProvider`, `ExtractNodeInfo` |
| Drain and uncordon | `autopilot/lib.k8s.go`, `k8s/kubectl.go` | none | `kubectl drain`, retry, ignore, `kubectl uncordon` |
| Lifecycle | `autopilot/main.go`, `main.go` | crons, wait group, lease | `Start`, `Stop`, leader election, self-eviction |
| Patches, options, notifications, metrics, HTTP | `k8s/patch.go`, `config/opts.go`, `main.go` | none the jobs depend on | |

How they interact:

- The jobs read nodes from the node list, which follows the API server with a
  delay and is emptied whenever the watch ends (once an hour at the latest).
  They write to the API server, and see their own writes only when the watch
  brings them back.
- A job's lock on a node is written twice: to its lock cache and, as a time
  stamp, to an annotation. At every tick the cache is flushed and filled from
  the annotations the node list shows.
- `NodeListWithAzure` attaches Azure's view of an instance to the node
  *objects*; an event replaces the object, and the attachment is gone.
- `NodeListWithAzure` parses the provider ids of *all* nodes; one it cannot parse
  ends the run. It calls Azure once per scale set, and an error leaves what
  earlier calls brought.
- Both jobs clean up the same scale-down annotations, and both may have Azure
  work on the same instance. They know of each other only through the
  provisioning state and the cordon.
- A run may last very long (drain, `PollUntilDone`); cron skips the ticks it
  misses. `Start` runs in a goroutine of its own, beside the one that waits for
  a signal and calls `Stop`; a job's goroutine adds itself to the wait group.
- Self-eviction is called from a job's run, stops both crons and deletes the own
  pod; the process then gets the signal that makes it `Stop`.
- Every external call may fail, and the process may die at any point,
  not least because it may run on the node it repairs (self-eviction).

What makes it hard, and what correctness means, by component:

- **Update job.** Unfinished updates must be found again after a failure or a
  crash (`CordonTracked`, `EventuallyMaintained`); an update is over only when one has
  been applied to this attempt, not to an earlier one (`OngoingEndsUpdated`); one at
  a time (`StartsAlone`); within `update.concurrency` although the count comes
  from a cache that is flushed, refilled and expires (`WithinLimit`); no updates while
  too many instances are failed (`ThresholdStops`).
- **Repair job.** Repair only what needs it by what has been seen lately, not what
  needed it when the walk began (`RepairsNeeded`); do not begin a second time what
  Azure still works on (`RepairsNotRepeated`); stay within `repair.concurrency`
  (`WithinLimit`); do not stop repairing (`KeepsRepairing`).
- **Locks.** A locked node is left alone until its lock is over, and not any
  longer (`AttemptsWait` and the liveness properties).
- **Both jobs together.** They share no lock. No repair should begin on an instance
  in the middle of its update (`OneOperation`, which the code does not keep); what each
  promises about cordons, limits and order it still keeps (`CordonTracked` and the
  theorems of `MaintenanceProofs`), and neither keeps the other from its work for ever
  (`HealthyMaintained`, `BrokenRepaired`).
- **Lifecycle.** One process at work (`OneWorker`), which has the lease and keeps it
  as long as it works (`ImplementsLeadership`); `Stop` should wait for the runs
  (`StopWaits`, which the code does not keep); the process leaves a node it has to work
  on (`LeavesAffectedNode`, `LeavesWhenSound`), and somebody does the work in the end
  (`Served`).
- **Node list.** No node missing and none that is gone, whatever happens while no
  watch is open (`ListComplete`, `EventuallyListed`); a run does not judge an instance
  by what was cached before it began, as long as the node object stays in the list and
  the instance is there (`ViewsAreFresh`); and runs get past the list (`RunsGoOn`).
- **Node health.** No repair of a node whose conditions are all renewed, in whatever
  order they come (`HeardOfSpared`), and the kubelet's verdict where its condition is
  the last one (`KubeletDecides`).

`PROJECT.json` lists these hazards at their lines.

## Modules

| Module | Content |
|---|---|
| `NodeAnnotations` | time stamps, the test for a lock that is over, what lock and cleanup patches do to a node object, the go-cache operations |
| `UpdateJob` | the update job with the watch cache, Azure, crashes and time; its properties |
| `UpdateProtocol` | what the update job promises, without locks, caches, crons and calls |
| `RepairJob` | the repair job with recovering nodes, Azure, crashes and time; its properties |
| `Maintenance` | both jobs in one process on the same nodes and instances |
| `NodeHealth` | `GetHealthStatus` over lists of conditions that several agents write |
| `NodeWatch` | the watch goroutine, nodes that come and go, and `NodeListWithAzure` |
| `Lifecycle` | replicas, lease, crons, runs, self-eviction, `Stop`, crashes and restarts |
| `Leadership` | what leader election promises, without pods, leases, crons and signals |
| `NodeAnnotationsProofs` | theorems about locks and lemmas about caches that both jobs' proofs use |
| `UpdateJobProofs`, `RepairJobProofs`, `NodeHealthProofs`, `NodeWatchProofs`, `LifecycleProofs` | theorems about the modules they extend |
| `MaintenanceProofs` | what each job promises alone and still promises beside the other |
| `MCUpdateJob`, `MCRepairJob`, `MCMaintenance`, `MCNodeWatch`, `MCLifecycle` | constants for TLC |

`UpdateJob` and `RepairJob` extend `NodeAnnotations`. `Lifecycle` instantiates
`Leadership` with `leader` = the pod that has the lease and `working` = the pods with
crons or runs (where leases are disabled there is nothing to promise, and both are
empty). `UpdateJob` instantiates
`UpdateProtocol` with the refinement mapping `started` = nodes with the ongoing
annotation, `excluded` = nodes with the exclude annotation or excluded when the run
listed them (`spared`), `closed` = cordoned nodes, and `applied`, a history variable of
`UpdateJob` too: the nodes to whose instance Azure has applied an update since they
were last marked. `Maintenance` extends `UpdateJob` and instantiates `RepairJob`.

## How the models correspond to the code

**Steps.** An action is one external call with the code up to the next one:
that is where the process may be killed, where time passes, and where others
act. `pc` names the call that comes next or is waited for. In `UpdateJob`:

| `pc` | The code is about to | Action |
|---|---|---|
| `idle` | wait for cron, then uncordon "expired" nodes | `CronTick` |
| `sync` | run `syncNodeLockCache`, check the limit | `SyncLocks` |
| `list` | run `NodeList.Cleanup` and take the snapshot | `ListNodes` |
| `azure` | list the instances, pick candidates, count failed ones | `RefreshAzure` |
| `next` | take the next candidate | `NextNode`, `Choose`, `SelfEvict` |
| `mark` | set ongoing and scale-down-disabled | `MarkOngoing` |
| `check` | get the instance and check its state | `CheckState` |
| `drain` | start `kubectl drain`, or not | `Drain`, `DrainFails` |
| `draining` | wait for the drain to return | `DrainReturns`, `DrainFails` |
| `update`, `redeploy` | have Azure begin | `BeginUpdate`, `BeginRedeploy` |
| `updating`, `redeploying` | wait in `PollUntilDone` | `PollUpdate`, `PollRedeploy` |
| `uncordon`, `unmark` | `kubectl uncordon`, remove ongoing | `Uncordon`, `Unmark` |
| `lock`, `lockerror` | `updateNodeLock` | `LockUpdated`, `LockFailed` |

`RepairJob` has the places `idle` (`CronTick` with the sync), `list`, `next`
(the walk: `VisitHealthy`, `Skip`, `PretendRepair`, `Repair`, `SelfEvict`,
`RunEnds`), `check`, `begin`, `repairing`, `lock` and `lockerror`. In both, `down`
is a process that is not running and `stopped` one whose crons were stopped by
a self-eviction that then failed.

`Lifecycle` has a place per goroutine: `main` (`serving`, the three steps of `Stop`,
`exit`, `dead`), `boot` (leader election, then the two crons) and a `job` each
(`fired`: the goroutine exists and has not done `wg.Add(1)`; `running`). A run is
one step here: it treats a node that needs it, finds none, fails, or finds that its
own node is affected. `NodeWatch` has the watch goroutine (`WatchBegins`, `Connect`,
`Handle`) and a run of the update job as far as it is about the list (`TakeList`,
`GetAzureVmssList`, `RefreshScaleSet`, `Attach`).

`Maintenance` keeps each job's own view of a node object and of an instance
(`api` and `node`, `vm` and `machine`), because each job's module has the annotations
and states that job reads. A step of one job is that job's action of its own
module, and takes what it changes to the other view (`ShownToRepair`,
`ShownToUpdate`): the cordon and the scale-down annotations, and the provisioning
state. What the two modules have for each other as surroundings
(`RepairCleanup`, `ToggleCordon`, `OtherOperation`) is off here: it is the other job.
Nothing keeps a step of one job out of a run of the other: the two crons are
goroutines without a common lock.

**Nodes.** A node object is a record of what the job reads: the cordon, the
annotations and, for repair, readiness and silence of the kubelet. `api` is the API
server; `list` is the watch cache, of which both jobs read locks, cordons, exclusions
and readiness and which takes a change of a node only with `WatchEvent`; `snap` a
snapshot of it. `held` is the set of nodes whose snapshot entry is still the object in
the watch cache, which is what `NodeCountByProvisionState` sees with Azure data.

**History variables.** They only record, and no guard reads them. In `UpdateJob`:
`promised` (the time a lock asks for), `applied`, and `spared` (the nodes the current or
last run found excluded). In `RepairJob`: `seen`, the nodes that some object of the watch
cache has shown to need repair since the run listed the nodes or last waited for Azure.
In `NodeWatch`: `recent`, what each instance has been since the run began.

**The world moves at any time.** A new model of the scale set (`NewModel`), a toggled
exclude annotation, failing and recovering nodes and crashes are enabled in every state,
also between the calls of one run. The code looks at the model only when it picks
candidates, so that a new one during a drain or a redeploy is unnoticed: an update ends
with an instance that is outdated again, and becomes a candidate in a later run.
`OngoingEndsUpdated` therefore says that an update was *applied* since the mark, not
that the instance is at the latest model when the mark is removed.

**Time.** A time stamp is the time left until it is reached, negative once it
has passed; `Tick` ages all of them. `LockDuration` is `time.Since`, with the
sign the code gives it. Time passes while the process waits (for cron, for
Azure, for a drain), not between two calls that only take moments.

**Failures.** Every call that changes or reads the API server or Azure has an outcome
in which it fails and changes nothing; a failing drain may have cordoned the node
already, and the listing of a scale set may fail with part of it cached. `PollUntilDone`
fails when Azure reports a failure, and may fail by itself while Azure goes on with the
operation, which then ends unseen. Other calls that take effect and still report an
error have no outcome of their own. `Crash` is enabled
everywhere and loses all that is in memory. Calls for each of a set of nodes,
whose errors are only logged, succeed for any subset.

**Patches.** JSON patches are applied as the API server does: `replace` adds a
missing annotation, `remove` of a missing one fails the whole patch. So
`Cleanup` has no effect on a node that lost one of the two annotations.

**External parts.** Azure, the kubelets, operators, the janitor of go-cache
and the API server are modelled from how the code uses them, and marked
external in `PROJECT.json`.

## Runs, bounds and what they show

The bounds, all in the `.cfg` files: two nodes (one in `Maintenance`), a cron
period of one or two time units, lock durations around it,
`MaxFaults` failing calls and crashes together, `MaxOutside` spontaneous events (a
failing instance, a new model, a toggled exclude annotation, a restart of the
watch, a failing node, a cordon, a node that joins or leaves, a deleted pod), and
`Horizon`, the age beyond which time stamps are not told apart. Two nodes are
enough for every property that is about one node in the middle of an update and
another one. In `Update` one failure leaves an update half-done and the second hits the
run that picks it up; with one node the autopilot may be on and one it is never on, by
symmetry. No property tells times apart that are longer past than one period, so
a horizon of one or two is enough. `Repair` has one failure or crash: what interrupts a
walk is one of them, and the walks after it are disturbed by the watch, which lags by
any time, and by nodes that recover or are cordoned. One node is enough for
`Maintenance`, where two jobs meet on one instance; the stale snapshot of a walk over
several nodes is `RepairStale`'s, and what `MaintenanceProofs` proves holds for any
number. Two pods and two replicas are a leader and a successor, and a pod that is gone
makes room for a new one of another name. Two scale sets let one refresh fail after the
other. No run uses symmetry, since most of them check liveness.

| Run | Result | Shows |
|---|---|---|
| `Update` | holds | `TypeOK`, `CordonTracked`, `WithinLimit`, `StartsAlone`, `OngoingEndsUpdated`, `ImplementsProtocol`, `EventuallyMaintained`, with two failures or crashes, a new model or a toggled exclusion at any time, the repair job's cleanup beside the job, a scale-down lock, a concurrency of one (2.2M states) |
| `UpdateAttemptsWait` | violated | `AttemptsWait` |
| `UpdateThreshold` | violated | `ThresholdStops` |
| `Repair` | holds | `TypeOK`, `WithinLimit`, `RepairsNeeded`, `RepairsNotRepeated`, `KeepsRepairing`, with a lagging and restarting watch, downtime, self-eviction, dry runs and real ones (1.7M states) |
| `RepairStale` | violated | `RepairsNeeded` with a concurrency above one |
| `Maintenance` | holds | `CordonTracked`, `HealthyMaintained`, `BrokenRepaired` with drains and a node that fails and recovers, in every interleaving of the two jobs (1.1M states) |
| `MaintenanceRace` | violated | `OneOperation` |
| `NodeHealth` | holds | `TypeOK`, `HeardOfSpared`, `KubeletDecides` |
| `NodeWatch` | holds | `TypeOK`, `ListComplete`, `ViewsAreFresh`, `EventuallyListed`, `RunsGoOn` (1.1M states) |
| `Lifecycle` | holds | `TypeOK`, `OneWorker`, `ImplementsLeadership`, `LeavesWhenSound`, `Served` over several setups: lease or none, which crons are set, refused evictions, and signals at any time (0.3M states) |
| `LifecycleEvict` | violated | `LeavesAffectedNode` with a repair cron alone |
| `LifecycleStop` | violated | `StopWaits` |

Each property of a run that holds is broken by a mutant of the model, a plausible
bug in the code it maps to; the mutants are defined next to the operators they
replace (`X_Variant` beside `X`) and listed in `PROJECT.json`.

`Lifecycle.cfg` does not check for deadlock: after a refused eviction both crons are
stopped for good, the process waits for a signal nobody sends, and that really is
the end.

Some properties hold under a condition only. Where it is a constant, the same
specification shows what happens without it:

- `WatchRace = FALSE`: the node list is complete and up to date when a run of the
  update job begins, and the watch does not end during a run. `StartsAlone` and
  `ImplementsProtocol` need it. The other properties of the update job do not, as the
  proofs show.
- `RepairLimit = 1`: `RepairsNeeded` holds in `Repair` because the walk
  admits no second node once one is locked, so that only snapshots taken without
  waiting are acted upon; with a limit of two it does not (`RepairStale`). It is about
  what the watch cache has shown: a node that has recovered on the API server and whose
  event has not arrived is repaired, and nothing in the code could know better.
- `Setups` in `Lifecycle`: `LeavesWhenSound` and `Served` are about setups with an
  update cron whose evictions are not refused (`Sound`). The others are run with them, so
  that `TypeOK`, `OneWorker` and `ImplementsLeadership` are checked there too.

Others name in the property what they except:

- `EventuallyMaintained`: failed instances that keep reaching `update.failed-threshold`;
  a lock annotation that stays on past its time, which is never removed and takes the
  only place of the limit; and an autopilot that has to leave its own node.
- `KeepsRepairing`: the same lock annotation, the same self-eviction, and dry runs.
- `BrokenRepaired`: an excluded node, which may stay cordoned in the middle of its
  update, and the same lock annotation.
- `ViewsAreFresh`: nodes whose object an event has replaced or taken from the list since
  the snapshot, and instances that were gone at some time during the run.
- `RunsGoOn`: a cluster that keeps a node whose provider id cannot be parsed.

## Fairness

`FairSpec` of both jobs assumes weak fairness of

- the steps of the process (`Run`): the goroutine of a job is scheduled and its
  calls return, with or without success. This includes drains: the
  default `drain.timeout` of 0 lets `kubectl drain` wait for ever, and then
  nothing can be promised. It includes the restart of a dead process, which the
  deployment does;
- `Cron`, which fires or skips when a tick is due (robfig/cron does, as long as
  it is not stopped);
- `Tick`: time passes;
- `AzureCompletes` for every node: Azure finishes what it has begun, in success
  or failure;
- `WatchEvent` for every node: the watch delivers in the end, however far behind.

`MaintenanceSpec` assumes the same for each of the two jobs: they are goroutines of
their own, and neither's steps make the other's fair.

`FairSpec` of `NodeWatch` assumes it of `Watch` (the goroutine connects anew and
handles what arrives) and of `Run`. In `Lifecycle` it is that of every goroutine
(`Boot`, `Stop`, `RunJob`), of the crons (`Fire`), of the kubelet, which restarts
containers, sends the signal and kills what does not end in the grace period, of
the deployment controller, and of `ReleaseLease`: the lease is owned by the pod, and
is garbage once the pod is gone. One strong fairness is assumed besides, of
`StartAutopilotUpdate`: `Start` creates one cron right after the other. When the first
run of the repair cron finds its own node affected before the update cron exists, it
stops a nil cron and the process panics (`SelfEvictPanics`); without the assumption this
could happen at every restart, although the run would have to come between two
statements each time.

No fairness is assumed of failures, crashes, operators, ends and restarts of the
watch. The bounds `MaxFaults` and `MaxOutside` say that they end at some point,
which is what "eventually" has to mean here.

## Proofs

The theorems hold for every finite set of nodes and pods and all values of the
constants, under the named assumptions of the modules, which only give the constants
their types, and the extra ones of the last column.

| Module | Theorem | States | Extra assumption |
|---|---|---|---|
| `UpdateJobProofs` | `TypeCorrect` | `Spec => []TypeOK` | |
| | `CordonsAreTracked` | `Spec => []CordonTracked` | |
| | `OngoingEndsWhenUpdated` | `Spec => OngoingEndsUpdated` | |
| | `LocksWithinLimit` | `Spec => []WithinLimit` | |
| | `UpdatesStartAlone` | `Spec => StartsAlone` | `~WatchRace` |
| | `ProtocolImplemented` | `Spec => ImplementsProtocol` | `~WatchRace` |
| `RepairJobProofs` | `TypeCorrect` | `Spec => []TypeOK` | |
| | `LocksWithinLimit` | `Spec => []WithinLimit` | |
| | `RepairsAreNeeded` | `Spec => RepairsNeeded` | `RepairLimit = 1` |
| `LifecycleProofs` | `TypeCorrect` | `Spec => []TypeOK` | |
| | `OneWorkerOnly` | `Spec => []OneWorker` | |
| | `LeadershipImplemented` | `Spec => ImplementsLeadership` | |
| `NodeWatchProofs` | `TypeCorrect` | `Spec => []TypeOK` | |
| | `ListsAreComplete` | `Spec => []ListComplete` | |
| | `ViewsStayFresh` | `Spec => []ViewsAreFresh` | |
| `MaintenanceProofs` | `CordonsStayTracked` | `MaintenanceSpec => []CordonTracked` | |
| | `LocksStayWithinLimits` | `MaintenanceSpec => [](WithinLimit /\ R!WithinLimit)` | |
| | `UpdatesStillStartAlone` | `MaintenanceSpec => StartsAlone` | `~WatchRace` |
| `NodeHealthProofs` | `TypeCorrect` | `Spec => []TypeOK` | |
| | `LastDecides` | `Spec => [](GetHealthStatus = Judge(Unheard, Last(conditions)))` | |
| | `HeardOfAreSpared` | `Spec => []HeardOfSpared` | |
| | `KubeletHasTheLastWord` | `Spec => []KubeletDecides` | |
| `NodeAnnotationsProofs` | `ActiveLocksDiscarded` | a sync discards exactly the locks whose time has not passed | |
| | `KeptForEver` | a lock a sync keeps is kept at every later time | |

Few of the invariants are inductive by themselves; the argument is this.

**Update job.**

- `TypeOK` is inductive. The one step that is not routine is `SyncLocks`: what it adds
  to the cache must be a positive duration, which is what `LockKept` gives
  (`KeptDuration`).
- `MarkedInv` adds what the annotations say of the candidate of a run.
  `CandidateMarked`: from the mark to the unmark the node carries the ongoing
  annotation, and from the unmark on it is not cordoned. With `CordonTracked` this is
  inductive: only a drain cordons, and only after the mark; only `Unmark` removes the
  mark, and only after the uncordon. `CandidateInv` adds what Azure says,
  `CandidateApplied`: a poll that finds the instance succeeded finds an update applied
  since the mark, and so it is from the redeploy to the unmark. A new model does not
  disturb it. `OngoingEndsUpdated` follows. The two are apart because a repair job
  beside the update job disturbs the second only; most lemmas need no more than
  `MarkedInv`.
- `AloneInv` is about the other nodes, those excluded when the run listed them left
  out, and is the longest argument. When the watch does not race, the list equals the
  API server when a run begins; a snapshot with an ongoing node yields that node as only candidate, and one
  without yields candidates while no node is unfinished. So in the loop either
  nothing is unfinished or the only candidate is the unfinished node; and the
  loop goes on after a node only when its update is over. `UpdatesStartAlone`
  follows.
- `ApplyInv`: Azure works on an update only of a marked node, also when the job has
  given up polling for it, so that an update it applies is one of a started node; and
  from the redeploy on it works on none of the candidate. With the
  invariants above every step maps to a step of `UpdateProtocol` or leaves its
  variables unchanged: `ProtocolImplemented`.
- `LocksWithinLimit` needs the cardinality of the cache's items: `Choose`
  establishes that a place is free, ageing and the janitor do not add
  items, and `updateNodeLock` adds at most one (`ItemsCounted`).

**Repair job.** `CandidateInv`: the node under repair is behind the walk.
`FreshInv`: at a step of the walk, every node of the rest of the snapshot that it shows
in need of repair is in `seen`, or a node behind the walk is locked. It holds for a list
that lags by any time, as snapshot and `seen` come from the same objects, and no time
passes before the walk has locked a node. With a limit of one the second case admits no
repair, which is `RepairsAreNeeded`.

**Lifecycle.** `LeaderInv` has three parts: the lease is held by the pod whose
process is past the election (`LeaseHeld`), there are crons and runs only where
`Start` has got past it (`WorkersElected`), and a pod that is gone has no process
left (`DeadElsewhere`).
`OneWorkerOnly` follows: a name that has the lease is not given to a new pod, and
the lease is not given away while its pod exists. It also gives the refinement:
by `LeaderInv` the set of workers is empty or the holder of the lease alone, before
and after every step, so a step that leaves the lease alone begins or ends the work
of the leader or does nothing, and one that moves it (`LeaseMoves`) takes it from
nobody or from a pod that is gone, whose process is dead.

**Node list.** `CompleteInv` relates list, undelivered events and cluster, node by
node: the last event of a node brings what the cluster has of it; a node without
events is in the list as it is in the cluster; and where an Azure node in the list
or by an event is followed by one without an Azure provider id, there is an event in
between that deletes it. The last part is needed because an event without an Azure
provider id leaves the list alone: a node that was there before would stay as a
ghost. `ListsAreComplete` is, for each node, the case in which it has no event left,
and the second part where it is a ghost. `FreshInv`: of a node whose object is still in
the list, and whose instance has not been gone since the run began, the cache has a
recent view as soon as its scale set is read, or its scale set is still to be read; a node
that the second reading of the list misses is one whose object has left the list.

**Both jobs.** `MaintenanceProofs` instantiates `RepairJobProofs` as `P`, with the
substitutions of `Maintenance`, shows that the constants meet the repair job's
assumptions (`RepairAllowed`) and that `P`'s actions are `R`'s (the `Same...` lemmas),
and so takes over the types of both jobs and `CandidateInv` of the repair job. A step
is one of the update job, of the repair job, or of both (`WhoMoves`). `Typed` adds
that both jobs see the same cordons and provisioning states. A step of the repair job is
`Quiet`: it changes nothing that `UpdateJob` keeps of its run, no ongoing or exclude
annotation and no cordon. So `MarkedInv`, `AloneInv` and the limits are inductive as
before, in every interleaving. What is about Azure's operations does not survive: a
repair may take the place of the update under way, which `PollUpdate` then takes for
finished, so that `OngoingEndsUpdated` and the refinement of `UpdateProtocol` are
violated in `Maintenance` and are not claimed there.

**Node health.** `ConditionsInv`: the list is never empty, as a node registers with its
kubelet's condition, and has at most one condition of each type. `Judge` ignores what
it has so far, so that one unfolding of the fold, at the last condition of a list that
is not empty, gives its value without induction over lists (`LastConditionJudged`);
the rest of the theorems is about that one condition.

**Only model-checked:** the liveness properties (`EventuallyMaintained`,
`KeepsRepairing`, `HealthyMaintained`, `BrokenRepaired`, `LeavesWhenSound`, `Served`,
`EventuallyListed`, `RunsGoOn`), which are beyond the proof system, and
`RepairsNotRepeated`, which holds for the allowed states of the run (those in which Azure
does not work) as long as nobody but the job begins repairs. Every other invariant and
action property of a run that holds has a theorem.

## Where code and documentation disagree

Found by a run that TLC finds violated, and listed as findings in `PROJECT.json`:

1. **The sign of a lock** (`k8s/node.go:152`). `AnnotationLockCheck` returns
   `time.Since(lockTime)`, which is positive once the lock is *over*; its callers
   treat what is not positive as over. So a locked node is attempted again at the
   next tick (`UpdateAttemptsWait`).
2. **The failed-node threshold** misses failed instances whose node object the
   watch has just replaced (`UpdateThreshold`).
3. **Stale snapshots**: a long repair makes the rest of the walk act on old
   objects (`RepairStale`).
4. **Both jobs on one instance**: a repair begins in the middle of an update, when the
   update job cordons after the repair job has looked (`MaintenanceRace`). With drains
   disabled, the default, nothing is cordoned at all.
5. **Self-eviction with a repair cron alone** stops an update cron that is nil: the
   process panics before the eviction, is restarted on the same node with the same
   lease, and panics again (`LifecycleEvict`).
6. **Stop does not wait** for a run whose goroutine has not done `wg.Add(1)` yet, nor
   for a cron that `Start` is still about to create (`LifecycleStop`).

Visible in the models without a run of their own:

- The other side of the sign: a lock first seen past its time is kept for ever, with
  a duration that grows with every sync (theorem `KeptForEver`). With the default
  concurrency of one the job never does anything again: `PassedLocks` is the exception
  of `EventuallyMaintained`, `KeepsRepairing` and `BrokenRepaired`, which are violated
  without it.
- The repair job shares the sign: its nodes are repaired again at the next tick, and
  a repair lock seen past its time, even that of a healthy node, blocks repair.
- The same sign makes `autoUncordonExpiredNodes` uncordon nodes whose lock is
  active, in the middle of an unfinished update (`CronTick`), and `Cleanup` end
  the scale-down protection before its time and keep it after (`ListNodes`).
- A run that begins before the list shows the last mark, or before it is full again
  after a restart of the watch, overlooks an ongoing update and starts another:
  `StartsAlone` is violated with `WatchRace = TRUE`, although `task.update.go:90` says "continue with update of this node and only
  this node".
- The repair job's cleanup (`RepairCleanup`) ends the scale-down protection of a node the
  update job works on, when it still has the expiry of an earlier lock because the
  cleanup of the update job's own run failed; `task.update.go:122` says "ensure
  cluster-autoscaler is not deleting node".
- A repair reads the provisioning state in one call and begins in the next one, with a
  notification in between: an operation that somebody else begins meanwhile
  (`OtherOperation` between `CheckState` and `BeginRepair`) is not seen, although
  `opts.go:58` names states in which repair is avoided.
- `PollUntilDone` may give up while Azure goes on: the node gets the error lock, and the
  operation ends unseen. The next attempt is stopped by the provisioning state alone.
- `updateNode` sets scale-down-disabled without an expiry. When the patch of
  `updateNodeLock` fails, when the process dies between unmark and lock, and always when
  `repautoscaler.scaledown-locktime` is 0, the annotation stays for ever.
- A repair that begins in the middle of an update takes the place of Azure's operation,
  and the update job takes its end for that of the update.
- A node that is excluded in the middle of its update stays cordoned and marked; if it
  breaks, neither job touches it again. `BrokenRepaired` leaves this out.
- A refused eviction leaves a process that has stopped both crons, keeps the lease
  and answers its health checks: nothing is done until somebody deletes the pod. A
  setup with an update cron alone does not stop its cron and tries again.
- Nobody checks the lease after the election: a pod that is deleted by force while its
  process lives on would go on working, and so would one on a node that is not ready,
  whose lease the next candidate takes by itself. `Lifecycle` removes a pod, and frees its
  lease, after its process: `OneWorker` and `ImplementsLeadership` are about that case.
- Self-eviction is off unless pod, namespace and node name are configured.
- `opts.go:45` says that leases are enabled in docker images; the `final-azcli` image
  of the `Dockerfile` (40-45) does not set `LEASE_ENABLE`.
- One provider id that `ExtractNodeInfo` cannot parse stops all updates
  (`RunsGoOn` excepts it); repairs are not concerned.
- `update.azure.provisioningstate` is never read: `checkVmProvisionState` reads
  repair's option (`StateAllowed`).
- The last condition of a node decides about its health. `KubeletDecides` is
  restricted to lists that end with the kubelet's condition; elsewhere a ready node
  may be overdue because the writer of another condition has stopped (`node.go:50`).
- The refresh of the Azure cache lists the scale sets of a *second* reading of the node
  list and removes nothing: where that reading misses a node (the list was emptied in
  between), or the instance is gone, `NodeListWithAzure` attaches what an earlier run
  has cached (`nodelist.go:165`). `ViewsAreFresh` is not about such nodes.
- `update.azure.vmss.action` accepts `delete` and treats it as `update`;
  `update+reimage` calls redeploy.
- A dry run still uncordons nodes and removes annotations (`CronTick`, `SyncLocks`,
  `ListNodes`).
- `deployment/deployment.yaml:49` sets `DRAIN_DELETE_LOCAL_DATA`, with which
  `main.go:81` refuses to start.

## Not modelled

- The repair action `delete`, after which node and instance are gone.
- Nodes that join or leave in the middle of a job's run: `NodeWatch` has them for
  the list, the jobs' own modules have a fixed set of nodes.
- The details of a run in `Lifecycle`, and the lease in `Maintenance`: a run there
  is one step, and here there is one process.
- The end of a process between `wg.Wait` and `exit` beyond what `StopWaits` says, and the
  takeover of a lease whose pod is deleted by force or whose node is not ready.
- A node's exclusion from updates in the repair job's view in `Maintenance`, and
  self-evictions there (`MaintenanceAssumption`): `Lifecycle` has them.
- Provider ids beyond their kind and their regular expressions, escaping of patch
  paths, arguments of kubectl, `drain.dry-run`: string handling.
- Parsing of options and environment, which is the library's.
- Notifications, metrics, HTTP endpoints, logging, build and deployment files:
  output, or input to nothing the jobs do.

## Plan

All modules of the plan are there, in the order in which they were built:
`NodeAnnotations`, `UpdateJob` with `UpdateProtocol` and its proofs, `RepairJob`,
`NodeHealth`, `Lifecycle` with `Leadership`, `NodeWatch`, `Maintenance`, and the proofs
of the repair job, the lifecycle, the node list, both jobs together and node health.
What could follow:

1. What the repair job promises as a specification of its own, as `UpdateProtocol` is
   for the update job, implemented by `RepairJob` and by `Maintenance`.
2. An abstract list that `NodeWatch` implements between two restarts of the watch.
3. Nodes that leave in the middle of a run, in the jobs' own modules.
