----------------------------- MODULE Maintenance -----------------------------
(***************************************************************************)
(* Both jobs of azure-k8s-autopilot in one process, each on its own cron,  *)
(* at work on the same nodes and instances.  They share no lock: the update*)
(* job writes the update lock, the repair job the repair lock, and each has*)
(* its own cache.  What is to keep them apart is the provisioning state,   *)
(* which both check some time before they have Azure begin, and the cordon,*)
(* which the update job sets and the repair job looks for in its snapshot. *)
(*                                                                         *)
(* UpdateJob is extended, RepairJob instantiated.  A node object, its entry*)
(* in the node list and an instance appear twice, as each job reads them   *)
(* (api and node, list and rlist, vm and machine); a step of either job    *)
(* takes what it changes to the other view.                                *)
(***************************************************************************)
EXTENDS UpdateJob

CONSTANTS
    RepairPeriod, NotReadyThreshold, RepairLimit, RepairLock, RepairLockError

(* The autopilot runs beside the scale set: a self-eviction ends both jobs *)
(* and is part of Lifecycle.                                               *)
ASSUME MaintenanceAssumption ==
    /\ RepairPeriod \in Nat \ {0}
    /\ NotReadyThreshold \in Nat \ {0}
    /\ RepairLimit \in Nat
    /\ RepairLock \in Nat \ {0}
    /\ RepairLockError \in Nat \ {0}
    /\ Hosts = {NoNode}

VARIABLES node, machine, rlist, rlocks, rpc, rsnap, rcur, rdue, dryRun, rseen

repairRun == <<rlocks, rpc, rsnap, rcur, rdue, dryRun>>
repairVars == <<node, machine, rlist, repairRun, rseen>>
allVars == <<vars, repairVars>>

(* The surroundings of the repair job that its own module supposes are off:*)
(* here they are the update job and what is around that.                   *)
R == INSTANCE RepairJob
    WITH api <- node, vm <- machine, list <- rlist, locks <- rlocks, pc <- rpc,
         snap <- rsnap, cur <- rcur, due <- rdue, seen <- rseen,
         DryRuns <- {DryRun}, Period <- RepairPeriod, UpdateEnabled <- TRUE,
         WatchLags <- WatchRace

ASSUME SnapshotAssumption == NoNode \notin R!Status \cup R!NodeObject

-----------------------------------------------------------------------------
(* The two views *)

(* One repair is like another to the update job: "redeploying".            *)
StateOf(s) == IF s = "redeploying" THEN "repairing" ELSE s
MachineView(instances) == [n \in Nodes |-> StateOf(instances[n].state)]
Machines == [n \in Nodes |->
    [vm[n] EXCEPT !.state = CHOOSE s \in ProvisioningState : StateOf(s) = machine'[n]]]

Merged(o, by) ==
    [o EXCEPT !.cordoned = by.cordoned, !.expire = by.expire, !.disable = by.disable]

ShownToRepair ==
    /\ node' = [n \in Nodes |-> Merged(node[n], api'[n])]
    /\ machine' = MachineView(vm')
ShownToUpdate ==
    /\ api' = [n \in Nodes |-> Merged(api[n], node'[n])]
    /\ vm' = Machines

-----------------------------------------------------------------------------
MaintenanceInit ==
    /\ Init
    /\ R!Init

ByUpdate(step) ==
    /\ step
    /\ ShownToRepair
    /\ UNCHANGED <<rlist, repairRun, rseen>>

ByRepair(step) ==
    /\ step
    /\ ShownToUpdate
    /\ UNCHANGED <<list, locks, pc, snap, held, todo, cur, due, history>>

UpdateJobStep == ByUpdate(pc # "down" /\ Run)
RepairJobStep == ByRepair(rpc # "down" /\ R!Run)

UpdateCron == ByUpdate(Cron)
RepairCron == ByRepair(R!Cron)

MaintenanceStart == Start /\ R!Start
MaintenanceCrash == Crash /\ R!Terminated
MaintenanceTick == Tick /\ R!Tick

(* One watch fills the one node list that both jobs read. *)
MaintenanceWatchRestart == WatchRestart /\ R!WatchRestart

Delivered(n) ==
    /\ pc # "down"
    /\ list[n] # api[n] \/ n \in held \/ rlist[n] # node[n]
    /\ Deliver(n)
    /\ R!Deliver(n)

Around ==
    \/ ByUpdate(\/ NewModel \/ Janitor
                \/ \E n \in Nodes : InstanceChanges(n) \/ ToggleExclude(n))
    \/ ByRepair(\/ R!Janitor
                \/ \E n \in Nodes : R!NodeFails(n) \/ R!Heartbeat(n) \/ R!NodeRecovers(n))

Completed(n) == ByUpdate(AzureCompletes(n))

MaintenanceNext ==
    \/ UpdateJobStep \/ RepairJobStep \/ UpdateCron \/ RepairCron
    \/ MaintenanceStart \/ MaintenanceCrash \/ MaintenanceTick
    \/ MaintenanceWatchRestart \/ Around
    \/ \E n \in Nodes : Delivered(n) \/ Completed(n)

(* As for each job alone. *)
MaintenanceSpec ==
    /\ MaintenanceInit /\ [][MaintenanceNext]_allVars
    /\ WF_allVars(UpdateJobStep) /\ WF_allVars(RepairJobStep)
    /\ WF_allVars(UpdateCron) /\ WF_allVars(RepairCron)
    /\ WF_allVars(MaintenanceStart) /\ WF_allVars(MaintenanceTick)
    /\ \A n \in Nodes : WF_allVars(Delivered(n)) /\ WF_allVars(Completed(n))

-----------------------------------------------------------------------------
(* Properties *)

(* A node that stays ready is updated in the end, although the repair job  *)
(* may be in the way of attempts.                                          *)
HealthyMaintained ==
    \A n \in Nodes : \/ <>[](api[n].excluded \/ Maintained(n))
                     \/ []<>(~node[n].ready)
                     \/ []<>(Cardinality(FailedInstances) >= FailedThreshold)

(* A node that stays broken is repaired again and again, although the      *)
(* update job's cordon takes it out of the repair job's sight; unless it is*)
(* excluded from updates, which may leave it cordoned for good, or a lock  *)
(* that has passed stops the repair job.                                   *)
BrokenRepaired ==
    \/ []<>(\E n \in Nodes : node[n].ready \/ node[n].silent = 0 \/ api[n].excluded)
    \/ []<>(rpc = "check")
    \/ <>[](R!PassedLocks # {})

-----------------------------------------------------------------------------
(* What the code says and does not do *)

(* The update job is in the middle of the node: from the cordon to the     *)
(* uncordon.                                                               *)
InMaintenance(n) ==
    cur = n /\ pc \in {"draining", "update", "updating", "redeploy", "redeploying", "uncordon"}

(* autopilot/task.repair.go: "ignore cordoned nodes, maybe maintenance work*)
(* in progress".  No repair begins in the middle of an update of the node. *)
OneOperation ==
    [][rpc = "begin" /\ rpc' = "repairing" => ~InMaintenance(rcur)]_allVars
=============================================================================
