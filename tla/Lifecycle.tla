------------------------------ MODULE Lifecycle ------------------------------
(***************************************************************************)
(* The life of azure-k8s-autopilot processes: replicas of a deployment     *)
(* that compete for a leader lease, start their two crons, run jobs, evict *)
(* themselves from nodes they have to work on, and are told to stop        *)
(* (main.go, and Start, Stop, leaderElect, startAutopilotRepair,           *)
(* startAutopilotUpdate and checkSelfEviction of autopilot/main.go).       *)
(*                                                                         *)
(* A process has three kinds of goroutines: the main one, which waits for  *)
(* a signal and then stops; the one of Start; and one per run of a job.    *)
(* What a job does with a node is UpdateJob's and RepairJob's concern; here*)
(* a run treats one node that needs it, or finds its own node affected.    *)
(***************************************************************************)
EXTENDS Naturals, FiniteSets

CONSTANTS
    Pods,           \* names of pods
    NoPod,          \* no pod: nobody has the lease
    NodeNames,      \* nodes, on which pods are scheduled
    Replicas,       \* replicas of the deployment
    Setups,         \* options and circumstances: see Setup
    MaxFaults,      \* bound on crashes and failing calls
    MaxOutside      \* bound on affected nodes and pods deleted by others

Jobs == {"repair", "update"}

(* lease.enable; which of repair.crontab and update.crontab are set; and   *)
(* whether evictions may be refused.                                       *)
Setup == [lease : BOOLEAN, crons : SUBSET Jobs, refusals : BOOLEAN]

ASSUME LifecycleAssumption ==
    /\ NoPod \notin Pods
    /\ Setups \subseteq Setup
    /\ {Replicas, MaxFaults, MaxOutside} \subseteq Nat

VARIABLES
    pod,        \* pods on the API server
    host,       \* the node a pod is bound to
    main,       \* what the main goroutine of a pod's process is about to do
    boot,       \* what its Start goroutine is about to do
    cron,       \* r.cron.repair and r.cron.update
    job,        \* the goroutines of the jobs
    lease,      \* the pod that has the leader lease
    setup,      \* the setup, which does not change
    need,       \* nodes a job has to treat
    faults,     \* crashes and failing calls so far
    outside     \* what others did so far

processVars == <<main, boot, cron, job>>
clusterVars == <<pod, host, lease, setup, need>>
bounds == <<faults, outside>>
vars == <<processVars, clusterVars, bounds>>

(* "terminating": the pod is deleted or evicted, and its process is told   *)
(* to stop, and killed if it takes too long.                               *)
PodPhase == {"absent", "running", "terminating"}

(* "fired": the goroutine of a run exists and has not done wg.Add(1) yet.  *)
MainPlace == {"dead", "serving", "stopRepair", "stopUpdate", "wait", "exit"}
BootPlace == {"none", "elect", "repair", "update", "done"}
CronState == {"nil", "running", "stopped"}
JobState == {"none", "fired", "running"}

Alive(p) == main[p] # "dead"
WaitGroup(p) == Cardinality({j \in Jobs : job[p][j] = "running"})

Fault == faults < MaxFaults /\ faults' = faults + 1
Outside == outside < MaxOutside /\ outside' = outside + 1

-----------------------------------------------------------------------------
Init ==
    /\ pod = [p \in Pods |-> "absent"]
    /\ host \in [Pods -> NodeNames]
    /\ main = [p \in Pods |-> "dead"]
    /\ boot = [p \in Pods |-> "none"]
    /\ cron = [p \in Pods |-> [j \in Jobs |-> "nil"]]
    /\ job = [p \in Pods |-> [j \in Jobs |-> "none"]]
    /\ lease = NoPod
    /\ setup \in Setups
    /\ need = [j \in Jobs |-> {}]
    /\ faults = 0
    /\ outside = 0

-----------------------------------------------------------------------------
(* Start: leader election, node list, crons *)

Boots(p, place) == boot' = [boot EXCEPT ![p] = place]
BootFrame == UNCHANGED <<pod, host, main, job, setup, need, outside>>

(* The process is gone, and with it all its goroutines. *)
Died(p) ==
    /\ main' = [main EXCEPT ![p] = "dead"]
    /\ boot' = [boot EXCEPT ![p] = "none"]
    /\ cron' = [cron EXCEPT ![p] = [j \in Jobs |-> "nil"]]
    /\ job' = [job EXCEPT ![p] = [j \in Jobs |-> "none"]]

(* leader.Become waits until the lease is free, or finds that this pod has *)
(* it from before a restart.  On an error the process exits.  Nothing      *)
(* tells the goroutine of Start that its process is stopping meanwhile: it *)
(* goes on and starts the crons all the same.                              *)
LeaseFree(p) == ~setup.lease \/ lease \in {NoPod, p}
TakesLease(p) == lease' = (IF setup.lease THEN p ELSE lease)

LeaderElect_ErrorIgnored(p) ==
    /\ boot[p] = "elect"
    /\ \/ /\ LeaseFree(p) /\ TakesLease(p) /\ UNCHANGED faults
       \/ setup.lease /\ Fault /\ UNCHANGED lease
    /\ Boots(p, "repair") /\ UNCHANGED cron
    /\ BootFrame

LeaderElect(p) ==
    /\ boot[p] = "elect"
    /\ \/ /\ LeaseFree(p) /\ TakesLease(p)
          /\ Boots(p, "repair")
          /\ UNCHANGED <<cron, faults>>
          /\ BootFrame
       \/ /\ setup.lease /\ Fault
          /\ Died(p)
          /\ UNCHANGED <<clusterVars, outside>>

Creates(p, j) ==
    /\ cron' = [cron EXCEPT ![p][j] = IF j \in setup.crons THEN "running" ELSE @]
    /\ UNCHANGED <<lease, faults>> /\ BootFrame

StartAutopilotRepair(p) == boot[p] = "repair" /\ Boots(p, "update") /\ Creates(p, "repair")

StartAutopilotUpdate_Nested(p) ==
    /\ boot[p] = "update" /\ Boots(p, "done")
    /\ IF cron[p]["repair"] # "nil" THEN Creates(p, "update")
       ELSE UNCHANGED <<cron, lease, faults>> /\ BootFrame
StartAutopilotUpdate(p) == boot[p] = "update" /\ Boots(p, "done") /\ Creates(p, "update")

-----------------------------------------------------------------------------
(* Runs of the jobs *)

Turns(p, j, state) == job' = [job EXCEPT ![p][j] = state]
JobFrame == UNCHANGED <<main, boot, host, lease, setup, outside>>

(* SkipIfStillRunning: a cron fires into nothing while its job is running. *)
(* The new goroutine counts itself in the wait group, and does so when it  *)
(* gets to run.                                                            *)
Fire(p, j) ==
    /\ cron[p][j] = "running"
    /\ job[p][j] = "none"
    /\ Turns(p, j, "fired")
    /\ UNCHANGED <<cron, pod, need, faults>> /\ JobFrame

BeginRun(p, j) ==
    /\ job[p][j] = "fired"
    /\ Turns(p, j, "running")
    /\ UNCHANGED <<cron, pod, need, faults>> /\ JobFrame

(* A run repairs or updates one node, as far as its concurrency allows, or *)
(* finds none, or fails.                                                   *)
Treat(p, j, n) ==
    /\ job[p][j] = "running"
    /\ n \in need[j] /\ n # host[p]
    /\ Turns(p, j, "none")
    /\ \/ need' = [need EXCEPT ![j] = @ \ {n}] /\ UNCHANGED faults
       \/ Fault /\ UNCHANGED need
    /\ UNCHANGED <<cron, pod>> /\ JobFrame

FindNothing(p, j) ==
    /\ job[p][j] = "running"
    /\ need[j] = {}
    /\ Turns(p, j, "none")
    /\ UNCHANGED <<cron, pod, need, faults>> /\ JobFrame

(* checkSelfEviction.  It stops the update cron when there is a repair     *)
(* cron: when there is only that, Stop is called on nil and the process    *)
(* panics; when there is only an update cron it goes on.  An error of the  *)
(* eviction is logged.                                                     *)
StopsCrons(p) ==
    cron' = IF cron[p]["repair"] = "nil" THEN cron
            ELSE [cron EXCEPT ![p] = [j \in Jobs |-> "stopped"]]
OwnNodeAffected(p, j) == job[p][j] = "running" /\ host[p] \in need[j]

SelfEvict_NotEvicting(p, j) ==
    /\ OwnNodeAffected(p, j)
    /\ cron[p]["repair"] # "nil" => cron[p]["update"] # "nil"
    /\ StopsCrons(p)
    /\ Turns(p, j, "none")
    /\ UNCHANGED <<pod, need, faults>> /\ JobFrame

SelfEvict(p, j) ==
    /\ OwnNodeAffected(p, j)
    /\ cron[p]["repair"] # "nil" => cron[p]["update"] # "nil"
    /\ StopsCrons(p)
    /\ Turns(p, j, "none")
    /\ \/ pod' = [pod EXCEPT ![p] = "terminating"] /\ UNCHANGED faults
       \/ setup.refusals /\ Fault /\ UNCHANGED pod
    /\ UNCHANGED need /\ JobFrame

SelfEvictPanics(p, j) ==
    /\ OwnNodeAffected(p, j)
    /\ cron[p]["repair"] # "nil" /\ cron[p]["update"] = "nil"
    /\ Died(p)
    /\ UNCHANGED <<clusterVars, bounds>>

-----------------------------------------------------------------------------
(* The main goroutine: a signal, Stop, exit *)

Proceeds(p, from, to) == main[p] = from /\ main' = [main EXCEPT ![p] = to]
MainFrame == UNCHANGED <<boot, job, clusterVars, bounds>>

(* The kubelet sends a signal once the pod is to go, wherever Start is.    *)
Signal(p) ==
    /\ pod[p] = "terminating"
    /\ Proceeds(p, "serving", "stopRepair")
    /\ UNCHANGED cron /\ MainFrame

StopCron_Unchecked(p, j) == cron' = [cron EXCEPT ![p][j] = "stopped"]
StopCron(p, j) ==
    cron' = [cron EXCEPT ![p][j] = IF @ = "nil" THEN "nil" ELSE "stopped"]

StopRepair(p) == Proceeds(p, "stopRepair", "stopUpdate") /\ StopCron(p, "repair") /\ MainFrame
StopUpdate(p) == Proceeds(p, "stopUpdate", "wait") /\ StopCron(p, "update") /\ MainFrame

(* r.wg.Wait(), then nodeList.Stop() and the end of main. *)
WaitJobs(p) ==
    /\ WaitGroup(p) = 0
    /\ Proceeds(p, "wait", "exit")
    /\ UNCHANGED cron /\ MainFrame

Exit(p) == main[p] = "exit" /\ Died(p) /\ UNCHANGED <<clusterVars, bounds>>

-----------------------------------------------------------------------------
(* The cluster around the processes *)

(* The process dies: a panic, a failing health check, lack of memory. *)
Crash(p) == Alive(p) /\ Fault /\ Died(p) /\ UNCHANGED <<clusterVars, outside>>

(* The grace period is over. *)
Kill(p) == pod[p] = "terminating" /\ Alive(p) /\ Died(p) /\ UNCHANGED <<clusterVars, bounds>>

(* The kubelet (re)starts the container of a pod. *)
Restart(p) ==
    /\ pod[p] = "running"
    /\ ~Alive(p)
    /\ main' = [main EXCEPT ![p] = "serving"]
    /\ boot' = [boot EXCEPT ![p] = "elect"]
    /\ UNCHANGED <<cron, job, clusterVars, bounds>>

ClusterFrame == UNCHANGED <<processVars, setup, faults>>

(* The deployment replaces pods that are gone or about to go; the new one  *)
(* has a name that has never had the lease, and may be put on any node.    *)
Deploy(p) ==
    /\ pod[p] = "absent"
    /\ lease # p
    /\ Cardinality({q \in Pods : pod[q] = "running"}) < Replicas
    /\ pod' = [pod EXCEPT ![p] = "running"]
    /\ \E n \in NodeNames : host' = [host EXCEPT ![p] = n]
    /\ UNCHANGED <<lease, need, outside>> /\ ClusterFrame

(* A pod is removed once its process is dead, and the lease, which it owns,*)
(* after it.                                                               *)
Remove(p) ==
    /\ pod[p] = "terminating"
    /\ ~Alive(p)
    /\ pod' = [pod EXCEPT ![p] = "absent"]
    /\ UNCHANGED <<host, lease, need, outside>> /\ ClusterFrame

ReleaseLease ==
    /\ lease \in Pods
    /\ pod[lease] = "absent"
    /\ lease' = NoPod
    /\ UNCHANGED <<pod, host, need, outside>> /\ ClusterFrame

(* A rollout, a drain of the node, an operator. *)
Delete(p) ==
    /\ Outside
    /\ pod[p] = "running"
    /\ pod' = [pod EXCEPT ![p] = "terminating"]
    /\ UNCHANGED <<host, lease, need>> /\ ClusterFrame

NodeAffected(j, n) ==
    /\ Outside
    /\ need' = [need EXCEPT ![j] = @ \cup {n}]
    /\ UNCHANGED <<pod, host, lease>> /\ ClusterFrame

-----------------------------------------------------------------------------
Boot(p) == LeaderElect(p) \/ StartAutopilotRepair(p) \/ StartAutopilotUpdate(p)
RunJob(p, j) ==
    \/ BeginRun(p, j) \/ FindNothing(p, j) \/ SelfEvict(p, j) \/ SelfEvictPanics(p, j)
    \/ \E n \in NodeNames : Treat(p, j, n)
Stop(p) == StopRepair(p) \/ StopUpdate(p) \/ WaitJobs(p) \/ Exit(p)
Kubelet(p) == Signal(p) \/ Kill(p) \/ Restart(p) \/ Remove(p)

Next ==
    \/ \E p \in Pods : \/ Boot(p) \/ Stop(p) \/ Kubelet(p)
                      \/ Deploy(p) \/ Crash(p) \/ Delete(p)
                      \/ \E j \in Jobs : Fire(p, j) \/ RunJob(p, j)
    \/ ReleaseLease
    \/ \E j \in Jobs, n \in NodeNames : NodeAffected(j, n)

Spec == Init /\ [][Next]_vars

(* Goroutines run, calls return, crons fire; kubelet, deployment and       *)
(* garbage collection do their work.  Start creates one cron right after   *)
(* the other: it does not lose the race against the first run of the first *)
(* one, and die with it in SelfEvictPanics, every time it is started again.*)
Fairness ==
    /\ \A p \in Pods :
         /\ WF_vars(Boot(p)) /\ SF_vars(StartAutopilotUpdate(p)) /\ WF_vars(Stop(p))
         /\ WF_vars(Signal(p)) /\ WF_vars(Kill(p))
         /\ WF_vars(Restart(p)) /\ WF_vars(Remove(p)) /\ WF_vars(Deploy(p))
         /\ \A j \in Jobs : WF_vars(Fire(p, j)) /\ WF_vars(RunJob(p, j))
    /\ WF_vars(ReleaseLease)

FairSpec == Spec /\ Fairness

-----------------------------------------------------------------------------
(* Properties *)

(* Every variable has its type, and there is a cron only where its crontab *)
(* is set: nobody stops one that is nil.                                   *)
TypeOK ==
    /\ pod \in [Pods -> PodPhase]
    /\ host \in [Pods -> NodeNames]
    /\ main \in [Pods -> MainPlace]
    /\ boot \in [Pods -> BootPlace]
    /\ cron \in [Pods -> [Jobs -> CronState]]
    /\ \A p \in Pods, j \in Jobs : cron[p][j] = "nil" \/ j \in setup.crons
    /\ job \in [Pods -> [Jobs -> JobState]]
    /\ lease \in Pods \cup {NoPod}
    /\ setup \in Setups
    /\ need \in [Jobs -> SUBSET NodeNames]
    /\ faults \in Nat
    /\ outside \in Nat

(* Leader election: whatever crashes, restarts and evictions do to the     *)
(* replicas, no two of them have crons or runs at the same time.           *)
Working(p) == \E j \in Jobs : cron[p][j] # "nil" \/ job[p][j] # "none"
OneWorker == setup.lease => \A p, q \in Pods : Working(p) /\ Working(q) => p = q

(* leader.Become: only the pod that has the lease works, and it keeps the  *)
(* lease, over restarts and until it is gone, as long as it works.  There  *)
(* is nothing to promise without leader election.                          *)
Leader == INSTANCE Leadership WITH
    Candidates <- Pods,
    Nobody <- NoPod,
    leader <- IF setup.lease THEN lease ELSE NoPod,
    working <- {p \in Pods : setup.lease /\ Working(p)}
ImplementsLeadership == Leader!Spec

(* An autopilot at work does not stay on a node it would have to treat.    *)
LeavesAffectedNode ==
    \A p \in Pods, j \in Jobs :
        (pod[p] = "running" /\ cron[p][j] = "running" /\ host[p] \in need[j])
            ~> (pod[p] # "running" \/ host[p] \notin need[j])

(* It is so with an update cron, when evictions are not refused.           *)
Sound == setup.crons # {"repair"} /\ ~setup.refusals
LeavesWhenSound == Sound => LeavesAffectedNode

(* Every node a cron is set for is treated in the end, whatever crashes and*)
(* whoever leads, unless pods keep being put on affected nodes and leave   *)
(* them again.                                                             *)
Served ==
    Sound => \/ []<>(\A j \in setup.crons : need[j] = {})
             \/ []<>(\E p \in Pods : pod[p] = "terminating")

-----------------------------------------------------------------------------
(* What the code says and does not do *)

(* "shutdown signal received, trying to stop ... finished, terminating     *)
(* now": when Stop has waited for the jobs, no run is under way or begins  *)
(* in what is left of the process.  But a run that has been fired counts   *)
(* itself only when its goroutine gets to run, and Start may still be about*)
(* to start a cron that Stop has found to be nil.                          *)
StopWaits == \A p \in Pods : main[p] = "exit" => \A j \in Jobs : job[p][j] = "none"
=============================================================================
