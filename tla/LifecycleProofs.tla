--------------------------- MODULE LifecycleProofs ---------------------------
(***************************************************************************)
(* Theorems about Lifecycle, for any number of pods, nodes and replicas:   *)
(* types, at most one process at work, and what Leadership promises.       *)
(***************************************************************************)
EXTENDS Lifecycle, FiniteSetTheorems, TLAPS

USE DEF PodPhase, MainPlace, BootPlace, CronState, JobState

-----------------------------------------------------------------------------
(* Types *)

LEMMA SetupType == setup \in Setups =>
        /\ setup \in Setup
        /\ setup.lease \in BOOLEAN
        /\ setup.crons \in SUBSET Jobs
  BY LifecycleAssumption DEF Setup

LEMMA DiedTyped ==
  ASSUME TypeOK, NEW p \in Pods, Died(p)
  PROVE  /\ main' \in [Pods -> MainPlace] /\ boot' \in [Pods -> BootPlace]
         /\ cron' \in [Pods -> [Jobs -> CronState]] /\ job' \in [Pods -> [Jobs -> JobState]]
         /\ \A q \in Pods, j \in Jobs : cron'[q][j] = "nil" \/ j \in setup.crons
  BY DEF TypeOK, Died

LEMMA TypeInit == Init => TypeOK
  BY DEF Init, TypeOK

LEMMA TypeStep == TypeOK /\ [Next]_vars => TypeOK'
<1> SUFFICES ASSUME TypeOK, [Next]_vars PROVE TypeOK'
  OBVIOUS
<1> USE DEF clusterVars, bounds, BootFrame, JobFrame, MainFrame, ClusterFrame, processVars
<1>0. setup \in Setups /\ setup.crons \in SUBSET Jobs
  BY SetupType DEF TypeOK
<1>1. ASSUME NEW p \in Pods, Boot(p) PROVE TypeOK'
  <2>1. CASE LeaderElect(p)
    <3>1. CASE TakesLease(p) /\ Boots(p, "repair") /\ UNCHANGED <<cron, faults>> /\ BootFrame
      BY <3>1 DEF TakesLease, Boots, TypeOK
    <3>2. CASE Fault /\ Died(p) /\ UNCHANGED <<clusterVars, outside>>
      BY <3>2, DiedTyped DEF TypeOK, Fault
    <3> QED BY <2>1, <3>1, <3>2 DEF LeaderElect
  <2>2. CASE StartAutopilotRepair(p)
    BY <2>2 DEF StartAutopilotRepair, Creates, Boots, TypeOK, Jobs
  <2>3. CASE StartAutopilotUpdate(p)
    BY <2>3 DEF StartAutopilotUpdate, Creates, Boots, TypeOK, Jobs
  <2> QED BY <1>1, <2>1, <2>2, <2>3 DEF Boot
<1>2. ASSUME NEW p \in Pods, Stop(p) PROVE TypeOK'
  <2>1. CASE StopRepair(p)
    BY <2>1 DEF StopRepair, StopCron, Proceeds, TypeOK, Jobs
  <2>2. CASE StopUpdate(p)
    BY <2>2 DEF StopUpdate, StopCron, Proceeds, TypeOK, Jobs
  <2>3. CASE WaitJobs(p)
    BY <2>3 DEF WaitJobs, Proceeds, TypeOK
  <2>4. CASE Exit(p)
    BY <2>4, DiedTyped DEF Exit, TypeOK
  <2> QED BY <1>2, <2>1, <2>2, <2>3, <2>4 DEF Stop
<1>3. ASSUME NEW p \in Pods, Kubelet(p) PROVE TypeOK'
  <2>1. CASE Signal(p)
    BY <2>1 DEF Signal, Proceeds, TypeOK
  <2>2. CASE Kill(p)
    BY <2>2, DiedTyped DEF Kill, TypeOK
  <2>3. CASE Restart(p)
    BY <2>3 DEF Restart, TypeOK
  <2>4. CASE Remove(p)
    BY <2>4 DEF Remove, TypeOK
  <2> QED BY <1>3, <2>1, <2>2, <2>3, <2>4 DEF Kubelet
<1>4. ASSUME NEW p \in Pods, NEW j \in Jobs, RunJob(p, j) PROVE TypeOK'
  <2>1. CASE BeginRun(p, j)
    BY <2>1 DEF BeginRun, Turns, TypeOK
  <2>2. CASE FindNothing(p, j)
    BY <2>2 DEF FindNothing, Turns, TypeOK
  <2>3. CASE SelfEvict(p, j)
    <3>1. cron' \in [Pods -> [Jobs -> CronState]]
      BY <2>3 DEF SelfEvict, StopsCrons, TypeOK
    <3>2. \A q \in Pods, i \in Jobs : cron'[q][i] = "nil" \/ i \in setup.crons
      BY <2>3 DEF SelfEvict, StopsCrons, TypeOK, Jobs
    <3>3. /\ pod' = [pod EXCEPT ![p] = "terminating"] \/ pod' = pod
          /\ faults' = faults + 1 \/ faults' = faults
      BY <2>3, Zenon DEF SelfEvict, Fault
    <3>4. job' \in [Pods -> [Jobs -> JobState]]
      BY <2>3 DEF SelfEvict, Turns, TypeOK
    <3>5. UNCHANGED <<need, main, boot, host, lease, setup, outside>>
      BY <2>3 DEF SelfEvict
    <3>6. pod' \in [Pods -> PodPhase] /\ faults' \in Nat
      BY <3>3 DEF TypeOK
    <3> QED BY <3>1, <3>2, <3>4, <3>5, <3>6 DEF TypeOK
  <2>4. CASE SelfEvictPanics(p, j)
    BY <2>4, DiedTyped DEF SelfEvictPanics, TypeOK
  <2>5. ASSUME NEW n \in NodeNames, Treat(p, j, n) PROVE TypeOK'
    <3>1. need' \in [Jobs -> SUBSET NodeNames] /\ faults' \in Nat
      BY <2>5 DEF Treat, TypeOK, Fault
    <3>2. job' \in [Pods -> [Jobs -> JobState]]
      BY <2>5 DEF Treat, Turns, TypeOK
    <3>3. UNCHANGED <<pod, cron, main, boot, host, lease, setup, outside>>
      BY <2>5 DEF Treat
    <3> QED BY <3>1, <3>2, <3>3 DEF TypeOK
  <2> QED BY <1>4, <2>1, <2>2, <2>3, <2>4, <2>5 DEF RunJob
<1>5. ASSUME NEW p \in Pods, NEW j \in Jobs, Fire(p, j) PROVE TypeOK'
  BY <1>5 DEF Fire, Turns, TypeOK
<1>6. ASSUME NEW p \in Pods, Deploy(p) PROVE TypeOK'
  BY <1>6 DEF Deploy, TypeOK
<1>7. ASSUME NEW p \in Pods, Crash(p) PROVE TypeOK'
  BY <1>7, DiedTyped DEF Crash, TypeOK, Fault
<1>8. ASSUME NEW p \in Pods, Delete(p) PROVE TypeOK'
  BY <1>8 DEF Delete, TypeOK, Outside
<1>9. CASE ReleaseLease
  BY <1>9 DEF ReleaseLease, TypeOK
<1>10. ASSUME NEW j \in Jobs, NEW n \in NodeNames, NodeAffected(j, n) PROVE TypeOK'
  BY <1>10 DEF NodeAffected, TypeOK, Outside
<1>11. CASE UNCHANGED vars
  BY <1>11 DEF vars, TypeOK
<1> QED
  BY <1>1, <1>2, <1>3, <1>4, <1>5, <1>6, <1>7, <1>8, <1>9, <1>10, <1>11 DEF Next

(* Type correctness; in particular no cron that is nil is ever stopped by  *)
(* Stop or checkSelfEviction.                                              *)
THEOREM TypeCorrect == Spec => []TypeOK
  BY TypeInit, TypeStep, PTL DEF Spec

-----------------------------------------------------------------------------
(* Leader election *)

(* Who has passed leaderElect has the lease; crons and runs belong to who  *)
(* has passed it; who is dead has neither; and a pod outlives its process. *)
Elected(p) == boot[p] \in {"repair", "update", "done"}
LeaseHeld == setup.lease => \A p \in Pods : Elected(p) => lease = p
WorkersElected == \A p \in Pods : Working(p) => boot[p] \in {"update", "done"}
DeadElsewhere == \A p \in Pods : /\ main[p] = "dead" => boot[p] = "none"
                                 /\ pod[p] = "absent" => main[p] = "dead"
LeaderInv == TypeOK /\ LeaseHeld /\ WorkersElected /\ DeadElsewhere

LEMMA LeaderInit == Init => LeaderInv
  BY TypeInit DEF Init, LeaderInv, LeaseHeld, WorkersElected, DeadElsewhere, Elected, Working

(* What the death of a process leaves of it. *)
LEMMA DiedLeader ==
  ASSUME LeaderInv, NEW p \in Pods, Died(p), UNCHANGED <<lease, setup>>,
         pod' \in [Pods -> PodPhase], pod' = pod
  PROVE  LeaseHeld' /\ WorkersElected' /\ DeadElsewhere'
<1> USE DEF LeaderInv, TypeOK, Died
<1>1. LeaseHeld'
  BY DEF LeaseHeld, Elected
<1>2. WorkersElected'
  BY DEF WorkersElected, Working
<1>3. DeadElsewhere'
  BY DEF DeadElsewhere
<1> QED BY <1>1, <1>2, <1>3

(* A step that only moves crons and runs of processes that are at work.    *)
LEMMA WorkLeader ==
  ASSUME LeaderInv, UNCHANGED <<boot, lease, setup, main>>,
         \A q \in Pods : Working(q)' => Working(q),
         \A q \in Pods : pod'[q] = "absent" => pod[q] = "absent"
  PROVE  LeaseHeld' /\ WorkersElected' /\ DeadElsewhere'
  BY DEF LeaderInv, LeaseHeld, Elected, WorkersElected, DeadElsewhere

LEMMA LeaderStep == LeaderInv /\ [Next]_vars => LeaderInv'
<1> SUFFICES ASSUME LeaderInv, [Next]_vars
             PROVE  LeaseHeld' /\ WorkersElected' /\ DeadElsewhere'
  BY TypeStep DEF LeaderInv
<1> USE DEF clusterVars, bounds, BootFrame, JobFrame, MainFrame, ClusterFrame, processVars
<1>0. TypeOK /\ TypeOK'
  BY TypeStep DEF LeaderInv
<1>1. ASSUME NEW p \in Pods, Boot(p) PROVE LeaseHeld' /\ WorkersElected' /\ DeadElsewhere'
  <2>1. CASE LeaderElect(p)
    <3>1. CASE LeaseFree(p) /\ TakesLease(p) /\ Boots(p, "repair")
               /\ UNCHANGED <<cron, faults>> /\ BootFrame
      <4>1. LeaseHeld'
        <5> SUFFICES ASSUME setup.lease, NEW q \in Pods, Elected(q)' PROVE lease' = q
          BY <3>1 DEF LeaseHeld
        <5>1. lease' = p /\ lease \in {NoPod, p}
          BY <3>1 DEF TakesLease, LeaseFree
        <5>2. CASE q # p
          BY <3>1, <5>1, <5>2, LifecycleAssumption, <1>0
             DEF LeaderInv, LeaseHeld, Elected, Boots, TypeOK
        <5> QED BY <5>1, <5>2
      <4>2. WorkersElected'
        BY <2>1, <3>1, <1>0 DEF LeaderElect, Boots, LeaderInv, WorkersElected, Working, TypeOK
      <4>3. DeadElsewhere'
        BY <2>1, <3>1, <1>0 DEF LeaderElect, Boots, LeaderInv, DeadElsewhere, TypeOK
      <4> QED BY <4>1, <4>2, <4>3
    <3>2. CASE Died(p) /\ UNCHANGED <<clusterVars, outside>>
      BY <3>2, <1>0, DiedLeader DEF TypeOK
    <3> QED BY <2>1, <3>1, <3>2 DEF LeaderElect
  <2>2. CASE StartAutopilotRepair(p)
    BY <2>2, <1>0 DEF StartAutopilotRepair, Creates, Boots, LeaderInv, LeaseHeld, Elected,
                      WorkersElected, Working, DeadElsewhere, TypeOK
  <2>3. CASE StartAutopilotUpdate(p)
    BY <2>3, <1>0 DEF StartAutopilotUpdate, Creates, Boots, LeaderInv, LeaseHeld, Elected,
                      WorkersElected, Working, DeadElsewhere, TypeOK
  <2> QED BY <1>1, <2>1, <2>2, <2>3 DEF Boot
<1>2. ASSUME NEW p \in Pods, Stop(p) PROVE LeaseHeld' /\ WorkersElected' /\ DeadElsewhere'
  <2>1. CASE StopRepair(p) \/ StopUpdate(p) \/ WaitJobs(p)
    <3>1. UNCHANGED <<boot, lease, setup, pod, job>>
      BY <2>1 DEF StopRepair, StopUpdate, WaitJobs
    <3>2. \A q \in Pods, j \in Jobs : cron'[q][j] # "nil" => cron[q][j] # "nil"
      <4>1. CASE StopRepair(p)
        BY <4>1, <1>0 DEF StopRepair, StopCron, TypeOK, Jobs
      <4>2. CASE StopUpdate(p)
        BY <4>2, <1>0 DEF StopUpdate, StopCron, TypeOK, Jobs
      <4>3. CASE WaitJobs(p)
        BY <4>3 DEF WaitJobs
      <4> QED BY <2>1, <4>1, <4>2, <4>3
    <3>3. \A q \in Pods : main'[q] = "dead" <=> main[q] = "dead"
      BY <2>1, <1>0 DEF StopRepair, StopUpdate, WaitJobs, Proceeds, TypeOK
    <3> QED BY <3>1, <3>2, <3>3
            DEF LeaderInv, LeaseHeld, Elected, WorkersElected, Working, DeadElsewhere
  <2>2. CASE Exit(p)
    BY <2>2, <1>0, DiedLeader DEF Exit, TypeOK
  <2> QED BY <1>2, <2>1, <2>2 DEF Stop
<1>3. ASSUME NEW p \in Pods, Kubelet(p) PROVE LeaseHeld' /\ WorkersElected' /\ DeadElsewhere'
  <2>1. CASE Signal(p)
    BY <2>1, <1>0 DEF Signal, Proceeds, LeaderInv, LeaseHeld, Elected, WorkersElected, Working,
                      DeadElsewhere, TypeOK
  <2>2. CASE Kill(p)
    BY <2>2, <1>0, DiedLeader DEF Kill, TypeOK
  <2>3. CASE Restart(p)
    BY <2>3, <1>0 DEF Restart, Alive, LeaderInv, LeaseHeld, Elected, WorkersElected, Working,
                      DeadElsewhere, TypeOK
  <2>4. CASE Remove(p)
    BY <2>4, <1>0 DEF Remove, Alive, LeaderInv, LeaseHeld, Elected, WorkersElected, Working,
                      DeadElsewhere, TypeOK
  <2> QED BY <1>3, <2>1, <2>2, <2>3, <2>4 DEF Kubelet
<1>4. ASSUME NEW p \in Pods, NEW j \in Jobs, RunJob(p, j)
      PROVE  LeaseHeld' /\ WorkersElected' /\ DeadElsewhere'
  <2>1. CASE BeginRun(p, j) \/ FindNothing(p, j) \/ \E n \in NodeNames : Treat(p, j, n)
    <3>1. \A q \in Pods : Working(q)' => Working(q)
      BY <2>1, <1>0 DEF BeginRun, FindNothing, Treat, Turns, Working, TypeOK
    <3> QED BY <2>1, <3>1, WorkLeader DEF BeginRun, FindNothing, Treat
  <2>2. CASE SelfEvict(p, j)
    <3>1. \A q \in Pods : Working(q)' => Working(q)
      BY <2>2, <1>0 DEF SelfEvict, OwnNodeAffected, StopsCrons, Turns, Working, TypeOK
    <3>2. \A q \in Pods : pod'[q] = "absent" => pod[q] = "absent"
      BY <2>2, <1>0 DEF SelfEvict, TypeOK
    <3> QED BY <2>2, <3>1, <3>2, WorkLeader DEF SelfEvict
  <2>3. CASE SelfEvictPanics(p, j)
    BY <2>3, <1>0, DiedLeader DEF SelfEvictPanics, TypeOK
  <2> QED BY <1>4, <2>1, <2>2, <2>3 DEF RunJob
<1>5. ASSUME NEW p \in Pods, NEW j \in Jobs, Fire(p, j)
      PROVE  LeaseHeld' /\ WorkersElected' /\ DeadElsewhere'
  <2>1. \A q \in Pods : Working(q)' => Working(q)
    BY <1>5, <1>0 DEF Fire, Turns, Working, TypeOK
  <2> QED BY <1>5, <2>1, WorkLeader DEF Fire
<1>6. ASSUME NEW p \in Pods, Deploy(p) PROVE LeaseHeld' /\ WorkersElected' /\ DeadElsewhere'
  BY <1>6, <1>0 DEF Deploy, LeaderInv, LeaseHeld, Elected, WorkersElected, Working,
                    DeadElsewhere, TypeOK
<1>7. ASSUME NEW p \in Pods, Crash(p) PROVE LeaseHeld' /\ WorkersElected' /\ DeadElsewhere'
  BY <1>7, <1>0, DiedLeader DEF Crash, TypeOK
<1>8. ASSUME NEW p \in Pods, Delete(p) PROVE LeaseHeld' /\ WorkersElected' /\ DeadElsewhere'
  BY <1>8, <1>0 DEF Delete, LeaderInv, LeaseHeld, Elected, WorkersElected, Working,
                    DeadElsewhere, TypeOK
<1>9. CASE ReleaseLease
  BY <1>9, <1>0 DEF ReleaseLease, LeaderInv, LeaseHeld, Elected, WorkersElected, Working,
                    DeadElsewhere, TypeOK
<1>10. ASSUME NEW j \in Jobs, NEW n \in NodeNames, NodeAffected(j, n)
       PROVE  LeaseHeld' /\ WorkersElected' /\ DeadElsewhere'
  BY <1>10 DEF NodeAffected, LeaderInv, LeaseHeld, Elected, WorkersElected, Working, DeadElsewhere
<1>11. CASE UNCHANGED vars
  BY <1>11 DEF vars, LeaderInv, LeaseHeld, Elected, WorkersElected, Working, DeadElsewhere
<1> QED
  BY <1>1, <1>2, <1>3, <1>4, <1>5, <1>6, <1>7, <1>8, <1>9, <1>10, <1>11 DEF Next

(* Of any number of replicas at most one has crons or runs, whatever       *)
(* crashes, restarts, evictions and stops do to them.                      *)
THEOREM OneWorkerOnly == Spec => []OneWorker
<1>1. LeaderInv => OneWorker
  BY DEF LeaderInv, LeaseHeld, WorkersElected, Elected, OneWorker
<1> QED BY <1>1, LeaderInit, LeaderStep, PTL DEF Spec

LEMMA SetupFixed == [Next]_vars => setup' = setup
<1> SUFFICES ASSUME [Next]_vars PROVE setup' = setup
  OBVIOUS
<1> USE DEF clusterVars, BootFrame, JobFrame, MainFrame, ClusterFrame
<1>1. ASSUME NEW p \in Pods, Boot(p) PROVE setup' = setup
  BY <1>1 DEF Boot, LeaderElect, StartAutopilotRepair, StartAutopilotUpdate, Creates
<1>2. ASSUME NEW p \in Pods, Stop(p) PROVE setup' = setup
  BY <1>2 DEF Stop, StopRepair, StopUpdate, WaitJobs, Exit
<1>3. ASSUME NEW p \in Pods, Kubelet(p) PROVE setup' = setup
  BY <1>3 DEF Kubelet, Signal, Kill, Restart, Remove
<1>4. ASSUME NEW p \in Pods, NEW j \in Jobs, Fire(p, j) \/ RunJob(p, j) PROVE setup' = setup
  BY <1>4 DEF Fire, RunJob, BeginRun, FindNothing, SelfEvict, SelfEvictPanics, Treat
<1>5. ASSUME NEW p \in Pods, Deploy(p) \/ Crash(p) \/ Delete(p) PROVE setup' = setup
  BY <1>5 DEF Deploy, Crash, Delete
<1>6. ASSUME NEW j \in Jobs, NEW n \in NodeNames, NodeAffected(j, n) PROVE setup' = setup
  BY <1>6 DEF NodeAffected
<1>7. CASE ReleaseLease \/ UNCHANGED vars
  BY <1>7 DEF ReleaseLease, vars
<1> QED BY <1>1, <1>2, <1>3, <1>4, <1>5, <1>6, <1>7 DEF Next

(* Who works has the lease and is not gone: by LeaderInv the abstract      *)
(* working set is empty or the leader alone, before and after every step.  *)
LeaderAtWork == /\ \A p \in Pods : setup.lease /\ Working(p) => lease = p
                /\ \A p \in Pods : Working(p) => pod[p] # "absent"

(* Where the lease comes from and where it goes: only an election takes it *)
(* and only the garbage collector takes it away, and neither starts or     *)
(* ends work.                                                              *)
LEMMA LeaseMoves ==
  ASSUME TypeOK, [Next]_vars, lease' # lease
  PROVE  /\ UNCHANGED <<cron, job>>
         /\ \/ lease' \in Pods /\ lease = NoPod
            \/ lease \in Pods /\ lease' = NoPod /\ pod[lease] = "absent"
<1> USE DEF clusterVars, bounds, BootFrame, JobFrame, MainFrame, ClusterFrame, processVars
<1>1. ASSUME NEW p \in Pods, Boot(p)
      PROVE  lease' = p /\ lease = NoPod /\ UNCHANGED <<cron, job>>
  <2>1. LeaderElect(p)
    BY <1>1 DEF Boot, StartAutopilotRepair, StartAutopilotUpdate, Creates
  <2>2. LeaseFree(p) /\ TakesLease(p) /\ UNCHANGED <<cron, job>>
    BY <2>1 DEF LeaderElect
  <2> QED BY <2>2 DEF LeaseFree, TakesLease
<1>2. ASSUME NEW p \in Pods, Stop(p) \/ Kubelet(p) PROVE FALSE
  BY <1>2 DEF Stop, StopRepair, StopUpdate, WaitJobs, Exit, Kubelet, Signal, Kill, Restart, Remove
<1>3. ASSUME NEW p \in Pods, NEW j \in Jobs, Fire(p, j) \/ RunJob(p, j) PROVE FALSE
  BY <1>3 DEF Fire, RunJob, BeginRun, FindNothing, SelfEvict, SelfEvictPanics, Treat
<1>4. ASSUME NEW p \in Pods, Deploy(p) \/ Crash(p) \/ Delete(p) PROVE FALSE
  BY <1>4 DEF Deploy, Crash, Delete
<1>5. ASSUME NEW j \in Jobs, NEW n \in NodeNames, NodeAffected(j, n) PROVE FALSE
  BY <1>5 DEF NodeAffected
<1>6. ~ UNCHANGED vars
  BY DEF vars
<1>7. CASE ReleaseLease
  BY <1>7 DEF ReleaseLease
<1> QED BY <1>1, <1>2, <1>3, <1>4, <1>5, <1>6, <1>7 DEF Next

LEMMA LeadershipInit == Init => Leader!Init
  BY DEF Init, Leader!Init, Working

LEMMA LeadershipStep ==
  ASSUME LeaderInv, LeaderInv', [Next]_vars
  PROVE  [Leader!Next]_(Leader!vars)
<1> DEFINE workers == {p \in Pods : setup.lease /\ Working(p)}
<1> USE DEF Leader!Next, Leader!vars
<1>1. setup' = setup /\ LeaderAtWork /\ LeaderAtWork'
  BY SetupFixed DEF LeaderInv, LeaseHeld, WorkersElected, DeadElsewhere, Elected, LeaderAtWork
<1>2. lease \in Pods \cup {NoPod} /\ lease' \in Pods \cup {NoPod}
  BY DEF LeaderInv, TypeOK
<1>3. CASE ~setup.lease
  BY <1>1, <1>3
<1>4. CASE setup.lease /\ lease' = lease
  <2>1. workers \subseteq {lease} /\ workers' \subseteq {lease}
    BY <1>1, <1>4 DEF LeaderAtWork
  <2>2. CASE workers' = workers
    BY <2>2, <1>1, <1>4
  <2>3. CASE lease \in Pods /\ workers' = workers \cup {lease}
    BY <2>3, <1>1, <1>4 DEF Leader!BeginWork
  <2>4. CASE lease \in Pods /\ workers' = workers \ {lease}
    BY <2>4, <1>1, <1>4 DEF Leader!EndWork
  <2> QED BY <2>1, <2>2, <2>3, <2>4
<1>5. CASE setup.lease /\ lease' # lease
  <2>1. workers' = workers
    BY <1>1, <1>5, LeaseMoves DEF LeaderInv, Working
  <2>2. CASE lease' \in Pods /\ lease = NoPod
    BY <2>1, <2>2, <1>1, <1>5 DEF Leader!Elect
  <2>3. CASE lease \in Pods /\ lease' = NoPod /\ pod[lease] = "absent"
    <3>1. lease \notin workers
      BY <2>3, <1>1 DEF LeaderAtWork
    <3> QED BY <3>1, <2>1, <2>3, <1>1, <1>5 DEF Leader!Resign
  <2> QED BY <2>2, <2>3, <1>5, LeaseMoves DEF LeaderInv
<1> QED BY <1>3, <1>4, <1>5

(* Lifecycle implements Leadership, for any number of pods and whatever    *)
(* crashes, restarts and evictions do: the leader alone works, and the     *)
(* lease changes hands only when its old holder is at work no more.        *)
THEOREM LeadershipImplemented == Spec => ImplementsLeadership
<1>1. LeaderInv /\ LeaderInv' /\ [Next]_vars => [Leader!Next]_(Leader!vars)
  BY LeadershipStep
<1>2. Spec => []LeaderInv
  BY LeaderInit, LeaderStep, PTL DEF Spec
<1> QED BY <1>1, <1>2, LeadershipInit, PTL DEF Spec, ImplementsLeadership, Leader!Spec

=============================================================================
