--------------------------- MODULE MaintenanceProofs ---------------------------
(***************************************************************************)
(* What each job promises by itself and still promises beside the other one*)
(* in the same process, for every finite set of nodes and however the steps*)
(* of the two jobs are interleaved.                                        *)
(*                                                                         *)
(* The module of each job supposes surroundings; here they are the steps of*)
(* the other job.  To the update job a step of the repair job is quiet: it *)
(* touches neither marks nor cordons.  To the repair job a step of the     *)
(* update job changes cordons and instances, never the repair locks.       *)
(***************************************************************************)
EXTENDS Maintenance, UpdateJobProofs

(* R with what is proved about it. *)
P == INSTANCE RepairJobProofs
    WITH api <- node, vm <- machine, list <- rlist, locks <- rlocks, pc <- rpc,
         snap <- rsnap, cur <- rcur, due <- rdue, seen <- rseen,
         DryRuns <- {DryRun}, Period <- RepairPeriod, UpdateEnabled <- TRUE,
         WatchLags <- WatchRace

(* The constants of Maintenance are constants the repair job allows.       *)
LEMMA RepairAllowed == P!AnnotationAssumption /\ P!RepairAssumption /\ P!StatusAssumption
<1>1. P!AnnotationAssumption
  BY AnnotationAssumption DEF P!AnnotationAssumption
<1>2. P!RepairAssumption
  BY UpdateAssumption, MaintenanceAssumption
     DEF P!RepairAssumption, P!IsFiniteSet, IsFiniteSet
<1>3. P!StatusAssumption
  BY SnapshotAssumption DEF P!StatusAssumption, R!Status, P!Status, R!Silence, P!Silence,
         R!NodeObject, P!NodeObject, R!Annotation, P!Annotation
<1> QED BY <1>1, <1>2, <1>3

(* The actions of R are those of P.                                        *)
LEMMA SameLimit == /\ R!LimitReached <=> P!LimitReached
                   /\ R!LimitReached' <=> P!LimitReached'
BY DEF R!LimitReached, P!LimitReached, R!ItemCount, P!ItemCount, R!Cardinality, P!Cardinality

(* ... those that read or write lock annotations; ...                      *)
LEMMA SameLocks ==
    /\ R!Janitor <=> P!Janitor
    /\ R!CronTick <=> P!CronTick
    /\ R!LockRepaired <=> P!LockRepaired
    /\ R!LockFailed <=> P!LockFailed
<1> USE DEF R!Fault, P!Fault, R!NoFault, P!NoFault, R!CacheHolds, P!CacheHolds, R!CacheAdd,
            P!CacheAdd, R!LockExists, P!LockExists, R!LockDuration, P!LockDuration,
            R!LockDiscarded, P!LockDiscarded, R!Listed, P!Listed, R!Needing, P!Needing,
            R!NeedsRepair, P!NeedsRepair
<1>1. R!Janitor <=> P!Janitor
  BY DEF R!Janitor, P!Janitor, R!DeleteExpired, P!DeleteExpired
<1>2. R!CronTick <=> P!CronTick
  BY SameLimit DEF R!CronTick, P!CronTick, R!SyncedLocks, P!SyncedLocks, R!Kept,
                   P!Kept, R!Discarded, P!Discarded, R!Calls, P!Calls, R!LockKept, P!LockKept
<1>3. R!LockRepaired <=> P!LockRepaired
  BY DEF R!LockRepaired, P!LockRepaired, R!Lock, P!Lock, R!AnnotationLockSet, P!AnnotationLockSet
<1>4. R!LockFailed <=> P!LockFailed
  BY DEF R!LockFailed, P!LockFailed, R!Lock, P!Lock, R!AnnotationLockSet, P!AnnotationLockSet
<1> QED BY <1>1, <1>2, <1>3, <1>4

(* ... those of a run and its repairs; ...                                 *)
LEMMA SameRun == R!Run <=> P!Run
<1> USE DEF R!Fault, P!Fault, R!NoFault, P!NoFault, R!Goes, P!Goes, R!Fails, P!Fails,
            R!WalkFrame, P!WalkFrame, R!At, P!At, R!Visited, P!Visited, R!Listed, P!Listed,
            R!CacheHolds, P!CacheHolds, R!EmptyCache, P!EmptyCache, R!NeedsRepair, P!NeedsRepair,
            R!Admitted, P!Admitted
<1>1. (R!Start <=> P!Start) /\ (R!RunEnds <=> P!RunEnds)
  BY DEF R!Start, P!Start, R!RunEnds, P!RunEnds
<1>2. R!ListNodes <=> P!ListNodes
  BY DEF R!ListNodes, P!ListNodes, R!Stale, P!Stale, R!Needing, P!Needing, R!Calls, P!Calls,
         R!Cleanup, P!Cleanup, R!StatusOf, P!StatusOf, R!LockExists, P!LockExists, R!LockDuration,
         P!LockDuration, R!LockDiscarded, P!LockDiscarded
<1>3. R!SelfEvict <=> P!SelfEvict
  BY SameLimit DEF R!SelfEvict, P!SelfEvict, R!Terminated, P!Terminated, R!Nothing, P!Nothing
<1>4. /\ R!CheckState <=> P!CheckState
      /\ R!BeginRepair <=> P!BeginRepair
      /\ R!PollRepair <=> P!PollRepair
  BY DEF R!CheckState, P!CheckState, R!StateAllowed, P!StateAllowed, R!BeginRepair,
         P!BeginRepair, R!PollRepair, P!PollRepair
<1>5. ASSUME NEW n
      PROVE  /\ R!VisitHealthy(n) <=> P!VisitHealthy(n)
             /\ R!PretendRepair(n) <=> P!PretendRepair(n)
  BY SameLimit DEF R!VisitHealthy, P!VisitHealthy, R!CacheDelete, P!CacheDelete,
                   R!PretendRepair, P!PretendRepair, R!CacheAdd, P!CacheAdd
<1>6. ASSUME NEW n
      PROVE  (R!Skip(n) <=> P!Skip(n)) /\ (R!Repair(n) <=> P!Repair(n))
  BY SameLimit DEF R!Skip, P!Skip, R!Repair, P!Repair
<1> QED BY <1>1, <1>2, <1>3, <1>4, <1>5, <1>6, SameLocks DEF R!Run, P!Run

(* ... and what begins, ends and surrounds a run.                          *)
LEMMA SameAround ==
    /\ R!Start <=> P!Start
    /\ R!Terminated <=> P!Terminated
    /\ R!CronSkip <=> P!CronSkip
    /\ R!Tick <=> P!Tick
    /\ R!WatchRestart <=> P!WatchRestart
    /\ \A n : R!Deliver(n) <=> P!Deliver(n)
    /\ \A n : /\ R!NodeFails(n) <=> P!NodeFails(n)
              /\ R!Heartbeat(n) <=> P!Heartbeat(n)
              /\ R!NodeRecovers(n) <=> P!NodeRecovers(n)
<1> USE DEF R!jobVars, P!jobVars, R!Listed, P!Listed, R!CacheHolds, P!CacheHolds, R!EmptyCache,
            P!EmptyCache, R!Nothing, P!Nothing
<1>1. (R!Start <=> P!Start) /\ (R!Terminated <=> P!Terminated) /\ (R!CronSkip <=> P!CronSkip)
  BY DEF R!Start, P!Start, R!Terminated, P!Terminated, R!CronSkip, P!CronSkip
<1>2. R!Tick <=> P!Tick
  BY DEF R!Tick, P!Tick, R!AgedNode, P!AgedNode, R!AgedStatus, P!AgedStatus, R!Longer, P!Longer,
         R!Aged, P!Aged, R!CacheAged, P!CacheAged
<1>3. \A n : /\ R!NodeFails(n) <=> P!NodeFails(n)
             /\ R!Heartbeat(n) <=> P!Heartbeat(n)
             /\ R!NodeRecovers(n) <=> P!NodeRecovers(n)
  BY DEF R!NodeFails, P!NodeFails, R!Heartbeat, P!Heartbeat, R!NodeRecovers, P!NodeRecovers,
         R!Around, P!Around, R!Outside, P!Outside
<1>4. (R!WatchRestart <=> P!WatchRestart) /\ \A n : R!Deliver(n) <=> P!Deliver(n)
  BY DEF R!WatchRestart, P!WatchRestart, R!Outside, P!Outside, R!Deliver, P!Deliver,
         R!NeedsRepair, P!NeedsRepair
<1> QED BY <1>1, <1>2, <1>3, <1>4

-----------------------------------------------------------------------------
(* Who moves *)

NodesChange == \E n \in Nodes : P!NodeFails(n) \/ P!Heartbeat(n) \/ P!NodeRecovers(n)

UpdateStep ==
    /\ Next
    /\ ShownToRepair
    /\ UNCHANGED <<rlist, repairRun, rseen>>
RepairStep ==
    /\ P!Run \/ P!Cron \/ P!Janitor \/ NodesChange
    /\ ShownToUpdate
    /\ UNCHANGED <<list, locks, pc, snap, held, todo, cur, due, history>>
BothMove ==
    \/ Start /\ P!Start
    \/ Crash /\ P!Terminated
    \/ Tick /\ P!Tick
    \/ WatchRestart /\ P!WatchRestart
    \/ pc # "down" /\ \E n \in Nodes : Deliver(n) /\ P!Deliver(n)

(* Every step is of one job, or of both. *)
LEMMA WhoMoves ==
    [MaintenanceNext]_allVars => UpdateStep \/ RepairStep \/ BothMove \/ UNCHANGED allVars
<1>1. UpdateJobStep => UpdateStep
  BY DEF UpdateJobStep, ByUpdate, UpdateStep, Next
<1>2. RepairJobStep => RepairStep
  BY SameRun DEF RepairJobStep, ByRepair, RepairStep
<1>3. UpdateCron \/ (\E n \in Nodes : Completed(n)) => UpdateStep
  BY DEF UpdateCron, Completed, ByUpdate, UpdateStep, Next, Environment
<1>4. RepairCron => RepairStep
  BY SameLocks, SameAround DEF RepairCron, ByRepair, RepairStep, R!Cron, P!Cron
<1>5. Around => UpdateStep \/ RepairStep
  BY SameLocks, SameAround DEF Around, ByUpdate, ByRepair, UpdateStep, RepairStep, Next,
                               Environment, NodesChange
<1>6. ASSUME \/ MaintenanceStart \/ MaintenanceCrash \/ MaintenanceTick
             \/ MaintenanceWatchRestart
             \/ \E n \in Nodes : Delivered(n)
      PROVE  BothMove
  BY <1>6, SameAround DEF MaintenanceStart, MaintenanceCrash, MaintenanceTick,
                          MaintenanceWatchRestart, Delivered, BothMove
<1> QED BY <1>1, <1>2, <1>3, <1>4, <1>5, <1>6 DEF MaintenanceNext

(* What is not a step of the repair job alone is one of the update job, or *)
(* an event that brings it nothing new.                                    *)
LEMMA StepsOfUpdate ==
    ASSUME TypeOK, UpdateStep \/ BothMove \/ UNCHANGED allVars
    PROVE  [Next]_vars
<1>1. ASSUME pc # "down", NEW n \in Nodes, Deliver(n) PROVE [Next]_vars
  <2>1. CASE list[n] # api[n] \/ n \in held
    BY <1>1, <2>1 DEF WatchEvent, Next, Environment
  <2>2. CASE ~(list[n] # api[n] \/ n \in held)
    <3>1. list' = list /\ held' = held
      BY <1>1, <2>2 DEF Deliver, TypeOK
    <3> QED BY <1>1, <3>1 DEF Deliver, vars, jobVars
  <2> QED BY <2>1, <2>2
<1> QED BY <1>1 DEF UpdateStep, BothMove, Next, Run, Environment, allVars

(* A step of the repair job alone is one of RepairJob. *)
LEMMA StepsOfRepair == RepairStep => P!Next
BY DEF RepairStep, NodesChange, P!Next, P!Environment

-----------------------------------------------------------------------------
(* Types, and the two views *)

(* What both jobs see of a node object and of an instance is the same.     *)
Views == /\ \A n \in Nodes : node[n].cordoned = api[n].cordoned
         /\ machine = MachineView(vm)

(* Each job's variables have their types, the node under repair is behind  *)
(* the walk, and there is a candidate in the middle of an update.          *)
Typed == /\ TypeOK
         /\ pc \in InNode => cur \in Nodes
         /\ P!CandidateInv
         /\ Views

(* Each state of an instance has one name for the repair job.              *)
LEMMA Renamed ==
    /\ \A s \in ProvisioningState : StateOf(s) \in P!ProvisioningState
    /\ \A t \in P!ProvisioningState : \E s \in ProvisioningState : StateOf(s) = t
    /\ \A s, t \in ProvisioningState : StateOf(s) = StateOf(t) => s = t
    /\ \A s \in ProvisioningState : StateOf(s) \in R!Settled <=> s \in R!Settled
BY DEF ProvisioningState, P!ProvisioningState, StateOf, R!Settled

(* A step of one job leaves the other with node objects and instances.     *)
LEMMA ShownType ==
    ASSUME TypeOK, P!TypeOK
    PROVE  /\ TypeOK' /\ ShownToRepair =>
                /\ node' \in [Nodes -> P!NodeObject]
                /\ machine' \in [Nodes -> P!ProvisioningState]
                /\ Views'
           /\ P!TypeOK' /\ ShownToUpdate =>
                /\ api' \in [Nodes -> NodeObject]
                /\ vm' \in [Nodes -> Instance]
                /\ Views'
<1>0. /\ api \in [Nodes -> NodeObject] /\ node \in [Nodes -> P!NodeObject]
      /\ vm \in [Nodes -> Instance]
  BY DEF TypeOK, P!TypeOK
<1>1. \A o \in P!NodeObject, by \in NodeObject :
        Merged(o, by) \in P!NodeObject /\ Merged(o, by).cordoned = by.cordoned
  BY DEF Merged, NodeObject, P!NodeObject, Annotation, P!Annotation
<1>2. \A o \in NodeObject, by \in P!NodeObject :
        Merged(o, by) \in NodeObject /\ Merged(o, by).cordoned = by.cordoned
  BY DEF Merged, NodeObject, P!NodeObject, Annotation, P!Annotation
<1>3. ASSUME TypeOK', ShownToRepair
      PROVE  /\ node' \in [Nodes -> P!NodeObject]
             /\ machine' \in [Nodes -> P!ProvisioningState]
             /\ Views'
  <2>1. api' \in [Nodes -> NodeObject] /\ vm' \in [Nodes -> Instance]
    BY <1>3 DEF TypeOK
  <2>2. node' = [n \in Nodes |-> Merged(node[n], api'[n])] /\ machine' = MachineView(vm')
    BY <1>3 DEF ShownToRepair
  <2>3. \A n \in Nodes : node'[n] \in P!NodeObject /\ node'[n].cordoned = api'[n].cordoned
    BY <1>0, <1>1, <2>1, <2>2
  <2>4. machine' \in [Nodes -> P!ProvisioningState]
    BY <2>1, <2>2, Renamed DEF MachineView, Instance
  <2> QED BY <2>2, <2>3, <2>4 DEF Views
<1>4. ASSUME P!TypeOK', ShownToUpdate
      PROVE  /\ api' \in [Nodes -> NodeObject]
             /\ vm' \in [Nodes -> Instance]
             /\ Views'
  <2>1. /\ node' \in [Nodes -> P!NodeObject]
        /\ machine' \in [Nodes -> P!ProvisioningState]
    BY <1>4 DEF P!TypeOK
  <2>2. api' = [n \in Nodes |-> Merged(api[n], node'[n])] /\ vm' = Machines
    BY <1>4 DEF ShownToUpdate
  <2>3. \A n \in Nodes : api'[n] \in NodeObject /\ node'[n].cordoned = api'[n].cordoned
    BY <1>0, <1>2, <2>1, <2>2
  <2>4. \A n \in Nodes : vm'[n] \in Instance /\ StateOf(vm'[n].state) = machine'[n]
    <3> SUFFICES ASSUME NEW n \in Nodes
                 PROVE  vm'[n] \in Instance /\ StateOf(vm'[n].state) = machine'[n]
      OBVIOUS
    <3> DEFINE s == CHOOSE s \in ProvisioningState : StateOf(s) = machine'[n]
    <3>1. s \in ProvisioningState /\ StateOf(s) = machine'[n]
      BY <2>1, Renamed
    <3>2. vm'[n] = [vm[n] EXCEPT !.state = s]
      BY <2>2 DEF Machines
    <3> HIDE DEF s
    <3> QED BY <1>0, <3>1, <3>2 DEF Instance
  <2>5. machine' = MachineView(vm')
    BY <2>1, <2>4 DEF MachineView
  <2>6. vm' \in [Nodes -> Instance]
    BY <2>2, <2>4 DEF Machines
  <2> QED BY <2>2, <2>3, <2>5, <2>6 DEF Views
<1> QED BY <1>3, <1>4

(* At the start both jobs see the same nodes and instances.                *)
LEMMA InitTyped == MaintenanceInit => Typed
<1> SUFFICES ASSUME Init, R!Init PROVE Typed
  BY DEF MaintenanceInit
<1>1. P!Init
  BY DEF R!Init, P!Init, R!Nothing, P!Nothing, R!EmptyCache, P!EmptyCache
<1>2. P!TypeOK
  BY <1>1, RepairAllowed, P!InitType
<1>3. P!CandidateInv
  BY <1>1, <1>2 DEF P!Init, P!CandidateInv, P!InRepair
<1>4. Views
  <2>1. \A n \in Nodes : ~api[n].cordoned /\ ~node[n].cordoned
    BY <1>1 DEF Init, P!Init
  <2>2. \A n \in Nodes : node[n].cordoned = FALSE /\ api[n].cordoned = FALSE
    BY <1>1, <1>2, <2>1, InitType DEF TypeOK, P!TypeOK, NodeObject, P!NodeObject
  <2>3. machine = MachineView(vm)
    BY <1>1 DEF Init, P!Init, MachineView, StateOf
  <2> QED BY <2>2, <2>3 DEF Views
<1> QED BY <1>3, <1>4, InitType DEF Typed, Init, InNode

(* A candidate is there from Choose to the lock.                           *)
LEMMA NextNamed ==
    ASSUME TypeOK, Next, pc \in InNode => cur \in Nodes, pc' \in InNode
    PROVE  cur' \in Nodes
<1> USE DEF InNode
<1>1. ASSUME NEW n \in Nodes, Choose(n) PROVE cur' \in Nodes
  BY <1>1 DEF Choose
<1>2. CASE \/ MarkOngoing \/ CheckState \/ Drain \/ DrainReturns \/ BeginUpdate \/ PollUpdate
           \/ BeginRedeploy \/ PollRedeploy \/ Uncordon \/ Unmark
  BY <1>2 DEF MarkOngoing, CheckState, Drain, DrainReturns, DrainFails, BeginUpdate, PollUpdate,
              BeginRedeploy, PollRedeploy, Uncordon, Unmark, Goes, Fails
<1>3. CASE \/ CronSkip \/ WatchRestart \/ NewModel \/ RepairCleanup \/ Janitor \/ Tick
           \/ \E n \in Nodes : \/ WatchEvent(n) \/ AzureCompletes(n)
                              \/ InstanceChanges(n) \/ ToggleExclude(n)
  <2>1. UNCHANGED <<pc, cur>>
    BY <1>3 DEF CronSkip, WatchRestart, NewModel, RepairCleanup, Janitor, Tick, WatchEvent, Deliver,
                AzureCompletes, InstanceChanges, ToggleExclude, jobVars
  <2> QED BY <2>1
<1>4. CASE \/ Start \/ Crash \/ CronTick \/ SyncLocks \/ ListNodes \/ RefreshAzure \/ NextNode
           \/ SelfEvict \/ LockUpdated \/ LockFailed
  <2>1. pc' \notin InNode
    BY <1>4 DEF Start, Crash, Terminated, CronTick, SyncLocks, ListNodes, RefreshAzure, NextNode,
                RunEnds, SelfEvict, LockUpdated, LockFailed
  <2> QED BY <2>1
<1> QED BY <1>1, <1>2, <1>3, <1>4 DEF Next, Cron, Run, Environment

(* The types and the views, whoever moves.                                 *)
LEMMA NextTyped ==
    ASSUME Typed, UpdateStep \/ RepairStep \/ BothMove \/ UNCHANGED allVars
    PROVE  Typed'
<1>0. TypeOK /\ P!TypeOK /\ P!CandidateInv /\ Views
  BY DEF Typed, P!CandidateInv
<1>1. CASE UpdateStep
  <2>1. TypeOK' /\ (pc' \in InNode => cur' \in Nodes)
    BY <1>1, NextType, NextNamed DEF UpdateStep, Typed
  <2>2. /\ node' \in [Nodes -> P!NodeObject]
        /\ machine' \in [Nodes -> P!ProvisioningState]
        /\ Views'
    BY <1>0, <1>1, <2>1, ShownType DEF UpdateStep
  <2>3. P!TypeOK'
    <3>1. self' \in Hosts /\ faults' \in Nat /\ outside' \in Nat
      BY <2>1 DEF TypeOK
    <3>2. UNCHANGED <<rlist, rlocks, rpc, rsnap, rcur, rdue, dryRun, rseen>>
      BY <1>1 DEF UpdateStep, repairRun
    <3> QED BY <1>0, <2>2, <3>1, <3>2 DEF P!TypeOK
  <2>4. P!CandidateInv'
    BY <1>0, <1>1, <2>3 DEF UpdateStep, repairRun, P!CandidateInv
  <2> QED BY <2>1, <2>2, <2>4 DEF Typed
<1>2. CASE RepairStep
  <2>1. [P!Next]_(P!vars)
    BY <1>2 DEF RepairStep, NodesChange, P!Next, P!Environment
  <2>2. P!TypeOK' /\ P!CandidateInv'
    BY <1>0, <2>1, RepairAllowed, P!NextCandidate DEF P!CandidateInv
  <2>3. /\ api' \in [Nodes -> NodeObject]
        /\ vm' \in [Nodes -> Instance]
        /\ Views'
    BY <1>0, <1>2, <2>2, ShownType DEF RepairStep
  <2>4. self' \in Hosts /\ faults' \in Nat /\ outside' \in Nat
    BY <2>2 DEF P!TypeOK
  <2>5. UNCHANGED <<list, locks, pc, snap, held, todo, cur, due, promised, applied, spared>>
    BY <1>2 DEF RepairStep, history
  <2>6. TypeOK'
    BY <1>0, <2>3, <2>4, <2>5 DEF TypeOK
  <2> QED BY <2>2, <2>3, <2>5, <2>6 DEF Typed
<1>3. CASE BothMove
  <2>1. TypeOK' /\ (pc' \in InNode => cur' \in Nodes)
    <3>1. [Next]_vars
      BY <1>0, <1>3, StepsOfUpdate
    <3>2. TypeOK'
      BY <1>0, <3>1, NextType
    <3>3. ASSUME pc' \in InNode PROVE cur' \in Nodes
      <4>1. CASE Next
        BY <1>0, <3>3, <4>1, NextNamed DEF Typed
      <4>2. CASE UNCHANGED vars
        BY <3>3, <4>2 DEF Typed, vars, jobVars
      <4> QED BY <3>1, <4>1, <4>2
    <3> QED BY <3>2, <3>3
  <2>2. CASE (Start /\ P!Start) \/ (Tick /\ P!Tick)
    <3>1. P!CandidateInv'
      BY <1>0, <2>2, RepairAllowed, P!NextCandidate DEF P!Next, P!Run, P!Environment
    <3>2. Views'
      <4>1. CASE Start /\ P!Start
        BY <1>0, <4>1 DEF Start, P!Start, Views
      <4>2. CASE Tick /\ P!Tick
        <5>1. api' = AgedView(api) /\ node' = [n \in Nodes |-> P!AgedNode(node[n])]
          BY <4>2 DEF Tick, P!Tick
        <5>2. /\ \A o \in NodeObject : AgedNode(o).cordoned = o.cordoned
              /\ \A o \in P!NodeObject : P!AgedNode(o).cordoned = o.cordoned
          BY DEF AgedNode, NodeObject, P!AgedNode, P!AgedStatus, P!NodeObject
        <5>3. \A n \in Nodes : api[n] \in NodeObject /\ node[n] \in P!NodeObject
          BY <1>0 DEF TypeOK, P!TypeOK
        <5>4. \A n \in Nodes : api'[n] = AgedNode(api[n])
          BY <5>1, <5>3, NodeAssumption DEF AgedView
        <5> QED BY <1>0, <4>2, <5>1, <5>2, <5>3, <5>4 DEF Views, Tick, P!Tick
      <4> QED BY <2>2, <4>1, <4>2
    <3> QED BY <2>1, <3>1, <3>2 DEF Typed
  <2>3. CASE Crash /\ P!Terminated
    <3>1. P!TypeOK'
      <4>1. P!EmptyCache(Nodes) \in [Nodes -> P!CacheItem]
        BY DEF P!EmptyCache, P!CacheItem
      <4>2. /\ P!Nothing \in [Nodes -> P!Status \cup {NoNode}]
            /\ P!Nothing \in [Nodes -> P!NodeObject \cup {NoNode}]
            /\ "down" \in P!Location
        BY DEF P!Nothing, P!Location
      <4>3. faults' \in Nat
        BY <2>1 DEF TypeOK
      <4> QED BY <1>0, <2>3, <4>1, <4>2, <4>3 DEF P!TypeOK, P!Terminated
    <3>2. P!CandidateInv'
      BY <2>3, <3>1 DEF P!CandidateInv, P!Terminated, P!InRepair
    <3>3. Views'
      BY <1>0, <2>3 DEF Views, Crash, Terminated, P!Terminated
    <3> QED BY <2>1, <3>2, <3>3 DEF Typed
  <2>4. CASE WatchRestart /\ P!WatchRestart
    <3>1. P!CandidateInv'
      BY <1>0, <2>4, RepairAllowed, P!NextCandidate DEF P!Next, P!Environment
    <3>2. Views'
      BY <1>0, <2>4 DEF Views, WatchRestart, P!WatchRestart
    <3> QED BY <2>1, <3>1, <3>2 DEF Typed
  <2>5. ASSUME NEW n \in Nodes, Deliver(n), P!Deliver(n) PROVE Typed'
    <3>1. P!TypeOK' /\ UNCHANGED <<rpc, rcur, rsnap>>
      BY <1>0, <2>5 DEF P!Deliver, P!jobVars, P!TypeOK
    <3>2. P!CandidateInv'
      BY <1>0, <3>1 DEF P!CandidateInv
    <3>3. Views'
      BY <1>0, <2>5 DEF Views, Deliver, P!Deliver
    <3> QED BY <2>1, <3>2, <3>3 DEF Typed
  <2> QED BY <1>3, <2>2, <2>3, <2>4, <2>5 DEF BothMove
<1>4. CASE UNCHANGED allVars
  BY <1>4 DEF allVars, vars, jobVars, history, repairVars, repairRun, Typed, TypeOK, P!CandidateInv, P!TypeOK, Views
<1> QED BY <1>1, <1>2, <1>3, <1>4

-----------------------------------------------------------------------------
(* What the update job sees of the repair job *)

(* A step of the repair job alone cordons and uncordons nothing.           *)
LEMMA RepairSteps ==
    ASSUME P!TypeOK, P!Run \/ P!Cron \/ P!Janitor \/ NodesChange
    PROVE  \A n \in Nodes : node'[n].cordoned = node[n].cordoned
<1>0. node \in [Nodes -> P!NodeObject]
  BY DEF P!TypeOK
<1> USE DEF P!Goes, P!Fails
<1>1. CASE P!CronTick
  <2>1. \A n \in Nodes : node'[n] = node[n] \/ node'[n] = [node[n] EXCEPT !.lock = Absent]
    BY <1>1 DEF P!CronTick
  <2> QED BY <1>0, <2>1 DEF P!NodeObject
<1>2. CASE P!ListNodes
  <2>1. \A n \in Nodes : node'[n] = node[n] \/ node'[n] = P!Cleanup(node[n])
    BY <1>2 DEF P!ListNodes
  <2> QED BY <1>0, <2>1 DEF P!NodeObject, P!Cleanup
<1>3. CASE P!LockRepaired \/ P!LockFailed
  <2>1. PICK d \in Nat : P!Lock(d)
    BY <1>3, RepairAllowed DEF P!LockRepaired, P!LockFailed, P!RepairAssumption
  <2>2. \A n \in Nodes : \/ node'[n] = node[n]
                         \/ node'[n] = P!AnnotationLockSet(node[n], d, ScaledownLock)
    BY <1>0, <2>1 DEF P!Lock
  <2> QED BY <1>0, <2>2 DEF P!NodeObject, P!AnnotationLockSet
<1>4. CASE NodesChange
  BY <1>0, <1>4 DEF NodesChange, P!NodeFails, P!Heartbeat, P!NodeRecovers, P!NodeObject
<1>5. CASE \/ P!Start \/ P!SelfEvict \/ P!RunEnds \/ P!CheckState \/ P!BeginRepair
           \/ P!PollRepair \/ P!CronSkip \/ P!Janitor
           \/ \E n \in Nodes : \/ P!VisitHealthy(n) \/ P!Skip(n) \/ P!PretendRepair(n)
                              \/ P!Repair(n)
  <2>1. UNCHANGED node
    BY <1>5 DEF P!Start, P!SelfEvict, P!Terminated, P!RunEnds, P!CheckState, P!BeginRepair,
                P!PollRepair, P!CronSkip, P!Janitor, P!VisitHealthy, P!Skip, P!PretendRepair,
                P!Repair, P!WalkFrame
  <2> QED BY <2>1
<1> QED BY <1>1, <1>2, <1>3, <1>4, <1>5 DEF P!Run, P!Cron

(* A step of the repair job leaves marks, cordons and the update job itself*)
(* alone.                                                                  *)
LEMMA RepairSeen ==
    ASSUME Typed, RepairStep, Typed'
    PROVE  /\ UNCHANGED <<list, locks, pc, snap, held, todo, cur, history>>
           /\ Quiet
           /\ \A n \in Nodes : api'[n].cordoned = api[n].cordoned
<1>0. /\ P!TypeOK /\ Views /\ Views'
      /\ api \in [Nodes -> NodeObject]
  BY DEF Typed, P!CandidateInv, TypeOK
<1>1. /\ P!Run \/ P!Cron \/ P!Janitor \/ NodesChange
      /\ api' = [n \in Nodes |-> Merged(api[n], node'[n])]
      /\ UNCHANGED <<list, locks, pc, snap, held, todo, cur, history>>
  BY DEF RepairStep, ShownToUpdate
<1>2. \A n \in Nodes : node'[n].cordoned = node[n].cordoned
  BY <1>0, <1>1, RepairSteps
<1>3. \A n \in Nodes : /\ api'[n].ongoing = api[n].ongoing
                       /\ api'[n].excluded = api[n].excluded
  BY <1>0, <1>1 DEF Merged, NodeObject
<1>4. \A n \in Nodes : api'[n].cordoned = api[n].cordoned
  BY <1>0, <1>2 DEF Views
<1> QED BY <1>1, <1>3, <1>4 DEF Quiet

-----------------------------------------------------------------------------
(* What the jobs promise *)

(* The marks of the candidate, and the cordons. *)
LEMMA NextStaysMarked ==
    ASSUME Typed, MarkedInv, [MaintenanceNext]_allVars
    PROVE  Typed' /\ MarkedInv'
<1>1. UpdateStep \/ RepairStep \/ BothMove \/ UNCHANGED allVars
  BY WhoMoves
<1>2. Typed'
  BY <1>1, NextTyped
<1>3. CASE RepairStep
  BY <1>2, <1>3, RepairSeen DEF Typed, MarkedInv, CandidateMarked, CordonTracked, InNode, Marked, Quiet
<1> QED BY <1>1, <1>2, <1>3, StepsOfUpdate, NextMarked DEF MarkedInv

LEMMA MarkedInvariant == MaintenanceSpec => [](Typed /\ MarkedInv)
<1>1. MaintenanceInit => Typed /\ MarkedInv
  BY InitTyped, InitCandidate DEF MaintenanceInit, CandidateInv
<1> QED BY <1>1, NextStaysMarked, PTL DEF MaintenanceSpec

(* updateCollectCandidates can rely on the ongoing annotation of a cordoned*)
(* node when the repair job runs as well, and in whatever way the steps of *)
(* the two jobs are interleaved.                                           *)
THEOREM CordonsStayTracked == MaintenanceSpec => []CordonTracked
<1>1. MarkedInv => CordonTracked
  BY DEF MarkedInv
<1> QED BY <1>1, MarkedInvariant, PTL

(* Each job keeps to its own concurrency: the two lock caches, their       *)
(* synchronisation from the annotations of the same nodes and the walks do *)
(* not disturb each other.                                                 *)
THEOREM LocksStayWithinLimits == MaintenanceSpec => [](WithinLimit /\ R!WithinLimit)
<1>1. R!WithinLimit <=> P!WithinLimit
  BY DEF R!WithinLimit, P!WithinLimit, R!InRun, P!InRun, R!InRepair, P!InRepair, R!ItemCount,
         P!ItemCount, R!Cardinality, P!Cardinality
<1>2. MaintenanceInit => WithinLimit /\ P!WithinLimit
  BY DEF MaintenanceInit, Init, R!Init, WithinLimit, P!WithinLimit, InRun, InNode, P!InRun,
         P!InRepair
<1>3. ASSUME Typed, MarkedInv, WithinLimit, P!WithinLimit, [MaintenanceNext]_allVars
      PROVE  WithinLimit' /\ P!WithinLimit'
  <2>1. UpdateStep \/ RepairStep \/ BothMove \/ UNCHANGED allVars
    BY <1>3, WhoMoves
  <2>2. P!CandidateInv
    BY <1>3 DEF Typed
  <2>3. CASE UpdateStep
    BY <1>3, <2>3, StepsOfUpdate, NextWithinLimit
       DEF MarkedInv, UpdateStep, repairRun, P!WithinLimit
  <2>4. CASE RepairStep
    <3>1. P!WithinLimit'
      BY <1>3, <2>2, <2>4, StepsOfRepair, RepairAllowed, P!NextWithinLimit
    <3> QED BY <1>3, <2>4, <3>1 DEF RepairStep, WithinLimit
  <2>5. CASE BothMove
    <3>1. WithinLimit'
      BY <1>3, <2>5, StepsOfUpdate, NextWithinLimit DEF MarkedInv
    <3>2. CASE P!Start \/ P!Tick \/ P!WatchRestart
      BY <1>3, <2>2, <3>1, <3>2, RepairAllowed, P!NextWithinLimit
         DEF P!Next, P!Run, P!Environment
    <3>3. CASE P!Terminated
      BY <3>1, <3>3 DEF P!Terminated, P!WithinLimit, P!InRun, P!InRepair
    <3>4. CASE \E n \in Nodes : P!Deliver(n)
      BY <1>3, <3>1, <3>4 DEF P!Deliver, P!jobVars, P!WithinLimit
    <3> QED BY <2>5, <3>2, <3>3, <3>4 DEF BothMove
  <2>6. CASE UNCHANGED allVars
    BY <1>3, <2>6 DEF allVars, vars, jobVars, repairVars, repairRun, WithinLimit, P!WithinLimit
  <2> QED BY <2>1, <2>3, <2>4, <2>5, <2>6
<1>4. MaintenanceSpec => [](WithinLimit /\ P!WithinLimit)
  BY <1>2, <1>3, MarkedInvariant, PTL DEF MaintenanceSpec
<1> QED BY <1>1, <1>4, PTL

(* What the candidate loop knows of the other nodes. *)
LEMMA AloneInvariant ==
    ASSUME ~WatchRace
    PROVE  MaintenanceSpec => [](Typed /\ MarkedInv /\ AloneInv)
<1>1. MaintenanceInit => AloneInv
  BY DEF MaintenanceInit, Init, AloneInv, InNode
<1>2. ASSUME Typed, MarkedInv, AloneInv, [MaintenanceNext]_allVars PROVE AloneInv'
  <2>1. UpdateStep \/ RepairStep \/ BothMove \/ UNCHANGED allVars
    BY <1>2, WhoMoves
  <2>2. CASE RepairStep
    <3>1. /\ UNCHANGED <<list, pc, snap, todo, cur, spared>>
          /\ \A n \in Nodes : api'[n].ongoing = api[n].ongoing
      BY <1>2, <2>2, NextStaysMarked, RepairSeen DEF Quiet, history
    <3>2. /\ Unfinished' = Unfinished
          /\ Agrees(list) => Agrees(list)'
          /\ Agrees(snap) => Agrees(snap)'
      BY <3>1 DEF Unfinished, Agrees
    <3>3. pc \in InNode => cur \in Nodes
      BY <1>2 DEF Typed
    <3> QED BY <1>2, <3>1, <3>2, <3>3 DEF AloneInv, InNode
  <2> QED BY <1>2, <2>1, <2>2, StepsOfUpdate, NextAlone DEF MarkedInv
<1> QED BY <1>1, <1>2, MarkedInvariant, PTL DEF MaintenanceSpec

(* A repair beside it does not make the update job begin with a second     *)
(* node, as long as the watch cache is up to date when an update run       *)
(* begins.                                                                 *)
THEOREM UpdatesStillStartAlone == ASSUME ~WatchRace PROVE MaintenanceSpec => StartsAlone
<1>1. Typed /\ MarkedInv /\ AloneInv /\ [MaintenanceNext]_allVars =>
        [\A n \in Nodes : ~api[n].ongoing /\ api[n].ongoing' =>
             \A m \in Nodes \ {n} : api[m].ongoing => m \in spared]_vars
  <2> SUFFICES ASSUME Typed, MarkedInv, AloneInv, [MaintenanceNext]_allVars, vars' # vars,
                      NEW n \in Nodes, NEW m \in Nodes \ {n},
                      ~api[n].ongoing, api'[n].ongoing, api[m].ongoing
               PROVE  m \in spared
    OBVIOUS
  <2>1. UpdateStep \/ RepairStep \/ BothMove \/ UNCHANGED allVars
    BY WhoMoves
  <2>2. ~RepairStep
    BY NextStaysMarked, RepairSeen DEF Quiet
  <2>3. Next
    BY <2>1, <2>2, StepsOfUpdate DEF MarkedInv
  <2> QED BY <2>3, StartStep
<1> QED BY <1>1, AloneInvariant, PTL DEF MaintenanceSpec, StartsAlone
=============================================================================
