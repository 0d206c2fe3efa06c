----------------------------- MODULE NodeHealth -----------------------------
(***************************************************************************)
(* How azure-k8s-autopilot judges the health of a node: GetHealthStatus    *)
(* (k8s/node.go) folds the conditions of the node's status, and repairRun  *)
(* (autopilot/task.repair.go) compares the heartbeat it returns with       *)
(* repair.notready-threshold.  The conditions are written by the kubelet   *)
(* and by other agents on the node, each of which adds its own at the end. *)
(***************************************************************************)
EXTENDS Integers, Sequences, SequencesExt

CONSTANTS
    AgentConditions,    \* condition types that the kubelet does not write
    NotReadyThreshold,  \* repair.notready-threshold
    NoHeartbeat         \* the zero time: a heartbeat longer ago than any other

ASSUME HealthAssumption ==
    /\ "Ready" \notin AgentConditions
    /\ NotReadyThreshold \in Nat \ {0}
    /\ NoHeartbeat \in Nat
    /\ NoHeartbeat > NotReadyThreshold

VARIABLE conditions     \* Status.Conditions of the node object

Age == 0 .. NotReadyThreshold
Condition == [type : AgentConditions \cup {"Ready"},
              status : {"True", "False", "Unknown"},
              age : Age]
Types == {conditions[i].type : i \in DOMAIN conditions}

-----------------------------------------------------------------------------
(* GetHealthStatus: every condition overwrites what the ones before said. *)
Judge_HeartbeatKept(health, c) ==
    IF c.type = "Ready" /\ c.status = "True"
    THEN [status |-> TRUE, age |-> c.age]
    ELSE [health EXCEPT !.status = FALSE]

Judge_FalseKept(health, c) ==
    IF c.type = "Ready" /\ c.status = "True"
    THEN [health EXCEPT !.age = c.age]
    ELSE [status |-> FALSE, age |-> c.age]

Judge(health, c) == [status |-> c.type = "Ready" /\ c.status = "True", age |-> c.age]
GetHealthStatus ==
    FoldLeft(Judge, [status |-> FALSE, age |-> NoHeartbeat], conditions)

(* repairRun goes on with a node that is not cordoned, locked or excess. *)
Overdue == ~GetHealthStatus.status /\ GetHealthStatus.age >= NotReadyThreshold

-----------------------------------------------------------------------------
(* A node registers with the condition its kubelet writes. *)
Init == \E s \in {"True", "False"} :
            conditions = <<[type |-> "Ready", status |-> s, age |-> 0]>>

(* An agent adds its condition, which it renews from then on.  The list is *)
(* a map by type to the API server, which promises no order.               *)
AddCondition(t) ==
    /\ t \in AgentConditions \ Types
    /\ \E s \in {"True", "False"} :
         LET c == [type |-> t, status |-> s, age |-> 0] IN
         \/ conditions' = Append(conditions, c)
         \/ conditions' = <<c>> \o conditions

(* The writer of a condition renews it, with or without a change. *)
Renew(i) ==
    \E s \in {"True", "False"} :
        conditions' = [conditions EXCEPT ![i].status = s, ![i].age = 0]

(* The node controller gives up on a kubelet it does not hear of. *)
GiveUp(i) ==
    /\ conditions[i].type = "Ready"
    /\ conditions[i].age > 0
    /\ conditions' = [conditions EXCEPT ![i].status = "Unknown"]

(* Time passes; who has stopped does not renew. *)
Tick ==
    conditions' = [i \in DOMAIN conditions |->
        [conditions[i] EXCEPT !.age = IF @ < NotReadyThreshold THEN @ + 1 ELSE @]]

Next ==
    \/ \E t \in AgentConditions : AddCondition(t)
    \/ \E i \in DOMAIN conditions : Renew(i) \/ GiveUp(i)
    \/ Tick

Spec == Init /\ [][Next]_conditions

-----------------------------------------------------------------------------
(* Properties *)

(* There is one condition of each type, and the heartbeat GetHealthStatus  *)
(* returns is that of a condition, never the zero time.                    *)
TypeOK ==
    /\ \A i \in DOMAIN conditions : conditions[i] \in Condition
    /\ Cardinality(Types) = Len(conditions)
    /\ GetHealthStatus \in [status : BOOLEAN, age : Age]

(* While every writer of a condition is heard of, no node is repaired,     *)
(* whatever the conditions say and in whatever order they come.            *)
HeardOfSpared ==
    (\A i \in DOMAIN conditions : conditions[i].age < NotReadyThreshold) => ~Overdue

(* Where the kubelet's condition is the last of the list, GetHealthStatus  *)
(* judges by it alone: a node is overdue when it is not ready and its      *)
(* kubelet has not been heard of for repair.notready-threshold.            *)
Silent(c) == c.status # "True" /\ c.age >= NotReadyThreshold
KubeletDecides ==
    Last(conditions).type = "Ready" => (Overdue <=> Silent(Last(conditions)))
=============================================================================
