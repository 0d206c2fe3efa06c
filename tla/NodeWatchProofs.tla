--------------------------- MODULE NodeWatchProofs ---------------------------
(***************************************************************************)
(* Theorems about NodeWatch, for any finite set of nodes and any scale     *)
(* sets: types, the completeness of the node list, and what a run sees of  *)
(* the instances.                                                          *)
(*                                                                         *)
(* CompleteInv relates the list, the undelivered events and the cluster:   *)
(* the last event of a node brings what the cluster has of it, and between *)
(* an Azure provider id and its absence there is an event that deletes.    *)
(* FreshInv says that an object which is still in the list is the one the  *)
(* run took, and that its scale set is yet to be refreshed or its instance *)
(* cached as it has been since the run began.                              *)
(***************************************************************************)
EXTENDS NodeWatch, FiniteSetTheorems, TLAPS

-----------------------------------------------------------------------------
(* Types *)

LEMMA PresentType ==
    ASSUME api \in [Nodes -> ProviderId \cup {NoNode}]
    PROVE  /\ Present \in Seq(Event)
           /\ \A i \in 1 .. Len(Present) :
                /\ Present[i].type = "Added"
                /\ Present[i].node \in In(api)
                /\ Present[i].id = api[Present[i].node]
           /\ \A i, j \in 1 .. Len(Present) : Present[i].node = Present[j].node => i = j
           /\ \A n \in In(api) : \E i \in 1 .. Len(Present) : Present[i].node = n
<1> DEFINE S == In(api)
           nodes == SetToSeq(S)
           c == Cardinality(S)
<1>1. IsFiniteSet(S) /\ c \in Nat
  BY WatchAssumption, FS_Subset, FS_CardinalityType DEF In
<1>2. \E f \in [1 .. c -> S] : IsInjective(f)
  <2>1. ExistsBijection(1 .. c, S)
    BY <1>1, FS_CardinalityType
  <2> QED BY <2>1 DEF ExistsBijection, Bijection, Injection
<1>3. nodes \in [1 .. c -> S] /\ IsInjective(nodes)
  BY <1>2 DEF SetToSeq
<1>4. \A n \in S : \E i \in 1 .. c : nodes[i] = n
  <2>1. IsFiniteSet(1 .. c) /\ Cardinality(1 .. c) = c
    BY <1>1, FS_Interval
  <2>2. nodes \in Injection(1 .. c, S)
    BY <1>3 DEF Injection
  <2>3. nodes \in Surjection(1 .. c, S)
    BY <1>1, <2>1, <2>2, FS_Injection
  <2> QED BY <2>3 DEF Surjection
<1>5. nodes \in Seq(S) /\ Len(nodes) = c
  BY <1>1, <1>3
<1>6. Present = [i \in 1 .. c |-> [type |-> "Added", node |-> nodes[i], id |-> api[nodes[i]]]]
  BY <1>5 DEF Present
<1>7. \A i \in 1 .. c : nodes[i] \in Nodes /\ nodes[i] \in S /\ api[nodes[i]] \in ProviderId
  BY <1>3 DEF In
<1>8. Present \in [1 .. c -> Event]
  BY <1>6, <1>7 DEF Event
<1>9. Present \in Seq(Event) /\ Len(Present) = c
  BY <1>1, <1>8
<1> HIDE DEF nodes, c, S
<1>10. \A i \in 1 .. c : /\ Present[i].type = "Added" /\ Present[i].node = nodes[i]
                        /\ Present[i].id = api[nodes[i]]
  BY <1>6
<1>11. \A i, j \in 1 .. c : nodes[i] = nodes[j] => i = j
  BY <1>3 DEF IsInjective
<1> QED BY <1>4, <1>7, <1>9, <1>10, <1>11 DEF S

LEMMA TypeInit == Init => TypeOK
  BY WatchAssumption, ObjectAssumption
     DEF Init, TypeOK, Nothing, NoneSeen, In, ProviderId, Instance, AzureView, Event

(* Attaching leaves the nodes of a view and their provider ids.            *)
LEMMA AttachedType ==
    ASSUME cache \in [Nodes -> AzureView \cup {NoNode}],
           NEW view \in [Nodes -> Object \cup {NoNode}], NEW S \in SUBSET In(view)
    PROVE  /\ Attached(view, S) \in [Nodes -> Object \cup {NoNode}]
           /\ In(Attached(view, S)) = In(view)
           /\ \A n \in In(view) : Attached(view, S)[n].id = view[n].id
<1>1. ASSUME NEW o \in Object, NEW n \in Nodes
      PROVE  Cached(o, n) \in Object /\ Cached(o, n).id = o.id
  BY DEF Cached, Object
<1>2. \A n \in In(view) : view[n] \in Object
  BY DEF In
<1>3. \A n \in Nodes : /\ n \in S => Attached(view, S)[n] = Cached(view[n], n)
                       /\ n \notin S => Attached(view, S)[n] = view[n]
  BY DEF Attached
<1>4. \A n \in In(view) : Attached(view, S)[n] \in Object /\ Attached(view, S)[n].id = view[n].id
  BY <1>1, <1>2, <1>3 DEF In
<1>5. \A n \in Nodes \ In(view) : Attached(view, S)[n] = NoNode
  BY <1>3 DEF In
<1> QED BY <1>4, <1>5, ObjectAssumption DEF In, Attached

LEMMA BecomesType ==
    ASSUME TypeOK, NEW n \in Nodes, NEW to \in Instance, Becomes(n, to)
    PROVE  azure' \in [Nodes -> Instance] /\ recent' \in [Nodes -> SUBSET Instance]
  BY DEF TypeOK, Becomes

LEMMA TypeStep == TypeOK /\ [Next]_vars => TypeOK'
<1> SUFFICES ASSUME TypeOK, [Next]_vars PROVE TypeOK'
  OBVIOUS
<1> USE DEF watchVars, runVars, objectVars, WatchFrame, RunFrame, NodeFrame
<1>1. CASE WatchBegins
  BY <1>1 DEF WatchBegins, TypeOK, Nothing, In
<1>2. CASE Connect
  BY <1>2, PresentType DEF Connect, TypeOK
<1>3. CASE Handle
  <2> DEFINE e == Head(events)
  <2>1. e \in Event /\ Tail(events) \in Seq(Event)
    BY <1>3 DEF Handle, TypeOK
  <2>2. e.node \in Nodes /\ e.id \in ProviderId
    BY <2>1 DEF Event
  <2> HIDE DEF e
  <2>3. CASE Replaces(e)
    <3>1. CASE IsAzureProvider(e.id)
      <4>1. list' = [list EXCEPT ![e.node] = [id |-> e.id, vmss |-> NoNode]] /\ held' = held \ {e.node}
        BY <2>3, <3>1 DEF Replaces
      <4>2. [id |-> e.id, vmss |-> NoNode] \in Object /\ e.id # "none"
        BY <2>2, <3>1 DEF Object, IsAzureProvider
      <4> QED BY <1>3, <2>1, <2>2, <4>1, <4>2, ObjectAssumption DEF Handle, TypeOK, In
    <3>2. CASE ~IsAzureProvider(e.id)
      BY <1>3, <2>1, <2>3, <3>2 DEF Handle, Replaces, TypeOK, In
    <3> QED BY <3>1, <3>2
  <2>4. CASE list' = [list EXCEPT ![e.node] = NoNode] /\ held' = held \ {e.node}
    BY <1>3, <2>1, <2>2, <2>4 DEF Handle, TypeOK, In
  <2> QED BY <1>3, <2>3, <2>4 DEF Handle, e
<1>4. CASE Environment
  <2>1. CASE ConnectPanics
    BY <2>1 DEF ConnectPanics, Fault, TypeOK, Nothing, NoneSeen, In
  <2>2. CASE WatchEnds
    BY <2>2 DEF WatchEnds, Outside, TypeOK, In
  <2>3. ASSUME NEW n \in Nodes, NEW id \in ProviderId, Join(n, id) \/ Modify(n, id) \/ Leave(n)
        PROVE  TypeOK'
    <3>1. /\ api' \in [Nodes -> ProviderId \cup {NoNode}] /\ azure' \in [Nodes -> Instance]
          /\ recent' \in [Nodes -> SUBSET Instance]
      <4>1. CASE Join(n, id)
        <5>1. (IF id \in {"none", "vmss"} THEN "latest" ELSE azure[n]) \in Instance
          BY DEF TypeOK, Instance, AzureView
        <5> QED BY <4>1, <5>1, BecomesType DEF Join, TypeOK
      <4>2. CASE Modify(n, id) \/ Leave(n)
        BY <4>2 DEF Modify, Leave, TypeOK
      <4> QED BY <2>3, <4>1, <4>2
    <3>2. events' \in Seq(Event)
      <4>1. ASSUME NEW type \in {"Added", "Modified", "Deleted"}, NEW i \in ProviderId,
                   Reports(type, n, i)
            PROVE  events' \in Seq(Event)
        <5>1. [type |-> type, node |-> n, id |-> i] \in Event
          BY DEF Event
        <5>2. \A e \in Event : Append(events, e) \in Seq(Event)
          BY DEF TypeOK
        <5> QED BY <4>1, <5>1, <5>2 DEF Reports, TypeOK
      <4>2. api[n] # NoNode => api[n] \in ProviderId
        BY DEF TypeOK
      <4> QED BY <2>3, <4>1, <4>2 DEF Join, Modify, Leave
    <3> QED BY <2>3, <3>1, <3>2 DEF Join, Modify, Leave, Outside, TypeOK, In
  <2>4. ASSUME NEW n \in Nodes, NEW to \in Instance, InstanceChanges(n, to) PROVE TypeOK'
    BY <2>4, BecomesType DEF InstanceChanges, Outside, TypeOK, In
  <2>5. ASSUME NEW n \in Nodes, Expire(n) PROVE TypeOK'
    BY <2>5 DEF Expire, Outside, TypeOK, In
  <2> QED
    <3>1. \E id \in ProviderId : TRUE
      BY DEF ProviderId
    <3> QED BY <1>4, <2>1, <2>2, <2>3, <2>4, <2>5, <3>1 DEF Environment
<1>5. CASE TakeList
  BY <1>5 DEF TakeList, TypeOK, In, NoneSeen
<1>6. CASE GetAzureVmssList
  <2>1. \A T \in SUBSET Nodes : {ScaleSetOf[n] : n \in T} \subseteq ScaleSets
    BY DEF ScaleSets
  <2>2. {m \in In(list) : ExtractNodeInfo(list[m].id).isVmss} \in SUBSET Nodes
    BY DEF In
  <2>3. pending' \in SUBSET ScaleSets
    BY <1>6, <2>1, <2>2 DEF GetAzureVmssList, RunFails
  <2> QED BY <1>6, <2>3 DEF GetAzureVmssList, RunFails, TypeOK, Nothing, NoneSeen, In
<1>7. ASSUME NEW s \in ScaleSets, RefreshScaleSet(s) PROVE TypeOK'
  <2>1. \A part \in SUBSET InstancesOf(s) : Refreshed(part) \in [Nodes -> AzureView \cup {NoNode}]
    BY DEF Refreshed, InstancesOf, TypeOK, Instance
  <2>2. cache' \in [Nodes -> AzureView \cup {NoNode}]
    BY <1>7, <2>1 DEF RefreshScaleSet
  <2>3. CASE NoFault /\ Listed(s)
    BY <1>7, <2>2, <2>3 DEF RefreshScaleSet, NoFault, Listed, TypeOK, In
  <2>4. CASE Fault /\ RunFails
    BY <1>7, <2>2, <2>4 DEF RefreshScaleSet, Fault, RunFails, TypeOK, Nothing, NoneSeen, In
  <2> QED BY <1>7, <2>3, <2>4 DEF RefreshScaleSet
<1>8. CASE Attach
  <2>1. /\ snap' \in [Nodes -> Object \cup {NoNode}] /\ In(snap)' = In(snap)
        /\ list' \in [Nodes -> Object \cup {NoNode}] /\ In(list)' = In(list)
        /\ \A n \in In(list) : list'[n].id = list[n].id
    BY <1>8, AttachedType DEF Attach, TypeOK, In
  <2> QED BY <1>8, <2>1 DEF Attach, TypeOK
<1>9. CASE RunEnds
  BY <1>9 DEF RunEnds, RunFails, TypeOK, Nothing, NoneSeen, In
<1>10. CASE UNCHANGED vars
  BY <1>10 DEF vars, TypeOK, In
<1> QED BY <1>1, <1>2, <1>3, <1>4, <1>5, <1>6, <1>7, <1>8, <1>9, <1>10 DEF Next, Watch, Run

(* Types: in particular every node of the list has an Azure provider id.   *)
THEOREM TypeCorrect == Spec => []TypeOK
<1> QED BY TypeInit, TypeStep, PTL DEF Spec

-----------------------------------------------------------------------------
(* ListComplete: the list, the events and the cluster *)

(* What an event brings, and what the list has of a node the cluster has.  *)
NoAzure(v) == v \in {NoNode, "none"}
Deletes(e) == e.type = "Deleted"
Brings(e) == IF Deletes(e) THEN NoNode ELSE e.id
Matches(o, v) == IF NoAzure(v) THEN o = NoNode ELSE o # NoNode /\ o.id = v

(* The undelivered events of a node, by their places; the deleting ones.   *)
Of(n) == {i \in 1 .. Len(events) : events[i].node = n}
Deleting(n) == {i \in Of(n) : Deletes(events[i])}

(* The last event brings what the cluster has; what is an Azure node in the*)
(* list or by an event is deleted before a later one, or the cluster, has  *)
(* it without an Azure provider id.                                        *)
NodeInv(n) ==
    /\ Of(n) = {} => Matches(list[n], api[n])
    /\ \A i \in Of(n) : Brings(events[i]) = api[n] \/ \E k \in Of(n) : i < k
    /\ NoAzure(api[n]) =>
         /\ list[n] # NoNode => Deleting(n) # {}
         /\ \A i \in Of(n) : ~NoAzure(Brings(events[i])) => \E k \in Deleting(n) : i < k
    /\ \A j \in Of(n) : Brings(events[j]) = "none" =>
         /\ list[n] # NoNode => \E k \in Deleting(n) : k < j
         /\ \A i \in Of(n) : i < j /\ ~NoAzure(Brings(events[i])) =>
               \E k \in Deleting(n) : i < k /\ k < j

CompleteInv ==
    /\ TypeOK
    /\ watch = "connect" => list = Nothing
    /\ watch = "watching" => \A n \in Nodes : NodeInv(n)

(* The API server reports a change of a node. *)
LEMMA NodeReported ==
    ASSUME TypeOK, TypeOK', NEW n \in Nodes, NodeInv(n),
           NEW e \in Event, events' = Append(events, e), list' = list,
           e.node = n => /\ Brings(e) = api'[n]
                         /\ Brings(e) = "none" => NoAzure(api[n])
                         /\ Deletes(e) \/ NoAzure(api[n]) \/ ~NoAzure(api'[n]),
           e.node # n => api'[n] = api[n]
    PROVE  NodeInv(n)'
<1> DEFINE L == Len(events)
<1>1. /\ L \in Nat /\ Len(events') = L + 1 /\ events'[L + 1] = e
      /\ \A i \in 1 .. L : events'[i] = events[i]
  BY DEF TypeOK
<1>2. /\ Of(n) \subseteq 1 .. L
      /\ \A i : i \in Of(n)' <=> i \in Of(n) \/ (i = L + 1 /\ e.node = n)
  BY <1>1 DEF Of
<1>3. /\ \A i \in Of(n) : events'[i] = events[i]
      /\ events'[L + 1] = e
  BY <1>1, <1>2
<1>4. /\ Deleting(n) \subseteq 1 .. L
      /\ \A i : i \in Deleting(n)' <=> i \in Deleting(n) \/ (i = L + 1 /\ e.node = n /\ Deletes(e))
  BY <1>1, <1>2, <1>3 DEF Deleting
<1> HIDE DEF L
<1>5. CASE e.node # n
  <2>1. Of(n)' = Of(n) /\ Deleting(n)' = Deleting(n)
    BY <1>2, <1>4, <1>5
  <2>2. \A i \in Of(n) : Brings(events'[i]) = Brings(events[i])
    BY <1>3
  <2> QED BY <1>5, <2>1, <2>2 DEF NodeInv
<1>6. CASE e.node = n
  <2> DEFINE B(i) == Brings(events[i])
             C(i) == Brings(events'[i])
  <2>1. /\ \A i \in Of(n) : C(i) = B(i)
        /\ C(L + 1) = api'[n]
        /\ L \in Nat /\ L + 1 \in Of(n)'
    BY <1>1, <1>2, <1>3, <1>6
  <2>2. NoAzure(api'[n]) => (NoAzure(api[n]) \/ L + 1 \in Deleting(n)')
    BY <1>4, <1>6
  <2>3. Of(n)' # {} /\ \A i \in Of(n)' : C(i) = api'[n] \/ \E k \in Of(n)' : i < k
    <3> HIDE DEF B, C
    <3>1. \A i \in Of(n)' : i = L + 1 \/ i < L + 1
      BY <1>2, <2>1
    <3> QED BY <2>1, <3>1
  <2>4. ASSUME NoAzure(api'[n])
        PROVE  /\ list[n] # NoNode => Deleting(n)' # {}
               /\ \A i \in Of(n)' : ~NoAzure(C(i)) => \E k \in Deleting(n)' : i < k
    <3>1. CASE NoAzure(api[n])
      <4>1. list[n] # NoNode => Deleting(n) # {}
        BY <3>1 DEF NodeInv
      <4>2. \A i \in Of(n) : ~NoAzure(B(i)) => \E k \in Deleting(n) : i < k
        BY <3>1 DEF NodeInv
      <4> HIDE DEF B, C
      <4> QED BY <1>2, <1>4, <2>1, <2>4, <4>1, <4>2
    <3>2. CASE L + 1 \in Deleting(n)'
      <4> HIDE DEF B, C
      <4> QED BY <1>2, <2>1, <2>4, <3>2
    <3> QED BY <2>2, <2>4, <3>1, <3>2
  <2>5. ASSUME NEW j \in Of(n)', C(j) = "none"
        PROVE  /\ list[n] # NoNode => \E k \in Deleting(n)' : k < j
               /\ \A i \in Of(n)' : i < j /\ ~NoAzure(C(i)) =>
                     \E k \in Deleting(n)' : i < k /\ k < j
    <3>1. CASE j \in Of(n)
      <4>1. B(j) = "none"
        BY <2>1, <2>5, <3>1
      <4>2. /\ list[n] # NoNode => \E k \in Deleting(n) : k < j
            /\ \A i \in Of(n) : i < j /\ ~NoAzure(B(i)) =>
                  \E k \in Deleting(n) : i < k /\ k < j
        BY <3>1, <4>1 DEF NodeInv
      <4> HIDE DEF B, C
      <4> QED BY <1>2, <1>4, <2>1, <3>1, <4>2
    <3>2. CASE j = L + 1
      <4>1. NoAzure(api[n])
        BY <1>3, <1>6, <2>5, <3>2
      <4>2. /\ list[n] # NoNode => Deleting(n) # {}
            /\ \A i \in Of(n) : ~NoAzure(B(i)) => \E k \in Deleting(n) : i < k
        BY <4>1 DEF NodeInv
      <4> HIDE DEF B, C
      <4> QED BY <1>2, <1>4, <2>1, <3>2, <4>2
    <3> QED BY <1>2, <3>1, <3>2
  <2> QED BY <2>3, <2>4, <2>5 DEF NodeInv
<1> QED BY <1>5, <1>6

(* The watch goroutine handles the first event. *)
LEMMA NodeHandled ==
    ASSUME TypeOK, TypeOK', NEW n \in Nodes, NodeInv(n), Handle
    PROVE  NodeInv(n)'
<1> DEFINE e == Head(events)
           B(i) == Brings(events[i])
           C(i) == Brings(events'[i])
           L == Len(events)
<1>1. /\ L \in Nat \ {0} /\ Len(events') = L - 1 /\ e = events[1]
      /\ \A i \in 1 .. L - 1 : events'[i] = events[i + 1]
      /\ e \in Event
  BY DEF Handle, TypeOK
<1>2. /\ 1 \in Of(n) <=> e.node = n
      /\ \A i \in Of(n)' : i \in Int /\ i >= 1 /\ i + 1 \in Of(n) /\ C(i) = B(i + 1)
      /\ \A k \in Of(n) : k \in Int /\ k >= 1 /\ (k # 1 => k - 1 \in Of(n)')
  <2>1. \A i \in Of(n)' : i \in 1 .. L - 1 /\ i + 1 \in 1 .. L /\ events[i + 1].node = n
    BY <1>1 DEF Of
  <2>2. \A k \in Of(n) : k \in 1 .. L /\ events[k].node = n
    BY DEF Of
  <2>3. ASSUME NEW k \in Of(n), k # 1 PROVE k - 1 \in Of(n)'
    <3>1. k - 1 \in 1 .. L - 1 /\ events'[k - 1] = events[(k - 1) + 1] /\ (k - 1) + 1 = k
      BY <1>1, <2>2, <2>3
    <3> QED BY <1>1, <2>2, <3>1 DEF Of
  <2> QED BY <1>1, <2>1, <2>2, <2>3 DEF Of
<1>3. /\ 1 \in Deleting(n) <=> e.node = n /\ Deletes(e)
      /\ \A k \in Deleting(n) : k \in Of(n) /\ (k # 1 => k - 1 \in Deleting(n)')
  <2>1. ASSUME NEW k \in Deleting(n), k # 1 PROVE k - 1 \in Deleting(n)'
    <3>1. k \in Of(n) /\ k - 1 \in Of(n)' /\ Deletes(events[k])
      BY <1>2, <2>1 DEF Deleting
    <3>2. k - 1 \in 1 .. L - 1 /\ events'[k - 1] = events[(k - 1) + 1] /\ (k - 1) + 1 = k
      BY <1>1, <3>1 DEF Of
    <3> QED BY <3>1, <3>2 DEF Deleting
  <2> QED BY <1>1, <1>2, <2>1 DEF Deleting
<1>4. /\ e.node # n => list'[n] = list[n]
      /\ e.node = n /\ Deletes(e) => list'[n] = NoNode
      /\ e.node = n /\ ~Deletes(e) /\ e.id = "none" => list'[n] = list[n]
      /\ e.node = n /\ ~Deletes(e) /\ e.id # "none" =>
            list'[n] = [id |-> e.id, vmss |-> NoNode]
  <2>1. e.type \in {"Added", "Modified", "Deleted"} /\ e.node \in Nodes
    BY <1>1 DEF Event
  <2>2. \/ e.type \in {"Added", "Modified"} /\ Replaces(e)
        \/ e.type = "Deleted" /\ list' = [list EXCEPT ![e.node] = NoNode]
    BY DEF Handle
  <2> HIDE DEF e
  <2> QED BY <2>1, <2>2 DEF Replaces, IsAzureProvider, objectVars, Deletes, TypeOK
<1>5. api' = api
  BY DEF Handle, WatchFrame
<1>6. e.node = n => /\ ~Deletes(e) => B(1) = e.id
                    /\ Deletes(e) => B(1) = NoNode
                    /\ e.id # NoNode
  BY <1>1, WatchAssumption DEF Brings, Event
<1>7. /\ list'[n] # NoNode /\ e.node = n /\ B(1) # "none" => ~NoAzure(B(1)) /\ ~Deletes(e)
      /\ list'[n] # NoNode /\ e.node = n /\ B(1) = "none" => list[n] # NoNode
  BY <1>4, <1>6 DEF NoAzure
<1> HIDE DEF e, B, C, L
<1>8. Of(n)' = {} => Matches(list'[n], api[n])
  <2>1. CASE e.node # n /\ Of(n)' = {}
    <3>1. Of(n) = {}
      BY <1>2, <2>1
    <3> QED BY <1>4, <2>1, <3>1 DEF NodeInv
  <2>2. CASE e.node = n /\ Of(n)' = {}
    <3>1. \A k \in Of(n) : k = 1
      BY <1>2, <2>2
    <3>2. B(1) = api[n]
      BY <1>2, <2>2, <3>1 DEF NodeInv, B
    <3>3. B(1) = "none" => list[n] = NoNode
      BY <1>2, <1>3, <2>2, <3>1 DEF NodeInv, B
    <3>4. CASE Deletes(e)
      BY <1>4, <1>6, <2>2, <3>2, <3>4 DEF Matches, NoAzure
    <3>5. CASE ~Deletes(e) /\ e.id = "none"
      BY <1>4, <1>6, <2>2, <3>2, <3>3, <3>5 DEF Matches, NoAzure
    <3>6. CASE ~Deletes(e) /\ e.id # "none"
      <4>1. list'[n] = [id |-> e.id, vmss |-> NoNode] /\ list'[n].id = e.id /\ api[n] = e.id
        BY <1>4, <1>6, <2>2, <3>2, <3>6
      <4>2. list'[n] # NoNode
        BY <1>1, <4>1, ObjectAssumption DEF Object, Event
      <4> QED BY <1>6, <2>2, <3>6, <4>1, <4>2 DEF Matches, NoAzure
    <3> QED BY <3>4, <3>5, <3>6
  <2> QED BY <2>1, <2>2
<1>9. \A i \in Of(n)' : C(i) = api[n] \/ \E k \in Of(n)' : i < k
  <2> SUFFICES ASSUME NEW i \in Of(n)', C(i) # api[n] PROVE \E k \in Of(n)' : i < k
    OBVIOUS
  <2>1. i + 1 \in Of(n) /\ B(i + 1) # api[n] /\ i \in Int /\ i >= 1
    BY <1>2
  <2>2. PICK k \in Of(n) : i + 1 < k
    BY <2>1 DEF NodeInv, B
  <2>3. k \in Int /\ k # 1 /\ i < k - 1 /\ k - 1 \in Of(n)'
    BY <1>2, <2>1, <2>2
  <2> QED BY <2>3
<1>10. \A k \in Deleting(n) : k # 1 => k - 1 \in Deleting(n)' /\ k \in Int
  BY <1>2, <1>3
<1>11. ASSUME NoAzure(api[n])
       PROVE  /\ list'[n] # NoNode => Deleting(n)' # {}
              /\ \A i \in Of(n)' : ~NoAzure(C(i)) => \E k \in Deleting(n)' : i < k
  <2>1. /\ list[n] # NoNode => Deleting(n) # {}
        /\ \A i \in Of(n) : ~NoAzure(B(i)) => \E k \in Deleting(n) : i < k
    BY <1>11 DEF NodeInv, B
  <2>2. ASSUME list'[n] # NoNode PROVE Deleting(n)' # {}
    <3>1. \E k \in Deleting(n) : k # 1
      <4>1. CASE e.node = n /\ B(1) # "none"
        BY <1>2, <1>7, <2>1, <2>2, <4>1
      <4>2. CASE e.node = n /\ B(1) = "none"
        <5>1. ~Deletes(e)
          BY <1>6, <4>2, WatchAssumption DEF ProviderId
        <5> QED BY <1>3, <1>7, <2>1, <2>2, <4>2, <5>1
      <4>3. CASE e.node # n
        BY <1>3, <1>4, <2>1, <2>2, <4>3
      <4> QED BY <4>1, <4>2, <4>3
    <3> QED BY <1>10, <3>1
  <2>3. ASSUME NEW i \in Of(n)', ~NoAzure(C(i)) PROVE \E k \in Deleting(n)' : i < k
    <3>1. i + 1 \in Of(n) /\ ~NoAzure(B(i + 1)) /\ i \in Int /\ i >= 1
      BY <1>1, <1>2, <2>3
    <3>2. PICK k \in Deleting(n) : i + 1 < k
      BY <2>1, <3>1
    <3>3. k # 1 /\ k \in Int
      BY <1>1, <1>2, <1>3, <3>1, <3>2
    <3> QED BY <1>10, <3>1, <3>2, <3>3
  <2> QED BY <2>2, <2>3
<1>12. ASSUME NEW j \in Of(n)', C(j) = "none"
       PROVE  /\ list'[n] # NoNode => \E k \in Deleting(n)' : k < j
              /\ \A i \in Of(n)' : i < j /\ ~NoAzure(C(i)) =>
                    \E k \in Deleting(n)' : i < k /\ k < j
  <2>1. j + 1 \in Of(n) /\ B(j + 1) = "none" /\ j \in Int /\ j >= 1
    BY <1>1, <1>2, <1>12
  <2>2. /\ list[n] # NoNode => \E k \in Deleting(n) : k < j + 1
        /\ \A i \in Of(n) : i < j + 1 /\ ~NoAzure(B(i)) =>
              \E k \in Deleting(n) : i < k /\ k < j + 1
    BY <2>1 DEF NodeInv, B
  <2>3. ASSUME list'[n] # NoNode PROVE \E k \in Deleting(n)' : k < j
    <3>1. \E k \in Deleting(n) : k # 1 /\ k < j + 1
      <4>1. CASE e.node = n /\ B(1) # "none"
        <5>1. 1 \in Of(n) /\ 1 < j + 1 /\ ~NoAzure(B(1))
          BY <1>2, <1>7, <2>1, <2>3, <4>1
        <5> QED BY <2>2, <5>1
      <4>2. CASE e.node = n /\ B(1) = "none"
        <5>1. ~Deletes(e)
          BY <1>6, <4>2, WatchAssumption DEF ProviderId
        <5> QED BY <1>3, <1>7, <2>2, <2>3, <4>2, <5>1
      <4>3. CASE e.node # n
        BY <1>3, <1>4, <2>2, <2>3, <4>3
      <4> QED BY <4>1, <4>2, <4>3
    <3> QED BY <1>10, <2>1, <3>1
  <2>4. ASSUME NEW i \in Of(n)', i < j, ~NoAzure(C(i))
        PROVE  \E k \in Deleting(n)' : i < k /\ k < j
    <3>1. i + 1 \in Of(n) /\ ~NoAzure(B(i + 1)) /\ i \in Int /\ i >= 1 /\ i + 1 < j + 1
      BY <1>1, <1>2, <2>1, <2>4
    <3>2. PICK k \in Deleting(n) : i + 1 < k /\ k < j + 1
      BY <2>2, <3>1
    <3>3. k # 1 /\ k \in Int
      BY <1>1, <1>2, <1>3, <3>1, <3>2
    <3> QED BY <1>10, <2>1, <3>1, <3>2, <3>3
  <2> QED BY <2>3, <2>4
<1> QED BY <1>5, <1>8, <1>9, <1>11, <1>12 DEF NodeInv, C

(* A new watch begins with an empty list and an event for every node.      *)
LEMMA NodePresent ==
    ASSUME TypeOK, list' = Nothing, events' = Present, api' = api, NEW n \in Nodes
    PROVE  NodeInv(n)'
<1>1. /\ \A i \in Of(n)' : /\ ~Deletes(events'[i]) /\ Brings(events'[i]) = api[n]
                            /\ api[n] # NoNode
      /\ \A i, j \in Of(n)' : i = j
      /\ api[n] # NoNode => Of(n)' # {}
  BY PresentType DEF TypeOK, Of, Deletes, Brings, In
<1>2. \A i, j \in Of(n)' : ~(i < j)
  BY <1>1 DEF Of
<1>3. list'[n] = NoNode
  BY DEF Nothing
<1>4. Of(n)' = {} => Matches(list'[n], api'[n])
  BY <1>1, <1>3 DEF Matches, NoAzure
<1>5. \A i \in Of(n)' : Brings(events'[i]) = api'[n]
  BY <1>1
<1> QED BY <1>2, <1>3, <1>4, <1>5 DEF NodeInv

(* Attaching what Azure says changes nothing of it. *)
LEMMA NodeAttached ==
    ASSUME TypeOK, Attach, NEW n \in Nodes, NodeInv(n)
    PROVE  NodeInv(n)'
<1>1. In(list)' = In(list) /\ \A m \in In(list) : list'[m].id = list[m].id
  BY AttachedType DEF Attach, TypeOK, In
<1>2. list'[n] = NoNode <=> list[n] = NoNode
  BY <1>1 DEF In
<1>3. \A v : Matches(list'[n], v) <=> Matches(list[n], v)
  BY <1>1, <1>2 DEF Matches, In
<1>4. UNCHANGED <<events, api>>
  BY DEF Attach, RunFrame, watchVars
<1>5. Of(n)' = Of(n) /\ Deleting(n)' = Deleting(n)
  BY <1>4 DEF Of, Deleting
<1> QED BY <1>2, <1>3, <1>4, <1>5 DEF NodeInv

LEMMA CompleteInit == Init => CompleteInv
  BY TypeInit DEF Init, CompleteInv

LEMMA CompleteStep == CompleteInv /\ [Next]_vars => CompleteInv'
<1> SUFFICES ASSUME CompleteInv, [Next]_vars PROVE CompleteInv'
  OBVIOUS
<1>0. TypeOK /\ TypeOK'
  BY TypeStep DEF CompleteInv
<1> USE DEF watchVars, runVars, objectVars, WatchFrame, RunFrame, NodeFrame
<1>1. ASSUME UNCHANGED <<api, watch, events, list>> PROVE CompleteInv'
  <2>1. \A n \in Nodes : NodeInv(n)' <=> NodeInv(n)
    BY <1>1 DEF NodeInv, Of, Deleting
  <2> QED BY <1>0, <1>1, <2>1 DEF CompleteInv, Nothing
<1>2. CASE WatchBegins
  BY <1>0, <1>2 DEF WatchBegins, CompleteInv, Nothing
<1>3. CASE Connect
  BY <1>0, <1>3, NodePresent DEF Connect, CompleteInv, Nothing
<1>4. CASE Handle
  <2>1. watch = "watching" /\ watch' = watch
    BY <1>4 DEF Handle
  <2> QED BY <1>0, <1>4, <2>1, NodeHandled DEF CompleteInv
<1>5. CASE ConnectPanics \/ WatchEnds
  BY <1>0, <1>5 DEF ConnectPanics, WatchEnds, CompleteInv
<1>6. ASSUME NEW n \in Nodes, NEW id \in ProviderId, Join(n, id) \/ Modify(n, id) \/ Leave(n)
      PROVE  CompleteInv'
  <2>1. UNCHANGED <<list, watch>>
    BY <1>6 DEF Join, Modify, Leave
  <2>2. CASE watch # "watching"
    BY <1>0, <2>1, <2>2 DEF CompleteInv, Nothing
  <2>3. CASE watch = "watching"
    <3>1. PICK e \in Event : /\ events' = Append(events, e)
                             /\ e.node = n
                             /\ Brings(e) = api'[n]
                             /\ Brings(e) = "none" => NoAzure(api[n])
                             /\ Deletes(e) \/ NoAzure(api[n]) \/ ~NoAzure(api'[n])
      <4>1. CASE Join(n, id)
        <5>1. [type |-> "Added", node |-> n, id |-> id] \in Event
          BY DEF Event
        <5>2. /\ api'[n] = id /\ NoAzure(api[n])
              /\ events' = Append(events, [type |-> "Added", node |-> n, id |-> id])
          BY <1>0, <2>3, <4>1 DEF Join, Reports, TypeOK, NoAzure
        <5> QED BY <5>1, <5>2 DEF Brings, Deletes
      <4>2. CASE Modify(n, id)
        <5>1. [type |-> "Modified", node |-> n, id |-> id] \in Event
          BY DEF Event
        <5>2. /\ api'[n] = id /\ (api[n] = id \/ NoAzure(api[n]))
              /\ events' = Append(events, [type |-> "Modified", node |-> n, id |-> id])
          BY <1>0, <2>3, <4>2 DEF Modify, Reports, TypeOK, NoAzure
        <5> QED BY <5>1, <5>2 DEF Brings, Deletes, NoAzure
      <4>3. CASE Leave(n)
        <5>1. [type |-> "Deleted", node |-> n, id |-> api[n]] \in Event
          BY <1>0, <4>3 DEF Event, Leave, TypeOK
        <5>2. /\ api'[n] = NoNode
              /\ events' = Append(events, [type |-> "Deleted", node |-> n, id |-> api[n]])
          BY <1>0, <2>3, <4>3 DEF Leave, Reports, TypeOK
        <5>3. NoNode # "none"
          BY WatchAssumption DEF ProviderId
        <5> QED BY <5>1, <5>2, <5>3 DEF Brings, Deletes
      <4> QED BY <1>6, <4>1, <4>2, <4>3
    <3>2. \A m \in Nodes : m # n => api'[m] = api[m]
      BY <1>0, <1>6 DEF Join, Modify, Leave, TypeOK
    <3>3. \A m \in Nodes : NodeInv(m)
      BY <2>3 DEF CompleteInv
    <3>4. ASSUME NEW m \in Nodes PROVE NodeInv(m)'
      <4>1. /\ e.node = m => /\ Brings(e) = api'[m]
                             /\ Brings(e) = "none" => NoAzure(api[m])
                             /\ Deletes(e) \/ NoAzure(api[m]) \/ ~NoAzure(api'[m])
            /\ e.node # m => api'[m] = api[m]
        BY <3>1, <3>2
      <4> QED BY <1>0, <2>1, <3>1, <3>3, <4>1, NodeReported
    <3> QED BY <1>0, <2>1, <2>3, <3>4 DEF CompleteInv
  <2> QED BY <2>2, <2>3
<1>7. CASE Attach
  <2>1. list = Nothing => list' = Nothing
    BY <1>0, <1>7, AttachedType DEF Attach, TypeOK, Nothing, In
  <2> QED BY <1>0, <1>7, <2>1, NodeAttached DEF CompleteInv, Attach
<1>8. ASSUME NEW n \in Nodes, Expire(n) \/ \E to \in Instance : InstanceChanges(n, to)
      PROVE  CompleteInv'
  BY <1>1, <1>8 DEF Expire, InstanceChanges
<1>9. CASE TakeList \/ GetAzureVmssList \/ RunEnds \/ \E s \in ScaleSets : RefreshScaleSet(s)
  BY <1>1, <1>9 DEF TakeList, GetAzureVmssList, RunEnds, RefreshScaleSet
<1>10. CASE UNCHANGED vars
  BY <1>1, <1>10 DEF vars
<1>11. CASE Environment
  <2>1. \E id \in ProviderId : TRUE
    BY DEF ProviderId
  <2> QED BY <1>5, <1>6, <1>8, <1>11, <2>1 DEF Environment
<1> QED BY <1>2, <1>3, <1>4, <1>7, <1>9, <1>10, <1>11 DEF Next, Watch, Run

(* Once the open watch has delivered everything of a node, the list has it *)
(* if and only if it is an Azure node of the cluster, whatever the order of*)
(* events and of ends of the watch; what is listed in spite of the cluster *)
(* has its deletion among the undelivered events.                          *)
THEOREM ListsAreComplete == Spec => []ListComplete
<1>1. CompleteInv => ListComplete
  <2> SUFFICES ASSUME CompleteInv, watch = "watching", NEW n \in Nodes
               PROVE  /\ Undelivered(n) = {} =>
                            /\ n \in In(list) <=> n \in AzureNodes
                            /\ n \in In(list) => list[n].id = api[n]
                      /\ n \in In(list) \ AzureNodes =>
                            \E e \in Undelivered(n) : e.type = "Deleted"
    BY DEF ListComplete
  <2>1. NodeInv(n)
    BY DEF CompleteInv
  <2>2. /\ n \in In(list) <=> list[n] # NoNode
        /\ n \in AzureNodes <=> ~NoAzure(api[n])
    BY DEF In, AzureNodes, IsAzureProvider, NoAzure
  <2>3. \A i \in Of(n) : events[i] \in Undelivered(n)
    BY DEF Of, Undelivered, Range, CompleteInv, TypeOK
  <2>4. ASSUME Undelivered(n) = {} PROVE Matches(list[n], api[n])
    BY <2>1, <2>3, <2>4 DEF NodeInv
  <2>5. ASSUME n \in In(list), n \notin AzureNodes
        PROVE  \E e \in Undelivered(n) : e.type = "Deleted"
    <3>1. PICK i \in Deleting(n) : TRUE
      BY <2>1, <2>2, <2>5 DEF NodeInv
    <3> QED BY <2>3, <3>1 DEF Deleting, Deletes
  <2> QED BY <2>2, <2>4, <2>5 DEF Matches
<1> QED BY <1>1, CompleteInit, CompleteStep, PTL DEF Spec

-----------------------------------------------------------------------------
(* ViewsAreFresh: a run, the list and the cache *)

(* An instance of which the cache, or Azure, has what it has lately been.  *)
Fresh(n) == snap[n].id = "vmss" /\ "gone" \notin recent[n] =>
                ScaleSetOf[n] \in pending \/ cache[n] \in recent[n]
FreshInv ==
    /\ TypeOK
    /\ run = "idle" => held = {}
    /\ run # "idle" => \A n \in Nodes : azure[n] \in recent[n]
    /\ \A n \in held : list[n] = snap[n]
    /\ run = "refresh" => \A n \in held : Fresh(n)
    /\ ViewsAreFresh

LEMMA FreshStep == FreshInv /\ [Next]_vars => FreshInv'
<1> SUFFICES ASSUME FreshInv, [Next]_vars PROVE FreshInv'
  OBVIOUS
<1>0. TypeOK /\ TypeOK'
  BY TypeStep DEF FreshInv
<1> USE DEF watchVars, runVars, objectVars, WatchFrame, RunFrame, NodeFrame
<1>1. ASSUME UNCHANGED <<azure, runVars, cache>>, held' \subseteq held,
             \A n \in held' : list'[n] = list[n]
      PROVE  FreshInv'
  BY <1>0, <1>1 DEF FreshInv, Fresh, ViewsAreFresh
<1>2. ASSUME RunFails PROVE FreshInv'
  BY <1>0, <1>2 DEF RunFails, FreshInv, ViewsAreFresh
<1>3. CASE Watch
  <2>1. CASE WatchBegins
    BY <1>1, <2>1 DEF WatchBegins
  <2>2. CASE Connect
    BY <1>1, <2>2 DEF Connect
  <2>3. CASE Handle
    <3>1. held' \subseteq held /\ \A n \in held' : list'[n] = list[n]
      BY <1>0, <2>3 DEF Handle, Replaces, TypeOK, In
    <3> QED BY <1>1, <2>3, <3>1 DEF Handle
  <2> QED BY <1>3, <2>1, <2>2, <2>3 DEF Watch
<1>4. CASE Environment
  <2>1. CASE ConnectPanics
    BY <1>0, <2>1 DEF ConnectPanics, FreshInv, ViewsAreFresh
  <2>2. ASSUME NEW n \in Nodes, Expire(n) PROVE FreshInv'
    BY <1>0, <2>2 DEF Expire, FreshInv, ViewsAreFresh
  <2>3. ASSUME NEW n \in Nodes, NEW to \in Instance, Becomes(n, to), NodeFrame PROVE FreshInv'
    <3>1. \A m \in Nodes : recent[m] \subseteq recent'[m]
      BY <1>0, <2>3 DEF Becomes, TypeOK
    <3>2. run # "idle" => \A m \in Nodes : azure'[m] \in recent'[m]
      BY <1>0, <2>3 DEF Becomes, TypeOK, FreshInv
    <3>3. held \subseteq Nodes /\ UNCHANGED <<run, snap, held, list, pending, cache>>
      BY <1>0, <2>3 DEF TypeOK, In
    <3>4. \A m \in held : Fresh(m) => Fresh(m)'
      BY <3>1, <3>3 DEF Fresh
    <3>5. ViewsAreFresh'
      BY <3>1, <3>3 DEF FreshInv, ViewsAreFresh
    <3> QED BY <1>0, <3>2, <3>3, <3>4, <3>5 DEF FreshInv
  <2>4. ASSUME NEW n \in Nodes, NEW id \in ProviderId, Join(n, id) PROVE FreshInv'
    <3>1. (IF id \in {"none", "vmss"} THEN "latest" ELSE azure[n]) \in Instance
      BY <1>0 DEF TypeOK, Instance, AzureView
    <3> QED BY <2>3, <2>4, <3>1 DEF Join
  <2>5. ASSUME NEW n \in Nodes, NEW to \in Instance, InstanceChanges(n, to) PROVE FreshInv'
    BY <2>3, <2>5 DEF InstanceChanges
  <2>6. ASSUME NEW n \in Nodes, NEW id \in ProviderId, Modify(n, id) \/ Leave(n) PROVE FreshInv'
    BY <1>1, <2>6 DEF Modify, Leave
  <2>7. CASE WatchEnds
    BY <1>1, <2>7 DEF WatchEnds
  <2>8. \E id \in ProviderId : TRUE
    BY DEF ProviderId
  <2> QED BY <1>4, <2>1, <2>2, <2>4, <2>5, <2>6, <2>7, <2>8 DEF Environment
<1>5. CASE TakeList
  BY <1>0, <1>5 DEF TakeList, FreshInv, ViewsAreFresh, TypeOK
<1>6. CASE GetAzureVmssList
  <2>1. CASE RunFails
    BY <1>2, <2>1
  <2>2. CASE /\ run' = "refresh" /\ UNCHANGED <<snap, held, recent>>
             /\ pending' = {ScaleSetOf[n] : n \in {m \in In(list) :
                                ExtractNodeInfo(list[m].id).isVmss}}
    <3>1. ASSUME NEW n \in held, snap[n].id = "vmss" PROVE ScaleSetOf[n] \in pending'
      <4>1. n \in In(list) /\ list[n] = snap[n] /\ ExtractNodeInfo(list[n].id).isVmss
        BY <1>0, <3>1 DEF FreshInv, TypeOK, ExtractNodeInfo
      <4> QED BY <2>2, <4>1
    <3> QED BY <1>0, <1>6, <2>2, <3>1 DEF GetAzureVmssList, FreshInv, Fresh, ViewsAreFresh
  <2> QED BY <1>6, <2>1, <2>2 DEF GetAzureVmssList
<1>7. ASSUME NEW s \in ScaleSets, RefreshScaleSet(s) PROVE FreshInv'
  <2>1. CASE cache' = Refreshed(InstancesOf(s)) /\ Listed(s)
    <3>1. ASSUME NEW n \in held PROVE Fresh(n)'
      <4> SUFFICES ASSUME snap[n].id = "vmss", "gone" \notin recent[n], ScaleSetOf[n] \notin pending'
                   PROVE  cache'[n] \in recent[n]
        BY <2>1 DEF Listed, Fresh
      <4>1. n \in Nodes /\ azure[n] \in recent[n] /\ azure[n] # "gone"
        BY <1>0, <1>7 DEF FreshInv, RefreshScaleSet, TypeOK, In
      <4>2. CASE ScaleSetOf[n] = s
        BY <2>1, <4>1, <4>2 DEF Refreshed, InstancesOf
      <4>3. CASE ScaleSetOf[n] # s
        <5>1. cache[n] \in recent[n]
          BY <1>7, <2>1, <4>3 DEF FreshInv, Fresh, Listed, RefreshScaleSet
        <5> QED BY <2>1, <4>1, <4>3, <5>1 DEF Refreshed, InstancesOf
      <4> QED BY <4>2, <4>3
    <3> QED BY <1>0, <1>7, <2>1, <3>1 DEF RefreshScaleSet, Listed, FreshInv, ViewsAreFresh
  <2>2. CASE RunFails
    BY <1>2, <2>2
  <2> QED BY <1>7, <2>1, <2>2 DEF RefreshScaleSet
<1>8. CASE Attach
  <2>1. ASSUME NEW n \in held
        PROVE  /\ n \in In(snap) /\ snap[n] = list[n] /\ snap[n] \in Object
               /\ snap'[n] = Cached(snap[n], n) /\ list'[n] = Cached(list[n], n)
    BY <1>0, <1>8, <2>1 DEF Attach, Attached, FreshInv, TypeOK, In
  <2>2. ASSUME NEW n \in held, snap'[n].id = "vmss", "gone" \notin recent[n]
        PROVE  snap'[n].vmss \in recent[n]
    <3>1. snap[n].id = "vmss"
      BY <2>1, <2>2 DEF Cached, Object
    <3>2. cache[n] \in recent[n] /\ recent[n] \subseteq Instance
      BY <1>0, <1>8, <2>2, <3>1 DEF Attach, FreshInv, Fresh, TypeOK, In
    <3>3. cache[n] # NoNode
      BY <2>2, <3>2, WatchAssumption DEF Instance
    <3> QED BY <2>1, <3>1, <3>2, <3>3 DEF Cached, Object
  <2> QED BY <1>0, <1>8, <2>1, <2>2 DEF Attach, FreshInv, ViewsAreFresh
<1>9. CASE RunEnds
  BY <1>2, <1>9 DEF RunEnds
<1>10. CASE UNCHANGED vars
  BY <1>1, <1>10 DEF vars
<1> QED BY <1>3, <1>4, <1>5, <1>6, <1>7, <1>8, <1>9, <1>10 DEF Next, Run

(* A run sees a node that stays in the list as its instance has been since *)
(* the run began, whatever was cached or attached before, whichever refresh*)
(* failed halfway, and whatever other nodes, events and watches did.       *)
THEOREM ViewsStayFresh == Spec => []ViewsAreFresh
<1>1. Init => FreshInv
  BY TypeInit DEF Init, FreshInv, ViewsAreFresh
<1>2. FreshInv => ViewsAreFresh
  BY DEF FreshInv
<1> QED BY <1>1, <1>2, FreshStep, PTL DEF Spec
=============================================================================
