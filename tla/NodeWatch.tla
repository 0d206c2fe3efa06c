------------------------------ MODULE NodeWatch ------------------------------
(***************************************************************************)
(* The node list of azure-k8s-autopilot (k8s/nodelist.go): a goroutine that*)
(* follows the nodes of the cluster through a Kubernetes watch, and a run  *)
(* of the update job that takes the list and attaches to its node objects  *)
(* what Azure says of their instances.                                     *)
(*                                                                         *)
(* The watch delivers events in order but late, ends now and then, and is  *)
(* begun anew with an empty list; nodes join, get their provider id from   *)
(* the cloud controller later, and leave at any time; the run reads the    *)
(* list twice and calls Azure once per scale set, with the list going on   *)
(* changing.  What a run does with the result is UpdateJob's concern.      *)
(***************************************************************************)
EXTENDS Naturals, Sequences, SequencesExt

CONSTANTS
    Nodes,          \* names of nodes
    NoNode,         \* no node: not in the cluster, not in a list, not in the cache
    ScaleSetOf,     \* the scale set a node's instance belongs to
    MaxFaults,      \* bound on failing calls
    MaxOutside      \* bound on changes of nodes and instances and ends of the watch

(* What a node's provider id is to the code: not one of Azure (or not set  *)
(* yet), one ExtractNodeInfo cannot parse, a virtual machine, an instance. *)
ProviderId == {"none", "odd", "vm", "vmss"}
ScaleSets == {ScaleSetOf[n] : n \in Nodes}

(* An instance in Azure: gone, or with an old or the latest model.         *)
AzureView == {"old", "latest"}
Instance == AzureView \cup {"gone"}

ASSUME WatchAssumption ==
    /\ IsFiniteSet(Nodes)
    /\ DOMAIN ScaleSetOf = Nodes
    /\ NoNode \notin ProviderId \cup AzureView
    /\ {MaxFaults, MaxOutside} \subseteq Nat

VARIABLES
    api,        \* provider ids of the nodes on the API server
    azure,      \* the instances in Azure
    watch,      \* what the watch goroutine is about to do, or waits for
    events,     \* events the open watch has not delivered yet
    list,       \* NodeList.list: the node objects
    cache,      \* NodeList.azureCache
    run,        \* what a run is about to do
    snap,       \* the node objects the run took from the list
    held,       \* nodes whose object in snap is still the one in list
    pending,    \* scale sets the run still has to list
    recent,     \* history: what the instances have been since the run took the list
    faults, outside

watchVars == <<watch, events>>
runVars == <<run, snap, pending, recent>>
objectVars == <<list, held>>
vars == <<api, azure, watchVars, objectVars, cache, runVars, faults, outside>>

(* A Node: its provider id and AzureVmss. *)
Object == [id : ProviderId, vmss : AzureView \cup {NoNode}]
ASSUME ObjectAssumption == NoNode \notin Object
Event == [type : {"Added", "Modified", "Deleted"}, node : Nodes, id : ProviderId]

Nothing == [n \in Nodes |-> NoNode]
NoneSeen == [n \in Nodes |-> {}]
In(view) == {n \in Nodes : view[n] # NoNode}

Fault == faults < MaxFaults /\ faults' = faults + 1
NoFault == UNCHANGED faults
Outside == outside < MaxOutside /\ outside' = outside + 1

IsAzureProvider_Any(id) == TRUE
IsAzureProvider(id) == id # "none"

(* ExtractNodeInfo: an error, or whether the node is a scale set instance. *)
ExtractNodeInfo(id) == [err |-> id \in {"none", "odd"}, isVmss |-> id = "vmss"]

-----------------------------------------------------------------------------
Init ==
    /\ api \in [Nodes -> {NoNode, "none", "vmss"}]
    /\ azure = [n \in Nodes |-> IF api[n] = NoNode THEN "gone" ELSE "old"]
    /\ watch = "begin"
    /\ events = <<>>
    /\ list = Nothing
    /\ cache = Nothing
    /\ run = "idle"
    /\ snap = Nothing
    /\ held = {}
    /\ pending = {}
    /\ recent = NoneSeen
    /\ faults = 0
    /\ outside = 0

-----------------------------------------------------------------------------
(* The watch goroutine: startNodeWatch in a loop *)

WatchFrame == UNCHANGED <<api, azure, cache, runVars, outside>>

WatchBegins_ListKept ==
    /\ watch = "begin" /\ watch' = "connect"
    /\ UNCHANGED <<events, objectVars, faults>> /\ WatchFrame

WatchBegins ==
    /\ watch = "begin" /\ watch' = "connect"
    /\ list' = Nothing
    /\ held' = {}
    /\ UNCHANGED <<events, faults>> /\ WatchFrame

(* A new watch first reports the nodes there are. *)
Present ==
    LET nodes == SetToSeq(In(api))
    IN  [i \in 1 .. Len(nodes) |-> [type |-> "Added", node |-> nodes[i], id |-> api[nodes[i]]]]

Connect ==
    /\ watch = "connect" /\ watch' = "watching"
    /\ events' = Present
    /\ UNCHANGED <<objectVars, faults>> /\ WatchFrame

(* When the watch cannot be opened the process panics.  The kubelet starts *)
(* a new one, which knows nothing.                                         *)
ConnectPanics ==
    /\ watch = "connect" /\ watch' = "begin"
    /\ Fault
    /\ list' = Nothing /\ held' = {} /\ cache' = Nothing
    /\ run' = "idle" /\ snap' = Nothing /\ pending' = {} /\ recent' = NoneSeen
    /\ UNCHANGED <<api, azure, events, outside>>

(* An event of a node that has an Azure provider id puts a new object into *)
(* the list, with no AzureVmss.                                            *)
Replaces(e) ==
    IF IsAzureProvider(e.id)
    THEN /\ list' = [list EXCEPT ![e.node] = [id |-> e.id, vmss |-> NoNode]]
         /\ held' = held \ {e.node}
    ELSE UNCHANGED objectVars

Handle_ModifiedKnown ==
    /\ watch = "watching" /\ events # <<>>
    /\ events' = Tail(events)
    /\ LET e == Head(events) IN
         \/ e.type = "Added" /\ Replaces(e)
         \/ e.type = "Modified" /\ e.node \in In(list) /\ Replaces(e)
         \/ e.type = "Modified" /\ e.node \notin In(list) /\ UNCHANGED objectVars
         \/ e.type = "Deleted"
            /\ list' = [list EXCEPT ![e.node] = NoNode] /\ held' = held \ {e.node}
    /\ UNCHANGED <<watch, faults>> /\ WatchFrame

Handle ==
    /\ watch = "watching" /\ events # <<>>
    /\ events' = Tail(events)
    /\ LET e == Head(events) IN
         \/ e.type \in {"Added", "Modified"} /\ Replaces(e)
         \/ e.type = "Deleted"
            /\ list' = [list EXCEPT ![e.node] = NoNode] /\ held' = held \ {e.node}
    /\ UNCHANGED <<watch, faults>> /\ WatchFrame

(* After an hour, or when the connection breaks, with events undelivered.  *)
WatchEnds ==
    /\ watch = "watching" /\ watch' = "begin"
    /\ Outside
    /\ events' = <<>>
    /\ UNCHANGED <<api, azure, objectVars, cache, runVars, faults>>

-----------------------------------------------------------------------------
(* A run: NodeListWithAzure *)

RunFrame == UNCHANGED <<api, azure, watchVars, outside>>
RunFails == run' = "idle" /\ snap' = Nothing /\ pending' = {} /\ recent' = NoneSeen /\ held' = {}

TakeList ==
    /\ run = "idle" /\ run' = "names"
    /\ snap' = list
    /\ held' = In(list)
    /\ recent' = [n \in Nodes |-> {azure[n]}]
    /\ UNCHANGED <<list, cache, pending, faults>> /\ RunFrame

(* GetAzureVmssList reads the list again; one provider id it cannot parse  *)
(* ends the run.                                                           *)
GetAzureVmssList ==
    /\ run = "names"
    /\ LET infos == {ExtractNodeInfo(list[n].id) : n \in In(list)} IN
         \/ /\ \E i \in infos : i.err
            /\ RunFails
         \/ /\ \A i \in infos : ~i.err
            /\ pending' = {ScaleSetOf[n] : n \in {m \in In(list) :
                               ExtractNodeInfo(list[m].id).isVmss}}
            /\ run' = "refresh"
            /\ UNCHANGED <<snap, held, recent>>
    /\ UNCHANGED <<list, cache, faults>> /\ RunFrame

(* refreshAzureVmssCache, for one scale set: all its instances, or an error*)
(* that ends the run and leaves in the cache what the pages before it and  *)
(* the scale sets before this one brought.                                 *)
InstancesOf(s) == {n \in Nodes : ScaleSetOf[n] = s /\ azure[n] # "gone"}
Refreshed(part) == [n \in Nodes |-> IF n \in part THEN azure[n] ELSE cache[n]]
Listed(s) == pending' = pending \ {s} /\ UNCHANGED <<run, snap, held, recent>>

RefreshScaleSet_KnownKept(s) ==
    /\ run = "refresh"
    /\ s \in pending
    /\ \/ /\ NoFault
          /\ cache' = Refreshed({n \in InstancesOf(s) : cache[n] = NoNode})
          /\ Listed(s)
       \/ Fault /\ RunFails /\ UNCHANGED cache
    /\ UNCHANGED list /\ RunFrame

RefreshScaleSet(s) ==
    /\ run = "refresh"
    /\ s \in pending
    /\ \/ /\ NoFault
          /\ cache' = Refreshed(InstancesOf(s))
          /\ Listed(s)
       \/ /\ Fault
          /\ \E part \in SUBSET InstancesOf(s) : cache' = Refreshed(part)
          /\ RunFails
    /\ UNCHANGED list /\ RunFrame

(* The cached instances are attached to the run's node objects, those that *)
(* are still in the list among them.  Cached under its provider id, an     *)
(* instance is found for scale set nodes only.                             *)
Cached(o, n) == IF o.id = "vmss" /\ cache[n] # NoNode THEN [o EXCEPT !.vmss = cache[n]] ELSE o
Attached(view, S) == [n \in Nodes |-> IF n \in S THEN Cached(view[n], n) ELSE view[n]]

Attach ==
    /\ run = "refresh" /\ pending = {}
    /\ run' = "done"
    /\ snap' = Attached(snap, In(snap))
    /\ list' = Attached(list, held)
    /\ UNCHANGED <<held, cache, pending, recent, faults>> /\ RunFrame

RunEnds ==
    /\ run = "done"
    /\ RunFails
    /\ UNCHANGED <<list, cache, faults>> /\ RunFrame

(* Items of the cache expire after ten minutes, longer than a refresh.     *)
Expire(n) ==
    /\ run = "idle"
    /\ cache[n] # NoNode
    /\ Outside
    /\ cache' = [cache EXCEPT ![n] = NoNode]
    /\ UNCHANGED <<api, azure, watchVars, objectVars, runVars, faults>>

-----------------------------------------------------------------------------
(* Nodes and instances *)

(* The API server has an event for an open watch. *)
Reports(type, n, id) ==
    events' = IF watch = "watching"
              THEN Append(events, [type |-> type, node |-> n, id |-> id]) ELSE events
NodeFrame == UNCHANGED <<watch, objectVars, cache, run, snap, pending, faults>>

Becomes(n, to) ==
    /\ azure' = [azure EXCEPT ![n] = to]
    /\ recent' = IF run = "idle" THEN recent ELSE [recent EXCEPT ![n] = @ \cup {to}]

(* A node registers; its instance is there already, if it is one.          *)
Join(n, id) ==
    /\ api[n] = NoNode
    /\ Outside
    /\ api' = [api EXCEPT ![n] = id]
    /\ Becomes(n, IF id \in {"none", "vmss"} THEN "latest" ELSE azure[n])
    /\ Reports("Added", n, id)
    /\ NodeFrame

(* A heartbeat, or the cloud controller that sets the provider id. *)
Modify(n, id) ==
    /\ api[n] \in {"none", id}
    /\ Outside
    /\ api' = [api EXCEPT ![n] = id]
    /\ Reports("Modified", n, id)
    /\ UNCHANGED <<azure, recent>> /\ NodeFrame

Leave(n) ==
    /\ api[n] # NoNode
    /\ Outside
    /\ api' = [api EXCEPT ![n] = NoNode]
    /\ Reports("Deleted", n, api[n])
    /\ UNCHANGED <<azure, recent>> /\ NodeFrame

(* An instance is updated, gets behind a new model, or is deleted. *)
InstanceChanges(n, to) ==
    /\ azure[n] \in AzureView \ {to}
    /\ Outside
    /\ Becomes(n, to)
    /\ UNCHANGED <<api, events>> /\ NodeFrame

-----------------------------------------------------------------------------
Watch == WatchBegins \/ Connect \/ Handle
Run == TakeList \/ GetAzureVmssList \/ Attach \/ RunEnds \/ \E s \in ScaleSets : RefreshScaleSet(s)
Environment ==
    \/ ConnectPanics \/ WatchEnds
    \/ \E n \in Nodes : \/ Leave(n) \/ Expire(n)
                       \/ \E id \in ProviderId : Join(n, id) \/ Modify(n, id)
                       \/ \E to \in Instance : InstanceChanges(n, to)

Next == Watch \/ Run \/ Environment

Spec == Init /\ [][Next]_vars
FairSpec == Spec /\ WF_vars(Watch) /\ WF_vars(Run)

-----------------------------------------------------------------------------
(* Properties *)

AzureNodes == {n \in In(api) : IsAzureProvider(api[n])}

(* Every variable has its type; what is in the list has an Azure provider  *)
(* id (so ExtractNodeInfo is not asked about others).                      *)
TypeOK ==
    /\ api \in [Nodes -> ProviderId \cup {NoNode}]
    /\ azure \in [Nodes -> Instance]
    /\ watch \in {"begin", "connect", "watching"}
    /\ events \in Seq(Event)
    /\ list \in [Nodes -> Object \cup {NoNode}]
    /\ \A n \in In(list) : list[n].id # "none"
    /\ cache \in [Nodes -> AzureView \cup {NoNode}]
    /\ run \in {"idle", "names", "refresh", "done"}
    /\ snap \in [Nodes -> Object \cup {NoNode}]
    /\ held \in SUBSET (In(snap) \cap In(list))
    /\ pending \in SUBSET ScaleSets
    /\ recent \in [Nodes -> SUBSET Instance]
    /\ faults \in Nat
    /\ outside \in Nat

(* NodeList.list: when the open watch has delivered everything of a node,  *)
(* the list has it with its provider id if it is an Azure node of the      *)
(* cluster and does not have it otherwise, whatever happened while no watch*)
(* was open; and a node that is listed and should not be is about to be    *)
(* deleted from the list by an event.                                      *)
Undelivered(n) == {e \in Range(events) : e.node = n}
ListComplete ==
    watch = "watching" => \A n \in Nodes :
        /\ Undelivered(n) = {} =>
             /\ n \in In(list) <=> n \in AzureNodes
             /\ n \in In(list) => list[n].id = api[n]
        /\ n \in In(list) \ AzureNodes => \E e \in Undelivered(n) : e.type = "Deleted"

(* NodeListWithAzure: of a node whose object has stayed in the list, and   *)
(* whose instance has been there all the time, a run sees what the instance*)
(* has been since the run began, whatever the cache and the objects, which *)
(* runs share, kept from before.                                           *)
ViewsAreFresh ==
    run = "done" => \A n \in held :
        snap[n].id = "vmss" /\ "gone" \notin recent[n] => snap[n].vmss \in recent[n]

(* Every Azure node that stays is listed in the end, and every other is not.*)
EventuallyListed == <>[](In(list) = AzureNodes)

(* Runs get their list again and again, unless the cluster keeps a node    *)
(* whose provider id cannot be parsed.                                     *)
RunsGoOn ==
    \/ []<>(run = "done")
    \/ <>[](\E n \in In(api) : api[n] = "odd")
=============================================================================
