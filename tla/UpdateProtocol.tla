--------------------------- MODULE UpdateProtocol ---------------------------
(***************************************************************************)
(* What the update job promises to a cluster, without crons, caches, locks *)
(* or calls: node updates begin one at a time, a node leaves the scheduler *)
(* only while its update is unfinished, and an update is over only when    *)
(* Azure has applied it, to this attempt and not to an earlier one, and the*)
(* node takes pods again.  UpdateJob implements this specification.        *)
(***************************************************************************)
CONSTANT Nodes

VARIABLES
    started,    \* nodes whose update has begun and is not over
    excluded,   \* nodes an operator has excluded from updates
    closed,     \* nodes that take no pods
    applied     \* nodes with an update applied since the last attempt began

vars == <<started, excluded, closed, applied>>

Init ==
    /\ started = {}
    /\ excluded = {}
    /\ closed = {}
    /\ applied = {}

(* An update begins when every other unfinished one is excluded. *)
Begin(n) ==
    /\ n \notin started
    /\ started \subseteq excluded
    /\ started' = started \cup {n}
    /\ applied' = applied \ {n}
    /\ UNCHANGED <<excluded, closed>>

(* An unfinished one is attempted once more, from the beginning. *)
Retry(n) ==
    /\ n \in started
    /\ applied' = applied \ {n}
    /\ UNCHANGED <<started, excluded, closed>>

Close(n) ==
    /\ n \in started
    /\ closed' = closed \cup {n}
    /\ UNCHANGED <<started, excluded, applied>>

Open(S) ==
    /\ closed' = closed \ S
    /\ UNCHANGED <<started, excluded, applied>>

(* Azure brings an instance to a model, for nobody but the job. *)
Apply(n) ==
    /\ n \in started
    /\ applied' = applied \cup {n}
    /\ UNCHANGED <<started, excluded, closed>>

Finish(n) ==
    /\ n \in started \cap applied
    /\ n \notin closed
    /\ started' = started \ {n}
    /\ UNCHANGED <<excluded, closed, applied>>

(* The owners of the cluster, at any time. *)
Toggle(S) ==
    /\ excluded' = S
    /\ UNCHANGED <<started, closed, applied>>

Next ==
    \/ \E n \in Nodes : Begin(n) \/ Retry(n) \/ Close(n) \/ Apply(n) \/ Finish(n)
    \/ \E S \in SUBSET Nodes : Open(S) \/ Toggle(S)

Spec == Init /\ [][Next]_vars
=============================================================================
