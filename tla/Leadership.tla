----------------------------- MODULE Leadership -----------------------------
(***************************************************************************)
(* What leader election promises to a deployment, without leases, pods,    *)
(* crons or signals: only the leader works, and the leadership passes on   *)
(* only by way of nobody, when the old leader is no longer at work.        *)
(* Lifecycle implements this specification.                                *)
(***************************************************************************)
CONSTANTS Candidates, Nobody

VARIABLES
    leader,     \* the elected candidate, or nobody
    working     \* candidates at work

vars == <<leader, working>>

Init ==
    /\ leader = Nobody
    /\ working = {}

Elect(c) ==
    /\ leader = Nobody
    /\ leader' = c
    /\ UNCHANGED working

BeginWork(c) ==
    /\ leader = c
    /\ working' = working \cup {c}
    /\ UNCHANGED leader

EndWork(c) ==
    /\ working' = working \ {c}
    /\ UNCHANGED leader

Resign(c) ==
    /\ leader = c
    /\ c \notin working
    /\ leader' = Nobody
    /\ UNCHANGED working

Next == \E c \in Candidates : Elect(c) \/ BeginWork(c) \/ EndWork(c) \/ Resign(c)

Spec == Init /\ [][Next]_vars
=============================================================================
