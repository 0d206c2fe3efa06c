---------------------------- MODULE MCNodeWatch ----------------------------
(* Constants for model-checking NodeWatch. *)
EXTENDS NodeWatch, TLC

CONSTANTS s1, s2    \* scale sets

(* Every node in a scale set of its own, so that one of the refreshes of a *)
(* run can fail.                                                           *)
OwnScaleSets == CHOOSE f \in [Nodes -> {s1, s2}] : \A m, n \in Nodes : m # n => f[m] # f[n]
=============================================================================
