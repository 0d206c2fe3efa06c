---------------------------- MODULE MCRepairJob ----------------------------
(* Constants for model-checking RepairJob. *)
EXTENDS RepairJob

HostedElsewhere == {NoNode}
HostedAnywhere == Nodes \cup {NoNode}

(* The default of repair.azure.provisioningstate. *)
DefaultStates == {"succeeded", "failed"}
=============================================================================
