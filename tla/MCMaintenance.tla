---------------------------- MODULE MCMaintenance ----------------------------
(* Constants for model-checking Maintenance. *)
EXTENDS Maintenance

HostedElsewhere == {NoNode}

(* The default of repair.azure.provisioningstate, which both jobs read.    *)
DefaultStates == {"succeeded", "failed"}
=============================================================================
