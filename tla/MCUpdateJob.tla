---------------------------- MODULE MCUpdateJob ----------------------------
(* Constants for model-checking UpdateJob. *)
EXTENDS UpdateJob

(* The autopilot runs outside the nodes it maintains. *)
HostedElsewhere == {NoNode}

(* The default of repair.azure.provisioningstate, which updates read, too. *)
DefaultStates == {"succeeded", "failed"}
=============================================================================
