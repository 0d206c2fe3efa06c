---------------------------- MODULE MCLifecycle ----------------------------
(* Constants for model-checking Lifecycle. *)
EXTENDS Lifecycle

(* With leases, an update cron and nothing in the way; with refused        *)
(* evictions and any crons; and without leases.                            *)
Calm == [lease : {TRUE}, crons : {Jobs, {"update"}}, refusals : {FALSE}]
Rough == [lease : {TRUE}, crons : {Jobs, {"repair"}}, refusals : {TRUE}]
Unleased == [lease : {FALSE}, crons : {{"repair"}}, refusals : {TRUE}]
AllSetups == Calm \cup Rough \cup Unleased

(* A repair cron alone, with nothing in the way. *)
RepairOnly == [lease : {TRUE}, crons : {{"repair"}}, refusals : {FALSE}]
=============================================================================
