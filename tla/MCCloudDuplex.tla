---------------------------- MODULE MCCloudDuplex ----------------------------
(* Launches of the stable orchestrator id, numbered in the order they begin. *)
EXTENDS CloudDuplex
=============================================================================
