---------------------------- MODULE MCGitPushGate ----------------------------
(* The push gate: all requests are those of one agent. *)
EXTENDS GitPushGate, TLC

CONSTANT a1

MCPushOwner == [i \in PushIds |-> a1]
MCPlanOwner == [i \in PlanIds |-> a1]
CommandSymmetry == Permutations(Commands)
=============================================================================
