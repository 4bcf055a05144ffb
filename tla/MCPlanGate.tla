------------------------------ MODULE MCPlanGate ------------------------------
(* The plan gate with one agent and one project that starts as a draft. *)
EXTENDS PlanGate

CONSTANTS a1, j1

MCPlanOwner == [p \in PlanIds |-> a1]
MCPlanProject == [p \in PlanIds |-> j1]
MCPushOwner == [i \in PushIds |-> a1]
=============================================================================
