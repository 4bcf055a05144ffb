------------------------------ MODULE MCAskGate ------------------------------
(* The question gate: questions 1 and 2 of one agent, 3 of another. *)
EXTENDS AskGate

CONSTANTS a1, a2

MCAsker == [q \in Questions |-> IF q = 3 THEN a2 ELSE a1]
MCPushOwner == [i \in PushIds |-> a1]
MCPlanOwner == [i \in PlanIds |-> a1]
=============================================================================
