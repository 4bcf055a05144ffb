-------------------------- MODULE MCAgentSessions --------------------------
(* A Pi orchestrator and two coders in consoles. *)
EXTENDS AgentSessions

CONSTANTS orch, c1, c2
=============================================================================
