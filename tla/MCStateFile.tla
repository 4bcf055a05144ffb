---------------------------- MODULE MCStateFile ----------------------------
(* The app, a tool server, a sandboxed tool server, the sandboxed hook and a *)
(* manual board move.                                                        *)
EXTENDS StateFile

CONSTANTS app, srv, boxed, hook, move
=============================================================================
