-------------------------- MODULE MCCodexApprovals --------------------------
(* Two launches; approvals 1, 2 reach the first, 3 the second, which        *)
(* counts its request ids from 1 again.                                       *)
EXTENDS CodexApprovals

MCClientOf == [a \in Approvals |-> IF a <= 2 THEN 1 ELSE 2]
MCRequestId == [a \in Approvals |-> IF a <= 2 THEN a ELSE a - 2]
=============================================================================
