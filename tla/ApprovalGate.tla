----------------------------- MODULE ApprovalGate -----------------------------
(***************************************************************************)
(* What a human gate promises, whatever the mechanics of its queue: a      *)
(* request is asked once, granted or refused at most once and for good,    *)
(* and its effect happens only after it was granted, and at most once.     *)
(***************************************************************************)
EXTENDS Naturals

CONSTANT Requests

VARIABLES
    verdict,   \* what was decided about each request
    effects    \* how often the effect of each request happened

gate == <<verdict, effects>>

GateTypeOK ==
    /\ verdict \in [Requests -> {"none", "asked", "granted", "refused"}]
    /\ effects \in [Requests -> {0, 1}]

Init ==
    /\ verdict = [r \in Requests |-> "none"]
    /\ effects = [r \in Requests |-> 0]

Move(r, from, to) ==
    /\ verdict[r] = from
    /\ verdict' = [verdict EXCEPT ![r] = to]
    /\ UNCHANGED effects

Ask(r) == Move(r, "none", "asked")

Grant(r) == Move(r, "asked", "granted")

Refuse(r) == Move(r, "asked", "refused")

Act(r) ==
    /\ verdict[r] = "granted"
    /\ effects[r] = 0
    /\ effects' = [effects EXCEPT ![r] = 1]
    /\ UNCHANGED verdict

Next == \E r \in Requests : Ask(r) \/ Grant(r) \/ Refuse(r) \/ Act(r)

Spec == Init /\ [][Next]_gate
=============================================================================
