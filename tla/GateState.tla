------------------------------ MODULE GateState ------------------------------
(***************************************************************************)
(* The part of the shared file `.aspis-agents.json` that the human gates   *)
(* work on: the sessions (status and `needsUser` bell) and the two request *)
(* queues gitPushRequests and planApprovalRequests.                        *)
(*                                                                         *)
(* The file is read, modified and written under one lock that no process   *)
(* holds across a sleep or a network call, so each locked section of the   *)
(* app (src-tauri) and of an agent's tool server (devboule-mcp) is one     *)
(* step and the steps of all processes interleave.                         *)
(*                                                                         *)
(* A queue is a function from request ids to rows.  Ids are numbered in    *)
(* `createdAt` order.  `in` says whether the row is in the file; an        *)
(* evicted row keeps its other fields, which only the properties read.     *)
(***************************************************************************)
EXTENDS Integers, FiniteSets

CONSTANTS
    Agents,      \* agents with a session row
    PushIds,     \* ids of git push requests
    PushOwner,   \* agentId of each push request
    MaxPush,     \* MAX_GIT_PUSH_REQUESTS
    GraceTicks,  \* STUCK_REQUEST_GRACE_SECS in clock ticks
    PlanIds,     \* ids of plan approval requests
    PlanOwner,   \* agentId of each plan request
    MaxPlan      \* MAX_PLAN_APPROVAL_REQUESTS

ASSUME GateConstants ==
    /\ PushIds \subseteq Nat /\ IsFiniteSet(PushIds)
    /\ PlanIds \subseteq Nat /\ IsFiniteSet(PlanIds)
    /\ PushOwner \in [PushIds -> Agents]
    /\ PlanOwner \in [PlanIds -> Agents]
    /\ MaxPush \in Nat \ {0}
    /\ MaxPlan \in Nat \ {0}
    /\ GraceTicks \in Nat \ {0}

VARIABLES
    session,     \* status of each agent's session row
    needsUser,   \* reason of each session's needsUser bell, or "none"
    pushReq,     \* gitPushRequests
    planReq      \* planApprovalRequests

gateVars == <<session, needsUser, pushReq, planReq>>

\* An absent row has been pruned from the file.
SessionStatus == {"active", "closed", "absent"}

Reasons == {"none", "needs_user", "needs_push_approval", "needs_plan_approval",
            "question"}

(***************************************************************************)
(* Rows.                                                                   *)
(***************************************************************************)
PushTerminal == {"pushed", "push_failed", "denied", "timeout"}

PushStatus == {"none", "pending_approval", "approved"} \cup PushTerminal

PushRow == [in: BOOLEAN, status: PushStatus, result: {"none"} \cup PushTerminal,
            age: 0..GraceTicks]

PlanTerminal == {"approved", "rejected", "timeout"}

PlanVerdict == {"approved", "rejected"}

PlanStatus == {"none", "pending_approval"} \cup PlanTerminal

PlanRow == [in: BOOLEAN, status: PlanStatus, tasksCreated: BOOLEAN]

GateTypeOK ==
    /\ session \in [Agents -> SessionStatus]
    /\ needsUser \in [Agents -> Reasons]
    /\ pushReq \in [PushIds -> PushRow]
    /\ planReq \in [PlanIds -> PlanRow]

GateInit ==
    /\ session = [a \in Agents |-> "active"]
    /\ needsUser = [a \in Agents |-> "none"]
    /\ pushReq = [i \in PushIds |->
                    [in |-> FALSE, status |-> "none", result |-> "none", age |-> 0]]
    /\ planReq = [i \in PlanIds |->
                    [in |-> FALSE, status |-> "none", tasksCreated |-> FALSE]]

-----------------------------------------------------------------------------
(***************************************************************************)
(* The bell.                                                               *)
(***************************************************************************)

\* set_needs_user refuses while the bell rings for a different reason.
BellFree(a, reason) == needsUser[a] \in {"none", reason}

set_needs_user(a, reason) == [needsUser EXCEPT ![a] = reason]

clear_needs_user_if_reason(a, reason) ==
    [needsUser EXCEPT ![a] = IF @ = reason THEN "none" ELSE @]

\* The app's clear on the terminal paths of a push request: no look at the reason.
clear_request_needs_user(A) ==
    [a \in Agents |-> IF a \in A THEN "none" ELSE needsUser[a]]

\* Every agent tool that reports a status rewrites the session row and with it the
\* bell: set for needs_user, otherwise cleared whatever it was ringing for.
upsert_session(a, status) ==
    /\ session' = [session EXCEPT ![a] = "active"]
    /\ needsUser' = [needsUser EXCEPT ![a] = IF status = "needs_user" THEN status ELSE "none"]

\* "pushing" is outstanding as well, but never stored in the file.
Outstanding == {"pending_approval", "approved"}

\* The agent has a request in either queue, other than those excluded, that the
\* code counts as outstanding.
agent_has_outstanding_gate_request(a, exceptPush, exceptPlan) ==
    \/ \E i \in PushIds \ exceptPush :
          pushReq[i].in /\ PushOwner[i] = a /\ pushReq[i].status \in Outstanding
    \/ \E i \in PlanIds \ exceptPlan :
          planReq[i].in /\ PlanOwner[i] = a /\ planReq[i].status \in Outstanding

\* Mutant: the clear of the bell is forgotten.
ClearNever(a, reason, exceptPush, exceptPlan) == needsUser

clear_gate_needs_user_if_idle(a, reason, exceptPush, exceptPlan) ==
    IF agent_has_outstanding_gate_request(a, exceptPush, exceptPlan)
    THEN needsUser
    ELSE clear_needs_user_if_reason(a, reason)

-----------------------------------------------------------------------------
(***************************************************************************)
(* Queue bounds.  Only the oldest evictable rows beyond the cap leave.     *)
(***************************************************************************)
InFile(q) == {i \in DOMAIN q : q[i].in}

Evicted(q, evictable, max) ==
    {i \in evictable :
        Cardinality({j \in evictable : j < i}) < Cardinality(InFile(q)) - max}

EvictFrom(q, gone) == [i \in DOMAIN q |-> [q[i] EXCEPT !.in = @ /\ i \notin gone]]

PushEvictable(q) == {i \in InFile(q) : q[i].status \in PushTerminal}

cap_push_requests(q) == EvictFrom(q, Evicted(q, PushEvictable(q), MaxPush))

\* Mutant: an approved plan is evicted like any other terminal row.
PlanEvictableAny(q) == {i \in InFile(q) : q[i].status \in PlanTerminal}

\* An approved plan whose tasks are not on the board yet stays in the queue.
PlanEvictable(q) ==
    {i \in InFile(q) :
        /\ q[i].status \in PlanTerminal
        /\ q[i].status = "approved" => q[i].tasksCreated}

cap_plan_approval_requests(q) == EvictFrom(q, Evicted(q, PlanEvictable(q), MaxPlan))

count_non_terminal(q, terminal) ==
    Cardinality({i \in InFile(q) : q[i].status \notin terminal})
=============================================================================
