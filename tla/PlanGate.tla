------------------------------- MODULE PlanGate -------------------------------
(***************************************************************************)
(* The plan approval gate: plan_submit (devboule-mcp) queues a plan and    *)
(* polls for the verdict, the human approves or rejects it in the app, and *)
(* project_create_plan_tasks puts the tasks of an approved plan on the     *)
(* board, once.  Beside the queue there is a sidecar file per plan, which  *)
(* both sides rewrite without a lock, and the project file, whose status   *)
(* an approval moves from draft to active.                                 *)
(***************************************************************************)
EXTENDS GateState

CONSTANTS
    Projects,
    PlanProject,   \* projectId of each plan
    Deciders,      \* approve/deny commands in flight at once: the app runs these
                   \* synchronous commands on one thread, so one suffices
    PlanFaults     \* failures considered: see Faults of GitPushGate; "write", an update
                   \* of the sidecar or the project file that fails (both are best effort)

ASSUME PlanConstants ==
    /\ PlanProject \in [PlanIds -> Projects]
    /\ PlanFaults \subseteq {"lock", "kill", "crash", "write"}

VARIABLES
    planCall,      \* each plan_submit call: pc, seen flag, status told to the agent
    decider,       \* each decide command: pc, plan, approve flag, status it resolved to
    sidecar,       \* status in each plan's sidecar file, "none" without a file
    projStatus,    \* status of each project; "idle" stands for paused, done, archived
    board,         \* history: how often each plan's tasks were put on the board
    misled,        \* history: plans handed on as approved (the agent is sent "Plan
                   \* APPROVED", or a Main coder is queued) that were not approved
    lost           \* history: plans with a sidecar write or a promotion that failed or
                   \* was never reached, or whose sweep did not get the lock

planLocal == <<planCall, decider, sidecar, projStatus, board, misled, lost>>

NoPlan == -1

IdleDecider == [pc |-> "idle", id |-> NoPlan, approve |-> FALSE, resolved |-> "none"]

PlanTypeOK ==
    /\ planCall \in [PlanIds ->
          [pc: {"idle", "enqueue", "poll", "vanished", "sweep", "sidecar", "done"},
           seen: BOOLEAN, told: {"error", "vanished"} \cup PlanStatus]]
    /\ decider \in [Deciders ->
          [pc: {"idle", "sidecar", "promote", "nudge"}, id: PlanIds \cup {NoPlan},
           approve: BOOLEAN, resolved: PlanStatus]]
    /\ sidecar \in [PlanIds -> PlanStatus]
    /\ projStatus \in [Projects -> {"draft", "active", "idle"}]
    /\ board \in [PlanIds -> Nat]
    /\ misled \subseteq PlanIds /\ lost \subseteq PlanIds

PlanInit ==
    /\ planCall = [p \in PlanIds |-> [pc |-> "idle", seen |-> FALSE, told |-> "none"]]
    /\ decider = [c \in Deciders |-> IdleDecider]
    /\ sidecar = [p \in PlanIds |-> "none"]
    /\ projStatus = [j \in Projects |-> "draft"]
    /\ board = [p \in PlanIds |-> 0]
    /\ misled = {} /\ lost = {}

-----------------------------------------------------------------------------
(***************************************************************************)
(* The agent's plan_submit call.                                           *)
(***************************************************************************)
PlanGoto(p, label) == planCall' = [planCall EXCEPT ![p].pc = label]

PlanReturn(p, answer) ==
    planCall' = [planCall EXCEPT ![p] = [pc |-> "done", seen |-> FALSE, told |-> answer]]

\* Check the project, draw the id and write the artifacts, all before the lock.
BeginPlan(p) ==
    /\ planCall[p].pc = "idle"
    /\ \A q \in PlanIds : q < p => planCall[q].pc # "idle"
    /\ IF projStatus[PlanProject[p]] \in {"active", "draft"}
       THEN PlanGoto(p, "enqueue") /\ sidecar' = [sidecar EXCEPT ![p] = "pending_approval"]
       ELSE PlanReturn(p, "error") /\ UNCHANGED sidecar
    /\ UNCHANGED <<gateVars, decider, projStatus, board, misled, lost>>

MayEnqueuePlan(p) ==
    /\ session[PlanOwner[p]] = "active"
    /\ count_non_terminal(planReq, PlanTerminal) < MaxPlan
    /\ BellFree(PlanOwner[p], "needs_plan_approval")

EnqueuePlan(p) ==
    /\ planCall[p].pc = "enqueue"
    /\ MayEnqueuePlan(p)
    /\ needsUser' = set_needs_user(PlanOwner[p], "needs_plan_approval")
    /\ planReq' = cap_plan_approval_requests(
                    [planReq EXCEPT ![p].in = TRUE, ![p].status = "pending_approval"])
    /\ PlanGoto(p, "poll")
    /\ UNCHANGED <<session, pushReq, decider, sidecar, projStatus, board, misled, lost>>

RefusePlan(p) ==
    /\ planCall[p].pc = "enqueue"
    /\ ~MayEnqueuePlan(p) \/ "lock" \in PlanFaults
    /\ PlanReturn(p, "error")
    /\ UNCHANGED <<gateVars, decider, sidecar, projStatus, board, misled, lost>>

PollPlan(p) ==
    /\ planCall[p].pc = "poll"
    /\ \/ /\ planReq[p].in /\ planReq[p].status \in PlanVerdict
          /\ PlanReturn(p, planReq[p].status)
       \/ /\ planReq[p].in /\ planReq[p].status \notin PlanVerdict
          /\ planCall' = [planCall EXCEPT ![p].seen = TRUE]
       \/ /\ ~planReq[p].in /\ planCall[p].seen
          /\ PlanGoto(p, "vanished")
       \/ /\ "lock" \in PlanFaults
          /\ PlanReturn(p, "error")
    /\ UNCHANGED <<gateVars, decider, sidecar, projStatus, board, misled, lost>>

PollPlanDeadline(p) ==
    /\ planCall[p].pc = "poll"
    /\ PlanGoto(p, "sweep")
    /\ UNCHANGED <<gateVars, decider, sidecar, projStatus, board, misled, lost>>

ReportVanishedPlan(p) ==
    /\ planCall[p].pc = "vanished"
    /\ \/ needsUser' = clear_gate_needs_user_if_idle(
                          PlanOwner[p], "needs_plan_approval", {}, {p})
       \/ "lock" \in PlanFaults /\ UNCHANGED needsUser
    /\ PlanReturn(p, "vanished")
    /\ UNCHANGED <<session, pushReq, planReq, decider, sidecar, projStatus, board, misled, lost>>

\* The timeout sweep under the lock; the sidecar is written after it.
SweepPlan(p) ==
    /\ planCall[p].pc = "sweep"
    /\ \E final \in PlanTerminal :
          /\ \/ /\ planReq[p].in /\ planReq[p].status = "pending_approval"
                /\ final = "timeout"
                /\ planReq' = [planReq EXCEPT ![p].status = final]
                /\ needsUser' = clear_gate_needs_user_if_idle(
                                   PlanOwner[p], "needs_plan_approval", {}, {p})
                /\ UNCHANGED lost
             \/ /\ planReq[p].in /\ final = planReq[p].status
                /\ UNCHANGED <<needsUser, planReq, lost>>
             \/ /\ ~planReq[p].in
                /\ final = "timeout"
                /\ UNCHANGED <<needsUser, planReq, lost>>
             \/ /\ "lock" \in PlanFaults
                /\ final = "timeout" /\ lost' = lost \cup {p}
                /\ UNCHANGED <<needsUser, planReq>>
          /\ planCall' = [planCall EXCEPT ![p].pc = "sidecar", ![p].told = final]
    /\ UNCHANGED <<session, pushReq, decider, sidecar, projStatus, board, misled>>

WriteFails(p) == "write" \in PlanFaults /\ lost' = lost \cup {p}

\* Mutant: the sidecar takes the agent's timeout although the verdict won.
SidecarTimeout(p) ==
    /\ planCall[p].pc = "sidecar"
    /\ sidecar' = [sidecar EXCEPT ![p] = "timeout"]
    /\ PlanReturn(p, planCall[p].told)
    /\ UNCHANGED <<gateVars, decider, projStatus, board, misled, lost>>

AgentUpdateSidecar(p) ==
    /\ planCall[p].pc = "sidecar"
    /\ \/ sidecar' = [sidecar EXCEPT ![p] = planCall[p].told] /\ UNCHANGED lost
       \/ WriteFails(p) /\ UNCHANGED sidecar
    /\ PlanReturn(p, planCall[p].told)
    /\ UNCHANGED <<gateVars, decider, projStatus, board, misled>>

KillPlanCall(p) ==
    /\ "kill" \in PlanFaults
    /\ planCall[p].pc \notin {"idle", "done"}
    /\ PlanReturn(p, "none")
    /\ lost' = IF planCall[p].pc = "sidecar" THEN lost \cup {p} ELSE lost
    /\ UNCHANGED <<gateVars, decider, sidecar, projStatus, board, misled>>

PlanCallStep(p) ==
    \/ EnqueuePlan(p) \/ RefusePlan(p) \/ PollPlan(p) \/ PollPlanDeadline(p)
    \/ ReportVanishedPlan(p) \/ SweepPlan(p) \/ AgentUpdateSidecar(p)

-----------------------------------------------------------------------------
(***************************************************************************)
(* The human's decision in the app: decide under the lock, then, without   *)
(* it, update the sidecar, promote the project and nudge the agent.        *)
(***************************************************************************)
\* Mutant: a decided plan can be decided again.
PlanDecidable(r) == r.in

PlanPending(r) == r.in /\ r.status = "pending_approval"

apply_decision(r, approve) ==
    [r EXCEPT !.status = IF approve THEN "approved" ELSE "rejected"]

DecidePlan(c, p, approve) ==
    /\ decider[c].pc = "idle"
    /\ planReq[p].in
    /\ IF PlanPending(planReq[p])
       THEN /\ planReq' = [planReq EXCEPT ![p] = apply_decision(@, approve)]
            /\ needsUser' = clear_needs_user_if_reason(PlanOwner[p], "needs_plan_approval")
       ELSE UNCHANGED <<planReq, needsUser>>
    /\ decider' = [decider EXCEPT ![c] = [pc |-> "sidecar", id |-> p, approve |-> approve,
                                          resolved |-> planReq'[p].status]]
    /\ UNCHANGED <<session, pushReq, planCall, sidecar, projStatus, board, misled, lost>>

AppUpdateSidecar(c) ==
    /\ decider[c].pc = "sidecar"
    /\ \/ sidecar' = [sidecar EXCEPT ![decider[c].id] = decider[c].resolved] /\ UNCHANGED lost
       \/ WriteFails(decider[c].id) /\ UNCHANGED sidecar
    /\ decider' = [decider EXCEPT ![c] = IF decider[c].approve
                                         THEN [@ EXCEPT !.pc = "promote"]
                                         ELSE IdleDecider]
    /\ UNCHANGED <<gateVars, planCall, projStatus, board, misled>>

\* Mutant: the promotion is skipped.
PromoteNothing(c) ==
    /\ decider[c].pc = "promote"
    /\ decider' = [decider EXCEPT ![c].pc = "nudge"]
    /\ UNCHANGED <<gateVars, planCall, sidecar, projStatus, board, misled, lost>>

promote_draft_project_to_active(c) ==
    /\ decider[c].pc = "promote"
    /\ \/ /\ projStatus' = [projStatus EXCEPT
                  ![PlanProject[decider[c].id]] = IF @ = "draft" THEN "active" ELSE @]
          /\ UNCHANGED lost
       \/ WriteFails(decider[c].id) /\ UNCHANGED projStatus
    /\ decider' = [decider EXCEPT ![c].pc = "nudge"]
    /\ UNCHANGED <<gateVars, planCall, sidecar, board, misled>>

\* The prompt goes to the agent's console when it has a live one; if not, a Main coder is
\* queued for the project's first todo when there is one.
nudge_orchestrator_after_plan_approve(c) ==
    /\ decider[c].pc = "nudge"
    /\ misled' = IF decider[c].resolved = "approved"
                  THEN misled ELSE misled \cup {decider[c].id}
    /\ decider' = [decider EXCEPT ![c] = IdleDecider]
    /\ UNCHANGED <<gateVars, planCall, sidecar, projStatus, board, lost>>

DeciderStep(c) ==
    \/ AppUpdateSidecar(c) \/ promote_draft_project_to_active(c)
    \/ nudge_orchestrator_after_plan_approve(c)

\* The command has the sidecar to write or the promotion to do.
Deciding(c, p) == decider[c].id = p /\ decider[c].pc \in {"sidecar", "promote"}

PlanAppCrash ==
    /\ "crash" \in PlanFaults
    /\ \E c \in Deciders : decider[c].pc # "idle"
    /\ decider' = [c \in Deciders |-> IdleDecider]
    /\ lost' = lost \cup {p \in PlanIds : \E c \in Deciders : Deciding(c, p)}
    /\ UNCHANGED <<gateVars, planCall, sidecar, projStatus, board, misled>>

\* The human pauses or resumes a project.
PauseProject(j) ==
    /\ projStatus[j] # "draft"
    /\ projStatus' = [projStatus EXCEPT ![j] = IF @ = "active" THEN "idle" ELSE "active"]
    /\ UNCHANGED <<gateVars, planCall, decider, sidecar, board, misled, lost>>

-----------------------------------------------------------------------------
(***************************************************************************)
(* project_create_plan_tasks: one section under the agents lock and, in    *)
(* it, the project lock.  The project file is written first; a crash or a  *)
(* failed write of the agents file in between loses the tasksCreated flag. *)
(***************************************************************************)
\* Mutant: the sidecar's word is taken for an approval.
MaterializableBySidecar(p) ==
    /\ planReq[p].in
    /\ ~planReq[p].tasksCreated
    /\ projStatus[PlanProject[p]] = "active"
    /\ board[p] = 0

Materializable(p) ==
    /\ planReq[p].in /\ planReq[p].status = "approved"
    /\ ~planReq[p].tasksCreated
    /\ projStatus[PlanProject[p]] = "active"
    /\ board[p] = 0                            \* no board task carries this planId

MaterializePlan(a, p) ==
    /\ Materializable(p)
    /\ board' = [board EXCEPT ![p] = @ + 1]
    /\ planReq' = [planReq EXCEPT ![p].tasksCreated = TRUE]
    /\ upsert_session(a, "plan_tasks")
    /\ UNCHANGED <<pushReq, planCall, decider, sidecar, projStatus, misled, lost>>

MaterializeInterrupted(p) ==
    /\ "kill" \in PlanFaults
    /\ Materializable(p)
    /\ board' = [board EXCEPT ![p] = @ + 1]
    /\ UNCHANGED <<gateVars, planCall, decider, sidecar, projStatus, misled, lost>>

PlanNext ==
    \/ \E p \in PlanIds : \/ BeginPlan(p) \/ PlanCallStep(p) \/ KillPlanCall(p)
                          \/ MaterializeInterrupted(p)
                          \/ \E a \in Agents : MaterializePlan(a, p)
    \/ \E c \in Deciders : \/ DeciderStep(c)
                           \/ \E p \in PlanIds, approve \in BOOLEAN :
                                 DecidePlan(c, p, approve)
    \/ \E j \in Projects : PauseProject(j)
    \/ PlanAppCrash

-----------------------------------------------------------------------------
(***************************************************************************)
(* The plan gate alone: no push is ever requested.                         *)
(***************************************************************************)
PlanOnlyInit == GateInit /\ PlanInit

planOnlyVars == <<gateVars, planLocal>>

PlanOnlySpec == PlanOnlyInit /\ [][PlanNext]_planOnlyVars

PlanOnlyTypeOK == GateTypeOK /\ PlanTypeOK

-----------------------------------------------------------------------------
(***************************************************************************)
(* Properties.                                                             *)
(***************************************************************************)

\* A plan leaves the queue only when nothing is left to do for it: never while it
\* is pending, and never approved with its tasks still to be created.
PlanEvictionSafe ==
    [][\A p \in PlanIds : planReq[p].in /\ ~planReq'[p].in
                            => /\ planReq'[p].status \in PlanTerminal
                               /\ planReq'[p].status = "approved" => board[p] = 1]_planReq

\* The sidecar never shows a human verdict that the queue does not hold, however
\* the unlocked writes of the agent and of the app are ordered.
SidecarVerdictTrue ==
    \A p \in PlanIds : sidecar[p] \in PlanVerdict => planReq[p].status = sidecar[p]

\* Once the call has returned and no decision is being carried out, the sidecar of a plan
\* in the queue shows the queue's status, however the unlocked writes of the agent and of
\* the app were ordered, unless one of them failed or was never reached or a sweep did not
\* get the lock.
SidecarSettled ==
    \A p \in PlanIds \ lost :
        /\ planReq[p].in /\ planCall[p].pc = "done"
        /\ \A c \in Deciders : decider[c].id # p
        => sidecar[p] = planReq[p].status

\* An approval is not inert: the project of an approved plan has left draft, or the
\* command that approved the plan will still promote it, or its promotion failed or was cut
\* short by the app's death (and nothing repeats it).
ApprovalPromotes ==
    \A p \in PlanIds \ lost :
        planReq[p].status = "approved" /\ projStatus[PlanProject[p]] = "draft"
            => \E c \in Deciders : Deciding(c, p) /\ decider[c].approve

\* decide_plan_request: "Plan approved => the project graduates from draft ... a
\* deny leaves the draft hidden": a project that left draft has an approved plan, and
\* an agent was told "Plan APPROVED by the human" of an approved plan only.
PromotionMeansApproved ==
    /\ \A j \in Projects : projStatus[j] # "draft" =>
          \E p \in PlanIds : PlanProject[p] = j /\ planReq[p].status = "approved"
    /\ misled = {}

-----------------------------------------------------------------------------
(***************************************************************************)
(* The plan gate implements the abstract approval gate: its effect is      *)
(* putting the plan's tasks on the board.                                  *)
(***************************************************************************)
PlanVerdictOf(status) ==
    CASE status = "none" -> "none"
      [] status = "pending_approval" -> "asked"
      [] status = "approved" -> "granted"
      [] OTHER -> "refused"

PlanVerdicts == [p \in PlanIds |-> PlanVerdictOf(planReq[p].status)]

PlanApprovalGate == INSTANCE ApprovalGate
                        WITH Requests <- PlanIds, verdict <- PlanVerdicts, effects <- board

\* Every behaviour of the queue, the decisions, the sweeps and an interrupted
\* materialization is one of the abstract gate.
PlanImplementsGate == PlanApprovalGate!Spec
=============================================================================
