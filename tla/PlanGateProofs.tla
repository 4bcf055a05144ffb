---------------------------- MODULE PlanGateProofs ----------------------------
(***************************************************************************)
(* Proofs about the plan gate, for any agents, plans, projects and any     *)
(* number of decide commands, with every fault the model knows.            *)
(*                                                                         *)
(* The sidecar is written without a lock by two processes from values they *)
(* read earlier.  What makes that safe is that a terminal status is final, *)
(* so a value read from the queue and carried past the unlock (the told of *)
(* a call, the resolved of a decide command) is still what the queue says  *)
(* when it is written.  PlanInv says so.  SettledInv adds who still has to *)
(* write the sidecar and PromoteInv who still has to promote the project,  *)
(* of the plans for which no such write failed or was cut short.           *)
(***************************************************************************)
EXTENDS PlanGate, TLAPS

\* Row, call, board and sidecar of plan p agree.
PlanRowInv(p) ==
    /\ planReq[p].in => planReq[p].status # "none"
    /\ planCall[p].pc \in {"idle", "enqueue"} => planReq[p].status = "none"
    /\ board[p] <= 1
    /\ planReq[p].tasksCreated => board[p] = 1
    /\ planCall[p].pc = "sidecar" => planCall[p].told \in PlanTerminal
    /\ planCall[p].told \in PlanVerdict => planReq[p].status = planCall[p].told
    /\ sidecar[p] \in PlanVerdict => planReq[p].status = sidecar[p]

\* What a decide command carries past the unlock is still true.
DecideInv(c) ==
    decider[c].pc # "idle" =>
        /\ decider[c].id \in PlanIds
        /\ planReq[decider[c].id].status \in PlanTerminal
        /\ decider[c].resolved = planReq[decider[c].id].status

PlanInv ==
    /\ PlanOnlyTypeOK
    /\ \A p \in PlanIds : PlanRowInv(p)
    /\ \A c \in Deciders : DecideInv(c)

\* What a step does to the verdicts and the board: the same shape as the abstract gate.
PlanDecided(p) ==
    \/ planReq[p].status = "none" /\ planReq'[p].status = "pending_approval"
    \/ planReq[p].status = "pending_approval" /\ planReq'[p].status \in PlanTerminal

SameStatus(p) == planReq'[p].status = planReq[p].status

EvictStep ==
    \A p \in PlanIds : planReq[p].in /\ ~planReq'[p].in
                         => /\ planReq'[p].status \in PlanTerminal
                            /\ planReq'[p].status = "approved" => board[p] = 1

PlanStep ==
    /\ EvictStep
    /\ \/ /\ \A p \in PlanIds : SameStatus(p)
          /\ \/ board' = board
             \/ \E p \in PlanIds : /\ planReq[p].status = "approved" /\ board[p] = 0
                                   /\ board' = [board EXCEPT ![p] = 1]
       \/ /\ \E p \in PlanIds : PlanDecided(p) /\ \A q \in PlanIds \ {p} : SameStatus(q)
          /\ board' = board

\* Who still has to write the sidecar, unless a write was lost.
SettledInv(p) ==
    /\ planCall[p].pc = "vanished" => ~planReq[p].in
    /\ planCall[p].pc = "enqueue" => sidecar[p] = "pending_approval"
    /\ p \notin lost /\ planReq[p].in =>
       /\ planReq[p].status = "pending_approval"
             => sidecar[p] = "pending_approval" /\ planCall[p].pc # "sidecar"
       /\ planReq[p].status \in PlanVerdict /\ sidecar[p] # planReq[p].status
             => \E c \in Deciders : decider[c].pc = "sidecar" /\ decider[c].id = p
       /\ planReq[p].status = "timeout" /\ sidecar[p] # "timeout"
             => planCall[p].pc = "sidecar"
       /\ planCall[p].pc = "sidecar" => planCall[p].told = planReq[p].status

SettleInv == PlanInv /\ \A p \in PlanIds : SettledInv(p)

-----------------------------------------------------------------------------
(***************************************************************************)
(* The queue and the bell.                                                 *)
(***************************************************************************)

\* What the retention cap may do: rows keep their content, and only rows with nothing
\* left to do lose their place in the file.
KeepsPlans(q, r) ==
    /\ r \in [PlanIds -> PlanRow]
    /\ \A p \in PlanIds :
          /\ r[p].status = q[p].status /\ r[p].tasksCreated = q[p].tasksCreated
          /\ r[p].in => q[p].in
          /\ q[p].in /\ ~r[p].in => /\ q[p].status \in PlanTerminal
                                    /\ q[p].status = "approved" => q[p].tasksCreated

\* cap_plan_approval_requests does no more than that.
LEMMA CapKeepsPlans ==
    ASSUME NEW q \in [PlanIds -> PlanRow]
    PROVE  KeepsPlans(q, cap_plan_approval_requests(q))
<1> DEFINE gone == Evicted(q, PlanEvictable(q), MaxPlan)
           r == EvictFrom(q, gone)
<1>1. \A p \in gone : /\ q[p].status \in PlanTerminal
                      /\ q[p].status = "approved" => q[p].tasksCreated
  BY DEF Evicted, PlanEvictable
<1>2. r = [p \in PlanIds |-> [q[p] EXCEPT !.in = @ /\ p \notin gone]]
  BY DEF EvictFrom
<1> HIDE DEF gone, r
<1>3. ASSUME NEW p \in PlanIds
      PROVE  /\ r[p] \in PlanRow
             /\ r[p].status = q[p].status /\ r[p].tasksCreated = q[p].tasksCreated
             /\ r[p].in <=> q[p].in /\ p \notin gone
  <2>1. q[p] \in PlanRow
    OBVIOUS
  <2>2. r[p] = [q[p] EXCEPT !.in = @ /\ p \notin gone]
    BY <1>2
  <2> QED BY <2>1, <2>2 DEF PlanRow
<1>4. r \in [PlanIds -> PlanRow]
  BY <1>2, <1>3
<1>5. r = cap_plan_approval_requests(q)
  BY DEF r, gone, cap_plan_approval_requests
<1> QED BY <1>1, <1>3, <1>4, <1>5 DEF KeepsPlans

\* The bell stays a known reason.
LEMMA PlanBellType ==
    ASSUME needsUser \in [Agents -> Reasons], NEW a \in Agents, NEW E, NEW F
    PROVE  /\ set_needs_user(a, "needs_plan_approval") \in [Agents -> Reasons]
           /\ clear_needs_user_if_reason(a, "needs_plan_approval") \in [Agents -> Reasons]
           /\ clear_gate_needs_user_if_idle(a, "needs_plan_approval", E, F)
                 \in [Agents -> Reasons]
BY DEF set_needs_user, clear_gate_needs_user_if_idle, clear_needs_user_if_reason, Reasons

CallType == [PlanIds ->
          [pc: {"idle", "enqueue", "poll", "vanished", "sweep", "sidecar", "done"},
           seen: BOOLEAN, told: {"error", "vanished"} \cup PlanStatus]]

DeciderType == [Deciders ->
          [pc: {"idle", "sidecar", "promote", "nudge"}, id: PlanIds \cup {NoPlan},
           approve: BOOLEAN, resolved: PlanStatus]]

\* The types, one variable at a time.
LEMMA PlanTypes ==
    ASSUME PlanInv
    PROVE  /\ session \in [Agents -> SessionStatus] /\ needsUser \in [Agents -> Reasons]
           /\ planReq \in [PlanIds -> PlanRow]
           /\ planCall \in CallType /\ decider \in DeciderType
           /\ sidecar \in [PlanIds -> PlanStatus]
           /\ projStatus \in [Projects -> {"draft", "active", "idle"}]
           /\ board \in [PlanIds -> Nat] /\ misled \subseteq PlanIds
           /\ lost \subseteq PlanIds
BY DEF PlanInv, PlanOnlyTypeOK, GateTypeOK, PlanTypeOK, CallType, DeciderType

-----------------------------------------------------------------------------
(***************************************************************************)
(* PlanInv is inductive and every step is a PlanStep.                      *)
(***************************************************************************)

\* What a step that leaves the queue alone may do to a call and to the sidecar.
CarryStep ==
    \A p \in PlanIds :
        /\ planCall'[p].pc \in {"idle", "enqueue"} => planCall[p].pc \in {"idle", "enqueue"}
        /\ planCall'[p].pc = "sidecar" => planCall[p].pc = "sidecar"
                                        /\ planCall'[p].told = planCall[p].told
        /\ planCall'[p].told \in PlanVerdict => planReq[p].status = planCall'[p].told
        /\ sidecar'[p] \in PlanVerdict => planReq[p].status = sidecar'[p]

\* The steps of a call that leave the queue alone.
LEMMA CallCarries ==
    ASSUME PlanInv, NEW p \in PlanIds,
           \/ BeginPlan(p) \/ RefusePlan(p) \/ PollPlan(p) \/ PollPlanDeadline(p)
           \/ ReportVanishedPlan(p) \/ AgentUpdateSidecar(p) \/ KillPlanCall(p)
    PROVE  /\ planCall' \in CallType /\ sidecar' \in [PlanIds -> PlanStatus]
           /\ CarryStep
<1>1. planCall \in CallType /\ sidecar \in [PlanIds -> PlanStatus]
  BY PlanTypes
<1>2. \A q \in PlanIds :
         /\ planCall[q].told \in PlanVerdict => planReq[q].status = planCall[q].told
         /\ sidecar[q] \in PlanVerdict => planReq[q].status = sidecar[q]
  BY DEF PlanInv, PlanRowInv
<1>3. ASSUME NEW label \in {"enqueue", "vanished", "sweep"}, PlanGoto(p, label),
             label = "enqueue" => planCall[p].pc = "idle",
             \/ sidecar' = sidecar
             \/ sidecar' = [sidecar EXCEPT ![p] = "pending_approval"]
      PROVE  planCall' \in CallType /\ sidecar' \in [PlanIds -> PlanStatus] /\ CarryStep
  <2>1. planCall' \in CallType /\ sidecar' \in [PlanIds -> PlanStatus]
    BY <1>1, <1>3 DEF PlanGoto, CallType, PlanStatus
  <2>2. \A q \in PlanIds : sidecar'[q] \in PlanVerdict => planReq[q].status = sidecar'[q]
    BY <1>1, <1>2, <1>3 DEF PlanVerdict
  <2>3. \A q \in PlanIds :
          /\ planCall'[q].told = planCall[q].told
          /\ planCall'[q].pc \in {"idle", "enqueue"} => planCall[q].pc \in {"idle", "enqueue"}
          /\ planCall'[q].pc = "sidecar" => planCall[q].pc = "sidecar"
                                          /\ planCall'[q].told = planCall[q].told
    BY <1>1, <1>3 DEF PlanGoto, CallType
  <2> QED BY <1>2, <2>1, <2>2, <2>3 DEF CarryStep
<1>4. ASSUME NEW answer \in {"error", "vanished"} \cup PlanStatus, PlanReturn(p, answer),
             answer \in PlanVerdict => planReq[p].status = answer,
             sidecar' = sidecar \/ sidecar' = [sidecar EXCEPT ![p] = answer],
             sidecar' \in [PlanIds -> PlanStatus]
      PROVE  planCall' \in CallType /\ CarryStep
  <2>1. planCall' \in CallType
    BY <1>1, <1>4 DEF PlanReturn, CallType
  <2>2. \A q \in PlanIds : sidecar'[q] \in PlanVerdict => planReq[q].status = sidecar'[q]
    BY <1>1, <1>2, <1>4
  <2>3. \A q \in PlanIds :
          /\ planCall'[q].told \in PlanVerdict => planReq[q].status = planCall'[q].told
          /\ planCall'[q].pc \in {"idle", "enqueue"} => planCall[q].pc \in {"idle", "enqueue"}
          /\ planCall'[q].pc = "sidecar" => planCall[q].pc = "sidecar"
                                          /\ planCall'[q].told = planCall[q].told
    BY <1>1, <1>2, <1>4 DEF PlanReturn, CallType
  <2> QED BY <2>1, <2>2, <2>3 DEF CarryStep
<1>5. CASE BeginPlan(p) \/ PollPlanDeadline(p)
  BY <1>1, <1>3, <1>4, <1>5 DEF BeginPlan, PollPlanDeadline, PlanVerdict
<1>6. CASE RefusePlan(p) \/ ReportVanishedPlan(p) \/ KillPlanCall(p)
  <2>1. /\ sidecar' = sidecar
        /\ PlanReturn(p, "error") \/ PlanReturn(p, "vanished") \/ PlanReturn(p, "none")
    BY <1>6 DEF RefusePlan, ReportVanishedPlan, KillPlanCall
  <2> QED BY <1>1, <1>4, <2>1 DEF PlanVerdict, PlanStatus
<1>7. CASE PollPlan(p)
  <2>1. sidecar' = sidecar
    BY <1>7 DEF PollPlan
  <2>2. CASE planCall' = [planCall EXCEPT ![p].seen = TRUE]
    BY <1>1, <1>2, <2>1, <2>2 DEF CarryStep, CallType
  <2>3. CASE PlanGoto(p, "vanished")
    BY <1>3, <2>1, <2>3
  <2>4. CASE PlanReturn(p, "error")
    BY <1>1, <1>4, <2>1, <2>4 DEF PlanVerdict
  <2>5. CASE PlanReturn(p, planReq[p].status)
    <3>1. planReq[p].status \in PlanStatus
      BY PlanTypes DEF PlanRow
    <3> QED BY <1>1, <1>4, <2>1, <2>5, <3>1
  <2> QED BY <1>7, <2>2, <2>3, <2>4, <2>5 DEF PollPlan
<1>8. CASE AgentUpdateSidecar(p)
  <2> DEFINE answer == planCall[p].told
  <2>1. /\ sidecar' = sidecar \/ sidecar' = [sidecar EXCEPT ![p] = answer]
        /\ PlanReturn(p, answer) /\ planCall[p].pc = "sidecar"
    BY <1>8 DEF AgentUpdateSidecar
  <2>2. /\ answer \in PlanStatus
        /\ answer \in PlanVerdict => planReq[p].status = answer
    BY <2>1 DEF PlanInv, PlanRowInv, PlanStatus
  <2> HIDE DEF answer
  <2>3. sidecar' \in [PlanIds -> PlanStatus]
    BY <1>1, <2>1, <2>2
  <2> QED BY <1>4, <2>1, <2>2, <2>3
<1> QED BY <1>5, <1>6, <1>7, <1>8

\* They keep the invariant.
LEMMA CarryKeeps ==
    ASSUME PlanInv, NEW p \in PlanIds,
           \/ BeginPlan(p) \/ RefusePlan(p) \/ PollPlan(p) \/ PollPlanDeadline(p)
           \/ ReportVanishedPlan(p) \/ AgentUpdateSidecar(p) \/ KillPlanCall(p)
    PROVE  PlanInv' /\ PlanStep
<1>1. UNCHANGED <<session, pushReq, planReq, decider, projStatus, board, misled>>
  BY DEF BeginPlan, RefusePlan, PollPlan, PollPlanDeadline, ReportVanishedPlan,
         AgentUpdateSidecar, KillPlanCall, gateVars
<1>2. needsUser' \in [Agents -> Reasons]
  <2>1. PlanOwner[p] \in Agents
    BY GateConstants
  <2>2. CASE ReportVanishedPlan(p)
    BY <2>1, <2>2, PlanTypes, PlanBellType DEF ReportVanishedPlan
  <2>3. CASE ~ReportVanishedPlan(p)
    BY <2>3, PlanTypes DEF BeginPlan, RefusePlan, PollPlan, PollPlanDeadline,
       AgentUpdateSidecar, KillPlanCall, gateVars
  <2> QED BY <2>2, <2>3
<1>3. planCall' \in CallType /\ sidecar' \in [PlanIds -> PlanStatus] /\ CarryStep
  BY CallCarries
<1>4. PlanOnlyTypeOK'
  <2>1. lost' \subseteq PlanIds
    BY PlanTypes DEF BeginPlan, RefusePlan, PollPlan, PollPlanDeadline, ReportVanishedPlan,
       AgentUpdateSidecar, KillPlanCall, WriteFails
  <2> QED BY <1>1, <1>2, <1>3, <2>1
          DEF PlanInv, PlanOnlyTypeOK, GateTypeOK, PlanTypeOK, CallType
<1>5. \A q \in PlanIds : PlanRowInv(q)'
  BY <1>1, <1>3 DEF PlanInv, PlanRowInv, CarryStep
<1>6. \A c \in Deciders : DecideInv(c)'
  BY <1>1 DEF PlanInv, DecideInv
<1>7. PlanStep
  BY <1>1 DEF PlanStep, EvictStep, SameStatus
<1> QED BY <1>4, <1>5, <1>6, <1>7 DEF PlanInv

\* The plan enters the queue: nothing was decided about it before.
LEMMA EnqueuePlanKeeps ==
    ASSUME PlanInv, NEW p \in PlanIds, EnqueuePlan(p)
    PROVE  PlanInv' /\ PlanStep
<1> DEFINE q == [planReq EXCEPT ![p].in = TRUE, ![p].status = "pending_approval"]
<1>1. /\ UNCHANGED <<session, pushReq, decider, sidecar, projStatus, board, misled, lost>>
      /\ planCall[p].pc = "enqueue" /\ planCall' = [planCall EXCEPT ![p].pc = "poll"]
      /\ planReq' = cap_plan_approval_requests(q)
      /\ needsUser' = set_needs_user(PlanOwner[p], "needs_plan_approval")
  BY DEF EnqueuePlan, PlanGoto
<1>2. planReq \in [PlanIds -> PlanRow] /\ planReq[p] \in PlanRow
  BY PlanTypes
<1>3. /\ q \in [PlanIds -> PlanRow]
      /\ q[p].status = "pending_approval" /\ q[p].tasksCreated = planReq[p].tasksCreated
      /\ \A r \in PlanIds \ {p} : q[r] = planReq[r]
  BY <1>2 DEF PlanRow, PlanStatus
<1> HIDE DEF q
<1>4. KeepsPlans(q, planReq')
  BY <1>1, <1>3, CapKeepsPlans
<1>5. /\ planReq' \in [PlanIds -> PlanRow]
      /\ planReq'[p].status = "pending_approval"
      /\ planReq'[p].tasksCreated = planReq[p].tasksCreated
      /\ \A r \in PlanIds \ {p} :
            /\ planReq'[r].status = planReq[r].status
            /\ planReq'[r].tasksCreated = planReq[r].tasksCreated
            /\ planReq'[r].in => planReq[r].in
            /\ planReq[r].in /\ ~planReq'[r].in =>
                  /\ planReq[r].status \in PlanTerminal
                  /\ planReq[r].status = "approved" => planReq[r].tasksCreated
  BY <1>3, <1>4 DEF KeepsPlans
<1>6. /\ planReq[p].status = "none" /\ ~planReq[p].in
      /\ planCall[p].told \notin PlanVerdict /\ sidecar[p] \notin PlanVerdict
  BY <1>1 DEF PlanInv, PlanRowInv, PlanVerdict
<1>7. /\ planCall' \in CallType /\ planCall'[p].pc = "poll"
      /\ \A r \in PlanIds : planCall'[r].told = planCall[r].told
      /\ \A r \in PlanIds \ {p} : planCall'[r] = planCall[r]
  BY <1>1, PlanTypes DEF CallType
<1>8. PlanOnlyTypeOK'
  <2>1. needsUser' \in [Agents -> Reasons]
    BY <1>1, GateConstants, PlanTypes, PlanBellType
  <2> QED BY <1>1, <1>5, <1>7, <2>1 DEF PlanInv, PlanOnlyTypeOK, GateTypeOK, PlanTypeOK, CallType
<1>9. ASSUME NEW r \in PlanIds PROVE PlanRowInv(r)'
  <2>1. CASE r = p
    BY <1>1, <1>5, <1>6, <1>7, <2>1 DEF PlanInv, PlanRowInv
  <2>2. CASE r # p
    BY <1>1, <1>5, <1>7, <2>2 DEF PlanInv, PlanRowInv
  <2> QED BY <2>1, <2>2
<1>10. \A c \in Deciders : DecideInv(c)'
  BY <1>1, <1>5, <1>6 DEF PlanInv, DecideInv, PlanTerminal
<1>11. EvictStep
  <2>1. \A r \in PlanIds : planReq[r].tasksCreated => board[r] = 1
    BY DEF PlanInv, PlanRowInv
  <2> QED BY <1>5, <1>6, <2>1 DEF EvictStep
<1>12. PlanStep
  BY <1>1, <1>5, <1>6, <1>11 DEF PlanStep, PlanDecided, SameStatus
<1> QED BY <1>8, <1>9, <1>10, <1>12 DEF PlanInv

\* The timeout sweep stamps a pending plan, or takes the verdict that won.
LEMMA SweepPlanKeeps ==
    ASSUME PlanInv, NEW p \in PlanIds, SweepPlan(p)
    PROVE  PlanInv' /\ PlanStep
<1>1. /\ UNCHANGED <<session, pushReq, decider, sidecar, projStatus, board, misled>>
      /\ planCall[p].pc = "sweep"
  BY DEF SweepPlan
<1>2. PICK final \in PlanTerminal :
         /\ planCall' = [planCall EXCEPT ![p].pc = "sidecar", ![p].told = final]
         /\ \/ /\ planReq[p].in /\ planReq[p].status = "pending_approval" /\ final = "timeout"
               /\ planReq' = [planReq EXCEPT ![p].status = "timeout"]
               /\ needsUser' = clear_gate_needs_user_if_idle(
                                  PlanOwner[p], "needs_plan_approval", {}, {p})
            \/ /\ final = "timeout" \/ final = planReq[p].status
               /\ UNCHANGED <<needsUser, planReq>>
  BY DEF SweepPlan
<1>3. planReq \in [PlanIds -> PlanRow] /\ planReq[p] \in PlanRow
  BY PlanTypes
<1>4. /\ planReq' \in [PlanIds -> PlanRow]
      /\ \A r \in PlanIds \ {p} : planReq'[r] = planReq[r]
      /\ planReq'[p].in = planReq[p].in /\ planReq'[p].tasksCreated = planReq[p].tasksCreated
      /\ \/ planReq'[p].status = planReq[p].status
         \/ planReq[p].status = "pending_approval" /\ planReq'[p].status = "timeout"
      /\ final # "timeout" => planReq'[p].status = final
  BY <1>2, <1>3 DEF PlanRow, PlanStatus, PlanTerminal
<1>5. /\ planCall' \in CallType /\ planCall'[p].pc = "sidecar" /\ planCall'[p].told = final
      /\ \A r \in PlanIds \ {p} : planCall'[r] = planCall[r]
  <2>1. planCall \in CallType
    BY PlanTypes
  <2> QED BY <1>2, <2>1 DEF CallType, PlanStatus
<1>6. PlanOnlyTypeOK'
  <2>1. needsUser' \in [Agents -> Reasons]
    BY <1>2, GateConstants, PlanTypes, PlanBellType
  <2>2. lost' \subseteq PlanIds
    BY PlanTypes DEF SweepPlan
  <2> QED BY <1>1, <1>4, <1>5, <2>1, <2>2
          DEF PlanInv, PlanOnlyTypeOK, GateTypeOK, PlanTypeOK, CallType
<1>7. ASSUME NEW r \in PlanIds PROVE PlanRowInv(r)'
  <2>1. CASE r = p
    BY <1>1, <1>4, <1>5, <2>1 DEF PlanInv, PlanRowInv, PlanVerdict
  <2>2. CASE r # p
    BY <1>1, <1>4, <1>5, <2>2 DEF PlanInv, PlanRowInv
  <2> QED BY <2>1, <2>2
<1>8. \A c \in Deciders : DecideInv(c)'
  BY <1>1, <1>4 DEF PlanInv, DecideInv, PlanTerminal
<1>9. PlanStep
  BY <1>1, <1>4 DEF PlanStep, EvictStep, PlanDecided, SameStatus, PlanTerminal
<1> QED BY <1>6, <1>7, <1>8, <1>9 DEF PlanInv

\* The human decides a pending plan; a second click finds the verdict and keeps it.
LEMMA DecideKeeps ==
    ASSUME PlanInv, NEW c \in Deciders, NEW p \in PlanIds, NEW approve \in BOOLEAN,
           DecidePlan(c, p, approve)
    PROVE  PlanInv' /\ PlanStep
<1>1. /\ UNCHANGED <<session, pushReq, planCall, sidecar, projStatus, board, misled, lost>>
      /\ planReq[p].in
      /\ decider' = [decider EXCEPT ![c] = [pc |-> "sidecar", id |-> p, approve |-> approve,
                                            resolved |-> planReq'[p].status]]
  BY DEF DecidePlan
<1>2. planReq \in [PlanIds -> PlanRow] /\ planReq[p] \in PlanRow
  BY PlanTypes
<1>3. \/ UNCHANGED <<planReq, needsUser>> /\ planReq[p].status \in PlanTerminal
      \/ /\ planReq[p].status = "pending_approval"
         /\ planReq' = [planReq EXCEPT ![p] = apply_decision(planReq[p], approve)]
         /\ needsUser' = clear_needs_user_if_reason(PlanOwner[p], "needs_plan_approval")
  BY <1>1, <1>2 DEF DecidePlan, PlanPending, PlanInv, PlanRowInv, PlanRow, PlanStatus
<1>4. /\ planReq' \in [PlanIds -> PlanRow]
      /\ \A r \in PlanIds \ {p} : planReq'[r] = planReq[r]
      /\ planReq'[p].in = planReq[p].in /\ planReq'[p].tasksCreated = planReq[p].tasksCreated
      /\ planReq'[p].status \in PlanTerminal
      /\ planReq[p].status \in {planReq'[p].status, "pending_approval"}
  BY <1>2, <1>3 DEF apply_decision, PlanRow, PlanStatus, PlanTerminal
<1>5. /\ decider' \in DeciderType /\ decider'[c].id = p
      /\ decider'[c].resolved = planReq'[p].status
      /\ \A d \in Deciders \ {c} : decider'[d] = decider[d]
  BY <1>1, <1>4, PlanTypes DEF DeciderType, PlanStatus
<1>6. PlanOnlyTypeOK'
  <2>1. needsUser' \in [Agents -> Reasons]
    BY <1>3, GateConstants, PlanTypes, PlanBellType
  <2> QED BY <1>1, <1>4, <1>5, <2>1
          DEF PlanInv, PlanOnlyTypeOK, GateTypeOK, PlanTypeOK, DeciderType
<1>7. ASSUME NEW r \in PlanIds PROVE PlanRowInv(r)'
  <2>1. CASE r = p
    BY <1>1, <1>4, <2>1 DEF PlanInv, PlanRowInv, PlanVerdict, PlanTerminal
  <2>2. CASE r # p
    BY <1>1, <1>4, <2>2 DEF PlanInv, PlanRowInv
  <2> QED BY <2>1, <2>2
<1>8. ASSUME NEW d \in Deciders PROVE DecideInv(d)'
  <2>1. CASE d = c
    BY <1>4, <1>5, <2>1 DEF DecideInv
  <2>2. CASE d # c
    BY <1>4, <1>5, <2>2 DEF PlanInv, DecideInv, PlanTerminal
  <2> QED BY <2>1, <2>2
<1>9. PlanStep
  BY <1>1, <1>4 DEF PlanStep, EvictStep, PlanDecided, SameStatus
<1> QED BY <1>6, <1>7, <1>8, <1>9 DEF PlanInv

\* A decide command after the lock, a crash of the app, a project paused or resumed.
LEMMA AfterDecisionKeeps ==
    ASSUME PlanInv,
           (\E c \in Deciders : DeciderStep(c)) \/ (\E j \in Projects : PauseProject(j))
              \/ PlanAppCrash
    PROVE  PlanInv' /\ PlanStep
<1>1. UNCHANGED <<session, needsUser, pushReq, planReq, planCall, board>>
  BY DEF DeciderStep, AppUpdateSidecar, promote_draft_project_to_active,
         nudge_orchestrator_after_plan_approve, PauseProject, PlanAppCrash, gateVars
<1>2. IdleDecider \in [pc: {"idle", "sidecar", "promote", "nudge"}, id: PlanIds \cup {NoPlan},
                       approve: BOOLEAN, resolved: PlanStatus]
      /\ IdleDecider.pc = "idle"
  BY DEF IdleDecider, PlanStatus
<1>3. /\ decider' \in DeciderType
      /\ \A d \in Deciders : decider'[d].pc # "idle" =>
            /\ decider[d].pc # "idle" /\ decider'[d].id = decider[d].id
            /\ decider'[d].resolved = decider[d].resolved
  <2>1. decider \in DeciderType
    BY PlanTypes
  <2>2. ASSUME NEW c \in Deciders, AppUpdateSidecar(c) PROVE <1>3!1 /\ <1>3!2
    BY <1>2, <2>1, <2>2 DEF AppUpdateSidecar, DeciderType
  <2>3. ASSUME NEW c \in Deciders, promote_draft_project_to_active(c) PROVE <1>3!1 /\ <1>3!2
    BY <2>1, <2>3 DEF promote_draft_project_to_active, DeciderType
  <2>4. ASSUME NEW c \in Deciders, nudge_orchestrator_after_plan_approve(c) PROVE <1>3!1 /\ <1>3!2
    BY <1>2, <2>1, <2>4 DEF nudge_orchestrator_after_plan_approve, DeciderType
  <2>5. CASE \E j \in Projects : PauseProject(j)
    BY <2>1, <2>5 DEF PauseProject
  <2>6. CASE PlanAppCrash
    BY <1>2, <2>6 DEF PlanAppCrash, DeciderType
  <2> QED BY <2>2, <2>3, <2>4, <2>5, <2>6 DEF DeciderStep
<1>4. /\ sidecar' \in [PlanIds -> PlanStatus]
      /\ \A p \in PlanIds : sidecar'[p] \in {sidecar[p], planReq[p].status}
  <2>1. ASSUME NEW c \in Deciders, AppUpdateSidecar(c) PROVE <1>4!1 /\ <1>4!2
    <3>1. /\ decider[c].id \in PlanIds /\ decider[c].resolved \in PlanStatus
          /\ decider[c].resolved = planReq[decider[c].id].status
      BY <2>1 DEF AppUpdateSidecar, PlanInv, DecideInv, PlanStatus
    <3> QED BY <2>1, <3>1, PlanTypes DEF AppUpdateSidecar
  <2>2. CASE sidecar' = sidecar
    BY <2>2, PlanTypes
  <2> QED BY <2>1, <2>2 DEF DeciderStep, promote_draft_project_to_active,
          nudge_orchestrator_after_plan_approve, PauseProject, PlanAppCrash
<1>5. projStatus' \in [Projects -> {"draft", "active", "idle"}] /\ misled' \subseteq PlanIds
  <2>1. ASSUME NEW c \in Deciders, promote_draft_project_to_active(c)
        PROVE  projStatus' \in [Projects -> {"draft", "active", "idle"}]
    BY <2>1, PlanTypes DEF promote_draft_project_to_active
  <2>2. ASSUME NEW c \in Deciders, nudge_orchestrator_after_plan_approve(c)
        PROVE  misled' \subseteq PlanIds
    BY <2>2, PlanTypes DEF nudge_orchestrator_after_plan_approve, PlanInv, DecideInv
  <2>3. ASSUME NEW j \in Projects, PauseProject(j)
        PROVE  projStatus' \in [Projects -> {"draft", "active", "idle"}]
    BY <2>3, PlanTypes DEF PauseProject
  <2> QED BY <2>1, <2>2, <2>3, PlanTypes DEF DeciderStep, AppUpdateSidecar,
          promote_draft_project_to_active, nudge_orchestrator_after_plan_approve,
          PauseProject, PlanAppCrash
<1>6. PlanOnlyTypeOK'
  <2>1. lost' \subseteq PlanIds
    BY PlanTypes DEF DeciderStep, AppUpdateSidecar, promote_draft_project_to_active,
       nudge_orchestrator_after_plan_approve, PauseProject, PlanAppCrash, WriteFails, PlanInv,
       DecideInv
  <2> QED BY <1>1, <1>3, <1>4, <1>5, <2>1
          DEF PlanInv, PlanOnlyTypeOK, GateTypeOK, PlanTypeOK, DeciderType
<1>7. \A p \in PlanIds : PlanRowInv(p)'
  BY <1>1, <1>4 DEF PlanInv, PlanRowInv
<1>8. \A d \in Deciders : DecideInv(d)'
  BY <1>1, <1>3 DEF PlanInv, DecideInv
<1>9. PlanStep
  BY <1>1 DEF PlanStep, EvictStep, SameStatus
<1> QED BY <1>6, <1>7, <1>8, <1>9 DEF PlanInv

\* The tasks are put on the board, with or without the flag.
LEMMA MaterializeKeeps ==
    ASSUME PlanInv, NEW p \in PlanIds,
           MaterializeInterrupted(p) \/ \E a \in Agents : MaterializePlan(a, p)
    PROVE  PlanInv' /\ PlanStep
<1>1. /\ UNCHANGED <<pushReq, planCall, decider, sidecar, projStatus, misled, lost>>
      /\ planReq[p].status = "approved" /\ board[p] = 0
      /\ board' = [board EXCEPT ![p] = board[p] + 1]
      /\ planReq' = planReq \/ planReq' = [planReq EXCEPT ![p].tasksCreated = TRUE]
  BY DEF MaterializeInterrupted, MaterializePlan, Materializable, gateVars
<1>2. session' \in [Agents -> SessionStatus] /\ needsUser' \in [Agents -> Reasons]
  BY PlanTypes DEF MaterializeInterrupted, MaterializePlan, upsert_session, gateVars,
     SessionStatus, Reasons
<1>3. planReq \in [PlanIds -> PlanRow] /\ planReq[p] \in PlanRow /\ board \in [PlanIds -> Nat]
  BY PlanTypes
<1>4. /\ planReq' \in [PlanIds -> PlanRow]
      /\ \A r \in PlanIds \ {p} : planReq'[r] = planReq[r]
      /\ planReq'[p].in = planReq[p].in /\ planReq'[p].status = planReq[p].status
  <2>1. CASE planReq' = planReq
    BY <1>3, <2>1
  <2>2. CASE planReq' = [planReq EXCEPT ![p].tasksCreated = TRUE]
    <3> DEFINE r == [planReq[p] EXCEPT !.tasksCreated = TRUE]
    <3>1. r \in PlanRow /\ r.in = planReq[p].in /\ r.status = planReq[p].status
      BY <1>3 DEF PlanRow
    <3>2. planReq' = [planReq EXCEPT ![p] = r]
      BY <2>2
    <3> HIDE DEF r
    <3> QED BY <1>3, <3>1, <3>2
  <2> QED BY <1>1, <2>1, <2>2
<1>5. board' = [board EXCEPT ![p] = 1] /\ board' \in [PlanIds -> Nat]
  BY <1>1, <1>3
<1>6. PlanOnlyTypeOK'
  BY <1>1, <1>2, <1>4, <1>5 DEF PlanInv, PlanOnlyTypeOK, GateTypeOK, PlanTypeOK
<1>7. ASSUME NEW r \in PlanIds PROVE PlanRowInv(r)'
  <2>1. CASE r = p
    <3>1. board'[p] = 1
      BY <1>3, <1>5
    <3> QED BY <1>1, <1>4, <2>1, <3>1 DEF PlanInv, PlanRowInv
  <2>2. CASE r # p
    BY <1>1, <1>3, <1>4, <1>5, <2>2 DEF PlanInv, PlanRowInv
  <2> QED BY <2>1, <2>2
<1>8. \A c \in Deciders : DecideInv(c)'
  BY <1>1, <1>4 DEF PlanInv, DecideInv
<1>9. PlanStep
  BY <1>1, <1>4, <1>5 DEF PlanStep, EvictStep, SameStatus
<1> QED BY <1>6, <1>7, <1>8, <1>9 DEF PlanInv

-----------------------------------------------------------------------------
(***************************************************************************)
(* The theorems.                                                           *)
(***************************************************************************)

\* The empty queue satisfies the invariant.
LEMMA PlanInitInv == PlanOnlyInit => PlanInv
<1> SUFFICES ASSUME PlanOnlyInit PROVE PlanInv
  OBVIOUS
<1>1. GateTypeOK
  BY GateConstants DEF PlanOnlyInit, GateInit, GateTypeOK, SessionStatus, Reasons, PushRow,
     PushStatus, PlanRow, PlanStatus
<1>2. PlanTypeOK
  BY DEF PlanOnlyInit, PlanInit, PlanTypeOK, IdleDecider, PlanStatus
<1>3. \A p \in PlanIds : PlanRowInv(p)
  BY DEF PlanOnlyInit, GateInit, PlanInit, PlanRowInv, PlanVerdict
<1>4. \A c \in Deciders : DecideInv(c)
  BY DEF PlanOnlyInit, PlanInit, DecideInv, IdleDecider
<1> QED BY <1>1, <1>2, <1>3, <1>4 DEF PlanInv, PlanOnlyTypeOK

\* Every step keeps the invariant and is a PlanStep.
LEMMA PlanStepInv == PlanInv /\ [PlanNext]_planOnlyVars => PlanInv' /\ PlanStep
<1> SUFFICES ASSUME PlanInv, [PlanNext]_planOnlyVars PROVE PlanInv' /\ PlanStep
  OBVIOUS
<1>1. CASE UNCHANGED planOnlyVars
  BY <1>1 DEF planOnlyVars, gateVars, planLocal, PlanInv, PlanOnlyTypeOK, GateTypeOK,
     PlanTypeOK, PlanRowInv, DecideInv, PlanStep, EvictStep, SameStatus
<1>2. ASSUME NEW p \in PlanIds, BeginPlan(p) \/ PlanCallStep(p) \/ KillPlanCall(p)
      PROVE  PlanInv' /\ PlanStep
  BY <1>2, CarryKeeps, EnqueuePlanKeeps, SweepPlanKeeps DEF PlanCallStep
<1> QED BY <1>1, <1>2, DecideKeeps, AfterDecisionKeeps, MaterializeKeeps DEF PlanNext

\* PlanInv holds in every state the plan gate can reach.
THEOREM PlanInvariant == PlanOnlySpec => []PlanInv
BY PlanInitInv, PlanStepInv, PTL DEF PlanOnlySpec

\* The sidecar shows a human verdict only if the queue holds it, however the unlocked
\* writes of the agent and of the app are ordered, delayed or lost.
THEOREM PlanSidecarTrue == PlanOnlySpec => []SidecarVerdictTrue
<1>1. PlanInv => SidecarVerdictTrue
  BY DEF PlanInv, PlanRowInv, SidecarVerdictTrue
<1> QED BY <1>1, PlanInvariant, PTL

\* A plan leaves the queue only when nothing is left to do for it.
THEOREM PlanEvictsDoneOnly == PlanOnlySpec => PlanEvictionSafe
<1>1. PlanInv /\ [PlanNext]_planOnlyVars => [EvictStep]_planReq
  BY PlanStepInv DEF PlanStep
<1> QED BY <1>1, PlanInvariant, PTL DEF PlanOnlySpec, PlanEvictionSafe, EvictStep

\* The abstract verdicts of the statuses.
LEMMA PlanVerdictValues ==
    /\ PlanVerdictOf("none") = "none" /\ PlanVerdictOf("pending_approval") = "asked"
    /\ PlanVerdictOf("approved") = "granted"
    /\ PlanVerdictOf("rejected") = "refused" /\ PlanVerdictOf("timeout") = "refused"
BY DEF PlanVerdictOf

\* A step of the plan gate is a step of the abstract gate or leaves it alone.
LEMMA PlanSimulation ==
    ASSUME PlanStep
    PROVE  [PlanApprovalGate!Next]_(PlanApprovalGate!gate)
<1>1. \A p \in PlanIds : SameStatus(p) => PlanVerdicts'[p] = PlanVerdicts[p]
  BY DEF SameStatus, PlanVerdicts
<1>2. CASE (\A p \in PlanIds : SameStatus(p)) /\ board' = board
  <2>1. PlanVerdicts' = PlanVerdicts
    BY <1>1, <1>2 DEF PlanVerdicts
  <2> QED BY <1>2, <2>1 DEF PlanApprovalGate!gate
<1>3. ASSUME NEW p \in PlanIds, \A q \in PlanIds : SameStatus(q),
             planReq[p].status = "approved", board[p] = 0, board' = [board EXCEPT ![p] = 1]
      PROVE  PlanApprovalGate!Act(p)
  <2>1. PlanVerdicts' = PlanVerdicts
    BY <1>1, <1>3 DEF PlanVerdicts
  <2>2. PlanVerdicts[p] = "granted"
    BY <1>3, PlanVerdictValues DEF PlanVerdicts
  <2> QED BY <1>3, <2>1, <2>2 DEF PlanApprovalGate!Act
<1>4. ASSUME NEW p \in PlanIds, PlanDecided(p), \A q \in PlanIds \ {p} : SameStatus(q),
             board' = board
      PROVE  \/ PlanApprovalGate!Ask(p) \/ PlanApprovalGate!Grant(p)
             \/ PlanApprovalGate!Refuse(p)
  <2>1. /\ PlanVerdicts[p] = PlanVerdictOf(planReq[p].status)
        /\ PlanVerdicts'[p] = PlanVerdictOf(planReq'[p].status)
    BY DEF PlanVerdicts
  <2>2. PlanVerdicts' = [PlanVerdicts EXCEPT ![p] = PlanVerdictOf(planReq'[p].status)]
    BY <1>1, <1>4, <2>1 DEF PlanVerdicts
  <2>3. \/ PlanVerdicts[p] = "none" /\ PlanVerdictOf(planReq'[p].status) = "asked"
        \/ /\ PlanVerdicts[p] = "asked"
           /\ PlanVerdictOf(planReq'[p].status) \in {"granted", "refused"}
    BY <1>4, <2>1, PlanVerdictValues DEF PlanDecided, PlanTerminal
  <2> QED BY <1>4, <2>2, <2>3 DEF PlanApprovalGate!Ask, PlanApprovalGate!Grant,
          PlanApprovalGate!Refuse, PlanApprovalGate!Move
<1> QED BY <1>2, <1>3, <1>4 DEF PlanStep, PlanApprovalGate!Next

\* The plan gate, with its queue, decisions, sweeps and interrupted materializations,
\* implements the abstract approval gate: tasks reach the board at most once, and only
\* of a plan the human approved.
THEOREM PlanGateImplemented == PlanOnlySpec => PlanImplementsGate
<1>1. PlanOnlyInit => PlanApprovalGate!Init
  BY PlanVerdictValues DEF PlanOnlyInit, GateInit, PlanInit, PlanApprovalGate!Init, PlanVerdicts
<1>2. PlanInv /\ [PlanNext]_planOnlyVars => [PlanApprovalGate!Next]_(PlanApprovalGate!gate)
  BY PlanStepInv, PlanSimulation
<1> QED BY <1>1, <1>2, PlanInvariant, PTL
        DEF PlanOnlySpec, PlanImplementsGate, PlanApprovalGate!Spec

-----------------------------------------------------------------------------
(***************************************************************************)
(* Whoever learned the verdict writes it, unless that write is lost.       *)
(***************************************************************************)

\* What SettledInv(p) reads does not change, or p has lost a write.
Untouched(p) ==
    /\ p \in lost => p \in lost'
    /\ planReq'[p].in => planReq[p].in
    /\ planReq'[p].status = planReq[p].status
    /\ planCall'[p] = planCall[p] /\ sidecar'[p] = sidecar[p]
    /\ p \notin lost' => \A c \in Deciders : decider[c].pc = "sidecar" /\ decider[c].id = p
                             => decider'[c].pc = "sidecar" /\ decider'[c].id = p

\* Such a plan stays settled.
LEMMA UntouchedSettled ==
    ASSUME NEW p \in PlanIds, SettledInv(p), Untouched(p)
    PROVE  SettledInv(p)'
BY DEF SettledInv, Untouched

\* A step of the call that leaves the queue alone.
LEMMA CarrySettles ==
    ASSUME SettleInv, NEW p \in PlanIds,
           \/ BeginPlan(p) \/ RefusePlan(p) \/ PollPlan(p) \/ PollPlanDeadline(p)
           \/ ReportVanishedPlan(p) \/ AgentUpdateSidecar(p) \/ KillPlanCall(p)
    PROVE  \A r \in PlanIds : SettledInv(r)'
<1>1. planReq' = planReq /\ decider' = decider /\ lost \subseteq lost'
  BY DEF BeginPlan, RefusePlan, PollPlan, PollPlanDeadline, ReportVanishedPlan,
         AgentUpdateSidecar, KillPlanCall, WriteFails, gateVars
<1>2. planCall \in CallType /\ sidecar \in [PlanIds -> PlanStatus] /\ PlanInv
  BY PlanTypes DEF SettleInv
<1>3. /\ \A r \in PlanIds \ {p} : planCall'[r] = planCall[r] /\ sidecar'[r] = sidecar[r]
      /\ SettledInv(p)
  BY <1>2 DEF BeginPlan, RefusePlan, PollPlan, PollPlanDeadline, ReportVanishedPlan,
     AgentUpdateSidecar, KillPlanCall, PlanGoto, PlanReturn, CallType, SettleInv
<1>4. ASSUME NEW r \in PlanIds, r # p PROVE SettledInv(r)'
  BY <1>1, <1>3, <1>4, UntouchedSettled DEF SettleInv, Untouched
<1>5. ASSUME NEW answer, PlanReturn(p, answer) PROVE planCall'[p].pc = "done"
  BY <1>2, <1>5 DEF PlanReturn, CallType
<1>6. ASSUME BeginPlan(p) PROVE SettledInv(p)'
  <2>1. ~planReq[p].in
    BY <1>2, <1>6 DEF BeginPlan, PlanInv, PlanRowInv
  <2>2. CASE PlanGoto(p, "enqueue") /\ sidecar' = [sidecar EXCEPT ![p] = "pending_approval"]
    <3>1. planCall'[p].pc = "enqueue" /\ sidecar'[p] = "pending_approval"
      BY <1>2, <2>2 DEF PlanGoto, CallType
    <3> QED BY <1>1, <2>1, <3>1 DEF SettledInv
  <2>3. CASE PlanReturn(p, "error")
    BY <1>1, <1>5, <2>1, <2>3 DEF SettledInv
  <2> QED BY <1>6, <2>2, <2>3 DEF BeginPlan
\* A call that ends before its timeout leaves the sidecar at the queue's status, at
\* pending, or to the command that decides.
<1>7. ASSUME planCall[p].pc # "sidecar", planCall'[p].pc \in {"poll", "vanished", "sweep", "done"},
             planCall'[p].pc = "vanished" => ~planReq[p].in, sidecar' = sidecar
      PROVE  SettledInv(p)'
  BY <1>1, <1>3, <1>7 DEF SettledInv
<1>8. ASSUME RefusePlan(p) \/ ReportVanishedPlan(p) PROVE SettledInv(p)'
  BY <1>5, <1>7, <1>8 DEF RefusePlan, ReportVanishedPlan
<1>9. ASSUME PollPlan(p) PROVE SettledInv(p)'
  <2>1. planCall[p].pc = "poll" /\ sidecar' = sidecar
    BY <1>9 DEF PollPlan
  <2>2. CASE ~planReq[p].in /\ PlanGoto(p, "vanished")
    BY <1>2, <1>7, <2>1, <2>2 DEF PlanGoto, CallType
  <2>3. CASE PlanReturn(p, planReq[p].status) \/ PlanReturn(p, "error")
    BY <1>5, <1>7, <2>1, <2>3
  <2>4. CASE planCall' = [planCall EXCEPT ![p].seen = TRUE]
    <3>1. planCall'[p].pc = "poll"
      BY <1>2, <2>1, <2>4 DEF CallType
    <3> QED BY <1>7, <2>1, <3>1
  <2> QED BY <1>9, <2>2, <2>3, <2>4 DEF PollPlan
<1>10. ASSUME PollPlanDeadline(p) PROVE SettledInv(p)'
  BY <1>2, <1>7, <1>10 DEF PollPlanDeadline, PlanGoto, CallType
<1>11. ASSUME p \in lost', planCall'[p].pc = "done" PROVE SettledInv(p)'
  BY <1>11 DEF SettledInv
<1>12. ASSUME AgentUpdateSidecar(p) PROVE SettledInv(p)'
  <2>1. planCall[p].pc = "sidecar" /\ planCall'[p].pc = "done"
    BY <1>5, <1>12 DEF AgentUpdateSidecar
  <2>2. CASE sidecar' = [sidecar EXCEPT ![p] = planCall[p].told]
    <3>1. sidecar'[p] = planCall[p].told /\ planCall[p].told \in PlanTerminal
      BY <1>2, <2>1, <2>2 DEF PlanInv, PlanRowInv
    <3> QED BY <1>1, <1>3, <2>1, <3>1 DEF SettledInv, PlanTerminal
  <2>3. CASE WriteFails(p)
    BY <1>11, <2>1, <2>3 DEF WriteFails
  <2> QED BY <1>12, <2>2, <2>3 DEF AgentUpdateSidecar
<1>13. ASSUME KillPlanCall(p) PROVE SettledInv(p)'
  <2>1. planCall'[p].pc = "done" /\ sidecar' = sidecar
    BY <1>5, <1>13 DEF KillPlanCall
  <2>2. CASE planCall[p].pc = "sidecar"
    BY <1>11, <1>13, <2>1, <2>2 DEF KillPlanCall
  <2>3. CASE planCall[p].pc # "sidecar"
    BY <1>7, <2>1, <2>3
  <2> QED BY <2>2, <2>3
<1>14. SettledInv(p)'
  BY <1>6, <1>8, <1>9, <1>10, <1>12, <1>13
<1> QED BY <1>4, <1>14

\* The enqueue and the sweep.
LEMMA QueueSettles ==
    ASSUME SettleInv, NEW p \in PlanIds, EnqueuePlan(p) \/ SweepPlan(p)
    PROVE  \A r \in PlanIds : SettledInv(r)'
<1>1. sidecar' = sidecar /\ decider' = decider /\ lost \subseteq lost'
  BY DEF EnqueuePlan, SweepPlan
<1>2. planCall \in CallType /\ planReq \in [PlanIds -> PlanRow] /\ planReq[p] \in PlanRow
  BY PlanTypes DEF SettleInv
<1>3. SettledInv(p)
  BY DEF SettleInv
<1>4. CASE EnqueuePlan(p)
  <2> DEFINE q == [planReq EXCEPT ![p].in = TRUE, ![p].status = "pending_approval"]
  <2>1. /\ q \in [PlanIds -> PlanRow] /\ q[p].status = "pending_approval"
        /\ \A r \in PlanIds \ {p} : q[r] = planReq[r]
    BY <1>2 DEF PlanRow, PlanStatus
  <2>2. KeepsPlans(q, planReq')
    BY <1>4, <2>1, CapKeepsPlans DEF EnqueuePlan
  <2> HIDE DEF q
  <2>3. planCall'[p].pc = "poll" /\ \A r \in PlanIds \ {p} : planCall'[r] = planCall[r]
    BY <1>2, <1>4 DEF EnqueuePlan, PlanGoto, CallType
  <2>4. ASSUME NEW r \in PlanIds, r # p PROVE SettledInv(r)'
    BY <1>1, <2>1, <2>2, <2>3, <2>4, UntouchedSettled DEF SettleInv, Untouched, KeepsPlans
  <2>5. sidecar'[p] = "pending_approval"
    BY <1>1, <1>3, <1>4 DEF EnqueuePlan, SettledInv
  <2>6. SettledInv(p)'
    BY <2>1, <2>2, <2>3, <2>5 DEF SettledInv, KeepsPlans, PlanVerdict
  <2> QED BY <2>4, <2>6
<1>5. CASE SweepPlan(p)
  <2>1. PICK final \in PlanTerminal :
           /\ planCall' = [planCall EXCEPT ![p].pc = "sidecar", ![p].told = final]
           /\ \/ /\ planReq[p].status = "pending_approval" /\ final = "timeout"
                 /\ planReq' = [planReq EXCEPT ![p].status = "timeout"]
              \/ /\ planReq[p].in => final = planReq[p].status
                 /\ planReq' = planReq
              \/ p \in lost' /\ planReq' = planReq
    BY <1>5 DEF SweepPlan
  <2>2. /\ planCall'[p].pc = "sidecar" /\ planCall'[p].told = final
        /\ \A r \in PlanIds \ {p} : planCall'[r] = planCall[r] /\ planReq'[r] = planReq[r]
        /\ p \notin lost' /\ planReq'[p].in =>
              /\ planReq'[p].status = final
              /\ final # "timeout" => planReq[p].status = final /\ planReq[p].in
    BY <1>2, <2>1 DEF CallType, PlanRow
  <2>3. ASSUME NEW r \in PlanIds, r # p PROVE SettledInv(r)'
    BY <1>1, <2>2, <2>3, UntouchedSettled DEF SettleInv, Untouched
  <2>4. SettledInv(p)'
    BY <1>1, <1>3, <2>2 DEF SettledInv, PlanTerminal, PlanVerdict
  <2> QED BY <2>3, <2>4
<1> QED BY <1>4, <1>5

\* A decision leaves its command with the sidecar to write.
LEMMA DecideSettles ==
    ASSUME SettleInv, NEW c \in Deciders, NEW p \in PlanIds, NEW approve \in BOOLEAN,
           DecidePlan(c, p, approve)
    PROVE  \A r \in PlanIds : SettledInv(r)'
<1>1. /\ planCall' = planCall /\ sidecar' = sidecar /\ lost' = lost
      /\ decider[c].pc = "idle" /\ planReq[p].in
      /\ decider' = [decider EXCEPT ![c] = [pc |-> "sidecar", id |-> p, approve |-> approve,
                                            resolved |-> planReq'[p].status]]
  BY DEF DecidePlan
<1>2. /\ planReq \in [PlanIds -> PlanRow] /\ planReq[p] \in PlanRow /\ decider \in DeciderType
      /\ SettledInv(p)
  BY PlanTypes DEF SettleInv
<1>3. /\ decider'[c].pc = "sidecar" /\ decider'[c].id = p
      /\ \A d \in Deciders \ {c} : decider'[d] = decider[d]
  BY <1>1, <1>2 DEF DeciderType
<1>4. /\ \A r \in PlanIds \ {p} : planReq'[r] = planReq[r]
      /\ planReq'[p].in = planReq[p].in
      /\ \/ planReq' = planReq /\ planReq[p].status # "pending_approval"
         \/ planReq[p].status = "pending_approval" /\ planReq'[p].status \in PlanVerdict
  <2>1. CASE planReq' = planReq /\ ~PlanPending(planReq[p])
    BY <1>1, <2>1 DEF PlanPending
  <2>2. CASE /\ PlanPending(planReq[p])
             /\ planReq' = [planReq EXCEPT ![p] = apply_decision(@, approve)]
    BY <1>2, <2>2 DEF PlanPending, apply_decision, PlanRow, PlanVerdict
  <2> QED BY <2>1, <2>2 DEF DecidePlan
<1>5. ASSUME NEW r \in PlanIds, r # p PROVE SettledInv(r)'
  BY <1>1, <1>3, <1>4, <1>5, UntouchedSettled DEF SettleInv, Untouched
<1>6. SettledInv(p)'
  BY <1>1, <1>2, <1>3, <1>4 DEF SettledInv, PlanVerdict
<1> QED BY <1>5, <1>6

\* The command writes what it resolved to or loses the write; the rest of it touches no
\* sidecar.
LEMMA AfterDecisionSettles ==
    ASSUME SettleInv,
           (\E c \in Deciders : DeciderStep(c)) \/ (\E j \in Projects : PauseProject(j))
              \/ PlanAppCrash
    PROVE  \A r \in PlanIds : SettledInv(r)'
<1>1. planReq' = planReq /\ planCall' = planCall /\ lost \subseteq lost'
  BY DEF DeciderStep, AppUpdateSidecar, promote_draft_project_to_active, WriteFails,
         nudge_orchestrator_after_plan_approve, PauseProject, PlanAppCrash, gateVars
<1>2. decider \in DeciderType /\ sidecar \in [PlanIds -> PlanStatus] /\ PlanInv
  BY PlanTypes DEF SettleInv
<1>3. ASSUME NEW c \in Deciders, AppUpdateSidecar(c)
      PROVE  \A r \in PlanIds : SettledInv(r)'
  <2>1. PICK p \in PlanIds :
        /\ p = decider[c].id /\ decider[c].resolved = planReq[p].status
        /\ \/ sidecar' = [sidecar EXCEPT ![p] = decider[c].resolved]
           \/ p \in lost' /\ sidecar' = sidecar
        /\ \A d \in Deciders \ {c} : decider'[d] = decider[d]
    BY <1>2, <1>3 DEF AppUpdateSidecar, WriteFails, PlanInv, DecideInv, DeciderType
  <2>2. /\ p \notin lost' => sidecar'[p] = planReq[p].status
        /\ sidecar'[p] \in {sidecar[p], planReq[p].status}
        /\ \A r \in PlanIds \ {p} : sidecar'[r] = sidecar[r]
    BY <1>2, <2>1
  <2>3. ASSUME NEW r \in PlanIds, r # p PROVE SettledInv(r)'
    BY <1>1, <2>1, <2>2, <2>3, UntouchedSettled DEF SettleInv, Untouched
  <2>4. SettledInv(p) /\ planCall[p].pc = "enqueue" => planReq[p].status = "none"
    BY <1>2 DEF PlanInv, PlanRowInv
  <2>5. planReq[p].status # "none"
    BY <1>2, <1>3, <2>1 DEF AppUpdateSidecar, PlanInv, DecideInv, PlanTerminal
  <2>6. SettledInv(p)
    BY DEF SettleInv
  <2>7. SettledInv(p)'
    BY <1>1, <2>2, <2>4, <2>5, <2>6 DEF SettledInv
  <2> QED BY <2>3, <2>7
<1>4. ASSUME sidecar' = sidecar,
             \A r \in PlanIds, d \in Deciders :
                r \notin lost' /\ decider[d].pc = "sidecar" /\ decider[d].id = r
                   => decider'[d] = decider[d]
      PROVE  \A r \in PlanIds : SettledInv(r)'
  BY <1>1, <1>4, UntouchedSettled DEF SettleInv, Untouched
<1>5. ASSUME NEW c \in Deciders,
             promote_draft_project_to_active(c) \/ nudge_orchestrator_after_plan_approve(c)
      PROVE  \A r \in PlanIds : SettledInv(r)'
  <2>1. /\ sidecar' = sidecar /\ decider[c].pc # "sidecar"
        /\ \A d \in Deciders \ {c} : decider'[d] = decider[d]
    <3>1. CASE promote_draft_project_to_active(c)
      BY <1>2, <3>1 DEF promote_draft_project_to_active, DeciderType
    <3>2. CASE nudge_orchestrator_after_plan_approve(c)
      BY <1>2, <3>2 DEF nudge_orchestrator_after_plan_approve, DeciderType
    <3> QED BY <1>5, <3>1, <3>2
  <2> QED BY <1>4, <2>1
<1>6. CASE \E j \in Projects : PauseProject(j)
  BY <1>4, <1>6 DEF PauseProject
<1>7. CASE PlanAppCrash
  BY <1>4, <1>7 DEF PlanAppCrash, Deciding
<1> QED BY <1>3, <1>5, <1>6, <1>7 DEF DeciderStep

\* The materialization touches neither status nor sidecar.
LEMMA MaterializeSettles ==
    ASSUME SettleInv, NEW p \in PlanIds,
           MaterializeInterrupted(p) \/ \E a \in Agents : MaterializePlan(a, p)
    PROVE  \A r \in PlanIds : SettledInv(r)'
<1>1. /\ planCall' = planCall /\ sidecar' = sidecar /\ decider' = decider /\ lost' = lost
      /\ planReq' = planReq \/ planReq' = [planReq EXCEPT ![p].tasksCreated = TRUE]
  BY DEF MaterializeInterrupted, MaterializePlan, gateVars
<1>2. planReq \in [PlanIds -> PlanRow]
  BY PlanTypes DEF SettleInv
<1>3. \A r \in PlanIds : planReq'[r].in = planReq[r].in /\ planReq'[r].status = planReq[r].status
  BY <1>1, <1>2 DEF PlanRow
<1> QED BY <1>1, <1>3, UntouchedSettled DEF SettleInv, Untouched

\* The sidecar of a plan whose call has returned and which no decide command works on shows
\* the queue's verdict, unless a write of it failed, was cut short by a death, or its sweep
\* did not get the lock: the two unlocked writers alone never leave it behind.
THEOREM PlanSidecarSettles == PlanOnlySpec => []SidecarSettled
<1>1. PlanOnlyInit => SettleInv
  <2> SUFFICES ASSUME PlanOnlyInit PROVE \A p \in PlanIds : SettledInv(p)
    BY PlanInitInv DEF SettleInv
  <2> QED BY DEF PlanOnlyInit, GateInit, PlanInit, SettledInv
<1>2. SettleInv /\ [PlanNext]_planOnlyVars => SettleInv'
  <2> SUFFICES ASSUME SettleInv, [PlanNext]_planOnlyVars PROVE \A p \in PlanIds : SettledInv(p)'
    BY PlanStepInv DEF SettleInv
  <2>1. CASE UNCHANGED planOnlyVars
    <3>1. UNCHANGED <<planReq, planCall, decider, sidecar, lost>>
      BY <2>1 DEF planOnlyVars, gateVars, planLocal
    <3> QED BY <3>1, UntouchedSettled DEF SettleInv, Untouched
  <2>2. ASSUME NEW p \in PlanIds, BeginPlan(p) \/ PlanCallStep(p) \/ KillPlanCall(p)
        PROVE  \A r \in PlanIds : SettledInv(r)'
    BY <2>2, CarrySettles, QueueSettles DEF PlanCallStep
  <2> QED BY <2>1, <2>2, DecideSettles, AfterDecisionSettles, MaterializeSettles DEF PlanNext
<1>3. SettleInv => SidecarSettled
  <2> SUFFICES ASSUME SettleInv, NEW p \in PlanIds \ lost, planReq[p].in, planCall[p].pc = "done",
                      \A c \in Deciders : decider[c].id # p
               PROVE  sidecar[p] = planReq[p].status
    BY DEF SidecarSettled
  <2>1. SettledInv(p) /\ PlanRowInv(p) /\ planReq[p].status \in PlanStatus
    BY PlanTypes DEF SettleInv, PlanInv, PlanRow
  <2> QED BY <2>1 DEF SettledInv, PlanRowInv, PlanStatus, PlanTerminal, PlanVerdict
<1> QED BY <1>1, <1>2, <1>3, PTL DEF PlanOnlySpec

-----------------------------------------------------------------------------
(***************************************************************************)
(* An approval promotes the project, unless the promotion is lost.         *)
(***************************************************************************)

\* The approving command of plan p still has the promotion before it.
Promoting(p) == \E c \in Deciders : Deciding(c, p) /\ decider[c].approve

PromoteInv(p) ==
    p \notin lost /\ planReq[p].status = "approved" /\ projStatus[PlanProject[p]] = "draft"
        => Promoting(p)

ApprovingInv == PlanInv /\ \A p \in PlanIds : PromoteInv(p)

\* A step that approves nothing, makes no draft and takes no command from p, or loses the
\* promotion of p, keeps PromoteInv(p).
LEMMA UntouchedPromotes ==
    ASSUME NEW p \in PlanIds, PromoteInv(p), lost \subseteq lost',
           planReq'[p].status = "approved" => planReq[p].status = "approved",
           projStatus'[PlanProject[p]] = "draft" => projStatus[PlanProject[p]] = "draft",
           Promoting(p) => p \in lost' \/ Promoting(p)'
    PROVE  PromoteInv(p)'
BY DEF PromoteInv

\* No step of a call and no materialization approves a plan.
LEMMA CallPromotes ==
    ASSUME PlanInv, \A r \in PlanIds : PromoteInv(r), NEW p \in PlanIds,
           \/ BeginPlan(p) \/ PlanCallStep(p) \/ KillPlanCall(p)
           \/ MaterializeInterrupted(p) \/ \E a \in Agents : MaterializePlan(a, p)
    PROVE  \A r \in PlanIds : PromoteInv(r)'
<1>1. decider' = decider /\ projStatus' = projStatus /\ lost \subseteq lost'
  BY DEF BeginPlan, PlanCallStep, EnqueuePlan, RefusePlan, PollPlan, PollPlanDeadline,
     ReportVanishedPlan, SweepPlan, AgentUpdateSidecar, WriteFails, KillPlanCall,
     MaterializeInterrupted, MaterializePlan
<1>2. planReq \in [PlanIds -> PlanRow]
  BY PlanTypes
<1>3. ASSUME NEW r \in PlanIds, planReq'[r].status = "approved"
      PROVE  planReq[r].status = "approved"
  <2>1. CASE EnqueuePlan(p)
    <3> DEFINE q == [planReq EXCEPT ![p].in = TRUE, ![p].status = "pending_approval"]
    <3>1. q \in [PlanIds -> PlanRow] /\ q[r].status \in {"pending_approval", planReq[r].status}
      BY <1>2 DEF PlanRow, PlanStatus
    <3>2. KeepsPlans(q, planReq')
      BY <2>1, <3>1, CapKeepsPlans DEF EnqueuePlan
    <3> HIDE DEF q
    <3> QED BY <1>3, <3>1, <3>2 DEF KeepsPlans
  <2>2. CASE SweepPlan(p)
    <3>1. planReq' = planReq \/ planReq' = [planReq EXCEPT ![p].status = "timeout"]
      BY <2>2 DEF SweepPlan
    <3> QED BY <1>2, <1>3, <3>1 DEF PlanRow
  <2>3. CASE \E a \in Agents : MaterializePlan(a, p)
    <3>1. planReq' = [planReq EXCEPT ![p].tasksCreated = TRUE]
      BY <2>3 DEF MaterializePlan
    <3> QED BY <1>2, <1>3, <3>1 DEF PlanRow
  <2>4. CASE planReq' = planReq
    BY <1>3, <2>4
  <2> QED BY <2>1, <2>2, <2>3, <2>4 DEF BeginPlan, PlanCallStep, RefusePlan, PollPlan,
          PollPlanDeadline, ReportVanishedPlan, AgentUpdateSidecar, KillPlanCall,
          MaterializeInterrupted, gateVars
<1> QED BY <1>1, <1>3, UntouchedPromotes DEF Promoting, Deciding

\* The command that approves a plan starts with the promotion before it.
LEMMA DecidePromotes ==
    ASSUME PlanInv, \A r \in PlanIds : PromoteInv(r),
           NEW c \in Deciders, NEW p \in PlanIds, NEW approve \in BOOLEAN,
           DecidePlan(c, p, approve)
    PROVE  \A r \in PlanIds : PromoteInv(r)'
<1>1. /\ projStatus' = projStatus /\ lost' = lost /\ decider[c].pc = "idle"
      /\ decider' = [decider EXCEPT ![c] = [pc |-> "sidecar", id |-> p, approve |-> approve,
                                            resolved |-> planReq'[p].status]]
  BY DEF DecidePlan
<1>2. planReq \in [PlanIds -> PlanRow] /\ decider \in DeciderType
  BY PlanTypes
<1>3. /\ decider'[c].pc = "sidecar" /\ decider'[c].id = p /\ decider'[c].approve = approve
      /\ \A d \in Deciders \ {c} : decider'[d] = decider[d]
  BY <1>1, <1>2 DEF DeciderType
<1>4. \A r \in PlanIds : Promoting(r) => Promoting(r)'
  BY <1>1, <1>3 DEF Promoting, Deciding
<1>5. \/ planReq' = planReq
      \/ planReq' = [planReq EXCEPT ![p] = apply_decision(planReq[p], approve)]
  BY DEF DecidePlan
<1>6. ASSUME NEW r \in PlanIds,
             planReq'[r].status = "approved" => planReq[r].status = "approved"
      PROVE  PromoteInv(r)'
  BY <1>1, <1>4, <1>6, UntouchedPromotes
<1>7. CASE approve
  <2>1. PromoteInv(p)'
    BY <1>3, <1>7 DEF PromoteInv, Promoting, Deciding
  <2>2. ASSUME NEW r \in PlanIds, r # p PROVE PromoteInv(r)'
    BY <1>2, <1>5, <1>6, <2>2
  <2> QED BY <2>1, <2>2
<1>8. CASE ~approve
  <2>1. ASSUME NEW r \in PlanIds, planReq'[r].status = "approved"
        PROVE  planReq[r].status = "approved"
    BY <1>2, <1>5, <1>8, <2>1 DEF apply_decision, PlanRow
  <2> QED BY <1>6, <2>1
<1> QED BY <1>7, <1>8

\* A command keeps the promotion before it until it does it or loses it.
LEMMA AfterDecisionPromotes ==
    ASSUME PlanInv, \A r \in PlanIds : PromoteInv(r),
           (\E c \in Deciders : DeciderStep(c)) \/ (\E j \in Projects : PauseProject(j))
              \/ PlanAppCrash
    PROVE  \A r \in PlanIds : PromoteInv(r)'
<1>1. planReq' = planReq /\ lost \subseteq lost'
  BY DEF DeciderStep, AppUpdateSidecar, promote_draft_project_to_active, WriteFails,
         nudge_orchestrator_after_plan_approve, PauseProject, PlanAppCrash, gateVars
<1>2. decider \in DeciderType /\ projStatus \in [Projects -> {"draft", "active", "idle"}]
  BY PlanTypes
<1>3. \A r \in PlanIds : PlanProject[r] \in Projects
  BY PlanConstants
<1>4. ASSUME NEW c \in Deciders, AppUpdateSidecar(c) PROVE \A r \in PlanIds : PromoteInv(r)'
  <2>1. /\ \A d \in Deciders \ {c} : decider'[d] = decider[d]
        /\ projStatus' = projStatus
        /\ decider[c].approve => /\ decider'[c].approve /\ decider'[c].pc = "promote"
                                 /\ decider'[c].id = decider[c].id
    BY <1>2, <1>4 DEF AppUpdateSidecar, DeciderType
  <2>2. \A r \in PlanIds : Promoting(r) => Promoting(r)'
    BY <2>1 DEF Promoting, Deciding
  <2> QED BY <1>1, <2>1, <2>2, UntouchedPromotes
<1>5. ASSUME NEW c \in Deciders, promote_draft_project_to_active(c)
      PROVE  \A r \in PlanIds : PromoteInv(r)'
  <2>1. PICK p \in PlanIds :
        /\ p = decider[c].id
        /\ \A d \in Deciders \ {c} : decider'[d] = decider[d]
        /\ \/ projStatus' = [projStatus EXCEPT ![PlanProject[p]] =
                                IF @ = "draft" THEN "active" ELSE @]
           \/ projStatus' = projStatus /\ p \in lost'
    BY <1>2, <1>5 DEF promote_draft_project_to_active, WriteFails, PlanInv, DecideInv, DeciderType
  <2>2. /\ \A j \in Projects : projStatus'[j] = "draft" => projStatus[j] = "draft"
        /\ p \in lost' \/ projStatus'[PlanProject[p]] # "draft"
    BY <1>2, <1>3, <2>1
  <2>3. \A r \in PlanIds \ {p} : Promoting(r) => Promoting(r)'
    BY <2>1 DEF Promoting, Deciding
  <2>4. PromoteInv(p)'
    BY <2>2 DEF PromoteInv
  <2>5. ASSUME NEW r \in PlanIds, r # p PROVE PromoteInv(r)'
    BY <1>1, <1>3, <2>2, <2>3, <2>5, UntouchedPromotes
  <2> QED BY <2>4, <2>5
<1>6. ASSUME NEW c \in Deciders, nudge_orchestrator_after_plan_approve(c)
      PROVE  \A r \in PlanIds : PromoteInv(r)'
  <2>1. /\ \A d \in Deciders \ {c} : decider'[d] = decider[d]
        /\ projStatus' = projStatus /\ decider[c].pc = "nudge"
    BY <1>2, <1>6 DEF nudge_orchestrator_after_plan_approve, DeciderType
  <2>2. \A r \in PlanIds : Promoting(r) => Promoting(r)'
    BY <2>1 DEF Promoting, Deciding
  <2> QED BY <1>1, <2>1, <2>2, UntouchedPromotes
<1>7. ASSUME NEW j \in Projects, PauseProject(j) PROVE \A r \in PlanIds : PromoteInv(r)'
  <2>1. decider' = decider
    BY <1>7 DEF PauseProject
  <2>2. \A k \in Projects : projStatus'[k] = "draft" => projStatus[k] = "draft"
    BY <1>2, <1>7 DEF PauseProject
  <2> QED BY <1>1, <1>3, <2>1, <2>2, UntouchedPromotes DEF Promoting, Deciding
<1>8. CASE PlanAppCrash
  <2>1. projStatus' = projStatus /\ \A r \in PlanIds : Promoting(r) => r \in lost'
    BY <1>8 DEF PlanAppCrash, Promoting
  <2> QED BY <1>1, <2>1, UntouchedPromotes
<1> QED BY <1>4, <1>5, <1>6, <1>7, <1>8 DEF DeciderStep

\* The project of an approved plan has left draft, or the command that approved the plan
\* will still promote it, or its promotion failed or was cut short by the app's death.
THEOREM PlanApprovalPromotes == PlanOnlySpec => []ApprovalPromotes
<1>1. PlanOnlyInit => ApprovingInv
  <2> SUFFICES ASSUME PlanOnlyInit PROVE \A p \in PlanIds : PromoteInv(p)
    BY PlanInitInv DEF ApprovingInv
  <2> QED BY DEF PlanOnlyInit, GateInit, PlanInit, PromoteInv
<1>2. ApprovingInv /\ [PlanNext]_planOnlyVars => ApprovingInv'
  <2> SUFFICES ASSUME ApprovingInv, [PlanNext]_planOnlyVars PROVE \A p \in PlanIds : PromoteInv(p)'
    BY PlanStepInv DEF ApprovingInv
  <2>1. CASE UNCHANGED planOnlyVars
    <3>1. UNCHANGED <<planReq, decider, projStatus, lost>>
      BY <2>1 DEF planOnlyVars, gateVars, planLocal
    <3> QED BY <3>1, UntouchedPromotes DEF Promoting, Deciding, ApprovingInv
  <2>2. CASE PlanNext
    BY <2>2, CallPromotes, DecidePromotes, AfterDecisionPromotes DEF PlanNext, ApprovingInv
  <2> QED BY <2>1, <2>2
<1>3. ApprovingInv => ApprovalPromotes
  BY DEF ApprovingInv, ApprovalPromotes, PromoteInv, Promoting
<1> QED BY <1>1, <1>2, <1>3, PTL DEF PlanOnlySpec
=============================================================================
