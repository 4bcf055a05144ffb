-------------------------- MODULE GitPushGateProofs --------------------------
(***************************************************************************)
(* Proofs about the push gate, for any number of agents, requests and      *)
(* concurrent approve commands, any queue bound and any subset of the      *)
(* faults.                                                                 *)
(*                                                                         *)
(* None of the properties is inductive.  The invariant PushInv ties each   *)
(* request's row to the history (RowInv) and each approve command to the   *)
(* row it holds (HeldInv): a claim is what makes the request approved, an  *)
(* approved request leaves that status only through its holder or the      *)
(* stuck-request rule, and the clock cannot let the rule reach a request   *)
(* that is still held, because PushWindow < GraceTicks.                    *)
(***************************************************************************)
EXTENDS GitPushGate, TLAPS

\* What the row of request i says agrees with its call and its history.
RowInv(i) ==
    /\ pushReq[i].in => pushReq[i].status # "none"
    /\ pushReq[i].status # "none" => pushCall[i].pc \notin {"idle", "enqueue"}
    /\ pushReq[i].status \in {"none", "pending_approval", "denied", "timeout"}
          => pushes[i] = 0
    /\ pushes[i] <= 1
    /\ pushReq[i].status = "pushed" => landed[i]
    /\ pushReq[i].result = IF pushReq[i].status \in PushTerminal
                           THEN pushReq[i].status ELSE "none"
    /\ pushCall[i].told \in {"pushed", "denied"}
          => pushReq[i].status = pushCall[i].told

\* What command c holds, and how far it is.
HeldInv(c) ==
    /\ cmd[c].pc # "idle" => cmd[c].id \in PushIds
    /\ InFlight(c) => /\ pushReq[cmd[c].id].in
                      /\ pushReq[cmd[c].id].status = "approved"
                      /\ pushReq[cmd[c].id].age <= PushWindow
    /\ cmd[c].pc = "claimed" => pushes[cmd[c].id] = 0
    /\ cmd[c].pc = "finalize" => /\ cmd[c].outcome \in {"pushed", "push_failed"}
                                 /\ cmd[c].outcome = "pushed" => landed[cmd[c].id]

\* No two commands hold the same request.
HoldersApart ==
    \A c, d \in Commands : InFlight(c) /\ InFlight(d) /\ cmd[c].id = cmd[d].id => c = d

PushInv ==
    /\ PushOnlyTypeOK
    /\ \A i \in PushIds : RowInv(i)
    /\ \A c \in Commands : HeldInv(c)
    /\ HoldersApart

-----------------------------------------------------------------------------
(***************************************************************************)
(* The operators of GateState.                                             *)
(***************************************************************************)

\* What the retention cap may do to a queue: rows keep their content, and only
\* terminal rows lose their place in the file.
KeepsRows(q, p) ==
    /\ p \in [PushIds -> PushRow]
    /\ \A i \in PushIds :
          /\ p[i].status = q[i].status
          /\ p[i].result = q[i].result
          /\ p[i].age = q[i].age
          /\ p[i].in => q[i].in
          /\ q[i].in /\ ~p[i].in => q[i].status \in PushTerminal

\* cap_push_requests evicts terminal rows only and changes nothing else.
LEMMA CapKeepsRows ==
    ASSUME NEW q \in [PushIds -> PushRow]
    PROVE  KeepsRows(q, cap_push_requests(q))
<1> DEFINE gone == Evicted(q, PushEvictable(q), MaxPush)
           p == EvictFrom(q, gone)
<1>1. \A i \in gone : q[i].status \in PushTerminal
  BY DEF Evicted, PushEvictable
<1>2. p = [i \in PushIds |-> [q[i] EXCEPT !.in = @ /\ i \notin gone]]
  BY DEF EvictFrom
<1> HIDE DEF gone, p
<1>3. ASSUME NEW i \in PushIds
      PROVE  /\ p[i] \in PushRow
             /\ p[i].status = q[i].status
             /\ p[i].result = q[i].result
             /\ p[i].age = q[i].age
             /\ p[i].in <=> q[i].in /\ i \notin gone
  <2>1. q[i] \in PushRow
    OBVIOUS
  <2>2. p[i] = [q[i] EXCEPT !.in = @ /\ i \notin gone]
    BY <1>2
  <2> QED BY <2>1, <2>2 DEF PushRow
<1>4. p \in [PushIds -> PushRow]
  BY <1>2, <1>3
<1>5. p = cap_push_requests(q)
  BY DEF p, gone, cap_push_requests
<1> QED BY <1>1, <1>3, <1>4, <1>5 DEF KeepsRows

\* An agent ringing its bell or clearing it when idle keeps it a known reason.
LEMMA AgentBellType ==
    ASSUME needsUser \in [Agents -> Reasons], NEW a \in Agents, NEW E, NEW F
    PROVE  /\ set_needs_user(a, "needs_push_approval") \in [Agents -> Reasons]
           /\ clear_gate_needs_user_if_idle(a, "needs_push_approval", E, F)
                 \in [Agents -> Reasons]
BY DEF set_needs_user, clear_gate_needs_user_if_idle, clear_needs_user_if_reason, Reasons

\* So does the app clearing the bells of some agents.
LEMMA AppBellType ==
    ASSUME needsUser \in [Agents -> Reasons], NEW A
    PROVE  clear_request_needs_user(A) \in [Agents -> Reasons]
BY DEF clear_request_needs_user, Reasons

-----------------------------------------------------------------------------
(***************************************************************************)
(* What a step may do to the queue and to the remote.                      *)
(***************************************************************************)

\* The verdict about request j stays what it was; an approved push may end.
SameVerdict(j) ==
    \/ pushReq'[j].status = pushReq[j].status
    \/ pushReq[j].status = "approved" /\ pushReq'[j].status \in {"pushed", "push_failed"}

\* Request i is asked, approved or refused.
Decided(i) ==
    \/ pushReq[i].status = "none" /\ pushReq'[i].status = "pending_approval"
    \/ /\ pushReq[i].status = "pending_approval"
       /\ pushReq'[i].status \in {"approved", "denied", "timeout"}

\* Only terminal rows leave the file, and a step moves the verdict of one request or
\* pushes one approved request that was not pushed before, not both.
QueueStep ==
    /\ \A j \in PushIds : pushReq[j].in /\ ~pushReq'[j].in
                            => pushReq'[j].status \in PushTerminal
    /\ \/ /\ \A j \in PushIds : SameVerdict(j)
          /\ \/ pushes' = pushes
             \/ \E i \in PushIds : /\ pushReq[i].status = "approved" /\ pushes[i] = 0
                                   /\ pushes' = [pushes EXCEPT ![i] = 1]
       \/ /\ \E i \in PushIds : /\ Decided(i)
                                 /\ \A j \in PushIds \ {i} : SameVerdict(j)
          /\ pushes' = pushes

-----------------------------------------------------------------------------
(***************************************************************************)
(* PushInv is inductive and every step is a QueueStep: one lemma for each  *)
(* group of actions.                                                       *)
(***************************************************************************)

\* What a step of a call may do to the calls: it keeps their type, never goes back
\* before the enqueue, and answers pushed or denied only from the row.
CallKept ==
    /\ pushCall' \in [PushIds -> [pc: {"idle", "enqueue", "poll", "vanished", "sweep", "done"},
                                  seen: BOOLEAN, told: Answers]]
    /\ \A j \in PushIds :
          /\ pushCall[j].pc \notin {"idle", "enqueue"}
                => pushCall'[j].pc \notin {"idle", "enqueue"}
          /\ pushCall'[j].told \in {"pushed", "denied"}
                => pushReq[j].status = pushCall'[j].told

\* The steps of a call that only move its program counter or answer from the row.
LEMMA CallStepInv ==
    ASSUME PushInv, NEW i \in PushIds,
           \/ BeginPush(i) \/ RefusePush(i) \/ PollPush(i) \/ PollPushDeadline(i)
           \/ ReportVanishedPush(i) \/ KillPushCall(i)
    PROVE  PushInv' /\ QueueStep
<1>0. PushOwner[i] \in Agents
  BY GateConstants
<1>1. /\ pushReq' = pushReq /\ cmd' = cmd /\ pushes' = pushes /\ landed' = landed
      /\ session' = session /\ planReq' = planReq
  BY DEF BeginPush, RefusePush, PollPush, PollPushDeadline, ReportVanishedPush, KillPushCall
<1>2. needsUser' \in [Agents -> Reasons]
  <2>1. needsUser \in [Agents -> Reasons]
    BY DEF PushInv, PushOnlyTypeOK, GateTypeOK
  <2>2. clear_gate_needs_user_if_idle(PushOwner[i], "needs_push_approval", {i}, {})
           \in [Agents -> Reasons]
    BY <1>0, <2>1, AgentBellType
  <2>3. CASE ReportVanishedPush(i)
    BY <2>1, <2>2, <2>3 DEF ReportVanishedPush
  <2>4. CASE ~ReportVanishedPush(i)
    BY <2>1, <2>4 DEF BeginPush, RefusePush, PollPush, PollPushDeadline, KillPushCall,
                      PushInv, PushOnlyTypeOK, PushTypeOK
  <2> QED BY <2>3, <2>4
<1>3. CallKept
  <2>1. pushCall \in [PushIds -> [pc: {"idle", "enqueue", "poll", "vanished", "sweep", "done"},
                                  seen: BOOLEAN, told: Answers]]
    BY DEF PushInv, PushOnlyTypeOK, PushTypeOK
  <2>2. \A j \in PushIds : pushCall[j].told \in {"pushed", "denied"}
            => pushReq[j].status = pushCall[j].told
    BY DEF PushInv, RowInv
  <2>3. ASSUME NEW label \in {"enqueue", "vanished", "sweep"}, Goto(i, label),
               label = "enqueue" => pushCall[i].pc = "idle"
        PROVE  CallKept
    BY <2>1, <2>2, <2>3 DEF Goto, CallKept
  <2>4. ASSUME NEW answer \in Answers, Return(i, answer),
               answer \in {"pushed", "denied"} => pushReq[i].status = answer
        PROVE  CallKept
    BY <2>1, <2>2, <2>4 DEF Return, CallKept
  <2>5. CASE BeginPush(i)
    BY <2>3, <2>5 DEF BeginPush
  <2>6. CASE PollPush(i)
    <3>1. CASE pushCall' = [pushCall EXCEPT ![i].seen = TRUE]
      BY <2>1, <2>2, <3>1 DEF CallKept
    <3>2. CASE Goto(i, "vanished")
      BY <2>3, <3>2
    <3>3. CASE Return(i, "error")
      BY <2>4, <3>3 DEF Answers
    <3>4. CASE pushReq[i].result # "none" /\ Return(i, pushReq[i].result)
      <4>1. pushReq[i].result \in PushTerminal /\ pushReq[i].status = pushReq[i].result
        BY <3>4 DEF PushInv, RowInv
      <4> QED BY <2>4, <3>4, <4>1 DEF Answers
    <3> QED BY <2>6, <3>1, <3>2, <3>3, <3>4 DEF PollPush
  <2>7. CASE RefusePush(i) \/ ReportVanishedPush(i) \/ KillPushCall(i)
    <3>1. Return(i, "error") \/ Return(i, "vanished") \/ Return(i, "none")
      BY <2>7 DEF RefusePush, ReportVanishedPush, KillPushCall
    <3> QED BY <2>4, <3>1 DEF Answers
  <2>8. CASE PollPushDeadline(i)
    BY <2>3, <2>8 DEF PollPushDeadline
  <2> QED BY <2>5, <2>6, <2>7, <2>8
<1>4. PushOnlyTypeOK'
  BY <1>1, <1>2, <1>3 DEF PushInv, PushOnlyTypeOK, PushTypeOK, GateTypeOK, CallKept
<1>5. \A j \in PushIds : RowInv(j)'
  BY <1>1, <1>3 DEF PushInv, RowInv, CallKept
<1>6. (\A c \in Commands : HeldInv(c))' /\ HoldersApart'
  BY <1>1 DEF PushInv, HeldInv, HoldersApart, InFlight
<1>7. QueueStep
  BY <1>1 DEF QueueStep, SameVerdict
<1> QED BY <1>4, <1>5, <1>6, <1>7 DEF PushInv

\* A request is put in the queue: its row was unused, so nobody holds it.
LEMMA EnqueueInv ==
    ASSUME PushInv, NEW i \in PushIds, EnqueuePush(i)
    PROVE  PushInv' /\ QueueStep
<1> DEFINE q == [pushReq EXCEPT ![i] = [@ EXCEPT !.in = TRUE, !.status = "pending_approval"]]
<1>1. /\ pushReq \in [PushIds -> PushRow] /\ needsUser \in [Agents -> Reasons]
      /\ PushOwner[i] \in Agents
  BY GateConstants DEF PushInv, PushOnlyTypeOK, GateTypeOK
<1>2. q \in [PushIds -> PushRow]
  BY <1>1 DEF PushRow, PushStatus
<1>3. KeepsRows(q, pushReq')
  BY <1>2, CapKeepsRows DEF EnqueuePush
<1>4. /\ q[i].in /\ q[i].status = "pending_approval" /\ q[i].result = pushReq[i].result
      /\ \A j \in PushIds \ {i} : q[j] = pushReq[j]
      /\ \A j \in PushIds : q[j].age = pushReq[j].age
  BY <1>1 DEF PushRow
<1> HIDE DEF q
<1>5. /\ pushReq[i].status = "none" /\ pushReq[i].result = "none" /\ pushes[i] = 0
      /\ ~pushReq[i].in /\ pushCall[i].told \notin {"pushed", "denied"}
  BY DEF PushInv, RowInv, EnqueuePush, PushTerminal
<1>6. /\ pushCall' = [pushCall EXCEPT ![i].pc = "poll"]
      /\ cmd' = cmd /\ pushes' = pushes /\ landed' = landed
      /\ session' = session /\ planReq' = planReq
  BY DEF EnqueuePush, Goto
<1>7. needsUser' \in [Agents -> Reasons]
  BY <1>1, AgentBellType DEF EnqueuePush
<1>8. PushOnlyTypeOK'
  <2>1. pushReq' \in [PushIds -> PushRow]
    BY <1>3 DEF KeepsRows
  <2>2. PushTypeOK'
    BY <1>6 DEF PushInv, PushOnlyTypeOK, PushTypeOK
  <2> QED BY <1>6, <1>7, <2>1, <2>2 DEF PushInv, PushOnlyTypeOK, GateTypeOK
<1>9. \A j \in PushIds : RowInv(j)'
  <2>1. \A j \in PushIds : /\ pushCall'[j].told = pushCall[j].told
                           /\ pushCall[j].pc \notin {"idle", "enqueue"}
                                 => pushCall'[j].pc \notin {"idle", "enqueue"}
    BY <1>6 DEF PushInv, PushOnlyTypeOK, PushTypeOK
  <2>2. pushCall'[i].pc = "poll"
    BY <1>6 DEF PushInv, PushOnlyTypeOK, PushTypeOK
  <2>3. RowInv(i)'
    BY <1>3, <1>4, <1>5, <1>6, <2>1, <2>2 DEF PushInv, RowInv, KeepsRows, PushTerminal
  <2>4. \A j \in PushIds \ {i} : RowInv(j)'
    BY <1>3, <1>4, <1>6, <2>1 DEF PushInv, RowInv, KeepsRows, PushTerminal
  <2> QED BY <2>3, <2>4
<1>10. (\A c \in Commands : HeldInv(c))'
  <2>1. \A j \in PushIds : pushReq[j].in /\ pushReq[j].status = "approved"
            => /\ pushReq'[j].in /\ pushReq'[j].status = "approved"
               /\ pushReq'[j].age = pushReq[j].age
    BY <1>3, <1>4, <1>5 DEF KeepsRows, PushTerminal
  <2> QED BY <1>6, <2>1 DEF PushInv, HeldInv, InFlight
<1>11. HoldersApart'
  BY <1>6 DEF PushInv, HoldersApart, InFlight
<1>12. QueueStep
  BY <1>3, <1>4, <1>5, <1>6 DEF QueueStep, SameVerdict, Decided, KeepsRows
<1> QED BY <1>8, <1>9, <1>10, <1>11, <1>12 DEF PushInv

\* The timeout sweep stamps a request only while it is pending, so nobody holds it.
LEMMA SweepInv ==
    ASSUME PushInv, NEW i \in PushIds, SweepPush(i)
    PROVE  PushInv' /\ QueueStep
<1>1. /\ pushReq \in [PushIds -> PushRow] /\ needsUser \in [Agents -> Reasons]
      /\ PushOwner[i] \in Agents
      /\ pushCall \in [PushIds -> [pc: {"idle", "enqueue", "poll", "vanished", "sweep", "done"},
                                   seen: BOOLEAN, told: Answers]]
  BY GateConstants DEF PushInv, PushOnlyTypeOK, PushTypeOK, GateTypeOK
<1>2. /\ cmd' = cmd /\ pushes' = pushes /\ landed' = landed
      /\ session' = session /\ planReq' = planReq /\ pushCall[i].pc = "sweep"
  BY DEF SweepPush
<1>3. PICK answer \in Answers :
         /\ Return(i, answer)
         /\ answer \in {"pushed", "denied"}
               => pushReq[i].status = answer /\ pushReq' = pushReq
  <2>1. pushReq[i].result # "none" => pushReq[i].result \in Answers
                                      /\ pushReq[i].status = pushReq[i].result
    BY DEF PushInv, RowInv, Answers
  <2>2. {"timeout", "in_progress"} \subseteq Answers
    BY DEF Answers, PushTerminal
  <2> QED BY <2>1, <2>2 DEF SweepPush
<1>4. /\ pushReq' \in [PushIds -> PushRow]
      /\ needsUser' \in [Agents -> Reasons]
      /\ \A j \in PushIds \ {i} : pushReq'[j] = pushReq[j]
      /\ \/ pushReq'[i] = pushReq[i]
         \/ /\ pushReq[i].in /\ pushReq[i].status = "pending_approval"
            /\ pushReq'[i].in /\ pushReq'[i].status = "timeout"
            /\ pushReq'[i].result = "timeout"
  <2>1. CASE UNCHANGED <<needsUser, pushReq>>
    BY <1>1, <2>1
  <2>2. CASE /\ Pending(pushReq[i])
             /\ pushReq' = [pushReq EXCEPT ![i] = apply_timeout(@)]
             /\ needsUser' = clear_gate_needs_user_if_idle(
                                PushOwner[i], "needs_push_approval", {i}, {})
    <3>1. needsUser' \in [Agents -> Reasons]
      BY <1>1, <2>2, AgentBellType
    <3>2. pushReq[i] \in PushRow
      BY <1>1
    <3>3. /\ apply_timeout(pushReq[i]) \in PushRow /\ apply_timeout(pushReq[i]).in = pushReq[i].in
          /\ apply_timeout(pushReq[i]).status = "timeout"
          /\ apply_timeout(pushReq[i]).result = "timeout"
      BY <3>2 DEF apply_timeout, PushRow, PushStatus, PushTerminal
    <3> QED BY <1>1, <2>2, <3>1, <3>3 DEF Pending
  <2> QED BY <2>1, <2>2 DEF SweepPush
<1>5. /\ pushCall' \in [PushIds -> [pc: {"idle", "enqueue", "poll", "vanished", "sweep", "done"},
                                    seen: BOOLEAN, told: Answers]]
      /\ pushCall'[i].pc = "done" /\ pushCall'[i].told = answer
      /\ \A j \in PushIds \ {i} : pushCall'[j] = pushCall[j]
  BY <1>1, <1>3 DEF Return
<1>6. PushOnlyTypeOK'
  BY <1>2, <1>4, <1>5 DEF PushInv, PushOnlyTypeOK, PushTypeOK, GateTypeOK
<1>7. \A j \in PushIds : RowInv(j)'
  <2>1. RowInv(i)'
    BY <1>2, <1>3, <1>4, <1>5 DEF PushInv, RowInv, PushTerminal
  <2>2. \A j \in PushIds \ {i} : RowInv(j)'
    BY <1>2, <1>4, <1>5 DEF PushInv, RowInv
  <2> QED BY <2>1, <2>2
<1>8. (\A c \in Commands : HeldInv(c))'
  BY <1>2, <1>4 DEF PushInv, HeldInv, InFlight
<1>9. HoldersApart'
  BY <1>2 DEF PushInv, HoldersApart, InFlight
<1>10. QueueStep
  BY <1>2, <1>4 DEF QueueStep, SameVerdict, Decided
<1> QED BY <1>6, <1>7, <1>8, <1>9, <1>10 DEF PushInv

\* A claim: the request was pending, hence never pushed and held by nobody.
LEMMA ClaimInv ==
    ASSUME PushInv, NEW c \in Commands, NEW i \in PushIds, ClaimPush(c, i)
    PROVE  PushInv' /\ QueueStep
<1>1. /\ pushReq \in [PushIds -> PushRow]
      /\ cmd \in [Commands -> [pc: {"idle", "claimed", "finalize", "bellclear", "snapshot"},
                               id: PushIds \cup {NoPush},
                               outcome: {"none", "pushed", "push_failed"}]]
  BY DEF PushInv, PushOnlyTypeOK, PushTypeOK, GateTypeOK
<1>2. /\ pushCall' = pushCall /\ pushes' = pushes /\ landed' = landed
      /\ session' = session /\ planReq' = planReq /\ needsUser' = needsUser
      /\ cmd[c].pc = "idle"
  BY DEF ClaimPush
<1>3. CASE /\ Pending(pushReq[i])
           /\ pushReq' = cap_push_requests([pushReq EXCEPT ![i] = apply_approve(@)])
           /\ cmd' = [cmd EXCEPT ![c].pc = "claimed", ![c].id = i]
  <2> DEFINE q == [pushReq EXCEPT ![i] = apply_approve(@)]
  <2>1. q \in [PushIds -> PushRow]
    <3>1. 0 \in 0..GraceTicks
      BY GateConstants
    <3> QED BY <1>1, <3>1 DEF apply_approve, PushRow, PushStatus
  <2>2. KeepsRows(q, pushReq')
    BY <1>3, <2>1, CapKeepsRows
  <2>3. /\ q[i].in /\ q[i].status = "approved" /\ q[i].result = pushReq[i].result
        /\ q[i].age = 0
        /\ \A j \in PushIds \ {i} : q[j] = pushReq[j]
    BY <1>1, <1>3 DEF apply_approve, Pending, PushRow
  <2> HIDE DEF q
  <2>4. /\ pushReq[i].status = "pending_approval" /\ pushReq[i].result = "none"
        /\ pushes[i] = 0 /\ pushCall[i].told \notin {"pushed", "denied"}
    BY <1>3 DEF PushInv, RowInv, Pending, PushTerminal
  <2>5. /\ cmd' \in [Commands -> [pc: {"idle", "claimed", "finalize", "bellclear", "snapshot"},
                                  id: PushIds \cup {NoPush},
                                  outcome: {"none", "pushed", "push_failed"}]]
        /\ cmd'[c].pc = "claimed" /\ cmd'[c].id = i
        /\ \A d \in Commands \ {c} : cmd'[d] = cmd[d]
    BY <1>1, <1>3
  <2>6. PushOnlyTypeOK'
    BY <1>2, <2>2, <2>5 DEF PushInv, PushOnlyTypeOK, PushTypeOK, GateTypeOK, KeepsRows
  <2>7. \A j \in PushIds : RowInv(j)'
    <3>1. RowInv(i)'
      BY <1>2, <2>2, <2>3, <2>4 DEF PushInv, RowInv, KeepsRows, PushTerminal
    <3>2. \A j \in PushIds \ {i} : RowInv(j)'
      BY <1>2, <2>2, <2>3 DEF PushInv, RowInv, KeepsRows
    <3> QED BY <3>1, <3>2
  <2>8. HeldInv(c)'
    BY <1>2, <2>2, <2>3, <2>4, <2>5, PushConstants DEF HeldInv, InFlight, KeepsRows, PushTerminal
  <2>9. \A d \in Commands \ {c} : HeldInv(d)'
    BY <1>2, <2>2, <2>3, <2>4, <2>5 DEF PushInv, HeldInv, InFlight, KeepsRows, PushTerminal
  <2>10. HoldersApart'
    BY <2>4, <2>5 DEF PushInv, HoldersApart, HeldInv, InFlight
  <2>11. QueueStep
    BY <1>2, <2>2, <2>3, <2>4 DEF QueueStep, SameVerdict, Decided, KeepsRows
  <2> QED BY <2>6, <2>7, <2>8, <2>9, <2>10, <2>11 DEF PushInv
<1>4. CASE /\ pushReq' = IF pushReq[i].in THEN cap_push_requests(pushReq) ELSE pushReq
           /\ cmd' = [cmd EXCEPT ![c].pc = "snapshot", ![c].id = i]
  <2>1. KeepsRows(pushReq, pushReq')
    BY <1>1, <1>4, CapKeepsRows DEF KeepsRows
  <2>2. /\ cmd' \in [Commands -> [pc: {"idle", "claimed", "finalize", "bellclear", "snapshot"},
                                  id: PushIds \cup {NoPush},
                                  outcome: {"none", "pushed", "push_failed"}]]
        /\ cmd'[c].pc = "snapshot" /\ cmd'[c].id = i
        /\ \A d \in Commands \ {c} : cmd'[d] = cmd[d]
    BY <1>1, <1>4
  <2>3. PushOnlyTypeOK'
    BY <1>2, <2>1, <2>2 DEF PushInv, PushOnlyTypeOK, PushTypeOK, GateTypeOK, KeepsRows
  <2>4. \A j \in PushIds : RowInv(j)'
    BY <1>2, <2>1 DEF PushInv, RowInv, KeepsRows
  <2>5. \A d \in Commands : HeldInv(d)'
    BY <1>2, <2>1, <2>2 DEF PushInv, HeldInv, InFlight, KeepsRows, PushTerminal
  <2>6. HoldersApart'
    BY <2>2 DEF PushInv, HoldersApart, InFlight
  <2>7. QueueStep
    BY <1>2, <2>1 DEF QueueStep, SameVerdict, KeepsRows
  <2> QED BY <2>3, <2>4, <2>5, <2>6, <2>7 DEF PushInv
<1> QED BY <1>3, <1>4 DEF ClaimPush

\* A command that only moves on, or that the crash ends, lets go of what it holds.
LEMMA LetGoInv ==
    ASSUME PushInv,
           \/ \E c \in Commands : \/ ReturnSnapshot(c) \/ FinalizeLockFails(c)
                                  \/ ClearBellBestEffort(c)
           \/ AppCrash
    PROVE  PushInv' /\ QueueStep
<1> DEFINE CmdType == [Commands -> [pc: {"idle", "claimed", "finalize", "bellclear", "snapshot"},
                                    id: PushIds \cup {NoPush},
                                    outcome: {"none", "pushed", "push_failed"}]]
<1>1. /\ cmd \in CmdType
      /\ needsUser \in [Agents -> Reasons]
  BY DEF PushInv, PushOnlyTypeOK, PushTypeOK, GateTypeOK
<1>2. /\ pushReq' = pushReq /\ pushCall' = pushCall /\ pushes' = pushes
      /\ landed' = landed /\ session' = session /\ planReq' = planReq
  BY DEF ReturnSnapshot, FinalizeLockFails, ClearBellBestEffort, AppCrash
<1>3. needsUser' \in [Agents -> Reasons]
  <2>1. \A A : clear_request_needs_user(A) \in [Agents -> Reasons]
    BY <1>1, AppBellType
  <2>2. needsUser' = needsUser
        \/ \E c \in Commands : needsUser' = clear_request_needs_user({PushOwner[cmd[c].id]})
    BY DEF ReturnSnapshot, FinalizeLockFails, ClearBellBestEffort, AppCrash
  <2> QED BY <1>1, <2>1, <2>2
<1>4. /\ cmd' \in CmdType
      /\ \A d \in Commands : \/ cmd'[d] = cmd[d]
                             \/ cmd'[d].pc = "idle"
                             \/ /\ cmd'[d].pc = "bellclear" /\ cmd'[d].id = cmd[d].id
                                /\ cmd[d].pc = "finalize"
  <2>1. IdleCmd \in [pc: {"idle", "claimed", "finalize", "bellclear", "snapshot"},
                     id: PushIds \cup {NoPush},
                     outcome: {"none", "pushed", "push_failed"}]
        /\ IdleCmd.pc = "idle"
    BY DEF IdleCmd
  <2>2. CASE AppCrash
    BY <2>1, <2>2 DEF AppCrash
  <2>3. CASE \E c \in Commands : ReturnSnapshot(c) \/ ClearBellBestEffort(c)
    <3>1. PICK c \in Commands : cmd' = [cmd EXCEPT ![c] = IdleCmd]
      BY <2>3 DEF ReturnSnapshot, ClearBellBestEffort, Finish
    <3> QED BY <1>1, <2>1, <3>1
  <2>4. CASE \E c \in Commands : FinalizeLockFails(c)
    BY <1>1, <2>4 DEF FinalizeLockFails
  <2> QED BY <2>2, <2>3, <2>4
<1>5. PushOnlyTypeOK'
  BY <1>2, <1>3, <1>4 DEF PushInv, PushOnlyTypeOK, PushTypeOK, GateTypeOK
<1>6. \A j \in PushIds : RowInv(j)'
  BY <1>2 DEF PushInv, RowInv
<1>7. (\A c \in Commands : HeldInv(c))'
  BY <1>2, <1>4 DEF PushInv, HeldInv, InFlight
<1>8. HoldersApart'
  BY <1>4 DEF PushInv, HoldersApart, InFlight
<1>9. QueueStep
  BY <1>2 DEF QueueStep, SameVerdict
<1> QED BY <1>5, <1>6, <1>7, <1>8, <1>9 DEF PushInv

\* The push runs once for a claim, and its command knows whether it landed.
LEMMA RunInv ==
    ASSUME PushInv, NEW c \in Commands, RunApprovedPush(c)
    PROVE  PushInv' /\ QueueStep
<1>0. PICK i \in PushIds : i = cmd[c].id
  BY DEF RunApprovedPush, PushInv, HeldInv
<1>1. /\ cmd \in [Commands -> [pc: {"idle", "claimed", "finalize", "bellclear", "snapshot"},
                               id: PushIds \cup {NoPush},
                               outcome: {"none", "pushed", "push_failed"}]]
      /\ pushes \in [PushIds -> Nat] /\ landed \in [PushIds -> BOOLEAN]
  BY DEF PushInv, PushOnlyTypeOK, PushTypeOK
<1>2. /\ pushReq' = pushReq /\ pushCall' = pushCall /\ needsUser' = needsUser
      /\ session' = session /\ planReq' = planReq
  BY DEF RunApprovedPush
<1>3. /\ pushReq[i].status = "approved" /\ pushReq[i].in
      /\ pushReq[i].age <= PushWindow /\ pushes[i] = 0 /\ InFlight(c)
  BY <1>0 DEF RunApprovedPush, PushInv, HeldInv, InFlight
<1>4. PICK out \in {"pushed", "push_failed"}, reached \in BOOLEAN :
         /\ out = "pushed" => reached
         /\ cmd' = [cmd EXCEPT ![c].pc = "finalize", ![c].outcome = out]
         /\ landed' = [landed EXCEPT ![i] = @ \/ reached]
  BY <1>0 DEF RunApprovedPush
<1>5. pushes' = [pushes EXCEPT ![i] = @ + 1]
  BY <1>0 DEF RunApprovedPush
<1>6. /\ cmd' \in [Commands -> [pc: {"idle", "claimed", "finalize", "bellclear", "snapshot"},
                                id: PushIds \cup {NoPush},
                                outcome: {"none", "pushed", "push_failed"}]]
      /\ cmd'[c].pc = "finalize" /\ cmd'[c].id = i /\ cmd'[c].outcome = out
      /\ \A d \in Commands \ {c} : cmd'[d] = cmd[d]
  BY <1>0, <1>1, <1>4
<1>7. /\ landed' \in [PushIds -> BOOLEAN]
      /\ \A j \in PushIds : landed[j] => landed'[j]
      /\ out = "pushed" => landed'[i]
  BY <1>1, <1>3, <1>4
<1>8. /\ pushes' \in [PushIds -> Nat] /\ pushes'[i] = 1
      /\ \A j \in PushIds \ {i} : pushes'[j] = pushes[j]
  BY <1>1, <1>3, <1>5
<1>9. PushOnlyTypeOK'
  BY <1>2, <1>6, <1>7, <1>8 DEF PushInv, PushOnlyTypeOK, PushTypeOK, GateTypeOK
<1>10. \A j \in PushIds : RowInv(j)'
  <2>1. RowInv(i)'
    BY <1>2, <1>3, <1>7, <1>8 DEF PushInv, RowInv
  <2>2. \A j \in PushIds \ {i} : RowInv(j)'
    BY <1>2, <1>7, <1>8 DEF PushInv, RowInv
  <2> QED BY <2>1, <2>2
<1>11. (\A d \in Commands : HeldInv(d))'
  <2>1. HeldInv(c)'
    BY <1>2, <1>3, <1>6, <1>7 DEF HeldInv, InFlight
  <2>2. ASSUME NEW d \in Commands \ {c}
        PROVE  HeldInv(d)'
    <3>1. InFlight(d) => cmd[d].id # i
      BY <1>0, <1>3 DEF PushInv, HoldersApart
    <3>2. HeldInv(d) /\ (InFlight(d) => cmd[d].id \in PushIds)
      BY DEF PushInv, HeldInv, InFlight
    <3> QED BY <1>2, <1>6, <1>7, <1>8, <3>1, <3>2 DEF HeldInv, InFlight
  <2> QED BY <2>1, <2>2
<1>12. HoldersApart'
  BY <1>0, <1>3, <1>6 DEF PushInv, HoldersApart, InFlight
<1>13. QueueStep
  <2>1. pushes' = [pushes EXCEPT ![i] = 1]
    BY <1>1, <1>3, <1>5
  <2> QED BY <1>2, <1>3, <2>1 DEF QueueStep, SameVerdict
<1> QED BY <1>9, <1>10, <1>11, <1>12, <1>13 DEF PushInv

\* The holder records the outcome of its push: the row is still approved.
LEMMA FinalizeInv ==
    ASSUME PushInv, NEW c \in Commands, FinalizePush(c)
    PROVE  PushInv' /\ QueueStep
<1>0. PICK i \in PushIds : i = cmd[c].id
  BY DEF FinalizePush, PushInv, HeldInv
<1>1. /\ pushReq \in [PushIds -> PushRow] /\ needsUser \in [Agents -> Reasons]
      /\ cmd \in [Commands -> [pc: {"idle", "claimed", "finalize", "bellclear", "snapshot"},
                               id: PushIds \cup {NoPush},
                               outcome: {"none", "pushed", "push_failed"}]]
  BY DEF PushInv, PushOnlyTypeOK, PushTypeOK, GateTypeOK
<1>2. /\ pushCall' = pushCall /\ pushes' = pushes /\ landed' = landed
      /\ session' = session /\ planReq' = planReq
  BY DEF FinalizePush
<1>3. PICK out \in {"pushed", "push_failed"} :
         out = cmd[c].outcome /\ (out = "pushed" => landed[i])
  BY <1>0 DEF FinalizePush, PushInv, HeldInv
<1>4. /\ pushReq[i].in /\ pushReq[i].status = "approved" /\ InFlight(c)
      /\ pushes[i] <= 1 /\ pushCall[i].pc \notin {"idle", "enqueue"}
      /\ pushCall[i].told \notin {"pushed", "denied"}
  BY <1>0 DEF FinalizePush, PushInv, HeldInv, RowInv, InFlight
<1> DEFINE q == [pushReq EXCEPT ![i] = apply_push_result(@, out)]
<1>5. q \in [PushIds -> PushRow]
  <2>1. 0 \in 0..GraceTicks
    BY GateConstants
  <2>2. pushReq[i] \in PushRow
    BY <1>1
  <2>3. apply_push_result(pushReq[i], out) \in PushRow
    BY <2>1, <2>2 DEF apply_push_result, PushRow, PushStatus, PushTerminal
  <2> QED BY <1>1, <2>3
<1>6. pushReq' = cap_push_requests(q) /\ needsUser' = clear_request_needs_user({PushOwner[i]})
  BY <1>0, <1>3, <1>4 DEF FinalizePush, apply_push_result_override
<1>7. KeepsRows(q, pushReq')
  BY <1>5, <1>6, CapKeepsRows
<1>8. /\ q[i].in /\ q[i].status = out /\ q[i].result = out
      /\ \A j \in PushIds \ {i} : q[j] = pushReq[j]
  BY <1>1, <1>4 DEF apply_push_result, PushRow
<1> HIDE DEF q
<1>9. needsUser' \in [Agents -> Reasons]
  BY <1>1, <1>6, AppBellType
<1>10. /\ cmd' \in [Commands -> [pc: {"idle", "claimed", "finalize", "bellclear", "snapshot"},
                                 id: PushIds \cup {NoPush},
                                 outcome: {"none", "pushed", "push_failed"}]]
       /\ cmd'[c].pc = "idle"
       /\ \A d \in Commands \ {c} : cmd'[d] = cmd[d]
  BY <1>1 DEF FinalizePush, Finish, IdleCmd
<1>11. PushOnlyTypeOK'
  BY <1>2, <1>7, <1>9, <1>10 DEF PushInv, PushOnlyTypeOK, PushTypeOK, GateTypeOK, KeepsRows
<1>12. \A j \in PushIds : RowInv(j)'
  <2>1. RowInv(i)'
    BY <1>2, <1>3, <1>4, <1>7, <1>8 DEF RowInv, KeepsRows, PushTerminal
  <2>2. \A j \in PushIds \ {i} : RowInv(j)'
    BY <1>2, <1>7, <1>8 DEF PushInv, RowInv, KeepsRows
  <2> QED BY <2>1, <2>2
<1>13. (\A d \in Commands : HeldInv(d))'
  <2>1. HeldInv(c)'
    BY <1>10 DEF HeldInv, InFlight
  <2>2. ASSUME NEW d \in Commands \ {c}
        PROVE  HeldInv(d)'
    <3>1. InFlight(d) => cmd[d].id # i
      BY <1>0, <1>4 DEF PushInv, HoldersApart
    <3>2. HeldInv(d)
      BY DEF PushInv
    <3> QED BY <1>2, <1>7, <1>8, <1>10, <3>1, <3>2
            DEF HeldInv, InFlight, KeepsRows, PushTerminal
  <2> QED BY <2>1, <2>2
<1>14. HoldersApart'
  BY <1>10 DEF PushInv, HoldersApart, InFlight
<1>15. QueueStep
  BY <1>2, <1>3, <1>4, <1>7, <1>8 DEF QueueStep, SameVerdict, KeepsRows
<1> QED BY <1>11, <1>12, <1>13, <1>14, <1>15 DEF PushInv

\* A deny acts only on a pending request; otherwise it only trims the queue.
LEMMA DenyInv ==
    ASSUME PushInv, NEW i \in PushIds, DenyPush(i)
    PROVE  PushInv' /\ QueueStep
<1>1. /\ pushReq \in [PushIds -> PushRow] /\ needsUser \in [Agents -> Reasons]
  BY DEF PushInv, PushOnlyTypeOK, GateTypeOK
<1>2. /\ pushCall' = pushCall /\ cmd' = cmd /\ pushes' = pushes /\ landed' = landed
      /\ session' = session /\ planReq' = planReq
  BY DEF DenyPush
<1>3. needsUser' \in [Agents -> Reasons]
  <2>1. clear_request_needs_user({PushOwner[i]}) \in [Agents -> Reasons]
    BY <1>1, AppBellType
  <2> QED BY <1>1, <2>1 DEF DenyPush
<1>4. PICK q \in [PushIds -> PushRow] :
         /\ pushReq' = cap_push_requests(q)
         /\ \A j \in PushIds \ {i} : q[j] = pushReq[j]
         /\ \/ q[i] = pushReq[i]
            \/ /\ pushReq[i].in /\ pushReq[i].status = "pending_approval"
               /\ q[i].in /\ q[i].status = "denied" /\ q[i].result = "denied"
  <2>1. CASE Pending(pushReq[i])
    <3> DEFINE q == [pushReq EXCEPT ![i] = apply_deny(@)]
    <3>1. /\ q \in [PushIds -> PushRow]
          /\ \A j \in PushIds \ {i} : q[j] = pushReq[j]
          /\ pushReq[i].in /\ pushReq[i].status = "pending_approval"
          /\ q[i].in /\ q[i].status = "denied" /\ q[i].result = "denied"
      BY <1>1, <2>1 DEF apply_deny, Pending, PushRow, PushStatus, PushTerminal
    <3>2. pushReq' = cap_push_requests(q)
      BY <2>1 DEF DenyPush
    <3> HIDE DEF q
    <3> QED BY <3>1, <3>2
  <2>2. CASE ~Pending(pushReq[i])
    <3>1. pushReq' = cap_push_requests(pushReq)
      BY <2>2 DEF DenyPush
    <3> QED BY <1>1, <3>1
  <2> QED BY <2>1, <2>2
<1>5. KeepsRows(q, pushReq')
  BY <1>4, CapKeepsRows
<1>6. PushOnlyTypeOK'
  BY <1>2, <1>3, <1>5 DEF PushInv, PushOnlyTypeOK, PushTypeOK, GateTypeOK, KeepsRows
<1>7. \A j \in PushIds : RowInv(j)'
  <2>1. RowInv(i)'
    BY <1>2, <1>4, <1>5 DEF PushInv, RowInv, KeepsRows, PushTerminal
  <2>2. \A j \in PushIds \ {i} : RowInv(j)'
    BY <1>2, <1>4, <1>5 DEF PushInv, RowInv, KeepsRows
  <2> QED BY <2>1, <2>2
<1>8. (\A c \in Commands : HeldInv(c))'
  BY <1>2, <1>4, <1>5 DEF PushInv, HeldInv, InFlight, KeepsRows, PushTerminal
<1>9. HoldersApart'
  BY <1>2 DEF PushInv, HoldersApart, InFlight
<1>10. QueueStep
  BY <1>2, <1>4, <1>5 DEF QueueStep, SameVerdict, Decided, KeepsRows
<1> QED BY <1>6, <1>7, <1>8, <1>9, <1>10 DEF PushInv

\* The stuck-request rule reaches no request that a command still holds.
LEMMA ReconcileInv ==
    ASSUME PushInv, ReconcileStuck
    PROVE  PushInv' /\ QueueStep
<1>1. /\ pushReq \in [PushIds -> PushRow] /\ needsUser \in [Agents -> Reasons]
  BY DEF PushInv, PushOnlyTypeOK, GateTypeOK
<1>2. /\ pushCall' = pushCall /\ cmd' = cmd /\ pushes' = pushes /\ landed' = landed
      /\ session' = session /\ planReq' = planReq
  BY DEF ReconcileStuck
<1>3. needsUser' \in [Agents -> Reasons]
  BY <1>1, AppBellType DEF ReconcileStuck
<1>4. /\ pushReq' \in [PushIds -> PushRow]
      /\ \A j \in PushIds :
            \/ pushReq'[j] = pushReq[j]
            \/ /\ pushReq[j].status = "approved" /\ pushReq[j].age >= GraceTicks
               /\ pushReq'[j].in = pushReq[j].in
               /\ pushReq'[j].status = "push_failed" /\ pushReq'[j].result = "push_failed"
  <2>1. 0 \in 0..GraceTicks
    BY GateConstants
  <2> DEFINE f(j) == IF is_stuck_request(pushReq[j])
                     THEN apply_push_result(pushReq[j], "push_failed") ELSE pushReq[j]
  <2>2. pushReq' = [j \in PushIds |-> f(j)]
    BY DEF ReconcileStuck
  <2>3. ASSUME NEW j \in PushIds
        PROVE  /\ f(j) \in PushRow
               /\ \/ f(j) = pushReq[j]
                  \/ /\ pushReq[j].status = "approved" /\ pushReq[j].age >= GraceTicks
                     /\ f(j).in = pushReq[j].in
                     /\ f(j).status = "push_failed" /\ f(j).result = "push_failed"
    BY <1>1, <2>1 DEF is_stuck_request, apply_push_result, PushRow, PushStatus, PushTerminal
  <2> QED BY <2>2, <2>3
<1>5. PushOnlyTypeOK'
  BY <1>2, <1>3, <1>4 DEF PushInv, PushOnlyTypeOK, PushTypeOK, GateTypeOK
<1>6. \A j \in PushIds : RowInv(j)'
  BY <1>2, <1>4 DEF PushInv, RowInv, PushTerminal
<1>7. ASSUME NEW c \in Commands
      PROVE  HeldInv(c)'
  <2>1. ASSUME InFlight(c)
        PROVE  pushReq'[cmd[c].id] = pushReq[cmd[c].id]
    <3>1. PICK j \in PushIds : j = cmd[c].id /\ pushReq[j].age <= PushWindow
      BY <2>1 DEF PushInv, HeldInv, InFlight
    <3>2. ~(pushReq[j].age >= GraceTicks)
      <4>1. pushReq[j].age \in Nat
        BY <1>1, GateConstants DEF PushRow
      <4> QED BY <3>1, <4>1, PushConstants, GateConstants
    <3> QED BY <1>4, <3>1, <3>2
  <2> QED BY <1>2, <2>1 DEF PushInv, HeldInv, InFlight
<1>8. HoldersApart'
  BY <1>2 DEF PushInv, HoldersApart, InFlight
<1>9. QueueStep
  BY <1>2, <1>4 DEF QueueStep, SameVerdict
<1> QED BY <1>5, <1>6, <1>7, <1>8, <1>9 DEF PushInv

\* The clock advances only while every held request is inside the push window.
LEMMA TickInv ==
    ASSUME PushInv, Tick
    PROVE  PushInv' /\ QueueStep
<1>1. pushReq \in [PushIds -> PushRow]
  BY DEF PushInv, PushOnlyTypeOK, GateTypeOK
<1>2. /\ pushCall' = pushCall /\ cmd' = cmd /\ pushes' = pushes /\ landed' = landed
      /\ session' = session /\ planReq' = planReq /\ needsUser' = needsUser
  BY DEF Tick
<1>3. /\ pushReq' \in [PushIds -> PushRow]
      /\ \A j \in PushIds :
            /\ pushReq'[j].in = pushReq[j].in
            /\ pushReq'[j].status = pushReq[j].status
            /\ pushReq'[j].result = pushReq[j].result
            /\ pushReq'[j].age \in {pushReq[j].age, pushReq[j].age + 1}
  <2> DEFINE f(j) == IF pushReq[j].status = "approved" /\ pushReq[j].age < GraceTicks
                     THEN [pushReq[j] EXCEPT !.age = @ + 1] ELSE pushReq[j]
  <2>1. pushReq' = [j \in PushIds |-> f(j)]
    BY DEF Tick
  <2>2. ASSUME NEW j \in PushIds
        PROVE  /\ f(j) \in PushRow
               /\ f(j).in = pushReq[j].in /\ f(j).status = pushReq[j].status
               /\ f(j).result = pushReq[j].result
               /\ f(j).age \in {pushReq[j].age, pushReq[j].age + 1}
    BY <1>1, GateConstants DEF PushRow
  <2> QED BY <2>1, <2>2
<1>4. PushOnlyTypeOK'
  BY <1>2, <1>3 DEF PushInv, PushOnlyTypeOK, PushTypeOK, GateTypeOK
<1>5. \A j \in PushIds : RowInv(j)'
  BY <1>2, <1>3 DEF PushInv, RowInv
<1>6. ASSUME NEW c \in Commands
      PROVE  HeldInv(c)'
  <2>1. InFlight(c) => /\ cmd[c].id \in PushIds
                       /\ pushReq[cmd[c].id].age < PushWindow
    BY DEF Tick, PushInv, HeldInv, InFlight
  <2>2. InFlight(c) => pushReq'[cmd[c].id].age <= PushWindow
    <3>1. \A j \in PushIds : pushReq[j].age \in Nat
      BY <1>1, GateConstants DEF PushRow
    <3> QED BY <1>3, <2>1, <3>1, PushConstants
  <2> QED BY <1>2, <1>3, <2>2 DEF PushInv, HeldInv, InFlight
<1>7. HoldersApart'
  BY <1>2 DEF PushInv, HoldersApart, InFlight
<1>8. QueueStep
  BY <1>2, <1>3 DEF QueueStep, SameVerdict
<1> QED BY <1>4, <1>5, <1>6, <1>7, <1>8 DEF PushInv

-----------------------------------------------------------------------------
(***************************************************************************)
(* The theorems.                                                           *)
(***************************************************************************)

\* The empty queue satisfies the invariant.
LEMMA InitInv == PushOnlyInit => PushInv
<1> SUFFICES ASSUME PushOnlyInit PROVE PushInv
  OBVIOUS
<1>1. /\ 0 \in 0..GraceTicks /\ 0 \in Nat
  BY GateConstants
<1>2. GateTypeOK
  BY <1>1 DEF PushOnlyInit, GateInit, GateTypeOK, SessionStatus, Reasons, PushRow,
              PushStatus, PlanRow, PlanStatus
<1>3. PushTypeOK
  BY <1>1 DEF PushOnlyInit, PushInit, PushTypeOK, Answers, IdleCmd
<1>4. \A i \in PushIds : RowInv(i)
  BY DEF PushOnlyInit, GateInit, PushInit, RowInv, PushTerminal
<1>5. \A c \in Commands : cmd[c].pc = "idle"
  BY DEF PushOnlyInit, PushInit, IdleCmd
<1>6. (\A c \in Commands : HeldInv(c)) /\ HoldersApart
  BY <1>5 DEF HeldInv, HoldersApart, InFlight
<1> QED BY <1>2, <1>3, <1>4, <1>6 DEF PushInv, PushOnlyTypeOK

\* Every step of the gate keeps the invariant and is a QueueStep.
LEMMA StepInv == PushInv /\ [PushOnlyNext]_pushOnlyVars => PushInv' /\ QueueStep
<1> SUFFICES ASSUME PushInv, [PushOnlyNext]_pushOnlyVars PROVE PushInv' /\ QueueStep
  OBVIOUS
<1>1. CASE UNCHANGED pushOnlyVars
  BY <1>1 DEF pushOnlyVars, gateVars, pushLocal, PushInv, PushOnlyTypeOK, GateTypeOK,
              PushTypeOK, RowInv, HeldInv, HoldersApart, InFlight, QueueStep, SameVerdict
<1>2. ASSUME NEW i \in PushIds, BeginPush(i) \/ PushCallStep(i) \/ KillPushCall(i) \/ DenyPush(i)
      PROVE  PushInv' /\ QueueStep
  BY <1>2, CallStepInv, EnqueueInv, SweepInv, DenyInv
  DEF PushCallStep, PushCallProgress
<1>3. ASSUME NEW c \in Commands, CommandStep(c)
      PROVE  PushInv' /\ QueueStep
  BY <1>3, LetGoInv, RunInv, FinalizeInv DEF CommandStep
<1>4. ASSUME NEW c \in Commands, NEW i \in PushIds, ClaimPush(c, i)
      PROVE  PushInv' /\ QueueStep
  BY <1>4, ClaimInv
<1>5. CASE ReconcileStuck \/ Tick \/ AppCrash
  BY <1>5, ReconcileInv, TickInv, LetGoInv
<1> QED BY <1>1, <1>2, <1>3, <1>4, <1>5 DEF PushOnlyNext, PushNext

\* PushInv holds in every state the push gate can reach.
THEOREM PushInvariant == PushOnlySpec => []PushInv
BY InitInv, StepInv, PTL DEF PushOnlySpec

\* Rows, calls and commands stay well-formed, whatever the faults.
THEOREM PushTypeCorrect == PushOnlySpec => []PushOnlyTypeOK
<1>1. PushInv => PushOnlyTypeOK
  BY DEF PushInv
<1> QED BY <1>1, PushInvariant, PTL

\* No interleaving of clicks, polls, crashes and card refreshes pushes a request twice.
THEOREM PushedOnce == PushOnlySpec => []AtMostOnePush
<1>1. PushInv => AtMostOnePush
  BY DEF PushInv, RowInv, AtMostOnePush
<1> QED BY <1>1, PushInvariant, PTL

\* What the queue records of a request agrees with what happened to it.
THEOREM PushRecordTruthful == PushOnlySpec => []RecordTruthful
<1>1. PushInv => RecordTruthful
  BY DEF PushInv, RowInv, RecordTruthful
<1> QED BY <1>1, PushInvariant, PTL

\* Between its claim and its finalize an approve command holds its request alone.
THEOREM PushHeld == PushOnlySpec => []InFlightHeld
<1>1. PushInv => InFlightHeld
  BY DEF PushInv, HeldInv, HoldersApart, InFlightHeld
<1> QED BY <1>1, PushInvariant, PTL

\* An agent told pushed or denied was told the truth.
THEOREM PushAnswerTruthful == PushOnlySpec => []AnswerTruthful
<1>1. PushInv => AnswerTruthful
  BY DEF PushInv, RowInv, AnswerTruthful
<1> QED BY <1>1, PushInvariant, PTL

\* Eviction never takes an unanswered ask or a push in flight from the queue.
THEOREM PushEvictsTerminalOnly == PushOnlySpec => PushEvictionSafe
<1>1. PushInv /\ [PushOnlyNext]_pushOnlyVars
         => [\A i \in PushIds : pushReq[i].in /\ ~pushReq'[i].in
                                  => pushReq'[i].status \in PushTerminal]_pushReq
  BY StepInv DEF QueueStep
<1> QED BY <1>1, PushInvariant, PTL DEF PushOnlySpec, PushEvictionSafe

\* No late finalize, approve, sweep or reconciliation rewrites a terminal verdict.
THEOREM PushVerdictsFinal == PushOnlySpec => PushVerdictFinal
<1>1. PushInv /\ [PushOnlyNext]_pushOnlyVars
         => [\A i \in PushIds : pushReq[i].status \in PushTerminal
                                  => pushReq'[i].status = pushReq[i].status]_pushReq
  BY StepInv DEF QueueStep, SameVerdict, Decided, PushTerminal
<1> QED BY <1>1, PushInvariant, PTL DEF PushOnlySpec, PushVerdictFinal

\* The abstract verdicts of the statuses.
LEMMA Verdicts ==
    /\ VerdictOf("none") = "none" /\ VerdictOf("pending_approval") = "asked"
    /\ VerdictOf("denied") = "refused" /\ VerdictOf("timeout") = "refused"
    /\ VerdictOf("approved") = "granted"
    /\ VerdictOf("pushed") = "granted" /\ VerdictOf("push_failed") = "granted"
BY DEF VerdictOf

\* A step of the queue is a step of the abstract gate or leaves it alone.
LEMMA GateSimulation ==
    ASSUME QueueStep
    PROVE  [PushGate!Next]_(PushGate!gate)
<1>1. \A j \in PushIds : SameVerdict(j) => PushVerdict'[j] = PushVerdict[j]
  BY Verdicts DEF SameVerdict, PushVerdict
<1>2. CASE (\A j \in PushIds : SameVerdict(j)) /\ pushes' = pushes
  <2>1. PushVerdict' = PushVerdict
    BY <1>1, <1>2 DEF PushVerdict
  <2> QED BY <1>2, <2>1 DEF PushGate!gate
<1>3. ASSUME NEW i \in PushIds, \A j \in PushIds : SameVerdict(j),
             pushReq[i].status = "approved", pushes[i] = 0,
             pushes' = [pushes EXCEPT ![i] = 1]
      PROVE  PushGate!Act(i)
  <2>1. PushVerdict' = PushVerdict
    BY <1>1, <1>3 DEF PushVerdict
  <2>2. PushVerdict[i] = "granted"
    BY <1>3, Verdicts DEF PushVerdict
  <2> QED BY <1>3, <2>1, <2>2 DEF PushGate!Act
<1>4. ASSUME NEW i \in PushIds, Decided(i), \A j \in PushIds \ {i} : SameVerdict(j),
             pushes' = pushes
      PROVE  PushGate!Ask(i) \/ PushGate!Grant(i) \/ PushGate!Refuse(i)
  <2>1. /\ PushVerdict[i] = VerdictOf(pushReq[i].status)
        /\ PushVerdict'[i] = VerdictOf(pushReq'[i].status)
    BY DEF PushVerdict
  <2>2. PushVerdict' = [PushVerdict EXCEPT ![i] = VerdictOf(pushReq'[i].status)]
    BY <1>1, <1>4, <2>1 DEF PushVerdict
  <2>3. \/ PushVerdict[i] = "none" /\ VerdictOf(pushReq'[i].status) = "asked"
        \/ /\ PushVerdict[i] = "asked"
           /\ VerdictOf(pushReq'[i].status) \in {"granted", "refused"}
    BY <1>4, <2>1, Verdicts DEF Decided
  <2> QED BY <1>4, <2>2, <2>3 DEF PushGate!Ask, PushGate!Grant, PushGate!Refuse, PushGate!Move
<1> QED BY <1>2, <1>3, <1>4 DEF QueueStep, PushGate!Next

\* The push gate, with its queue, its concurrent commands and its faults, implements
\* the abstract approval gate.
THEOREM PushGateImplemented == PushOnlySpec => PushImplementsGate
<1>1. PushOnlyInit => PushGate!Init
  BY Verdicts DEF PushOnlyInit, GateInit, PushInit, PushGate!Init, PushVerdict
<1>2. PushInv /\ [PushOnlyNext]_pushOnlyVars => [PushGate!Next]_(PushGate!gate)
  BY StepInv, GateSimulation
<1> QED BY <1>1, <1>2, PushInvariant, PTL DEF PushOnlySpec, PushImplementsGate, PushGate!Spec

-----------------------------------------------------------------------------
(***************************************************************************)
(* The bell and the answer "timeout".  Both need to know which requests a  *)
(* step ends and that a row enters the file only by its own call.          *)
(***************************************************************************)

\* A step ends request j.
Ends(j) == /\ pushReq[j].in /\ pushReq[j].status \in Outstanding
           /\ pushReq'[j].status \notin Outstanding

\* The agent has a push request that waits or is in flight.
Caused(a) == \E i \in PushIds : /\ pushReq[i].in /\ PushOwner[i] = a
                                /\ pushReq[i].status \in Outstanding

\* A bell that rings after the step has its cause, or rang before and lost none.
BellStep ==
    \A a \in Agents : needsUser'[a] = "needs_push_approval" =>
        \/ Caused(a)'
        \/ /\ needsUser[a] = "needs_push_approval"
           /\ \A j \in PushIds : PushOwner[j] = a => ~Ends(j)

\* A row enters the file only while its call enqueues it.
EntryStep == \A j \in PushIds : pushReq'[j].in => pushReq[j].in \/ pushCall[j].pc = "enqueue"

\* No plan is ever in the queue of the push gate alone.
NoPlans == \A i \in PlanIds : ~planReq[i].in

\* The steps that leave the queue alone: a bell is only cleared.
LEMMA OffQueueBell ==
    ASSUME PushInv, pushReq' = pushReq,
           \/ needsUser' = needsUser
           \/ \E A : needsUser' = clear_request_needs_user(A)
           \/ \E i \in PushIds : needsUser' = clear_gate_needs_user_if_idle(
                                     PushOwner[i], "needs_push_approval", {i}, {})
    PROVE  BellStep /\ EntryStep
<1>1. \A a \in Agents : needsUser'[a] = "needs_push_approval"
                            => needsUser[a] = "needs_push_approval"
  <2>1. needsUser \in [Agents -> Reasons]
    BY DEF PushInv, PushOnlyTypeOK, GateTypeOK
  <2> QED BY <2>1 DEF clear_request_needs_user, clear_gate_needs_user_if_idle,
                      clear_needs_user_if_reason
<1> QED BY <1>1 DEF BellStep, EntryStep, Ends

\* A step that writes the queue: rows other than i keep their status, i may be ended if
\* its owner's bell is cleared.
LEMMA OneRowBell ==
    ASSUME PushInv, NEW i \in PushIds, NEW q \in [PushIds -> PushRow],
           KeepsRows(q, pushReq'),
           \A j \in PushIds \ {i} : q[j] = pushReq[j],
           q[i].in => pushReq[i].in,
           \/ needsUser' = needsUser /\ (q[i].status = pushReq[i].status \/ q[i].status = "approved")
           \/ needsUser' = clear_request_needs_user({PushOwner[i]})
    PROVE  BellStep /\ EntryStep
<1>1. needsUser \in [Agents -> Reasons]
  BY DEF PushInv, PushOnlyTypeOK, GateTypeOK
<1>2. /\ \A j \in PushIds \ {i} : pushReq'[j].status = pushReq[j].status
      /\ pushReq'[i].status = q[i].status
      /\ \A j \in PushIds : pushReq'[j].in => pushReq[j].in
  BY DEF KeepsRows
<1>3. \A j \in PushIds \ {i} : ~Ends(j)
  BY <1>2 DEF Ends
<1>4. CASE needsUser' = needsUser /\ (q[i].status = pushReq[i].status \/ q[i].status = "approved")
  <2>1. ~Ends(i)
    BY <1>2, <1>4 DEF Ends, Outstanding
  <2> QED BY <1>2, <1>3, <1>4, <2>1 DEF BellStep, EntryStep
<1>5. CASE needsUser' = clear_request_needs_user({PushOwner[i]})
  <2>1. \A a \in Agents : needsUser'[a] = "needs_push_approval"
                             => a # PushOwner[i] /\ needsUser[a] = "needs_push_approval"
    BY <1>5 DEF clear_request_needs_user
  <2> QED BY <1>2, <1>3, <2>1 DEF BellStep, EntryStep
<1> QED BY <1>4, <1>5

\* The enqueue rings the bell for the row it puts in the file.
LEMMA EnqueueBell ==
    ASSUME PushInv, NEW i \in PushIds, EnqueuePush(i)
    PROVE  BellStep /\ EntryStep
<1> DEFINE q == [pushReq EXCEPT ![i] = [@ EXCEPT !.in = TRUE, !.status = "pending_approval"]]
<1>1. /\ pushReq \in [PushIds -> PushRow] /\ needsUser \in [Agents -> Reasons]
  BY DEF PushInv, PushOnlyTypeOK, GateTypeOK
<1>2. /\ q \in [PushIds -> PushRow] /\ q[i].in /\ q[i].status = "pending_approval"
      /\ \A j \in PushIds \ {i} : q[j] = pushReq[j]
  BY <1>1 DEF PushRow, PushStatus
<1>3. KeepsRows(q, pushReq')
  BY <1>2, CapKeepsRows DEF EnqueuePush
<1> HIDE DEF q
<1>4. pushReq'[i].in /\ pushReq'[i].status = "pending_approval"
  BY <1>2, <1>3 DEF KeepsRows, PushTerminal
<1>5. \A j \in PushIds : ~Ends(j)
  BY <1>2, <1>3, <1>4 DEF Ends, KeepsRows, Outstanding
<1>6. Caused(PushOwner[i])'
  BY <1>4 DEF Caused, Outstanding
<1>7. \A a \in Agents : a = PushOwner[i] \/ needsUser'[a] = needsUser[a]
  BY <1>1 DEF EnqueuePush, set_needs_user
<1>8. pushCall[i].pc = "enqueue"
  BY DEF EnqueuePush
<1> QED BY <1>2, <1>3, <1>5, <1>6, <1>7, <1>8 DEF BellStep, EntryStep, KeepsRows

\* The sweep that stamps a timeout clears the bell unless another push request of the
\* agent is outstanding, which then is its cause.
LEMMA SweepBell ==
    ASSUME PushInv, NoPlans, NEW i \in PushIds, SweepPush(i)
    PROVE  BellStep /\ EntryStep
<1>1. CASE UNCHANGED <<needsUser, pushReq>>
  BY <1>1, OffQueueBell
<1>2. CASE /\ Pending(pushReq[i])
           /\ pushReq' = [pushReq EXCEPT ![i] = apply_timeout(@)]
           /\ needsUser' = clear_gate_needs_user_if_idle(
                              PushOwner[i], "needs_push_approval", {i}, {})
  <2>1. /\ pushReq \in [PushIds -> PushRow] /\ needsUser \in [Agents -> Reasons]
    BY DEF PushInv, PushOnlyTypeOK, GateTypeOK
  <2>2. /\ \A j \in PushIds \ {i} : pushReq'[j] = pushReq[j] /\ ~Ends(j)
        /\ pushReq'[i].in = pushReq[i].in
    BY <1>2, <2>1 DEF apply_timeout, PushRow, Ends
  <2>3. ASSUME NEW a \in Agents, needsUser'[a] = "needs_push_approval"
        PROVE  /\ needsUser[a] = "needs_push_approval"
               /\ a = PushOwner[i] => Caused(a)'
    <3>1. CASE agent_has_outstanding_gate_request(PushOwner[i], {i}, {})
      <4>1. needsUser' = needsUser
        BY <1>2, <3>1 DEF clear_gate_needs_user_if_idle
      <4>2. PICK j \in PushIds \ {i} : /\ pushReq[j].in /\ PushOwner[j] = PushOwner[i]
                                       /\ pushReq[j].status \in Outstanding
        BY <3>1 DEF agent_has_outstanding_gate_request, NoPlans
      <4>3. Caused(PushOwner[i])'
        BY <2>2, <4>2 DEF Caused
      <4> QED BY <2>3, <4>1, <4>3
    <3>2. CASE ~agent_has_outstanding_gate_request(PushOwner[i], {i}, {})
      BY <1>2, <2>1, <2>3, <3>2 DEF clear_gate_needs_user_if_idle, clear_needs_user_if_reason
    <3> QED BY <3>1, <3>2
  <2> QED BY <2>2, <2>3 DEF BellStep, EntryStep
<1> QED BY <1>1, <1>2 DEF SweepPush

\* A claim approves a row or only trims the queue.
LEMMA ClaimBell ==
    ASSUME PushInv, NEW c \in Commands, NEW i \in PushIds, ClaimPush(c, i)
    PROVE  BellStep /\ EntryStep
<1>1. pushReq \in [PushIds -> PushRow]
  BY DEF PushInv, PushOnlyTypeOK, GateTypeOK
<1>2. needsUser' = needsUser
  BY DEF ClaimPush
<1> DEFINE q == [pushReq EXCEPT ![i] = apply_approve(@)]
<1>3. CASE Pending(pushReq[i]) /\ pushReq' = cap_push_requests(q)
  <2>1. 0 \in 0..GraceTicks
    BY GateConstants
  <2>2. /\ q \in [PushIds -> PushRow]
        /\ \A j \in PushIds \ {i} : q[j] = pushReq[j]
        /\ q[i].status = "approved" /\ q[i].in = pushReq[i].in
    BY <1>1, <2>1 DEF apply_approve, PushRow, PushStatus
  <2> HIDE DEF q
  <2>3. KeepsRows(q, pushReq')
    BY <1>3, <2>2, CapKeepsRows
  <2> QED BY <1>2, <2>2, <2>3, OneRowBell
<1>4. CASE pushReq' = cap_push_requests(pushReq)
  <2>1. KeepsRows(pushReq, pushReq')
    BY <1>1, <1>4, CapKeepsRows
  <2> QED BY <1>1, <1>2, <2>1, OneRowBell
<1>5. CASE pushReq' = pushReq
  BY <1>2, <1>5, OffQueueBell
<1> QED BY <1>3, <1>4, <1>5 DEF ClaimPush

\* A finalize and a deny clear the bell of the request they end.
LEMMA EndBell ==
    ASSUME PushInv,
           (\E c \in Commands : FinalizePush(c)) \/ (\E i \in PushIds : DenyPush(i))
    PROVE  BellStep /\ EntryStep
<1>1. pushReq \in [PushIds -> PushRow]
  BY DEF PushInv, PushOnlyTypeOK, GateTypeOK
<1>2. ASSUME NEW c \in Commands, FinalizePush(c) PROVE BellStep /\ EntryStep
  <2>1. CASE UNCHANGED <<needsUser, pushReq>>
    BY <2>1, OffQueueBell
  <2> DEFINE i == cmd[c].id
             q == [pushReq EXCEPT ![i] = apply_push_result_override(@, cmd[c].outcome)]
  <2>2. CASE /\ pushReq' = cap_push_requests(q)
             /\ needsUser' = clear_request_needs_user({PushOwner[i]})
    <3>1. i \in PushIds /\ cmd[c].outcome \in {"pushed", "push_failed"} /\ 0 \in 0..GraceTicks
      BY <1>2, GateConstants DEF FinalizePush, PushInv, HeldInv
    <3>2. /\ q \in [PushIds -> PushRow]
          /\ \A j \in PushIds \ {i} : q[j] = pushReq[j]
          /\ q[i].in = pushReq[i].in
      <4>1. pushReq[i] \in PushRow
        BY <1>1, <3>1
      <4>2. /\ apply_push_result_override(pushReq[i], cmd[c].outcome) \in PushRow
            /\ apply_push_result_override(pushReq[i], cmd[c].outcome).in = pushReq[i].in
        BY <3>1, <4>1 DEF apply_push_result_override, apply_push_result, PushRow, PushStatus,
                          PushTerminal
      <4> HIDE DEF i
      <4> QED BY <1>1, <3>1, <4>2
    <3> HIDE DEF q, i
    <3>3. KeepsRows(q, pushReq')
      BY <2>2, <3>2, CapKeepsRows
    <3> QED BY <2>2, <3>1, <3>2, <3>3, OneRowBell
  <2> QED BY <1>2, <2>1, <2>2 DEF FinalizePush
<1>3. ASSUME NEW i \in PushIds, DenyPush(i) PROVE BellStep /\ EntryStep
  <2> DEFINE q == [pushReq EXCEPT ![i] = apply_deny(@)]
  <2>1. CASE /\ pushReq' = cap_push_requests(q)
             /\ needsUser' = clear_request_needs_user({PushOwner[i]})
    <3>1. /\ q \in [PushIds -> PushRow]
          /\ \A j \in PushIds \ {i} : q[j] = pushReq[j]
          /\ q[i].in = pushReq[i].in
      BY <1>1 DEF apply_deny, PushRow, PushStatus, PushTerminal
    <3> HIDE DEF q
    <3>2. KeepsRows(q, pushReq')
      BY <2>1, <3>1, CapKeepsRows
    <3> QED BY <2>1, <3>1, <3>2, OneRowBell
  <2>2. CASE pushReq' = cap_push_requests(pushReq) /\ needsUser' = needsUser
    <3>1. KeepsRows(pushReq, pushReq')
      BY <1>1, <2>2, CapKeepsRows
    <3> QED BY <1>1, <2>2, <3>1, OneRowBell
  <2> QED BY <1>3, <2>1, <2>2 DEF DenyPush
<1> QED BY <1>2, <1>3

\* So does the stuck-request rule, for all the requests it ends at once.
LEMMA ReconcileBell ==
    ASSUME PushInv, ReconcileStuck
    PROVE  BellStep /\ EntryStep
<1> DEFINE stuck == {i \in PushIds : is_stuck_request(pushReq[i])}
<1>1. pushReq \in [PushIds -> PushRow]
  BY DEF PushInv, PushOnlyTypeOK, GateTypeOK
<1>2. ASSUME NEW j \in PushIds
      PROVE  pushReq'[j].in = pushReq[j].in /\ (Ends(j) => j \in stuck)
  <2>1. pushReq'[j] = IF j \in stuck THEN apply_push_result(pushReq[j], "push_failed")
                                     ELSE pushReq[j]
    BY DEF ReconcileStuck
  <2> HIDE DEF stuck
  <2> QED BY <1>1, <2>1 DEF apply_push_result, PushRow, Ends
<1>3. needsUser' = clear_request_needs_user({PushOwner[i] : i \in stuck})
  BY DEF ReconcileStuck
<1> HIDE DEF stuck
<1>4. \A a \in Agents : needsUser'[a] = "needs_push_approval" =>
          /\ needsUser[a] = "needs_push_approval"
          /\ \A j \in stuck : PushOwner[j] # a
  BY <1>3 DEF clear_request_needs_user
<1> QED BY <1>2, <1>4 DEF BellStep, EntryStep

\* The clock touches neither the file nor the bell.
LEMMA TickBell ==
    ASSUME PushInv, Tick
    PROVE  BellStep /\ EntryStep
<1>1. pushReq \in [PushIds -> PushRow]
  BY DEF PushInv, PushOnlyTypeOK, GateTypeOK
<1>2. \A j \in PushIds : pushReq'[j].in = pushReq[j].in /\ pushReq'[j].status = pushReq[j].status
  BY <1>1 DEF Tick, PushRow
<1>3. needsUser' = needsUser
  BY DEF Tick
<1> QED BY <1>2, <1>3 DEF BellStep, EntryStep, Ends

\* Every step of the gate is a BellStep and an EntryStep.
LEMMA BellSteps ==
    ASSUME PushInv, NoPlans, [PushOnlyNext]_pushOnlyVars
    PROVE  BellStep /\ EntryStep /\ planReq' = planReq
<1>1. CASE UNCHANGED pushOnlyVars
  <2>1. UNCHANGED <<needsUser, pushReq, planReq>>
    BY <1>1 DEF pushOnlyVars, gateVars
  <2> QED BY <2>1, OffQueueBell
<1>2. ASSUME NEW i \in PushIds, BeginPush(i) \/ PushCallStep(i) \/ KillPushCall(i) \/ DenyPush(i)
      PROVE  BellStep /\ EntryStep /\ planReq' = planReq
  <2>1. CASE BeginPush(i) \/ RefusePush(i) \/ PollPush(i) \/ PollPushDeadline(i) \/ KillPushCall(i)
    <3>1. UNCHANGED <<needsUser, pushReq, planReq>>
      BY <2>1 DEF BeginPush, RefusePush, PollPush, PollPushDeadline, KillPushCall
    <3> QED BY <3>1, OffQueueBell
  <2>2. CASE ReportVanishedPush(i)
    <3>1. /\ UNCHANGED <<pushReq, planReq>>
          /\ \/ needsUser' = needsUser
             \/ needsUser' = clear_gate_needs_user_if_idle(
                                PushOwner[i], "needs_push_approval", {i}, {})
      BY <2>2 DEF ReportVanishedPush
    <3> QED BY <3>1, OffQueueBell
  <2>3. CASE EnqueuePush(i) \/ SweepPush(i) \/ DenyPush(i)
    <3>1. planReq' = planReq
      BY <2>3 DEF EnqueuePush, SweepPush, DenyPush
    <3> QED BY <2>3, <3>1, EnqueueBell, SweepBell, EndBell
  <2> QED BY <1>2, <2>1, <2>2, <2>3 DEF PushCallStep, PushCallProgress
<1>3. ASSUME NEW c \in Commands, CommandStep(c)
      PROVE  BellStep /\ EntryStep /\ planReq' = planReq
  <2>1. CASE ReturnSnapshot(c) \/ RunApprovedPush(c) \/ FinalizeLockFails(c)
    <3>1. UNCHANGED <<needsUser, pushReq, planReq>>
      BY <2>1 DEF ReturnSnapshot, RunApprovedPush, FinalizeLockFails
    <3> QED BY <3>1, OffQueueBell
  <2>2. CASE ClearBellBestEffort(c)
    <3>1. /\ UNCHANGED <<pushReq, planReq>>
          /\ \/ needsUser' = needsUser
             \/ needsUser' = clear_request_needs_user({PushOwner[cmd[c].id]})
      BY <2>2 DEF ClearBellBestEffort
    <3> QED BY <3>1, OffQueueBell
  <2>3. CASE FinalizePush(c)
    <3>1. planReq' = planReq
      BY <2>3 DEF FinalizePush
    <3> QED BY <2>3, <3>1, EndBell
  <2> QED BY <1>3, <2>1, <2>2, <2>3 DEF CommandStep
<1>4. ASSUME NEW c \in Commands, NEW i \in PushIds, ClaimPush(c, i)
      PROVE  BellStep /\ EntryStep /\ planReq' = planReq
  <2>1. planReq' = planReq
    BY <1>4 DEF ClaimPush
  <2> QED BY <1>4, <2>1, ClaimBell
<1>5. CASE ReconcileStuck
  <2>1. planReq' = planReq
    BY <1>5 DEF ReconcileStuck
  <2> QED BY <1>5, <2>1, ReconcileBell
<1>6. CASE Tick
  <2>1. planReq' = planReq
    BY <1>6 DEF Tick
  <2> QED BY <1>6, <2>1, TickBell
<1>7. CASE AppCrash
  <2>1. UNCHANGED <<needsUser, pushReq, planReq>>
    BY <1>7 DEF AppCrash
  <2> QED BY <2>1, OffQueueBell
<1> QED BY <1>1, <1>2, <1>3, <1>4, <1>5, <1>6, <1>7 DEF PushOnlyNext, PushNext

\* PushInv with the cause of the bell.
BellInv == PushInv /\ NoPlans /\ PushBellHasCause

\* The invariant of the bell is inductive.
LEMMA BellStepInv == BellInv /\ [PushOnlyNext]_pushOnlyVars => BellInv'
<1> SUFFICES ASSUME BellInv, [PushOnlyNext]_pushOnlyVars PROVE BellInv'
  OBVIOUS
<1>1. PushInv' /\ QueueStep
  BY StepInv DEF BellInv
<1>2. BellStep /\ planReq' = planReq
  BY BellSteps DEF BellInv
<1>3. PushBellHasCause'
  <2> SUFFICES ASSUME NEW a \in Agents, needsUser'[a] = "needs_push_approval"
               PROVE  Caused(a)'
    BY DEF PushBellHasCause, Caused
  <2>1. CASE /\ needsUser[a] = "needs_push_approval"
             /\ \A j \in PushIds : PushOwner[j] = a => ~Ends(j)
    <3>1. PICK j \in PushIds : /\ pushReq[j].in /\ PushOwner[j] = a
                               /\ pushReq[j].status \in Outstanding
      BY <2>1 DEF BellInv, PushBellHasCause
    <3>2. pushReq'[j].status \in Outstanding
      BY <2>1, <3>1 DEF Ends
    <3>3. pushReq'[j].in
      <4>1. pushReq'[j].status \notin PushTerminal
        BY <3>2 DEF Outstanding, PushTerminal
      <4>2. pushReq'[j].in \in BOOLEAN /\ pushReq[j].in \in BOOLEAN
        BY <1>1 DEF BellInv, PushInv, PushOnlyTypeOK, GateTypeOK, PushRow
      <4> QED BY <1>1, <3>1, <4>1, <4>2 DEF QueueStep
    <3> QED BY <3>1, <3>2, <3>3 DEF Caused
  <2> QED BY <1>2, <2>1 DEF BellStep
<1> QED BY <1>1, <1>2, <1>3 DEF BellInv, NoPlans

\* The bell rings for a push only while one of the agent's push requests waits for the
\* human or is in flight, whatever is swept, denied, finalized, reconciled or crashes.
THEOREM PushBellCaused == PushOnlySpec => []PushBellHasCause
<1>1. PushOnlyInit => BellInv
  <2> SUFFICES ASSUME PushOnlyInit PROVE NoPlans /\ PushBellHasCause
    BY InitInv DEF BellInv
  <2> QED BY DEF PushOnlyInit, GateInit, NoPlans, PushBellHasCause
<1>2. BellInv => PushBellHasCause
  BY DEF BellInv
<1> QED BY <1>1, <1>2, BellStepInv, PTL DEF PushOnlySpec

-----------------------------------------------------------------------------
\* A call that answered is over, and a request it called timed out is.
ToldInv(i) ==
    /\ pushCall[i].told # "none" => pushCall[i].pc = "done"
    /\ pushCall[i].told = "timeout" /\ pushReq[i].in => pushReq[i].status = "timeout"

TimeoutInv == PushInv /\ NoPlans /\ \A i \in PushIds : ToldInv(i)

\* What a step does to the answers: none is taken back, and if the sweep gets the lock a
\* new "timeout" is on the row, or there is no row.
AnswerStep ==
    \A i \in PushIds :
        /\ pushCall'[i].told # "none" => pushCall'[i].pc = "done"
        /\ pushCall'[i].told = "timeout" =>
              \/ pushCall[i].told = "timeout"
              \/ pushReq'[i].in => pushReq'[i].status = "timeout"

\* Every step is an AnswerStep as long as the lock is always won.
LEMMA AnswerSteps ==
    ASSUME TimeoutInv, [PushOnlyNext]_pushOnlyVars, ~LockMayFail
    PROVE  AnswerStep
<1>1. /\ pushCall \in [PushIds -> [pc: {"idle", "enqueue", "poll", "vanished", "sweep", "done"},
                                   seen: BOOLEAN, told: Answers]]
      /\ pushReq \in [PushIds -> PushRow]
  BY DEF TimeoutInv, PushInv, PushOnlyTypeOK, PushTypeOK, GateTypeOK
<1>2. \A i \in PushIds : pushCall[i].told # "none" => pushCall[i].pc = "done"
  BY DEF TimeoutInv, ToldInv
<1>3. CASE pushCall' = pushCall
  BY <1>2, <1>3 DEF AnswerStep
<1>4. ASSUME NEW i \in PushIds, NEW label, Goto(i, label), pushCall[i].pc # "done"
      PROVE  AnswerStep
  BY <1>1, <1>2, <1>4 DEF Goto, AnswerStep
<1>5. ASSUME NEW i \in PushIds, NEW answer, Return(i, answer),
             answer = "timeout" => (pushReq'[i].in => pushReq'[i].status = "timeout")
      PROVE  AnswerStep
  BY <1>1, <1>2, <1>5 DEF Return, AnswerStep
<1>6. \A i \in PushIds : pushReq[i].result # "none" => pushReq[i].status = pushReq[i].result
  BY DEF TimeoutInv, PushInv, RowInv
<1>7. ASSUME NEW i \in PushIds, PollPush(i) PROVE AnswerStep
  <2>1. CASE pushCall' = [pushCall EXCEPT ![i].seen = TRUE]
    BY <1>1, <1>2, <1>7, <2>1 DEF PollPush, AnswerStep
  <2>2. CASE Goto(i, "vanished")
    BY <1>4, <1>7, <2>2 DEF PollPush
  <2>3. CASE pushReq[i].result # "none" /\ Return(i, pushReq[i].result)
    BY <1>5, <1>6, <1>7, <2>3 DEF PollPush
  <2> QED BY <1>7, <2>1, <2>2, <2>3 DEF PollPush
<1>8. ASSUME NEW i \in PushIds, SweepPush(i) PROVE AnswerStep
  <2>1. CASE /\ Pending(pushReq[i]) /\ Return(i, "timeout")
             /\ pushReq' = [pushReq EXCEPT ![i] = apply_timeout(@)]
    <3>1. pushReq'[i].status = "timeout"
      BY <1>1, <2>1 DEF apply_timeout, PushRow
    <3> QED BY <1>5, <2>1, <3>1
  <2>2. CASE /\ pushReq[i].result # "none" /\ Return(i, pushReq[i].result)
             /\ pushReq' = pushReq
    BY <1>5, <1>6, <2>2
  <2>3. CASE Return(i, "in_progress")
    BY <1>5, <2>3
  <2>4. CASE ~pushReq[i].in /\ pushReq' = pushReq /\ Return(i, "timeout")
    BY <1>5, <2>4
  <2> QED BY <1>8, <2>1, <2>2, <2>3, <2>4 DEF SweepPush
<1>9. ASSUME NEW i \in PushIds, BeginPush(i) \/ PushCallStep(i) \/ KillPushCall(i) \/ DenyPush(i)
      PROVE  AnswerStep
  <2>1. CASE BeginPush(i) \/ EnqueuePush(i) \/ PollPushDeadline(i)
    BY <1>4, <2>1 DEF BeginPush, EnqueuePush, PollPushDeadline
  <2>2. CASE RefusePush(i) \/ ReportVanishedPush(i) \/ KillPushCall(i)
    BY <1>5, <2>2 DEF RefusePush, ReportVanishedPush, KillPushCall
  <2>3. CASE DenyPush(i)
    BY <1>3, <2>3 DEF DenyPush
  <2> QED BY <1>7, <1>8, <1>9, <2>1, <2>2, <2>3 DEF PushCallStep, PushCallProgress
<1>10. CASE \/ UNCHANGED pushOnlyVars
            \/ \E c \in Commands : CommandStep(c) \/ \E i \in PushIds : ClaimPush(c, i)
            \/ ReconcileStuck \/ Tick \/ AppCrash
  BY <1>3, <1>10 DEF pushOnlyVars, pushLocal, CommandStep, ReturnSnapshot, RunApprovedPush,
     FinalizePush, FinalizeLockFails, ClearBellBestEffort, ClaimPush, ReconcileStuck, Tick,
     AppCrash
<1> QED BY <1>9, <1>10 DEF PushOnlyNext, PushNext

\* As long as every process gets the file lock, a request whose agent was told that it
\* timed out is not pushed: the sweep's answer is the row's verdict, and that is final.
THEOREM PushTimeoutHonest ==
    ASSUME ~LockMayFail
    PROVE  PushOnlySpec => []ToldTimeoutNeverPushed
<1>1. PushOnlyInit => TimeoutInv
  <2> SUFFICES ASSUME PushOnlyInit PROVE NoPlans /\ \A i \in PushIds : ToldInv(i)
    BY InitInv DEF TimeoutInv
  <2> QED BY DEF PushOnlyInit, GateInit, PushInit, NoPlans, ToldInv
<1>2. TimeoutInv /\ [PushOnlyNext]_pushOnlyVars => TimeoutInv'
  <2> SUFFICES ASSUME TimeoutInv, [PushOnlyNext]_pushOnlyVars PROVE TimeoutInv'
    OBVIOUS
  <2>1. PushInv' /\ QueueStep
    BY StepInv DEF TimeoutInv
  <2>2. EntryStep /\ planReq' = planReq
    BY BellSteps DEF TimeoutInv
  <2>3. AnswerStep
    BY AnswerSteps
  <2>4. ASSUME NEW i \in PushIds PROVE ToldInv(i)'
    <3>1. ASSUME pushCall[i].told = "timeout", pushReq'[i].in
          PROVE  pushReq'[i].status = "timeout"
      <4>1. pushReq[i].in
        BY <2>2, <3>1 DEF EntryStep, TimeoutInv, ToldInv
      <4>2. pushReq[i].status = "timeout"
        BY <3>1, <4>1 DEF TimeoutInv, ToldInv
      <4> QED BY <2>1, <4>2 DEF QueueStep, SameVerdict, Decided
    <3> QED BY <2>3, <3>1 DEF AnswerStep, ToldInv
  <2> QED BY <2>1, <2>2, <2>4 DEF TimeoutInv, NoPlans
<1>3. TimeoutInv => ToldTimeoutNeverPushed
  BY DEF TimeoutInv, ToldInv, PushInv, RowInv, ToldTimeoutNeverPushed
<1> QED BY <1>1, <1>2, <1>3, PTL DEF PushOnlySpec
=============================================================================
