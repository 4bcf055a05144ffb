----------------------------- MODULE GitPushGate -----------------------------
(***************************************************************************)
(* The git push gate: an agent's request_git_push call (devboule-mcp) asks *)
(* for a push and polls for the verdict; the human's approve, deny and     *)
(* list commands (src-tauri) resolve it, and approve runs the push itself, *)
(* outside the file lock.                                                  *)
(*                                                                         *)
(* Time is counted in ticks since approval, only as far as the stuck-      *)
(* request rule needs it (and forgotten once the request is resolved).     *)
(* PushWindow bounds how long an approve command may stay between its      *)
(* claim and its finalize.  Faults names the failures that can happen: a   *)
(* lock acquisition that exhausts its retry budget, an agent's tool server *)
(* that is killed, an app that crashes.                                    *)
(***************************************************************************)
EXTENDS GateState

CONSTANTS
    Commands,     \* approve commands that can be in flight at once
    PushWindow,   \* longest claim-to-finalize time of an approve command, in ticks
    Faults        \* the failures considered

ASSUME PushConstants ==
    /\ PushWindow \in Nat /\ PushWindow < GraceTicks
    /\ Faults \subseteq {"lock", "kill", "crash"}

LockMayFail == "lock" \in Faults

VARIABLES
    pushCall,     \* each request_git_push call: pc, seen flag, answer told to the agent
    cmd,          \* each approve command: pc, request, outcome of its push
    pushes,       \* history: how often a push ran for each request
    landed        \* history: whether a push of the request reached the remote

pushLocal == <<pushCall, cmd, pushes, landed>>

NoPush == -1

Answers == {"none", "error", "vanished", "in_progress"} \cup PushTerminal

PushTypeOK ==
    /\ pushCall \in [PushIds -> [pc: {"idle", "enqueue", "poll", "vanished", "sweep", "done"},
                                 seen: BOOLEAN, told: Answers]]
    /\ cmd \in [Commands -> [pc: {"idle", "claimed", "finalize", "bellclear", "snapshot"},
                             id: PushIds \cup {NoPush},
                             outcome: {"none", "pushed", "push_failed"}]]
    /\ pushes \in [PushIds -> Nat]
    /\ landed \in [PushIds -> BOOLEAN]

IdleCmd == [pc |-> "idle", id |-> NoPush, outcome |-> "none"]

PushInit ==
    /\ pushCall = [i \in PushIds |-> [pc |-> "idle", seen |-> FALSE, told |-> "none"]]
    /\ cmd = [c \in Commands |-> IdleCmd]
    /\ pushes = [i \in PushIds |-> 0]
    /\ landed = [i \in PushIds |-> FALSE]

InFlight(c) == cmd[c].pc \in {"claimed", "finalize"}

-----------------------------------------------------------------------------
(***************************************************************************)
(* The transitions of one request row (git_push.rs).                       *)
(***************************************************************************)
\* Mutant: an approved request may be claimed or decided again.
PendingOrApproved(r) == r.in /\ r.status \in {"pending_approval", "approved"}

\* Mutant: an approve revives a request whose agent gave up.
PendingOrTimeout(r) == r.in /\ r.status \in {"pending_approval", "timeout"}

Pending(r) == r.in /\ r.status = "pending_approval"

apply_approve(r) == [r EXCEPT !.status = "approved", !.age = 0]

apply_deny(r) == [r EXCEPT !.status = "denied", !.result = "denied"]

apply_timeout(r) == [r EXCEPT !.status = "timeout", !.result = "timeout"]

\* Mutant: a push that ran counts as pushed.
ResultOptimistic(r, out) == [r EXCEPT !.status = "pushed", !.result = "pushed", !.age = 0]

apply_push_result(r, out) == [r EXCEPT !.status = out, !.result = out, !.age = 0]

\* The real outcome replaces an approved row and a speculative timeout, never a
\* recorded outcome, a denial or a request still pending.
apply_push_result_override(r, out) ==
    IF r.status \in {"approved", "timeout"} THEN apply_push_result(r, out) ELSE r

\* Mutant: the grace window is one tick short.
StuckEarly(r) ==
    r.in /\ r.status = "approved" /\ r.result = "none" /\ r.age >= GraceTicks - 1

\* Mutant: only the pushing status, which is never stored, counts as stuck.
StuckPushingOnly(r) ==
    r.in /\ r.status = "pushing" /\ r.result = "none" /\ r.age >= GraceTicks

is_stuck_request(r) ==
    r.in /\ r.status = "approved" /\ r.result = "none" /\ r.age >= GraceTicks

-----------------------------------------------------------------------------
(***************************************************************************)
(* The agent's call.                                                       *)
(***************************************************************************)
Return(i, answer) ==
    pushCall' = [pushCall EXCEPT ![i] = [pc |-> "done", seen |-> FALSE, told |-> answer]]

Goto(i, label) == pushCall' = [pushCall EXCEPT ![i].pc = label]

\* The id and createdAt are drawn before the lock is taken.
BeginPush(i) ==
    /\ pushCall[i].pc = "idle"
    /\ \A j \in PushIds : j < i => pushCall[j].pc # "idle"
    /\ Goto(i, "enqueue")
    /\ UNCHANGED <<session, planReq, needsUser, pushReq, cmd, pushes, landed>>

MayEnqueuePush(i) ==
    /\ session[PushOwner[i]] = "active"
    /\ count_non_terminal(pushReq, PushTerminal) < MaxPush
    /\ BellFree(PushOwner[i], "needs_push_approval")

EnqueuePush(i) ==
    /\ pushCall[i].pc = "enqueue"
    /\ MayEnqueuePush(i)
    /\ needsUser' = set_needs_user(PushOwner[i], "needs_push_approval")
    /\ pushReq' = cap_push_requests(
                    [pushReq EXCEPT ![i] = [@ EXCEPT !.in = TRUE,
                                                     !.status = "pending_approval"]])
    /\ Goto(i, "poll")
    /\ UNCHANGED <<session, planReq, cmd, pushes, landed>>

RefusePush(i) ==
    /\ pushCall[i].pc = "enqueue"
    /\ ~MayEnqueuePush(i) \/ LockMayFail
    /\ Return(i, "error")
    /\ UNCHANGED <<session, planReq, needsUser, pushReq, cmd, pushes, landed>>

PollPush(i) ==
    /\ pushCall[i].pc = "poll"
    /\ \/ /\ pushReq[i].in /\ pushReq[i].result # "none"
          /\ Return(i, pushReq[i].result)
       \/ /\ pushReq[i].in /\ pushReq[i].result = "none"
          /\ pushCall' = [pushCall EXCEPT ![i].seen = TRUE]
       \/ /\ ~pushReq[i].in /\ pushCall[i].seen
          /\ Goto(i, "vanished")
       \/ /\ LockMayFail
          /\ Return(i, "error")
    /\ UNCHANGED <<session, planReq, needsUser, pushReq, cmd, pushes, landed>>

\* Mutant: the deadline is only looked at before the request was seen.
DeadlineUnseen(i) ==
    /\ pushCall[i].pc = "poll" /\ ~pushCall[i].seen
    /\ Goto(i, "sweep")
    /\ UNCHANGED <<session, planReq, needsUser, pushReq, cmd, pushes, landed>>

PollPushDeadline(i) ==
    /\ pushCall[i].pc = "poll"
    /\ Goto(i, "sweep")
    /\ UNCHANGED <<session, planReq, needsUser, pushReq, cmd, pushes, landed>>

ReportVanishedPush(i) ==
    /\ pushCall[i].pc = "vanished"
    /\ \/ needsUser' = clear_gate_needs_user_if_idle(
                          PushOwner[i], "needs_push_approval", {i}, {})
       \/ LockMayFail /\ UNCHANGED needsUser
    /\ Return(i, "vanished")
    /\ UNCHANGED <<session, planReq, pushReq, cmd, pushes, landed>>

\* The timeout sweep.  A lock failure is ignored and still answers timeout.
SweepPush(i) ==
    /\ pushCall[i].pc = "sweep"
    /\ \/ /\ Pending(pushReq[i])
          /\ pushReq' = [pushReq EXCEPT ![i] = apply_timeout(@)]
          /\ needsUser' = clear_gate_needs_user_if_idle(
                             PushOwner[i], "needs_push_approval", {i}, {})
          /\ Return(i, "timeout")
       \/ /\ pushReq[i].in /\ pushReq[i].result # "none"
          /\ Return(i, pushReq[i].result)
          /\ UNCHANGED <<needsUser, pushReq>>
       \/ /\ pushReq[i].in /\ pushReq[i].status = "approved"
          /\ Return(i, "in_progress")
          /\ UNCHANGED <<needsUser, pushReq>>
       \/ /\ ~pushReq[i].in \/ LockMayFail
          /\ Return(i, "timeout")
          /\ UNCHANGED <<needsUser, pushReq>>
    /\ UNCHANGED <<session, planReq, cmd, pushes, landed>>

\* The agent's tool server dies; nobody answers and nobody sweeps.
KillPushCall(i) ==
    /\ "kill" \in Faults
    /\ pushCall[i].pc \in {"enqueue", "poll", "vanished", "sweep"}
    /\ Return(i, "none")
    /\ UNCHANGED <<session, planReq, needsUser, pushReq, cmd, pushes, landed>>

\* What a call is bound to get to: a poll that finds nothing ends at its deadline.
PushCallProgress(i) ==
    \/ EnqueuePush(i) \/ RefusePush(i) \/ PollPushDeadline(i)
    \/ ReportVanishedPush(i) \/ SweepPush(i)

PushCallStep(i) == PushCallProgress(i) \/ PollPush(i)

-----------------------------------------------------------------------------
(***************************************************************************)
(* The human's commands in the app.                                        *)
(***************************************************************************)
Finish(c) == cmd' = [cmd EXCEPT ![c] = IdleCmd]

\* Step 1 of approve: claim under the lock.  A click may name any request.
ClaimPush(c, i) ==
    /\ cmd[c].pc = "idle"
    /\ \/ /\ Pending(pushReq[i])
          /\ pushReq' = cap_push_requests([pushReq EXCEPT ![i] = apply_approve(@)])
          /\ cmd' = [cmd EXCEPT ![c].pc = "claimed", ![c].id = i]
       \/ /\ ~Pending(pushReq[i]) /\ pushReq[i].status # "none"
          /\ pushReq' = IF pushReq[i].in THEN cap_push_requests(pushReq) ELSE pushReq
          /\ cmd' = [cmd EXCEPT ![c].pc = "snapshot", ![c].id = i]
    /\ UNCHANGED <<session, planReq, needsUser, pushCall, pushes, landed>>

\* The claim was refused: read the file again and return what it says.
ReturnSnapshot(c) ==
    /\ cmd[c].pc = "snapshot"
    /\ Finish(c)
    /\ UNCHANGED <<session, planReq, needsUser, pushReq, pushCall, pushes, landed>>

\* Step 2: run_approved_push, outside the lock.  A push reported as failed may
\* still have reached the remote (a killed `git push`).
RunApprovedPush(c) ==
    /\ cmd[c].pc = "claimed"
    /\ \E out \in {"pushed", "push_failed"}, reached \in BOOLEAN :
          /\ out = "pushed" => reached
          /\ cmd' = [cmd EXCEPT ![c].pc = "finalize", ![c].outcome = out]
          /\ landed' = [landed EXCEPT ![cmd[c].id] = @ \/ reached]
    /\ pushes' = [pushes EXCEPT ![cmd[c].id] = @ + 1]
    /\ UNCHANGED <<session, planReq, needsUser, pushReq, pushCall>>

\* Step 3: re-lock and record the outcome.
FinalizePush(c) ==
    /\ cmd[c].pc = "finalize"
    /\ IF pushReq[cmd[c].id].in
       THEN /\ pushReq' = cap_push_requests(
                 [pushReq EXCEPT ![cmd[c].id] = apply_push_result_override(@, cmd[c].outcome)])
            /\ needsUser' = clear_request_needs_user({PushOwner[cmd[c].id]})
       ELSE UNCHANGED <<needsUser, pushReq>>
    /\ Finish(c)
    /\ UNCHANGED <<session, planReq, pushCall, pushes, landed>>

FinalizeLockFails(c) ==
    /\ LockMayFail
    /\ cmd[c].pc = "finalize"
    /\ cmd' = [cmd EXCEPT ![c].pc = "bellclear"]
    /\ UNCHANGED <<session, planReq, needsUser, pushReq, pushCall, pushes, landed>>

ClearBellBestEffort(c) ==
    /\ cmd[c].pc = "bellclear"
    /\ \/ needsUser' = clear_request_needs_user({PushOwner[cmd[c].id]})
       \/ UNCHANGED needsUser
    /\ Finish(c)
    /\ UNCHANGED <<session, planReq, pushReq, pushCall, pushes, landed>>

DenyPush(i) ==
    /\ pushReq[i].in
    /\ IF Pending(pushReq[i])
       THEN /\ pushReq' = cap_push_requests([pushReq EXCEPT ![i] = apply_deny(@)])
            /\ needsUser' = clear_request_needs_user({PushOwner[i]})
       ELSE /\ pushReq' = cap_push_requests(pushReq)
            /\ UNCHANGED needsUser
    /\ UNCHANGED <<session, planReq, pushCall, cmd, pushes, landed>>

\* git_push_requests_list: the card's refresh stamps stuck requests.
ReconcileStuck ==
    LET stuck == {i \in PushIds : is_stuck_request(pushReq[i])}
    IN  /\ stuck # {}
        /\ pushReq' = [i \in PushIds |-> IF i \in stuck
                                         THEN apply_push_result(pushReq[i], "push_failed")
                                         ELSE pushReq[i]]
        /\ needsUser' = clear_request_needs_user({PushOwner[i] : i \in stuck})
        /\ UNCHANGED <<session, planReq, pushCall, cmd, pushes, landed>>

\* The clock.  It stands still while a command is at the end of its window.
Tick ==
    /\ \A c \in Commands : InFlight(c) => pushReq[cmd[c].id].age < PushWindow
    /\ \E i \in PushIds : pushReq[i].status = "approved" /\ pushReq[i].age < GraceTicks
    /\ pushReq' = [i \in PushIds |->
                     IF pushReq[i].status = "approved" /\ pushReq[i].age < GraceTicks
                     THEN [pushReq[i] EXCEPT !.age = @ + 1]
                     ELSE pushReq[i]]
    /\ UNCHANGED <<session, planReq, needsUser, pushCall, cmd, pushes, landed>>

\* The app dies: its commands are gone, the file stays.
AppCrash ==
    /\ "crash" \in Faults
    /\ \E c \in Commands : cmd[c].pc # "idle"
    /\ cmd' = [c \in Commands |-> IdleCmd]
    /\ UNCHANGED <<session, planReq, needsUser, pushReq, pushCall, pushes, landed>>

CommandStep(c) ==
    \/ ReturnSnapshot(c) \/ RunApprovedPush(c) \/ FinalizePush(c)
    \/ FinalizeLockFails(c) \/ ClearBellBestEffort(c)

PushNext ==
    \/ \E i \in PushIds : \/ BeginPush(i) \/ PushCallStep(i) \/ KillPushCall(i)
                          \/ DenyPush(i)
    \/ \E c \in Commands : \/ CommandStep(c)
                           \/ \E i \in PushIds : ClaimPush(c, i)
    \/ ReconcileStuck \/ Tick \/ AppCrash

-----------------------------------------------------------------------------
(***************************************************************************)
(* The push gate alone: no plan is ever submitted.                         *)
(***************************************************************************)
PushOnlyInit == GateInit /\ PushInit

PushOnlyNext == PushNext

pushOnlyVars == <<gateVars, pushLocal>>

PushOnlySpec == PushOnlyInit /\ [][PushOnlyNext]_pushOnlyVars

\* A call never blocks for ever (every loop has a deadline), an approve command
\* runs to its end, the card is refreshed every few seconds and time passes.
PushFairness ==
    /\ \A i \in PushIds : WF_pushOnlyVars(PushCallProgress(i))
    /\ \A c \in Commands : WF_pushOnlyVars(CommandStep(c))
    /\ WF_pushOnlyVars(ReconcileStuck)
    /\ WF_pushOnlyVars(Tick)

PushOnlyFairSpec == PushOnlySpec /\ PushFairness

PushOnlyTypeOK == GateTypeOK /\ PushTypeOK

-----------------------------------------------------------------------------
(***************************************************************************)
(* Properties.                                                             *)
(***************************************************************************)

\* However clicks, polls, crashes and card refreshes interleave, a request is
\* pushed at most once (the double-approve anchor of apply_approve).
AtMostOnePush == \A i \in PushIds : pushes[i] <= 1

\* What the queue says of a request agrees with what happened: a request that is
\* pending, denied or timed out was never pushed (so an approve after a deny or a
\* timeout pushes nothing), and one recorded as pushed reached the remote.
RecordTruthful ==
    \A i \in PushIds :
        /\ pushReq[i].status \in {"none", "pending_approval", "denied", "timeout"}
              => pushes[i] = 0
        /\ pushReq[i].status = "pushed" => landed[i]

\* While an approve command is between its claim and its finalize nobody else
\* moves its request: no second command holds it, no timeout sweep, deny or
\* stuck-request reconciliation touches it (the promise of the grace window).
InFlightHeld ==
    \A c \in Commands : InFlight(c) =>
        /\ pushReq[cmd[c].id].in /\ pushReq[cmd[c].id].status = "approved"
        /\ \A d \in Commands \ {c} : InFlight(d) => cmd[d].id # cmd[c].id

\* What the agent was told is not a lie: pushed means it reached the remote,
\* denied means it never will.
AnswerTruthful ==
    \A i \in PushIds :
        /\ pushCall[i].told = "pushed" => landed[i]
        /\ pushCall[i].told = "denied" => pushes[i] = 0 /\ pushReq[i].status = "denied"

\* A request whose agent was told that it timed out ("STOP, do not retry") is not pushed
\* behind its back, before or after (unless the sweep could not take the lock, or the
\* result was evicted before the sweep could see it).
ToldTimeoutNeverPushed ==
    \A i \in PushIds : pushCall[i].told = "timeout" /\ pushReq[i].in => pushes[i] = 0

\* The needsUser bell never lingers after the human acted: it rings for a push
\* only while one of the agent's push requests is waiting or in flight (with no plan in
\* the other queue: an approved one keeps the sweep from clearing the bell).
PushBellHasCause ==
    \A a \in Agents : needsUser[a] = "needs_push_approval" =>
        \E i \in PushIds : /\ pushReq[i].in /\ PushOwner[i] = a
                           /\ pushReq[i].status \in Outstanding

\* Only a terminal request leaves the queue: an unanswered ask or a push in
\* flight is never evicted under its poll.
PushEvictionSafe ==
    [][\A i \in PushIds : pushReq[i].in /\ ~pushReq'[i].in
                            => pushReq'[i].status \in PushTerminal]_pushReq

\* A terminal verdict is final: no late finalize, approve, sweep or reconciliation
\* rewrites it.
PushVerdictFinal ==
    [][\A i \in PushIds : pushReq[i].status \in PushTerminal
                            => pushReq'[i].status = pushReq[i].status]_pushReq

\* Every approved request reaches a terminal status, also when the app crashed or
\* could not take the lock to record the outcome.
ApprovedResolves ==
    \A i \in PushIds : pushReq[i].status = "approved"
                        ~> pushReq[i].status \in PushTerminal

\* Every call returns: the poll is bounded whatever the human does.
PushCallReturns ==
    \A i \in PushIds : pushCall[i].pc # "idle" ~> pushCall[i].pc = "done"

-----------------------------------------------------------------------------
(***************************************************************************)
(* The push gate implements the abstract approval gate: a push is its      *)
(* effect.  A request that failed without a push was granted all the same. *)
(***************************************************************************)
VerdictOf(status) ==
    CASE status = "none" -> "none"
      [] status = "pending_approval" -> "asked"
      [] status \in {"denied", "timeout"} -> "refused"
      [] OTHER -> "granted"

PushVerdict == [i \in PushIds |-> VerdictOf(pushReq[i].status)]

PushGate == INSTANCE ApprovalGate
                WITH Requests <- PushIds, verdict <- PushVerdict, effects <- pushes

\* Every behaviour of the queue, the polls, the commands and their failures is one of
\* the abstract gate: asked, then granted or refused once, then pushed at most once.
PushImplementsGate == PushGate!Spec
=============================================================================
