---------------------------- MODULE ConsentBridge ----------------------------
(***************************************************************************)
(* Consent for tool actions and for sandbox escapes.                       *)
(*                                                                         *)
(* A Claude session's consent hook (a process of its own) appends a row to *)
(* consentRequests of .aspis-agents.json and polls it for the human's      *)
(* verdict.  A mini coder that the sandbox blocked leaves a row there too, *)
(* for the network or for a folder; the human's answer to that one is a    *)
(* grant that the permission broker hands to the next agentic spawn: once, *)
(* from memory, or from the project's settings.                            *)
(*                                                                         *)
(* A "subject" stands for (project, kind, path): the network of a project  *)
(* or one folder.  The modal's queue is a set: the human may answer its    *)
(* entries in any order.                                                   *)
(***************************************************************************)
EXTENDS Naturals, FiniteSets

CONSTANTS
    Agents,        \* Claude sessions
    Hooks,         \* consent requests of hooks; numbers, in order of created_at
    HookAgent,     \* the session whose hook makes each request
    Workers,       \* agentic mini coder runs
    WorkerProject, \* the project each one works in
    Blocks,        \* consent requests for blocked runs, numbered as Hooks
    Blocked,       \* the run each block is reported for
    Subject,       \* what each block needs
    Subjects,      \* the networks and folders that can be granted
    SubjectProject,\* the project each subject belongs to
    Projects,
    MaxConsent,    \* MAX_CONSENT_REQUESTS
    MaxErrors,     \* MAX_CONSECUTIVE_ERRORS
    MaxOnce,       \* bound: one-shot grants per subject
    MaxRestarts,   \* bound: restarts of the app
    MaxModes,      \* bound: changes of a project's sandbox mode
    Faults         \* failures considered

ASSUME ConsentConstants ==
    /\ Hooks \subseteq Nat /\ Blocks \subseteq Nat /\ Hooks \cap Blocks = {}
    /\ HookAgent \in [Hooks -> Agents]
    /\ WorkerProject \in [Workers -> Projects]
    /\ Blocked \in [Blocks -> Workers]
    /\ Subject \in [Blocks -> Subjects]
    /\ SubjectProject \in [Subjects -> Projects]
    /\ \A b \in Blocks : SubjectProject[Subject[b]] = WorkerProject[Blocked[b]]
    /\ MaxConsent \in Nat \ {0} /\ MaxErrors \in Nat \ {0}
    /\ MaxOnce \in Nat /\ MaxRestarts \in Nat /\ MaxModes \in Nat
    /\ Faults \subseteq {"lock", "kill"}

VARIABLES
    row,        \* consentRequests
    bell,       \* each session's needs_user bell, as far as consent rings it
    hook,       \* each hook process: pc, consecutive read errors, decision printed
    worker,     \* each agentic run: pc, grants it took, what it may use
    once,       \* PermissionBrokerState: one-shot grants
    persisted,  \* net_enabled and working_set of the projects' settings
    mode,       \* sandbox mode of each project, as far as it prompts
    modal,      \* entries of the consent modal: rows polled, subjects notified
    claim,      \* a grant command between its grant and its claim of the rows
    restarts, modeChanges,  \* counters of MaxRestarts, MaxModes
    given, used   \* history: one-shots given by the human, used by a run

fileVars == <<row, bell>>
brokerVars == <<once, persisted, mode, modeChanges, given, used>>
uiVars == <<modal, claim, restarts>>
consentVars == <<fileVars, hook, worker, brokerVars, uiVars>>

Rows == Hooks \cup Blocks

Terminal == {"allowed", "denied", "timeout", "superseded"}

Decisions == {"remember", "once", "deny"}

NoClaim == [subject |-> "none", status |-> "none"]

Hook(pc) == [pc |-> pc, errors |-> 0, told |-> "none"]

Worker(pc) == [pc |-> pc, mode |-> "ask", taken |-> {}, may |-> {}, blocked |-> {}]

ConsentTypeOK ==
    /\ row \in [Rows -> [in: BOOLEAN, status: {"none", "pending"} \cup Terminal]]
    /\ bell \in [Agents -> {"none", "needs_consent"}]
    /\ hook \in [Hooks -> [pc: {"idle", "poll", "expired", "done"}, errors: 0..(MaxErrors - 1),
                           told: {"none", "allow", "deny"}]]
    /\ worker \in [Workers -> [pc: {"idle", "taken", "running", "ending", "done"},
                               mode: {"ask", "unattended"}, taken: SUBSET Subjects,
                               may: SUBSET Subjects, blocked: SUBSET Blocks]]
    /\ once \subseteq Subjects /\ persisted \subseteq Subjects
    /\ mode \in [Projects -> {"ask", "unattended"}]
    /\ modal \subseteq Rows \cup Subjects
    /\ claim \in [subject: Subjects, status: {"allowed", "denied"}] \cup {NoClaim}
    /\ restarts \in 0..MaxRestarts /\ modeChanges \in 0..MaxModes
    /\ given \in [Subjects -> 0..MaxOnce] /\ used \in [Subjects -> 0..MaxOnce]

ConsentScene ==
    /\ row = [r \in Rows |-> [in |-> FALSE, status |-> "none"]]
    /\ bell = [a \in Agents |-> "none"]
    /\ once = {} /\ persisted = {}
    /\ mode = [p \in Projects |-> "ask"]
    /\ modal = {} /\ claim = NoClaim /\ restarts = 0 /\ modeChanges = 0
    /\ given = [s \in Subjects |-> 0] /\ used = [s \in Subjects |-> 0]

ConsentInit ==
    /\ ConsentScene
    /\ hook = [h \in Hooks |-> Hook("idle")]
    /\ worker = [w \in Workers |-> Worker("idle")]

-----------------------------------------------------------------------------
(***************************************************************************)
(* The queue.                                                              *)
(***************************************************************************)
InQueue(q) == {r \in Rows : q[r].in}

\* Mutant: the oldest rows leave, whatever their status.
OldestTerminal(q) == InQueue(q)

Evictable(q) == {r \in InQueue(q) : q[r].status \in Terminal}

\* The oldest terminal rows beyond the cap leave; a pending one never does.
cap_consent_requests(q) ==
    LET gone == {r \in Evictable(q) :
                   Cardinality({t \in Evictable(q) : t < r})
                     < Cardinality(InQueue(q)) - MaxConsent}
    IN  [r \in Rows |-> [q[r] EXCEPT !.in = @ /\ r \notin gone]]

\* The rows of R that are still pending take the status.
claim_terminal(q, R, status) ==
    [r \in Rows |-> IF r \in R /\ q[r].in /\ q[r].status = "pending"
                    THEN [q[r] EXCEPT !.status = status] ELSE q[r]]

Pending(r) == row[r].in /\ row[r].status = "pending"

Appended(q, r) == [q EXCEPT ![r] = [in |-> TRUE, status |-> "pending"]]

RowsFor(s) == {b \in Blocks : Subject[b] = s}

append_superseding(q, b) ==
    cap_consent_requests(Appended(claim_terminal(q, RowsFor(Subject[b]), "superseded"), b))

-----------------------------------------------------------------------------
(***************************************************************************)
(* The hook process.                                                       *)
(***************************************************************************)
HookReturn(h, decision) ==
    hook' = [hook EXCEPT ![h] = [pc |-> "done", errors |-> 0, told |-> decision]]

hookFrame == <<worker, brokerVars, uiVars>>

\* The locked section that records the request; the bell loses any other reason it had.
RecordRequest(h) ==
    /\ hook[h].pc = "idle"
    /\ row' = cap_consent_requests(Appended(row, h))
    /\ bell' = [bell EXCEPT ![HookAgent[h]] = "needs_consent"]
    /\ hook' = [hook EXCEPT ![h].pc = "poll"]
    /\ UNCHANGED hookFrame

RecordFails(h) ==
    /\ "lock" \in Faults
    /\ hook[h].pc = "idle"
    /\ HookReturn(h, "deny")
    /\ UNCHANGED <<fileVars, hookFrame>>

\* Mutant: a row that is gone counts as an answer.
VanishedAllows(h) ==
    /\ hook[h].pc = "poll"
    /\ HookReturn(h, IF ~row[h].in \/ row[h].status = "allowed" THEN "allow" ELSE "deny")
    /\ ~Pending(h)
    /\ UNCHANGED <<fileVars, hookFrame>>

\* A poll that ends the wait: a verdict, or the row is gone.
PollVerdict(h) ==
    /\ hook[h].pc = "poll"
    /\ ~row[h].in \/ row[h].status \in {"allowed", "denied", "timeout"}
    /\ HookReturn(h, IF row[h].in /\ row[h].status = "allowed" THEN "allow" ELSE "deny")
    /\ UNCHANGED <<fileVars, hookFrame>>

\* A poll that cannot read: too many in a row deny.
PollError(h) ==
    /\ "lock" \in Faults
    /\ hook[h].pc = "poll"
    /\ IF hook[h].errors + 1 < MaxErrors
       THEN hook' = [hook EXCEPT ![h].errors = @ + 1]
       ELSE HookReturn(h, "deny")
    /\ UNCHANGED <<fileVars, hookFrame>>

\* A poll that finds no verdict: wait again, or find the deadline passed.
PollAgain(h) ==
    /\ hook[h].pc = "poll"
    /\ row[h].in /\ row[h].status \in {"pending", "superseded"}
    /\ hook[h].errors > 0
    /\ hook' = [hook EXCEPT ![h].errors = 0]
    /\ UNCHANGED <<fileVars, hookFrame>>

\* Mutant: the deadline holds only while reads succeed without an answer.
DeadlineNever(h) == FALSE

PollDeadline(h) ==
    /\ hook[h].pc = "poll"
    /\ (row[h].in /\ row[h].status \in {"pending", "superseded"})
         \/ ("lock" \in Faults /\ hook[h].errors > 0)
    /\ hook' = [hook EXCEPT ![h].pc = "expired"]
    /\ UNCHANGED <<fileVars, hookFrame>>

\* Mutant: the deadline's claim forgets the bell.
ExpireKeepsBell(h) ==
    /\ hook[h].pc = "expired"
    /\ row' = claim_terminal(row, {h}, "timeout")
    /\ HookReturn(h, "deny")
    /\ UNCHANGED <<bell, hookFrame>>

\* The locked section at the deadline: claim the own row and silence the session's
\* bell, whatever it rings for.  The hook denies, whatever the row says by now.
Expire(h) ==
    /\ hook[h].pc = "expired"
    /\ \/ /\ row' = claim_terminal(row, {h}, "timeout")
          /\ bell' = [bell EXCEPT ![HookAgent[h]] = "none"]
       \/ "lock" \in Faults /\ UNCHANGED fileVars
    /\ HookReturn(h, "deny")
    /\ UNCHANGED hookFrame

\* The session is killed with its hook; nobody tidies up the row.
KillHook(h) ==
    /\ "kill" \in Faults
    /\ hook[h].pc \in {"poll", "expired"}
    /\ HookReturn(h, "none")
    /\ UNCHANGED <<fileVars, hookFrame>>

HookProgress(h) == PollVerdict(h) \/ PollDeadline(h) \/ Expire(h)

-----------------------------------------------------------------------------
(***************************************************************************)
(* The human.                                                              *)
(***************************************************************************)

\* consent_requests_list, polled: every pending row, of whatever kind, gets an entry.
\* A decided row cannot come back: its id is remembered.
PollModal ==
    /\ modal' = modal \cup {r \in Rows : Pending(r)}
    /\ modal' # modal
    /\ UNCHANGED <<fileVars, hook, worker, brokerVars, claim, restarts>>

Verdict(decision) == IF decision = "deny" THEN "denied" ELSE "allowed"

OwnerOf(r) == IF r \in Hooks THEN {HookAgent[r]} ELSE {}

\* respond_cloud_consent: the answer to a row; only a fresh verdict silences the bell.
\* An unknown id is an error and keeps the entry.
RespondCloudConsent(r, decision) ==
    /\ r \in modal
    /\ row[r].in
    /\ claim = NoClaim
    /\ row' = claim_terminal(row, {r}, Verdict(decision))
    /\ bell' = [a \in Agents |-> IF Pending(r) /\ a \in OwnerOf(r) THEN "none" ELSE bell[a]]
    /\ modal' = modal \ {r}
    /\ UNCHANGED <<hook, worker, brokerVars, claim, restarts>>

\* grant_net_consent and grant_folder_consent, the grant.
GrantConsent(s, decision) ==
    /\ s \in modal
    /\ claim = NoClaim
    /\ CASE decision = "remember" -> /\ persisted' = persisted \cup {s}
                                     /\ UNCHANGED <<once, given>>
         [] decision = "once" -> /\ given[s] < MaxOnce
                                 /\ once' = once \cup {s}
                                 /\ given' = [given EXCEPT ![s] = @ + 1]
                                 /\ UNCHANGED persisted
         [] OTHER -> UNCHANGED <<once, persisted, given>>
    /\ claim' = [subject |-> s, status |-> Verdict(decision)]
    /\ UNCHANGED <<fileVars, hook, worker, mode, modeChanges, used, modal, restarts>>

\* The same command, the claim of the subject's rows; a failed write is ignored.
GrantClaims ==
    /\ claim # NoClaim
    /\ \/ row' = claim_terminal(row, RowsFor(claim.subject), claim.status)
       \/ "lock" \in Faults /\ row' = row
    /\ modal' = modal \ {claim.subject}
    /\ claim' = NoClaim
    /\ UNCHANGED <<bell, hook, worker, brokerVars, restarts>>

\* The human switches a project's mode.
SetMode(p) ==
    /\ modeChanges < MaxModes
    /\ mode' = [mode EXCEPT ![p] = IF @ = "ask" THEN "unattended" ELSE "ask"]
    /\ modeChanges' = modeChanges + 1
    /\ UNCHANGED <<fileVars, hook, worker, once, persisted, given, used, uiVars>>

-----------------------------------------------------------------------------
(***************************************************************************)
(* The executor thread: spawn and end of an agentic run.                   *)
(***************************************************************************)
ExecutorFree == \A w \in Workers : worker[w].pc \notin {"taken", "ending"}

OfProject(S, w) == {s \in S : SubjectProject[s] = WorkerProject[w]}

\* Mutant: the grants stay in the broker while a run uses them.
TakeKeeps(w) ==
    /\ ExecutorFree
    /\ worker[w].pc = "idle"
    /\ worker' = [worker EXCEPT ![w].pc = "taken", ![w].mode = mode[WorkerProject[w]],
                                ![w].taken = OfProject(once, w)]
    /\ UNCHANGED <<fileVars, hook, brokerVars, uiVars>>

\* Read the mode, then take_all_grants of the project.
TakeGrants(w) ==
    /\ ExecutorFree
    /\ worker[w].pc = "idle"
    /\ worker' = [worker EXCEPT ![w].pc = "taken", ![w].mode = mode[WorkerProject[w]],
                                ![w].taken = OfProject(once, w)]
    /\ once' = once \ OfProject(once, w)
    /\ UNCHANGED <<fileVars, hook, persisted, mode, modeChanges, given, used, uiVars>>

\* The one-shots a run may use: none in unattended mode.
transient(w) == IF worker[w].mode = "unattended" THEN {} ELSE worker[w].taken

SpawnWorker(w) ==
    /\ worker[w].pc = "taken"
    /\ worker' = [worker EXCEPT ![w].pc = "running",
                                ![w].may = OfProject(persisted, w) \cup transient(w)]
    /\ used' = [s \in Subjects |-> IF s \in transient(w) THEN used[s] + 1 ELSE used[s]]
    /\ UNCHANGED <<fileVars, hook, once, persisted, mode, modeChanges, given, uiVars>>

\* reinsert_all_grants: a run that never started gives its one-shots back.
SpawnFails(w) ==
    /\ worker[w].pc = "taken"
    /\ once' = once \cup transient(w)
    /\ worker' = [worker EXCEPT ![w] = Worker("done")]
    /\ UNCHANGED <<fileVars, hook, persisted, mode, modeChanges, given, used, uiVars>>

\* The run ends; B is what the sandbox blocked it on.
EndWorker(w, B) ==
    /\ ExecutorFree
    /\ worker[w].pc = "running"
    /\ \A b \in B : Blocked[b] = w /\ Subject[b] \notin worker[w].may
    /\ worker' = [worker EXCEPT ![w] = IF B = {} THEN Worker("done")
                                       ELSE [Worker("ending") EXCEPT !.blocked = B]]
    /\ UNCHANGED <<fileVars, hook, brokerVars, uiVars>>

\* One block is reported: a row and an event, or nothing in unattended mode.
ReportBlock(w, b) ==
    /\ worker[w].pc = "ending"
    /\ b \in worker[w].blocked /\ \A c \in worker[w].blocked : b <= c
    /\ IF mode[WorkerProject[w]] = "ask"
       THEN /\ row' = append_superseding(row, b) \/ ("lock" \in Faults /\ row' = row)
            /\ modal' = modal \cup {Subject[b]}
       ELSE UNCHANGED <<row, modal>>
    /\ worker' = [worker EXCEPT ![w] = IF @.blocked = {b} THEN Worker("done")
                                       ELSE [@ EXCEPT !.blocked = worker[w].blocked \ {b}]]
    /\ UNCHANGED <<bell, hook, brokerVars, claim, restarts>>

\* The app restarts: memory is lost, the file and the settings stay.
AppRestart ==
    /\ restarts < MaxRestarts
    /\ restarts' = restarts + 1
    /\ modal' = {} /\ once' = {} /\ claim' = NoClaim
    /\ worker' = [w \in Workers |-> IF worker[w].pc = "idle" THEN worker[w]
                                    ELSE Worker("done")]
    /\ UNCHANGED <<fileVars, hook, persisted, mode, modeChanges, given, used>>

-----------------------------------------------------------------------------
HookStep(h) ==
    \/ RecordRequest(h) \/ RecordFails(h) \/ PollError(h) \/ PollAgain(h)
    \/ HookProgress(h) \/ KillHook(h)

WorkerStep(w) ==
    \/ TakeGrants(w) \/ SpawnWorker(w) \/ SpawnFails(w)
    \/ \E B \in SUBSET Blocks : EndWorker(w, B)
    \/ \E b \in Blocks : ReportBlock(w, b)

HumanStep ==
    \/ PollModal
    \/ \E r \in Rows, d \in Decisions : RespondCloudConsent(r, d)
    \/ \E s \in Subjects, d \in Decisions : GrantConsent(s, d)
    \/ \E p \in Projects : SetMode(p)

ConsentNext ==
    \/ \E h \in Hooks : HookStep(h)
    \/ \E w \in Workers : WorkerStep(w)
    \/ HumanStep \/ GrantClaims \/ AppRestart

ConsentSpec == ConsentInit /\ [][ConsentNext]_consentVars

\* A hook process keeps polling until it returns; nothing else is owed to it.
ConsentFairness == \A h \in Hooks : WF_consentVars(HookProgress(h))

-----------------------------------------------------------------------------
(***************************************************************************)
(* Properties.                                                             *)
(***************************************************************************)

\* The consent bell of a session rings only while a consent request of that session
\* waits in the queue: answers, deadlines, evictions, lost writes and killed hooks
\* never leave it ringing for nothing.
ConsentBellHasCause ==
    \A a \in Agents : bell[a] = "needs_consent" =>
        \E h \in Hooks : HookAgent[h] = a /\ Pending(h)

\* A one-shot grant is used at most once: what runs used, what a run that is being
\* spawned holds and what the broker still has never exceed what the human gave, with
\* spawns that fail, mode changes and restarts in between.
OneShotConserved ==
    \A s \in Subjects :
        used[s] + Cardinality({w \in Workers : worker[w].pc = "taken" /\ s \in worker[w].taken})
                + (IF s \in once THEN 1 ELSE 0) <= given[s]

\* No append drops a row whose asker still waits (a superseded one nobody waits for),
\* and no answer, deadline or claim rewrites a verdict.
QueueKeepsVerdicts ==
    [][\A r \in Rows :
         /\ Pending(r) => row'[r].in \/ row'[r].status = "superseded"
         /\ row[r].status \in Terminal => row'[r].status = row[r].status]_consentVars

\* Every hook that recorded a request returns a decision to Claude (or is killed),
\* whatever the human does.
HookReturns == \A h \in Hooks : hook[h].pc = "poll" ~> hook[h].pc = "done"

\* What a hook's row and its decision mean to the abstract gate.
HookVerdictOf(status) ==
    CASE status = "none" -> "none"
      [] status = "pending" -> "asked"
      [] status = "allowed" -> "granted"
      [] OTHER -> "refused"

HookVerdict == [h \in Hooks |-> HookVerdictOf(row[h].status)]

HookEffect(told) == IF told = "allow" THEN 1 ELSE 0

HookGate == INSTANCE ApprovalGate WITH
    Requests <- Hooks,
    verdict <- HookVerdict,
    effects <- [h \in Hooks |-> HookEffect(hook[h].told)]

\* The hook's requests pass the abstract gate: one verdict, and the tool action runs
\* at most once and only after an Allowed verdict.
HookRefinesGate == HookGate!Spec
=============================================================================
