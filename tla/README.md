# Devboule: a TLA+ model of the human gates, the agents and the file between them

Devboule is a desktop app (Tauri, `src-tauri/`) in which coding agents work on projects
under human control.  An agent is a process of its own: a cloud CLI or a sidecar, with a
tool server (`devboule-mcp/`) at its side.  App and tool servers share no memory; they
meet in one JSON file, `.aspis-agents.json`, under one lock file.  What an agent may not do
alone (push, start a plan, decide a question) goes through a *human gate*: a request in
that file, a poll on the agent's side, a click on the human's.

This directory models the gates, the consent a blocked agent asks for, the life cycle of
the process that asks most of the time (the cloud orchestrator), the pool of mini coders it
delegates to, and the file under all of them.  They are the parts where several processes
and threads, crashes, timeouts and stale views meet, and where a mistake means an unapproved
or repeated push, an action nobody allowed, two workers on one file, a lost update, or a
process nobody can stop.

Contents: [parts of the system](#1-the-parts-of-the-system),
[modules and code](#2-modules-and-code), [runs](#3-runs), [fairness](#4-fairness),
[proofs](#5-proofs), [what the runs found](#6-what-the-runs-found),
[not modelled](#7-what-is-not-modelled), [plan](#8-plan).

## 1. The parts of the system

| part | code | state it keeps | operations |
|---|---|---|---|
| gate state | `devboule-mcp/src/state`, `src-tauri/src/backend/model.rs` | `.aspis-agents.json`: sessions with status and `needsUser` bell, `gitPushRequests`, `planApprovalRequests`, `pendingQuestion`, `userReply` | locked read-modify-write; bell set and clear; retention caps |
| push gate | `devboule-mcp/.../human_gates.rs` (request_git_push), `backend/git_push.rs`, `backend/project_git.rs` | a push request's status, result, approval time | request and poll; approve (claim, push, finalize), deny, list with stuck-request reconciliation |
| plan gate | `human_gates.rs` (plan_submit, project_create_plan_tasks), `backend/plan_approval.rs`, `backend/projects.rs` | a plan request, its sidecar file, the project's status and board | submit and poll; approve or reject, then sidecar, promotion, nudge; materialize |
| question gate | `human_gates.rs` (ask_user), `plan_approval.rs` (reply_to_agent) | one question and one reply per session | ask and poll; reply |
| cloud orchestrator life cycle | `backend/cloud_duplex.rs`, `backend/projects.rs`, `backend/agents.rs` | session row, launch ledger (files); session map (memory); child and reader thread | launch, fence, kill, stop, send's self-heal, ledger prune, ghost reap |
| Codex approvals | `cloud_duplex.rs` (handle_codex_approval), `broker/mod.rs` (CloudConsentState) | waiters in memory, in-flight counter, tracked ids | register, wait, decide, time out, cancel on kill and end of file |
| consent broker, bridge, hook | `backend/broker`, `consent_bridge.rs`, `consent_hook.rs`, grant commands in `projects.rs` | `consentRequests` in the file, one-shot grants in memory, remembered ones in the project | ask and poll; answer, grant; take at spawn, put back, report a block |
| mini coder, main coder | `mini_coder*.rs`, `main_coder.rs`, `devboule-mcp/.../mini_coder.rs` | `miniCoderDirectives`, workers, result files | spawn and poll, stop; sweep, claim, launch, time out, finalize |
| lock and crash-safe write | `state/lock.rs`, `state/mod.rs`, `fs_replace.rs`, `agents.rs` | lock file, temp and backup files | acquire with a retry budget, write, back up, replace, roll back |
| agent sessions and tokens | `devboule-mcp/.../agent_lifecycle.rs`, `state/tokens.rs`, `agents.rs` | session rows, token hashes, heartbeats | launch, register, heartbeat, read with reap |
| in-app terminals, Pi sidecar | `agent_pty.rs`, `pi_sidecar.rs`, `pi-sidecar/` | child processes | start, steer, stop |
| agentic loop, budget, activity | `agentic_*.rs`, `budget.rs`, `mini_activity.rs` | turn state, counters, feed | turns, accounting |
| oracle, pigeon | `oracle-core/`, `oracle/`, `pigeon/` | indexes, job queue, relay queue | index, query, dispatch |
| vault, git, design, frontend, ... | `backend/*`, `src/` | keys, work trees, rendered state | mostly I/O |

`PROJECT.json` lists all of them with what is and is not modelled.

How they interact.  An agent's tool call takes the lock, appends a request, rings the
session's bell, lets go and polls with short locked reads until a result, a deadline or
the loss of its row.  The app's commands take the same lock.  Approve is in three parts:
claim under the lock, `git push` without it (minutes), re-lock and record.  The frontend
refreshes every few seconds, and the refresh writes too: it stamps stuck pushes, prunes
the launch ledger and closes ghost rows.  A launch runs on a blocking-pool thread, starts
a child and a reader thread, and the three of them, the stop command and the send command
share a session map with a mutex of its own besides the files.

What is hard about it:

* a timeout on one side races a decision on the other, and the long push in the middle
  of an approve races everything;
* a process can die, or fail to get the lock, between any two locked sections;
* one bell and one question slot stand for several requests;
* queues have caps, so a row can disappear under the poll that waits for it;
* plans live in three files (queue, sidecar, project) that are written one by one;
* the orchestrator's id is stable across relaunches, so a late step of an old generation
  acts on the new one;
* the mini coder executor works a whole pass from one snapshot, while callers give up, the
  human stops workers and coders go away;
* a one-shot grant is taken before a spawn that may fail;
* inside the sandbox the state file cannot be replaced atomically and is copied over.

What makes each part correct is stated as properties of its module (section 3).

## 2. Modules and code

| module | lines of code it stands for | role |
|---|---|---|
| `ApprovalGate` | - | what any gate promises: asked, then granted or refused once, then acted on at most once, only if granted |
| `GateState` | `state/mod.rs`, first part of `human_gates.rs`, `git_push.rs` (types, cap) | sessions, bell, the two queues and their caps |
| `GitPushGate` | `request_git_push`; `git_push.rs`; approve, deny, list in `project_git.rs` | EXTENDS `GateState`; implements `ApprovalGate` |
| `PlanGate` | `plan_submit`, `project_create_plan_tasks`; `plan_approval.rs`; `promote_draft_project_to_active` | EXTENDS `GateState`; implements `ApprovalGate` |
| `AskGate` | `ask_user`, `reply_to_agent` | EXTENDS `GateState` |
| `CloudDuplex` | spawn, kill, send in `cloud_duplex.rs`; the fence in `projects.rs`; ledger, stop, prune, reap in `agents.rs` | on its own |
| `ConsentBridge` | `consent_hook.rs`, `consent_bridge.rs`; grants in `broker/mod.rs`; answer and grant commands in `projects.rs`; spawn and block report in `mini_coder_executor.rs` | on its own; implements `ApprovalGate` |
| `CodexApprovals` | `handle_codex_approval`, its cancel on kill and end of file in `cloud_duplex.rs`; `CloudConsentState` | on its own; implements `ApprovalGate` |
| `MiniCoder` | transitions, plan and cap in `mini_coder.rs`; the executor thread; `main_coder.rs`; spawn, poll and stop in the tool server | on its own |
| `StateFile` | lock, read, `write_text_crash_safe`, `replace_file_with_backup` and what they call | the locked section that the other modules take as one step |
| `AgentSessions` | launch and live-state read in `agents.rs`; `agent_register`, `agent_heartbeat` and their token checks; the sidecar overlay | on its own |
| `GitPushGateProofs`, `PlanGateProofs`, `AskGateProofs`, `StateFileProofs`, `ConsentBridgeProofs`, `CodexApprovalsProofs`, `MiniCoderProofs`, `CloudDuplexProofs` | - | the inductive invariant and the theorems of each component |
| `MC...` | - | instances for TLC: owners, files, scenarios, symmetry |

Granularity.  The lock is never held across a sleep or a network call, so one locked
section is one action, with everything the code does before it lets go: a claim includes
the cap, a sweep includes the clearing of the bell.  What happens between two sections (the
push, the sidecar write, the promotion, the nudge) is an action of its own.  Where the code
takes the lock again, other processes may come first.

State.  A queue is a function from ids, numbered in `createdAt` order, to rows.  An evicted
row stays in the function with `in = FALSE`, so that properties can speak of its last
status; no action reads the rest of such a row.  A call or a command is a record with a
program counter, named after what the code does next.  Variables marked *history*
(`pushes`, `landed`, `board`, `misled`, `lost`, `doomed`, `raced`, the `about` fields) are
read by properties only.

Data.  Branches, commit messages, plan texts and questions are left out; a request is its
id, its owner and its status.  A push has two independent results: what git reported and
whether the remote moved, because a killed `git push` may report failure after it landed.

Time.  The poll's deadline may come at any poll.  `GitPushGate` counts ticks from approval
for the stuck-request rule: `GraceTicks` stands for `STUCK_REQUEST_GRACE_SECS`, and
`PushWindow` bounds the time between claim and finalize, which the code gets from the git
timeout and from the retry budget of the finalize lock.  `PushWindow < GraceTicks` is the
relation that the comment at `STUCK_REQUEST_GRACE_SECS` argues for.

Faults.  `Faults`, `PlanFaults` and `AskFaults` say which of these can happen: `lock`, an
acquisition that exhausts its retries (the code's error path is taken); `kill`, a tool
server that dies and neither answers nor sweeps; `crash`, an app that dies and loses its
commands; for plans, `write`, an update of the sidecar or of the project file that fails,
which the code swallows; and, for questions, `prune`, a session row that is dropped from the
file while a call polls it.  `Env` of `CloudDuplex` has failing spawns, reader threads and
ledger writes, the ledger prune, the ghost reap, and a child that closes its output and
lives on.  `MiniCoder` counts its faults (failing reads and writes of the file, crashes,
closed coders) against `MaxFaults`, `StateFile` its failing file operations against
`MaxErrors`; a writer of `StateFile` may die at any step, for nothing.

Consent.  A *subject* is what a grant is about: the network of a project, or a folder.  The
broker's memory is a set of subjects; a run takes all one-shots of its project at once.
A hook is a process: it appends, polls, and on any trouble denies.

Mini coders.  A row carries its status, the kill flag and `old`: its wall-clock cap has run
out.  `pass` is what the executor computed from its snapshot, and shrinks as the pass works
through it; every other step re-reads the file under the lock, as the code does.  A worker
is a process in a terminal or an agentic thread: the first can be killed, the second is only
told to stop.  `done` stands for `Done` and `NeedsClarification`.

State file.  The content of a file is the set of updates it holds, or it is torn.  Server
and app use the same protocol with different error paths; `Sandboxed` writers are those whose
replace is denied, as inside an AppContainer, and which copy over the file instead.  A caller
sees success or an error and nothing else.  `tearer` (history) is the writer that last began
to copy over the file, in a save or in a rollback.

Sessions.  A token is a number and its hash is the number; ages are counted in ticks, with
one window for pending rows and one for live ones.

Threads in `CloudDuplex`.  `Main` is the thread of the synchronous commands (stop, send,
refresh): one of them at a time.  Each launch has a thread, each child a reader.  `Kill` is
a procedure used by four callers: `next` in the caller's record is where it returns to.  The
mutexes of the session map and of each child are part of a step where the code takes and
releases them, and explicit where it waits under them: a launch that lost its session keeps
the map's until its reader has ended (`MapFree`), and a reader at the end of the output keeps
the child's until the child has exited (`reaping`).  A *mute* child has closed its output and
still runs.

## 3. Runs

Twelve runs: nine that pass and three that show where the code and what it says of itself
disagree (section 6).  Every property of a passing run has a mutant of the code that breaks
it; mutants are in the modules, next to what they change, marked as such.  Type invariants
(`...TypeOK`) are part of the modules and of the proofs, and no property of a run.

| run | instance | what it shows |
|---|---|---|
| `push_faults` | 2 requests of one agent, 2 approve commands at once, cap 2, all faults; 391 k states | a request is pushed at most once (`AtMostOnePush`), queue and answers are true to what happened (`RecordTruthful`, `AnswerTruthful`), a request being pushed is left alone by everybody else (`InFlightHeld`), a ringing bell has a cause, the gate implements `ApprovalGate` |
| `push_settles` | 2 requests through a queue of 1, kills and crashes, fair; 34 k states | an agent told timeout is never pushed for, every approved request gets a terminal status, every call returns |
| `plan_faults` | 2 plans of one project through a queue of 1, all faults; 1.4 M states | tasks reach the board once and only for an approved plan, also if the process dies between the project file and the queue (`PlanImplementsGate`: the gate implements `ApprovalGate`, its effect being the tasks on the board); an unlocked sidecar never shows a verdict the queue does not hold; a plan leaves the queue only when nothing is left to do.  Except where a write failed or was never reached (`lost`): a sidecar that nobody works on shows the queue's status, and an approved plan's project has left draft or is about to |
| `ask_faults` | 2 questions of one agent, 1 of another, lock failures, kills and pruned sessions, fair; 30 k states | a waiting reply was written below a question of its own agent and nobody was told it yet, the question bell has a cause, every call returns |
| `duplex_lifecycle` | 2 launches, everything in `Env`, fair; 153 k states | as long as no launch or stop begins during another one: no orphan child, no ghost row, stop stops.  Always: a thread waits for ever only because of one of three causes (`Blocked`): the deadlock of `duplex_deadlock` or an orphan child, both of them only after such a meeting, or a child that closed its output and lives on |
| `consent` | 2 hooks of a session and 2 runs of a project (network and a folder), queue of 1, failing writes, killed hooks, a restart, a mode switch, fair; 239 k states | the bell has a cause, a one-shot grant is used once at most, no open row is dropped and no verdict rewritten, every hook answers, and the hook implements `ApprovalGate` |
| `codex` | 3 requests over 2 launches that reuse request ids, in-flight limit 1, fair; 92 k states | the in-flight counter counts the waiter threads, a live session's waiter can be reached, none outlives its session's output, Codex gets its reply, and the waiters implement `ApprovalGate` |
| `mini_pool` | 3 directives over 2 files (one from the app, two agentic, one in a terminal), 2 slots, queue of 1, up to 2 faults, fair; 157 k states | active rows share no file, a task is started once, a row leaves only when it has ended and stays ended, a Stop between two passes is the outcome, every directive settles while the app is up, every caller returns |
| `state_file` | the app, two tool servers, a hook and a manual board move, one update each, 2 failing operations, deaths anywhere; 3.4 M states | an acknowledged update is not lost; one reported as an error is not there, or the temp file that the error is about is; a torn file has the whole backup of the writer that tore it, unless that writer had none to make or is a tool server that went on without |
| `plan_promotion`, `sessions_lockout`, `duplex_deadlock` | the smallest instance that shows it | section 6 |

Why the bounds are enough.  The races are between one request's call, its commands and the
refresh; a second request is there because of what requests share (bell, cap, eviction).
Two commands are a double click.  A queue of one is full with one open request and evicts
with the next, so refusal, eviction and a vanished row all happen.  Two grace ticks with a
window of one tell "still in its window" from "stuck".  Two overlapping questions give a
replaced question, its replacement and a reply between them; the other agent's is there for
what is kept per session.  A second launch is where
relaunch, fence and a late reader of an old generation come from; the same for two
generations of Codex approvals.  Two runs in one project compete for a one-shot, and the
second is blocked on what the first was and on something else, so that one ask supersedes
the other.  In `mini_pool` two directives want the same file, one of the tool server's and
one of the app's, and a third does not; five writers of `state_file` are one for each
combination of error path and sandbox, and the manual move that replaces an unreadable file.

`consent` and `mini_pool` start from a choice of *scenarios*: which of the actors take part
(the others are done from the start) and, in `mini_pool`, how much of the fault budget is
spent.  All directives with all faults at once are out of TLC's reach in the time of a run.
The scenarios are `{1,3}` (one file, a caller and the app) with one fault, `{2}` with two,
`{1,2}` and `{2,3}` without; hooks alone, a hook with a run, and two runs.

Two bounds are too small for what they might suggest.  With a queue of one, an open request
and an older one are never in the queue together when it overflows, so the run says nothing
about the eviction of an open row; that is `PushEvictionSafe`, which is proved
(section 5).  And with one decide command the plan runs do not show two at once: the code
runs these synchronous commands on one thread.  The theorems hold for any number of them.

Deadlock checking is off everywhere: when every call has returned and nobody clicks, the
system may rest.  That calls and threads do not hang is stated as liveness instead.

Symmetry is used for the approve commands of `push_faults` only (no liveness there).

## 4. Fairness

* A call that is past its beginning goes on (weak fairness of the steps other than a poll
  that finds nothing): every loop in `human_gates.rs` compares the clock with a deadline,
  and a lock acquisition gives up after its retries.
* An approve command of the push gate runs to its end: git has a timeout, the lock a retry budget.
  A crash may still end it.
* The clock ticks and the push card is refreshed (`git_push_requests_list` is polled every
  few seconds while the app runs); `ApprovedResolves` rests on that refresh.
* A launch thread, a reader and the main thread run when they are not blocked; a join is
  blocked until the joined thread has ended.
* A consent hook polls until its deadline; a Codex waiter runs, and its `recv_timeout`
  ends.
* The executor thread runs its passes (each under `catch_unwind`), a row's cap runs out, a
  caller polls, and an agentic worker ends by its limits on rounds and requests.  A terminal
  need not end, and a stopped app need not come back.

Nothing is assumed of the human, of the child process (it may live for ever) or of the next
tool call of an agent.

## 5. Proofs

Every safety property of a passing run is a theorem of its module, for every value of the
constants.  The modules `...Proofs` hold the theorems, one for each component.

| module | theorem | says |
|---|---|---|
| `GitPushGateProofs` | `PushTypeCorrect` | rows, calls and commands stay well-formed |
| | `PushedOnce` | no request is pushed twice |
| | `PushRecordTruthful` | pending, denied and timed-out requests were not pushed; pushed ones landed |
| | `PushHeld` | between claim and finalize a command holds its request alone |
| | `PushAnswerTruthful` | an agent told pushed or denied was told the truth |
| | `PushEvictsTerminalOnly`, `PushVerdictsFinal` | the cap evicts terminal requests only; a terminal verdict is never rewritten |
| | `PushGateImplemented` | the push gate implements `ApprovalGate` |
| | `PushBellCaused` | the bell rings for a push only while a push of the agent waits or is in flight |
| | `PushTimeoutHonest` | an agent told timeout is not pushed for, if `~LockMayFail` |
| `PlanGateProofs` | `PlanSidecarTrue` | the unlocked sidecar shows no verdict the queue does not hold |
| | `PlanEvictsDoneOnly` | a plan leaves the queue only when nothing is left to do |
| | `PlanGateImplemented` | the plan gate implements `ApprovalGate`, tasks on the board being its effect |
| | `PlanSidecarSettles` | a sidecar nobody works on shows the queue's status, unless one of its writes is lost |
| | `PlanApprovalPromotes` | an approved plan's project has left draft or is about to, unless the promotion is lost |
| `AskGateProofs` | `AskReplyForOwnAgent` | a waiting reply is for its own agent's question and was told to nobody |
| | `AskBellHasCause` | the question bell rings only while there is a question |
| `StateFileProofs` | `FileLosesNoUpdate` | an acknowledged update is there |
| | `FileFailedNotApplied` | an update reported as an error is not there, except one of an app process that copies, whose temp file stays beside it |
| | `FileTornHasBackup` | if the last copy over the file was cut short, its writer has a whole backup of everything saved, or had none to make, or is a tool server that went on without |
| `ConsentBridgeProofs` | `ConsentBellCaused` | the consent bell has a cause |
| | `ConsentOneShots` | a one-shot is used as often as it was given, at most |
| | `ConsentQueueKeeps` | no awaited row is dropped, no verdict rewritten |
| | `ConsentGateImplemented` | a hook's request implements `ApprovalGate` |
| `CodexApprovalsProofs` | `CodexInFlightExact` | the in-flight counter counts the waiter threads |
| | `CodexWaiterReachable`, `CodexWaitersEndWithReader` | a live session's waiter can be reached; none outlives the output |
| | `CodexGateImplemented` | Codex approvals implement `ApprovalGate` |
| `MiniCoderProofs` | `MiniFilesApart` | active directives share no file |
| | `MiniStopWins` | a Stop between two passes is the outcome |
| | `MiniRowsOnlyEnd`, `MiniSpawnedOnce` | a row leaves with its outcome and stays ended; no second worker |
| `CloudDuplexProofs` | `DuplexNoOrphan`, `DuplexNoGhostRow`, `DuplexStopKills` | no orphan child, no ghost row, stop stops, as long as launches and stops do not meet |
| | `DuplexNoMapDeadlock` | nor does a launch then join a reader that still needs the map (`MapDeadlock`), the deadlock of section 6 |

Each module also states its inductive invariant (`PushInvariant`, `PlanInvariant`, ...).

Assumptions.  The named `ASSUME`s of the modules, which every run evaluates.  Most of them
are typing.  Those with content:

* `PushWindow < GraceTicks` (`PushConstants`): without it a running push can be declared
  stuck;
* two approvals of one Codex launch have different request ids (`CodexConstants`); those of
  different launches may not;
* a manual board move, which replaces an unreadable file, is neither a tool server's nor
  sandboxed (`FileConstants`).

One theorem adds one more, in its own statement.  `PushTimeoutHonest` assumes that lock
acquisitions succeed: a sweep that cannot get the lock answers timeout and leaves the row
pending (`human_gates.rs:854` drops the error), and a later click still pushes it.  The run
that checks the same property assumes it too.

The arguments.  None of the properties is inductive as it stands; what each invariant adds:

* `PushInv`.  Nothing in `AtMostOnePush` says why an approve command about to push is the
  first to do so.  `RowInv` ties a row to the past: a row that is not yet approved was never
  pushed, its result is its terminal status, an answer given is the status recorded.
  `HeldInv` ties a command to its row: from claim to finalize the row is in the file,
  approved, not older than the window, and not yet pushed while the command is at `claimed`.
  `HoldersApart` says that no two commands hold the same row.  A claim establishes the last
  two because it needs a pending row, which no command holds; the clock preserves them
  because it stops at the window; the stuck rule because it needs an age the window excludes.
  `CapKeepsRows` says what the cap may do to a queue, and `QueueStep` what any step may do: a
  row keeps its verdict, or goes from asked to decided.  Finality, eviction and the
  refinement follow from it.  For the bell, `BellStep` says that a step which ends an agent's
  last outstanding row also clears its bell; for the timeout, `ToldInv` that the answer is
  the verdict on the row, or there is no row.
* `PlanInv`.  The sidecar is written without the lock, from values read earlier.  A terminal
  status is final, so what a call or a decide command carries past the unlock (`told`,
  `resolved`) is still what the queue says when it is written.  The board is ahead of
  `tasksCreated` by one step at most, which is why a materialization that died in between
  is recognised.  `SettledInv` adds who still has to write the sidecar and `PromoteInv` who
  still has to promote, of the plans for which no such write was lost: every way to lose one
  (a failing write, a death before it, a sweep without the lock) is in `lost`.
* `AskInv`.  A session has one question and one reply slot for all of its calls.  The
  question is one of the agent's own and its call was not answered; the reply is stamped
  with it.
* `FileInv`.  What holds between two writers is broken while one is at work.  `HolderInv`
  says, for each step of the lock's holder, what file, temp and backup contain, so that
  `RestInv` holds again whichever way the holder lets go: return, error or death.  An error
  after the copy has landed is the one return with the update in the file; from then on the
  writer's temp file is its own and nobody removes it.  A torn file belongs to the writer in
  `tearer`, whose backup was made under the lock it held and contains all that was saved.
* `ConsentInv`.  A row is appended once, and the executor thread spawns or ends one run at a
  time; so a subject is held by one run or by the broker, and used, held and stored
  one-shots together are no more than were given.
* `CodexInv`.  Where an approval's sender, tracked id and reply can be at each step of its
  waiter; and a launch's reader is inside one registration at a time, so the check of the
  in-flight limit and the increment cannot be separated.
* `MiniInv`.  The executor works from a snapshot, and rows only move forward: the row of the
  claim being launched has left `pending` for good and has no worker yet, and a Stop at rest
  is in the file before the next snapshot is taken.
* `DuplexInv`.  A late reader empties the map whatever session is in it.  That it loses no
  child rests on the kill before every spawn, which takes the session with its attached
  reader and joins that reader: the only reader that can reach the map is the one of the
  session in it, or one its killer waits for.  `SpawnedInv` adds that a launch which finds
  its session gone can only have lost it to its own reader, at the end of the output: that
  reader is past the map, so the join under the map's mutex returns.  One actor at a time is
  at work (`OneBusy`); this is where the assumption that launches and stops do not meet
  enters, and without it the counterexamples of section 6 exist.

Each invariant was first checked by TLC on the instance of its run (`PlanInv` also with two
deciders, `DuplexInv` with three launches).  There is one lemma for each action or group of
actions, and a step lemma that puts them together.  The refinements show that initial states
map to initial states and every step maps to a step of `ApprovalGate` or to none.

Only model-checked: the liveness properties (`ApprovedResolves`, `PushCallReturns`,
`AskReturns`, `ThreadsEnd`, `HookReturns`, `CodexReplied`, `DirectiveSettles`,
`CallerReturns`), because the prover has no rules for fairness and
`ENABLED`; the three counterexamples of section 6; and with them all of `AgentSessions`.

## 6. What the runs found

Three runs end in a counterexample; `PROJECT.json` quotes the line that says otherwise.

* `plan_promotion`: Approve on a plan that is already rejected or timed out changes nothing
  in the queue, but the steps after the lock look at the click and not at the outcome: the
  project leaves draft and the agent is sent "Plan APPROVED".
* `sessions_lockout`: the app's read of the live state scrubs token hashes from the rows for
  display.  When it also closed an idle row it writes the list to the file, and the list is
  the scrubbed one: an agent launched a moment before is refused its registration, and
  registered agents lose their session tokens.
* `duplex_deadlock`: a launch registers its session, starts the reader and then looks the
  session up again to attach it.  If a kill has taken it in between (a second launch's clean
  relaunch, a stop), the launch is to "join the orphaned reader and report failure"
  (`cloud_duplex.rs:768`); it does so with the map's mutex in its hand (`:770`, `:782`), and
  the reader takes the same mutex before it ends (`:740`).  Both wait for ever, with the
  child dead and no orphan, and so does every later kill, send and launch.

Observations that have no run of their own, met while modelling.  The gates:

* an approved plan counts as outstanding for ever (`human_gates.rs:359`), so a later plan's
  timeout leaves the bell ringing with nothing behind it, and so does a later push's: it is a
  property of the push gate alone, with no plan in the file, that a push bell has a cause
  (`PushBellHasCause`);
* of two overlapping `ask_user` calls of one agent, the older one's poll throws away the
  reply to the newer one's question as stale (`human_gates.rs:1374`);
* a reply written while the box shows one question is stamped with, and delivered to, the
  question of the same agent that has replaced it (`plan_approval.rs:424`);
* the header of `git_push.rs` (lines 25-26) says that an approve after the agent gave up is
  still honoured; `apply_approve` refuses it once the sweep has stamped `timeout`;
* a result that is recorded and evicted between two polls is reported as "vanished before
  producing a result" (`human_gates.rs:835`), and as a timeout if the deadline comes first;
* resolving one of an agent's requests clears the bell for the others too
  (`clear_request_needs_user`, `project_git.rs:1306`);
* an app that dies between a recorded approval and the promotion leaves the project in
  draft until the human approves again.

The cloud orchestrator:

* two overlapping launches leave a running child that is in no map; a late reader of an old
  generation removes the new one's entry with the same effect (`cloud_duplex.rs:493`);
* the ledger prune asks only the map of in-app terminals, so the ledger forgets a running
  cloud orchestrator (on Windows), and stop no longer reaches it (`agents.rs:1682`);
* the process-only stop used by the fence, meant not to touch the row (`agents.rs:2016`),
  closes it through `kill_cloud_duplex` and the killed child's reader;
* a send that found no session closes the row of a launch that attached in between
  (`cloud_duplex.rs:1016`);
* a launch or a stop that meets an orphan child can wait for ever for its reader;
* at the end of a child's output the reader waits for the child under the child's mutex
  (`cloud_duplex.rs:738`, `:262`).  A child that closed its output and lives on is not killed
  by a later stop or relaunch, which waits for that mutex as long as the child lives.  With
  the orphan and the deadlock above these are all the ways in which a thread of the model
  waits for ever (`ThreadsEnd`);
* a Codex waiter whose time is up keeps its channel until it has removed its sender: a
  decision in between is reported to the human as delivered, and Codex is told decline
  (`cloud_duplex.rs:1378`, against `broker/mod.rs:434-441`);
* an orchestrator reaped while idle is not reopened by a touch without a status, and the
  status the sidecar overlay shows is persisted by the same write as in `sessions_lockout`.

Consent:

* a row for the network or a folder that is answered through `respond_cloud_consent` becomes
  allowed, and nothing is granted;
* answering one of a session's requests clears the bell although another one is open, and a
  hook's bell replaces whatever the bell said before;
* the hook's branch for a superseded row cannot be reached: only rows of runs are superseded.

Mini coders:

* a caller's deadline ends the row while its worker runs on, and the next claim may take the
  same file: "two minis must never edit the same file concurrently" (`mini_coder.rs:943`)
  holds of rows (`FilesApart`), not of workers;
* a Stop that arrives after the pass took its snapshot is overwritten by the worker's result;
  `live_kill_override`, the backstop for this race (`mini_coder_executor.rs:2952`), is never
  called;
* a Stop on a row that is still pending does not keep it from being launched; the tool
  server's stop does not reach an agentic worker; after a restart the sweep reports a stopped
  launch as failed;
* the sweep may evict a row in the write that fails it;
* if the write that records a launch fails, the row keeps no agent id: its terminal is not
  killed when the launch cap ends the row.

State file:

* a process killed in the middle of a copy or of a rollback leaves an unreadable file that
  nobody restores from its backup; every call fails until a manual board move replaces it
  with an empty state;
* the rollback copies over the file although a failed replace left it intact;
* an update that was saved while the removal of the temp file failed is reported as an error
  by the app's writer ("saved, but temp cleanup failed", `fs_replace.rs:53-59`), which is why
  `FailedNotApplied` has an exemption.  Its callers take the error for a failed save: the
  consent hook denies with "Could not record the consent request" (`consent_hook.rs:231`)
  while its pending row and the bell stay in the file.

## 7. What is not modelled

The definitions stand for about 7,500 lines, some 3 % of the repository's implementation; most
of the rest is the frontend, analysis, indexing, providers and other I/O.  What the checks show
is about the parts named in section 2 and says nothing about the other ones.

* The gates take a locked section as atomic and complete.  `StateFile` shows what a section
  does when an operation fails or the process dies; that the gates run on top of it is not
  composed.  Power loss (the app does not sync its temp file) is not modelled.
* Roles, tool allowlists and the ends of token windows: a call in the gate models is one that
  passed these checks, and session rows of the gates are active from the start.
* The gates against each other: the modules share `GateState`, but each run and each theorem
  is about one gate, with the other ones' queues empty, although
  `agent_has_outstanding_gate_request` looks at both queues.
* Within the cloud orchestrator: turns, interrupts, compaction, the Codex handshake, and the
  kill of all children at app exit.
* Within the mini coder pool: directives from Pigeon, visual checks, the deferred review and
  its retries, the per-parent cap, steering texts, a pass that panics half-way, and
  `MaxConcurrent` as a setting that changes (it is re-read on every pass).
* A clock that jumps (a suspended laptop) past the grace window during a push.
* The design gate, in-app terminals and Pi sidecar sessions, pigeon, the oracle's job queue:
  further instances of the same shapes (a request in a queue, a child with a reader, a
  claimed job), left for later.
* Content: prompts, diffs, embedding and ranking, rendering, text patches.  Nothing in it
  can be decided by a model checker on small instances.

## 8. Plan

Done: the modules of section 2; theorems for all of their safety properties.  Next:

1. `AgentSessions`: what does hold of tokens and rows beside the counterexample (a token is
   accepted only for the row it was issued for, a closed row stays closed until a launch),
   as invariants of a run and as theorems.
2. Without the assumption that launches and stops do not meet: what is left of
   `CloudDuplex` (who waits for whom, and that `Blocked` covers every cycle), as a safety
   statement behind `ThreadsEnd`.
3. The gates composed on one file, with closing and reaping of sessions, and which bell
   property is left for both queues at once.
4. The design gate as a further `ApprovalGate`.
