------------------------------ MODULE MiniCoder ------------------------------
(***************************************************************************)
(* The mini coder pool.  spawn_mini_coder (devboule-mcp) appends a         *)
(* directive to .aspis-agents.json and may poll for its result; the app's  *)
(* executor thread claims pending directives, starts a worker for each (a  *)
(* process in a terminal, or an agentic thread of the app) and turns what  *)
(* becomes of it into the directive's terminal status.  The human can stop *)
(* a worker; coders come and go; the app may crash and restart.            *)
(*                                                                         *)
(* The executor works from one snapshot per pass.  Every other step of it  *)
(* re-reads the file under the lock.  Time is the flag "old" of a row: its *)
(* wall-clock cap (launch cap, while launching) has run out.               *)
(***************************************************************************)
EXTENDS Naturals, FiniteSets

CONSTANTS
    Directives,     \* directive ids: numbers, in order of created_at
    Files,          \* the files each directive may write
    Coders,         \* agents that delegate
    Parent,         \* the coder each directive belongs to
    AppAuthored,    \* directives the human started from the app: no parent session
    Agentic,        \* directives whose worker is an agentic thread
    MaxConcurrent,  \* effective_max_concurrent
    MaxDirectives,  \* MAX_DIRECTIVES = MAX_MINI_CODER_DIRECTIVES
    MaxFaults       \* bound: failing writes and reads of the state file, crashes of the
                    \*   app and closed coder sessions, together

ASSUME MiniConstants ==
    /\ Directives \subseteq Nat /\ IsFiniteSet(Directives)
    /\ Parent \in [Directives -> Coders]
    /\ AppAuthored \subseteq Agentic /\ Agentic \subseteq Directives
    /\ MaxConcurrent \in Nat \ {0} /\ MaxDirectives \in Nat \ {0}
    /\ MaxFaults \in Nat

VARIABLES
    dir,       \* miniCoderDirectives
    call,      \* spawn_mini_coder / mini_coder_result call of each directive
    coder,     \* the coders whose session is there and not closed
    worker,    \* each directive's worker: not started, running, ended
    reported,  \* the directives whose result file says done
    stopping,  \* directives stopped in the file whose terminal is yet to be killed
    phase,     \* the executor: which part of the pass it is in
    pass,      \* what the pass works from
    faults,    \* counter of MaxFaults
    stoppedAtRest  \* history: stopped while running, between two passes

fileVars == <<dir, coder>>
workerVars == <<worker, reported>>
execVars == <<phase, pass>>
miniVars == <<fileVars, call, workerVars, stopping, execVars, faults, stoppedAtRest>>

Active == {"launching", "running"}

Terminal == {"done", "aborted", "failed", "timeout"}

Row == [in: BOOLEAN, status: {"none", "pending"} \cup Active \cup Terminal,
        kill: BOOLEAN, old: BOOLEAN]

NoRow == [in |-> FALSE, status |-> "none", kill |-> FALSE, old |-> FALSE]

NoPass == [timeouts |-> {}, stuck |-> {}, check |-> {}, stopped |-> {}, inflight |-> {},
           gone |-> {}, fresh |-> {}, claims |-> {}]

MiniTypeOK ==
    /\ dir \in [Directives -> Row]
    /\ call \in [Directives -> {"idle", "free", "wait", "late", "told"}]
    /\ coder \subseteq Coders
    /\ worker \in [Directives -> {"none", "up", "over"}]
    /\ reported \subseteq Directives /\ stopping \subseteq Directives
    /\ phase \in {"down", "sweep", "idle", "pass", "launch", "spawned"}
    /\ pass \in [timeouts: SUBSET Directives, stuck: SUBSET Directives,
                 check: SUBSET Directives, stopped: SUBSET Directives,
                 inflight: SUBSET Agentic, gone: SUBSET Coders,
                 fresh: SUBSET (SUBSET Coders), claims: SUBSET Directives]
    /\ faults \in 0..MaxFaults
    /\ stoppedAtRest \subseteq Directives

MiniScene ==
    /\ dir = [d \in Directives |-> NoRow]
    /\ coder = Coders
    /\ worker = [d \in Directives |-> "none"]
    /\ reported = {} /\ stopping = {}
    /\ phase = "sweep" /\ pass = NoPass
    /\ stoppedAtRest = {}

MiniInit == MiniScene /\ call = [d \in Directives |-> "idle"] /\ faults = 0

-----------------------------------------------------------------------------
(***************************************************************************)
(* The queue.                                                              *)
(***************************************************************************)
InFile(q) == {d \in Directives : q[d].in}

With(q, S) == {d \in InFile(q) : q[d].status \in S}

Evict(q, gone) == [d \in Directives |-> IF d \in gone THEN [q[d] EXCEPT !.in = FALSE] ELSE q[d]]

\* Mutant: the oldest rows leave, whatever their status.
cap_any(q, protect) ==
    LET old == InFile(q) \ protect
    IN  Evict(q, {d \in old : Cardinality({e \in old : e < d})
                                < Cardinality(InFile(q)) - MaxDirectives})

\* The oldest terminal rows beyond the cap leave, except the protected ones.
cap_directives_protecting(q, protect) ==
    LET old == With(q, Terminal) \ protect
    IN  Evict(q, {d \in old : Cardinality({e \in old : e < d})
                                < Cardinality(InFile(q)) - MaxDirectives})

cap_pass(q) == cap_directives_protecting(q, {})

\* The tool server's cap: collected terminal rows first, then the oldest; which of
\* them are collected is left open.
cap_mini_coder_directives(q) ==
    {Evict(q, gone) : gone \in
        {G \in SUBSET With(q, Terminal) :
            Cardinality(G) = IF Cardinality(InFile(q)) <= MaxDirectives THEN 0
                             ELSE IF Cardinality(With(q, Terminal))
                                       < Cardinality(InFile(q)) - MaxDirectives
                                  THEN Cardinality(With(q, Terminal))
                                  ELSE Cardinality(InFile(q)) - MaxDirectives}}

Fault == faults < MaxFaults /\ faults' = faults + 1

\* A locked write of the app; a failing one is ignored.
Mutate(q) ==
    \/ dir' = q /\ UNCHANGED faults
    \/ dir' = dir /\ Fault

\* apply_outcome through transition_directive: only an active row ends.
Ended(q, d, status) ==
    IF q[d].in /\ q[d].status \in Active
    THEN [q EXCEPT ![d].status = status, ![d].old = FALSE] ELSE q

\* Mutant: the reaping paths forget the human's Stop.
StopLost(q, d, status) == Ended(q, d, status)

\* The reaping paths look at the row's own kill flag: a Stop wins.
EndedUnlessStopped(q, d, status) == Ended(q, d, IF q[d].kill THEN "aborted" ELSE status)

-----------------------------------------------------------------------------
(***************************************************************************)
(* The tool server's side: append, poll, give up.                          *)
(***************************************************************************)
callFrame == <<workerVars, stopping, execVars, stoppedAtRest>>

Appended(d) == [dir EXCEPT ![d] = [NoRow EXCEPT !.in = TRUE, !.status = "pending"]]

NextCreated(d) == call[d] = "idle" /\ \A e \in Directives : e < d => call[e] # "idle"

SpawnMiniCoder(d, wait) ==
    /\ d \notin AppAuthored
    /\ NextCreated(d)
    /\ Parent[d] \in coder
    /\ Cardinality(With(dir, {"pending"} \cup Active)) < MaxDirectives
    /\ dir' \in cap_mini_coder_directives(Appended(d))
    /\ call' = [call EXCEPT ![d] = IF wait THEN "wait" ELSE "free"]
    /\ UNCHANGED <<coder, faults, callFrame>>

\* append_main_coder_directive: the app's own directive, for which nobody polls.
AppendMainCoder(d) ==
    /\ d \in AppAuthored
    /\ NextCreated(d) /\ phase # "down"
    /\ dir' = cap_pass(Appended(d))
    /\ call' = [call EXCEPT ![d] = "free"]
    /\ UNCHANGED <<coder, faults, callFrame>>

\* mini_coder_result of a directive that was spawned without waiting.
AwaitResult(d) ==
    /\ d \notin AppAuthored
    /\ call[d] = "free" /\ dir[d].in
    /\ call' = [call EXCEPT ![d] = "wait"]
    /\ UNCHANGED <<fileVars, faults, callFrame>>

\* A poll that ends the wait: the directive has its result, or it is gone.
PollResult(d) ==
    /\ call[d] = "wait"
    /\ ~dir[d].in \/ dir[d].status \in Terminal
    /\ call' = [call EXCEPT ![d] = "told"]
    /\ UNCHANGED <<fileVars, faults, callFrame>>

PollFails(d) ==
    /\ call[d] = "wait"
    /\ Fault
    /\ call' = [call EXCEPT ![d] = "told"]
    /\ UNCHANGED <<fileVars, callFrame>>

\* Mutant: a caller has no deadline while the directive is pending.
DeadlineStarted(d) ==
    /\ call[d] = "wait"
    /\ dir[d].in /\ dir[d].status \in Active
    /\ call' = [call EXCEPT ![d] = "late"]
    /\ UNCHANGED <<fileVars, faults, callFrame>>

\* A poll that finds no result after the deadline.
PollDeadline(d) ==
    /\ call[d] = "wait"
    /\ dir[d].in /\ dir[d].status \notin Terminal
    /\ call' = [call EXCEPT ![d] = "late"]
    /\ UNCHANGED <<fileVars, faults, callFrame>>

\* What the caller that gives up stamps on a directive that has not ended.
GivenUp(d) == IF dir[d].kill THEN "aborted"
              ELSE IF dir[d].status \in Active THEN "timeout" ELSE "failed"

\* The locked section after the deadline; a failing write is ignored.
GiveUp(d) ==
    /\ call[d] = "late"
    /\ call' = [call EXCEPT ![d] = "told"]
    /\ Mutate(IF dir[d].in /\ dir[d].status \notin Terminal
              THEN [dir EXCEPT ![d].status = GivenUp(d), ![d].old = FALSE] ELSE dir)
    /\ UNCHANGED <<coder, callFrame>>

CallProgress(d) == PollResult(d) \/ PollDeadline(d) \/ GiveUp(d)

-----------------------------------------------------------------------------
(***************************************************************************)
(* Stop.                                                                   *)
(***************************************************************************)
\* mark_kill_requested: rows that have not ended are found by their agent id, which
\* they have once they run.
KillMarked(d) == dir[d].in /\ dir[d].status = "running"

StopRow(d) ==
    /\ dir' = cap_pass(IF KillMarked(d) THEN [dir EXCEPT ![d].kill = TRUE] ELSE dir)
    /\ stoppedAtRest' = IF KillMarked(d) /\ phase = "idle"
                        THEN stoppedAtRest \cup {d} ELSE stoppedAtRest

stopFrame == <<coder, call, workerVars, execVars, faults>>

\* mini_coder_kill and mini_coder_steer with the message "stop": the locked section.  The
\* terminal is killed afterwards if the directive was live; an agentic worker is only
\* told to end, which it may do at any time in this model.
Stop(d) ==
    /\ StopRow(d)
    /\ stopping' = IF KillMarked(d) THEN stopping \cup ({d} \ Agentic) ELSE stopping
    /\ UNCHANGED stopFrame

\* The tool server's steer "stop": the flag alone, on whatever has not ended.
ToolStop(d) ==
    /\ dir[d].in /\ dir[d].status \notin Terminal /\ ~dir[d].kill
    /\ Parent[d] \in coder
    /\ dir' = [dir EXCEPT ![d].kill = TRUE]
    /\ stoppedAtRest' = IF phase = "idle" /\ dir[d].status = "running"
                        THEN stoppedAtRest \cup {d} ELSE stoppedAtRest
    /\ UNCHANGED <<stopping, stopFrame>>

KillPty(S) == [d \in Directives |->
                 IF d \in S \ Agentic /\ worker[d] = "up" THEN "over" ELSE worker[d]]

\* Outside the lock: the terminal is killed.
StopWorker(d) ==
    /\ d \in stopping
    /\ worker' = KillPty({d})
    /\ stopping' = stopping \ {d}
    /\ UNCHANGED <<fileVars, call, reported, execVars, faults, stoppedAtRest>>

-----------------------------------------------------------------------------
(***************************************************************************)
(* Workers, coders, time, crashes.                                         *)
(***************************************************************************)
\* The result file is written before the worker counts as ended.
WorkerEnds(d, ok) ==
    /\ worker[d] = "up"
    /\ worker' = [worker EXCEPT ![d] = "over"]
    /\ reported' = IF ok THEN reported \cup {d} ELSE reported
    /\ UNCHANGED <<fileVars, call, stopping, execVars, faults, stoppedAtRest>>

CloseCoder(c) ==
    /\ c \in coder
    /\ Fault
    /\ coder' = coder \ {c}
    /\ UNCHANGED <<dir, call, workerVars, stopping, execVars, stoppedAtRest>>

ReopenCoder(c) ==
    /\ c \notin coder
    /\ coder' = coder \cup {c}
    /\ UNCHANGED <<dir, call, workerVars, stopping, execVars, faults, stoppedAtRest>>

GrowOld(d) ==
    /\ dir[d].in /\ dir[d].status \in Active /\ ~dir[d].old
    /\ dir' = [dir EXCEPT ![d].old = TRUE]
    /\ UNCHANGED <<coder, call, workerVars, stopping, execVars, faults, stoppedAtRest>>

\* The app dies, and with it its threads, terminals and managed state.
AppCrash ==
    /\ phase # "down"
    /\ Fault
    /\ worker' = [d \in Directives |-> IF worker[d] = "up" THEN "over" ELSE worker[d]]
    /\ stopping' = {}
    /\ phase' = "down" /\ pass' = NoPass
    /\ UNCHANGED <<fileVars, call, reported, stoppedAtRest>>

AppStart ==
    /\ phase = "down"
    /\ phase' = "sweep"
    /\ UNCHANGED <<fileVars, call, workerVars, stopping, pass, faults, stoppedAtRest>>

-----------------------------------------------------------------------------
(***************************************************************************)
(* The executor thread.                                                    *)
(***************************************************************************)
execFrame == <<coder, call, stopping, stoppedAtRest>>

Smallest(S) == CHOOSE d \in S : \A e \in S : d <= e

\* Mutant: a launch the crash interrupted is queued again.
sweep_requeues(q) ==
    [d \in Directives |-> IF q[d].in /\ q[d].status = "launching"
                          THEN [q[d] EXCEPT !.status = "pending", !.old = FALSE] ELSE q[d]]

\* A launching row without a live worker: after a crash, any.
SweptRows(q) ==
    [d \in Directives |-> IF q[d].in /\ q[d].status = "launching"
                          THEN [q[d] EXCEPT !.status = "failed", !.old = FALSE] ELSE q[d]]

sweep_orphaned_launching ==
    /\ phase = "sweep"
    /\ Mutate(IF With(dir, {"launching"}) = {} THEN dir ELSE cap_pass(SweptRows(dir)))
    /\ phase' = "idle"
    /\ UNCHANGED <<workerVars, pass, execFrame>>

\* Mutant: a directive that is being launched holds none of its files.
running_file_set(q) == UNION {Files[d] : d \in With(q, {"running"})}

active_file_set(q) == UNION {Files[d] : d \in With(q, Active)}

\* The claims of plan_tick: pending rows, oldest first, while slots are left and their
\* files are free of active rows and of the claims before them.
plan_claims(q) ==
    LET slots == IF Cardinality(With(q, Active)) < MaxConcurrent
                 THEN MaxConcurrent - Cardinality(With(q, Active)) ELSE 0
        pending == With(q, {"pending"})
        Chosen[d \in Directives] ==   \* the claims among the pending rows up to d
            LET before == IF \E e \in Directives : e < d
                          THEN Chosen[CHOOSE e \in Directives : e < d /\
                                        \A f \in Directives : f < d => f <= e]
                          ELSE {}
            IN  IF /\ d \in pending /\ Cardinality(before) < slots
                   /\ Files[d] \cap active_file_set(q) = {}
                   /\ \A e \in before : Files[e] \cap Files[d] = {}
                THEN before \cup {d} ELSE before
    IN  {d \in pending : d \in Chosen[d]}

Inflight == {d \in Agentic : worker[d] = "up"}

OverdueIn(status) == {d \in With(dir, {status}) : dir[d].old}

\* Mutant: a launch that hangs is nobody's to reap.
stuck_never == {}

stuck_launching == OverdueIn("launching")

\* The snapshot and the plan.  A live agentic worker has no wall-clock cap.
StartPass ==
    /\ phase = "idle"
    /\ With(dir, {"pending"} \cup Active) # {}
    /\ LET timeouts == OverdueIn("running") \ Inflight
           check == With(dir, {"running"}) \ timeouts
       IN  pass' = [timeouts |-> timeouts, stuck |-> stuck_launching, check |-> check,
                    stopped |-> {d \in check : dir[d].kill}, inflight |-> Inflight,
                    gone |-> Coders \ coder, fresh |-> {}, claims |-> plan_claims(dir)]
    /\ phase' = "pass"
    /\ UNCHANGED <<fileVars, workerVars, faults, execFrame>>

\* A running row past its cap: kill the terminal, end the row.
TimeOut(d) ==
    /\ phase = "pass" /\ d \in pass.timeouts
    /\ worker' = KillPty({d})
    /\ Mutate(cap_directives_protecting(EndedUnlessStopped(dir, d, "timeout"), {d}))
    /\ pass' = [pass EXCEPT !.timeouts = @ \ {d}]
    /\ UNCHANGED <<reported, phase, execFrame>>

\* Then the launches that hang.
FailStuck(d) ==
    /\ phase = "pass" /\ pass.timeouts = {} /\ d \in pass.stuck
    /\ Mutate(cap_directives_protecting(EndedUnlessStopped(dir, d, "failed"), {d}))
    /\ pass' = [pass EXCEPT !.stuck = @ \ {d}]
    /\ UNCHANGED <<workerVars, phase, execFrame>>

\* Then the running rows, in order.
Checking(d) ==
    /\ phase = "pass" /\ pass.timeouts = {} /\ pass.stuck = {}
    /\ pass.check # {} /\ d = Smallest(pass.check)

Checked(d) == pass' = [pass EXCEPT !.check = @ \ {d}, !.stopped = @ \ {d}]

LooksGone(d) == d \notin AppAuthored /\ Parent[d] \in pass.gone

\* Once per pass the sessions are read again, for the first parent that looked gone;
\* if that fails nobody counts as gone.
ReadAgain(d) ==
    /\ Checking(d) /\ LooksGone(d) /\ pass.fresh = {}
    /\ \/ pass' = [pass EXCEPT !.fresh = {Coders \ coder}] /\ UNCHANGED faults
       \/ pass' = [pass EXCEPT !.fresh = {{}}] /\ Fault
    /\ UNCHANGED <<fileVars, workerVars, phase, execFrame>>

IsGone(d) == LooksGone(d) /\ \E F \in pass.fresh : Parent[d] \in F

ParentGone(d) ==
    /\ Checking(d) /\ IsGone(d)
    /\ worker' = KillPty({d})
    /\ Mutate(cap_directives_protecting(EndedUnlessStopped(dir, d, "failed"), {d}))
    /\ Checked(d)
    /\ UNCHANGED <<reported, phase, execFrame>>

ParentThere(d) == LooksGone(d) => pass.fresh # {} /\ ~IsGone(d)

StillLive(d) == d \in pass.inflight \/ (d \notin Agentic /\ worker[d] = "up")

StillRunning(d) ==
    /\ Checking(d) /\ ParentThere(d) /\ StillLive(d)
    /\ Checked(d)
    /\ UNCHANGED <<fileVars, workerVars, phase, faults, execFrame>>

\* finalize_outcome, from the snapshot's kill flag and the result file.
finalize_outcome(d) == IF d \in pass.stopped THEN "aborted"
                       ELSE IF d \in reported THEN "done" ELSE "failed"

\* finalize_finished_mini stamps the outcome whatever the row says by now.
Finalize(d) ==
    /\ Checking(d) /\ ParentThere(d) /\ ~StillLive(d)
    /\ Mutate(IF dir[d].in THEN [dir EXCEPT ![d].status = finalize_outcome(d), ![d].old = FALSE]
              ELSE dir)
    /\ Checked(d)
    /\ UNCHANGED <<workerVars, phase, execFrame>>

\* Then the claims.
Claiming(d) ==
    /\ phase = "pass"
    /\ pass.timeouts = {} /\ pass.stuck = {} /\ pass.check = {}
    /\ pass.claims # {} /\ d = Smallest(pass.claims)

\* The claim looks at the live rows again.
Claimable(d) ==
    /\ dir[d].in /\ dir[d].status = "pending"
    /\ Files[d] \cap active_file_set(dir) = {}

Claim(d) ==
    /\ Claiming(d)
    /\ Claimable(d)
    /\ dir' = cap_pass([dir EXCEPT ![d].status = "launching", ![d].old = FALSE])
    /\ phase' = "launch"
    /\ pass' = [NoPass EXCEPT !.claims = pass.claims]
    /\ UNCHANGED <<workerVars, faults, execFrame>>

\* The row is no longer claimable, or the write fails: the claim is given up.
ClaimLost(d) ==
    /\ Claiming(d)
    /\ \/ ~Claimable(d) /\ dir' = cap_pass(dir) /\ UNCHANGED faults
       \/ UNCHANGED dir /\ Fault
    /\ pass' = [NoPass EXCEPT !.claims = pass.claims \ {d}]
    /\ UNCHANGED <<workerVars, phase, execFrame>>

Launched(d) ==
    /\ pass' = [pass EXCEPT !.claims = @ \ {d}]
    /\ phase' = "pass"

\* fail_launching: no project, no scratch directory, the worker does not start.
LaunchFails(d) ==
    /\ phase = "launch" /\ d = Smallest(pass.claims)
    /\ Mutate(IF dir[d].in THEN [dir EXCEPT ![d].status = "failed", ![d].old = FALSE]
              ELSE dir)
    /\ Launched(d)
    /\ UNCHANGED <<workerVars, execFrame>>

SpawnWorker(d) ==
    /\ phase = "launch" /\ d = Smallest(pass.claims)
    /\ worker' = [worker EXCEPT ![d] = "up"]
    /\ phase' = "spawned"
    /\ UNCHANGED <<fileVars, reported, pass, faults, execFrame>>

\* apply_launched: only a row that is still launching; a failing write is ignored.
RecordLaunch(d) ==
    /\ phase = "spawned" /\ d = Smallest(pass.claims)
    /\ Mutate(cap_pass(IF dir[d].in /\ dir[d].status = "launching"
                       THEN [dir EXCEPT ![d].status = "running", ![d].old = FALSE]
                       ELSE dir))
    /\ Launched(d)
    /\ UNCHANGED <<workerVars, execFrame>>

PassDone ==
    /\ phase = "pass"
    /\ pass.timeouts = {} /\ pass.stuck = {} /\ pass.check = {} /\ pass.claims = {}
    /\ phase' = "idle" /\ pass' = NoPass
    /\ UNCHANGED <<fileVars, workerVars, faults, execFrame>>

DirectiveStep(d) ==
    \/ TimeOut(d) \/ FailStuck(d)
    \/ ReadAgain(d) \/ ParentGone(d) \/ StillRunning(d) \/ Finalize(d)
    \/ Claim(d) \/ ClaimLost(d) \/ LaunchFails(d) \/ SpawnWorker(d) \/ RecordLaunch(d)

Executor ==
    \/ sweep_orphaned_launching \/ StartPass \/ PassDone
    \/ \E d \in Directives : DirectiveStep(d)

-----------------------------------------------------------------------------
CallStep(d) ==
    \/ \E wait \in BOOLEAN : SpawnMiniCoder(d, wait)
    \/ AppendMainCoder(d) \/ AwaitResult(d) \/ PollFails(d) \/ CallProgress(d)

StopStep(d) == Stop(d) \/ ToolStop(d) \/ StopWorker(d)

MiniNext ==
    \/ Executor \/ AppCrash \/ AppStart
    \/ \E d \in Directives : CallStep(d) \/ StopStep(d) \/ GrowOld(d)
    \/ \E d \in Directives, ok \in BOOLEAN : WorkerEnds(d, ok)
    \/ \E c \in Coders : CloseCoder(c) \/ ReopenCoder(c)

MiniSpec == MiniInit /\ [][MiniNext]_miniVars

\* The executor thread keeps running its passes, time passes, a caller keeps polling,
\* and an agentic worker ends by its round and request limits.  A terminal need not end.
MiniFairness ==
    /\ WF_miniVars(Executor)
    /\ \A d \in Directives : WF_miniVars(GrowOld(d)) /\ WF_miniVars(CallProgress(d))
    /\ \A d \in Agentic : WF_miniVars(\E ok \in BOOLEAN : WorkerEnds(d, ok))

-----------------------------------------------------------------------------
(***************************************************************************)
(* Properties.                                                             *)
(***************************************************************************)

\* No two active directives share a file, although claims are planned on a snapshot:
\* lost launch records, stops, closed coders and crashes included.
FilesApart ==
    \A d, e \in With(dir, Active) : d # e => Files[d] \cap Files[e] = {}

\* A directive leaves the queue only with its outcome (the sweep may evict what it just
\* failed), and one that has ended never comes to life again.
RowsOnlyEnd ==
    [][\A d \in Directives :
         /\ dir[d].in /\ dir[d].status \notin Terminal => dir'[d].in \/ dir'[d].status \in Terminal
         /\ dir[d].status \in Terminal => dir'[d].status \in Terminal]_miniVars

\* A directive's task is run once: no crash, lost write or late claim starts a second
\* worker for it.
SpawnedOnce ==
    [][\A d \in Directives : worker[d] # "none" => worker'[d] # "up" \/ worker[d] = "up"]_miniVars

\* A Stop that finds the executor between two passes and the directive running is the
\* directive's outcome, whichever of timeout, lost parent, worker's end, caller's
\* deadline or crash ends it.
StopAtRestWins ==
    \A d \in stoppedAtRest : dir[d].status \in Terminal => dir[d].status = "aborted"

\* Every directive in the queue ends (an ended one may be evicted) unless the app goes
\* down: after its restart no crash, lost write or hanging terminal keeps a slot or a
\* file for ever.
DirectiveSettles ==
    \A d \in Directives :
        dir[d].in ~> ~dir[d].in \/ dir[d].status \in Terminal \/ phase = "down"

\* Every caller that waits for a result returns, even if the app never comes back.
CallerReturns == \A d \in Directives : call[d] = "wait" ~> call[d] \notin {"wait", "late"}
=============================================================================
