--------------------------- MODULE MiniCoderProofs ---------------------------
(***************************************************************************)
(* Proofs about the mini coder pool, for any directives, files, coders and *)
(* bounds, with failing writes, crashes and stops at any step.             *)
(*                                                                         *)
(* The executor acts on a snapshot.  What makes that safe is that a row    *)
(* only moves forward: a pending row has no worker yet, the row of the     *)
(* claim that is being launched has left "pending" for good (LaunchInv),   *)
(* and a Stop at rest is in the file before the next snapshot is taken     *)
(* (StopInv).                                                              *)
(***************************************************************************)
EXTENDS MiniCoder, WellFoundedInduction, TLAPS

Resting == {"down", "sweep", "idle"}

\* A directive nobody appended has no row; one nobody claimed has no worker.
RowInv(d) ==
    /\ call[d] = "idle" => dir[d].status = "none"
    /\ dir[d].in => dir[d].status # "none"
    /\ dir[d].status \in {"none", "pending"} => worker[d] = "none"

\* The claim that is being launched.
LaunchInv ==
    phase \in {"launch", "spawned"} =>
        /\ Smallest(pass.claims) \in Directives
        /\ dir[Smallest(pass.claims)].status \notin {"none", "pending"}
        /\ Smallest(pass.claims) \notin stoppedAtRest
        /\ phase = "launch" => worker[Smallest(pass.claims)] = "none"

\* A directive stopped at rest keeps the flag, and the pass that may end it saw it.
StopInv(d) ==
    d \in stoppedAtRest =>
        /\ dir[d].kill /\ dir[d].status \in {"running", "aborted"}
        /\ d \in pass.check => d \in pass.stopped

\* Between two passes nothing is left of the snapshot.
RestInv == phase \in Resting => pass = NoPass

MiniInv ==
    /\ MiniTypeOK
    /\ \A d \in Directives : RowInv(d) /\ StopInv(d)
    /\ LaunchInv
    /\ RestInv
    /\ FilesApart

\* What a step may do to the queue and to the workers: the bodies of RowsOnlyEnd and
\* SpawnedOnce.
RowsStep ==
    \A d \in Directives :
        /\ dir[d].in /\ dir[d].status \notin Terminal => dir'[d].in \/ dir'[d].status \in Terminal
        /\ dir[d].status \in Terminal => dir'[d].status \in Terminal

SpawnStep == \A d \in Directives : worker[d] # "none" => worker'[d] # "up" \/ worker[d] = "up"

MiniStep == MiniInv' /\ RowsStep /\ SpawnStep

-----------------------------------------------------------------------------
(***************************************************************************)
(* The operators on the queue.                                             *)
(***************************************************************************)

\* What an eviction may do: take terminal rows out of the file.
OnlyEvicts(q, p) ==
    /\ p \in [Directives -> Row]
    /\ \A d \in Directives :
          /\ p[d].status = q[d].status /\ p[d].kill = q[d].kill /\ p[d].old = q[d].old
          /\ p[d].in => q[d].in
          /\ q[d].in /\ ~p[d].in => q[d].status \in Terminal

\* Evicting terminal rows does no more than that.
LEMMA EvictFacts ==
  ASSUME NEW q \in [Directives -> Row], NEW gone, gone \subseteq With(q, Terminal)
  PROVE  OnlyEvicts(q, Evict(q, gone))
  <1> DEFINE p == Evict(q, gone)
  <1>1. ASSUME NEW d \in Directives
        PROVE  /\ p[d] \in Row
               /\ p[d].status = q[d].status /\ p[d].kill = q[d].kill /\ p[d].old = q[d].old
               /\ p[d].in => q[d].in
               /\ q[d].in /\ ~p[d].in => q[d].status \in Terminal
    <2>1. q[d] \in Row /\ p[d] = IF d \in gone THEN [q[d] EXCEPT !.in = FALSE] ELSE q[d]
      BY DEF Evict
    <2>2. d \in gone => q[d].status \in Terminal
      BY DEF With
    <2> HIDE DEF p
    <2> QED BY <2>1, <2>2 DEF Row
  <1>2. p = [d \in Directives |-> p[d]]
    BY DEF Evict
  <1> QED BY <1>1, <1>2 DEF OnlyEvicts

\* The app's cap.
LEMMA CapFacts ==
  ASSUME NEW q \in [Directives -> Row], NEW P
  PROVE  OnlyEvicts(q, cap_directives_protecting(q, P)) /\ OnlyEvicts(q, cap_pass(q))
  <1>1. ASSUME NEW R PROVE OnlyEvicts(q, cap_directives_protecting(q, R))
    <2> DEFINE old == With(q, Terminal) \ R
               gone == {d \in old : Cardinality({e \in old : e < d})
                                      < Cardinality(InFile(q)) - MaxDirectives}
    <2>1. cap_directives_protecting(q, R) = Evict(q, gone)
      BY DEF cap_directives_protecting
    <2>2. gone \subseteq With(q, Terminal)
      OBVIOUS
    <2> HIDE DEF gone
    <2> QED BY <2>1, <2>2, EvictFacts
  <1> QED BY <1>1 DEF cap_pass

\* The tool server's cap, whichever rows it takes.
LEMMA ToolCapFacts ==
  ASSUME NEW q \in [Directives -> Row], NEW p \in cap_mini_coder_directives(q)
  PROVE  OnlyEvicts(q, p)
  <1>1. PICK G \in SUBSET With(q, Terminal) : p = Evict(q, G)
    BY DEF cap_mini_coder_directives
  <1> QED BY <1>1, EvictFacts

\* A claim is a pending row.
LEMMA ClaimsAreRows ==
  ASSUME NEW q
  PROVE  plan_claims(q) \subseteq Directives
  BY DEF plan_claims, With, InFile

\* The types, one variable at a time.
LEMMA MiniTypes ==
  ASSUME MiniInv
  PROVE  /\ dir \in [Directives -> Row]
         /\ call \in [Directives -> {"idle", "free", "wait", "late", "told"}]
         /\ worker \in [Directives -> {"none", "up", "over"}]
         /\ stoppedAtRest \subseteq Directives
         /\ faults \in 0..MaxFaults
         /\ Fault => faults' \in 0..MaxFaults
         /\ pass \in [timeouts: SUBSET Directives, stuck: SUBSET Directives,
                      check: SUBSET Directives, stopped: SUBSET Directives,
                      inflight: SUBSET Agentic, gone: SUBSET Coders,
                      fresh: SUBSET (SUBSET Coders), claims: SUBSET Directives]
  BY MiniConstants DEF MiniInv, MiniTypeOK, Fault

-----------------------------------------------------------------------------
(***************************************************************************)
(* Steps that only move rows forward.                                      *)
(***************************************************************************)

\* What a step other than an append or a claim may do to the row of d.
RowMove(d) ==
    /\ dir[d].kill => dir'[d].kill
    /\ \/ dir'[d].status = dir[d].status
       \/ dir'[d].status \in Terminal /\ dir[d].status # "none"
       \/ dir[d].status = "launching" /\ dir'[d].status = "running"
    /\ dir'[d].in => dir[d].in
    /\ dir[d].in /\ ~dir'[d].in => dir'[d].status \in Terminal
    /\ d \in stoppedAtRest => dir'[d].status \in {dir[d].status, "aborted"}

\* No worker is started.
WorkerMove(d) ==
    \/ worker'[d] = worker[d]
    \/ worker[d] = "up" /\ worker'[d] = "over"

\* A directive is stopped at rest only if it is running.
StopMove(d) ==
    d \in stoppedAtRest' => \/ d \in stoppedAtRest
                            \/ phase = "idle" /\ dir'[d].status = "running" /\ dir'[d].kill

PhaseMove ==
    \/ phase' = phase /\ pass'.claims = pass.claims /\ (phase \in Resting => pass' = pass)
    \/ phase' = "pass"
    \/ phase' \in Resting /\ pass' = NoPass

\* Such steps keep the invariant.
LEMMA ForwardKeeps ==
  ASSUME MiniInv, MiniTypeOK',
         \A d \in Directives :
            /\ RowMove(d) /\ WorkerMove(d) /\ StopMove(d)
            /\ call'[d] = "idle" => call[d] = "idle"
            /\ d \in pass'.check => d \in pass'.stopped \/ d \notin stoppedAtRest',
         PhaseMove
  PROVE  MiniStep
  <1>1. dir \in [Directives -> Row] /\ dir' \in [Directives -> Row]
    BY DEF MiniInv, MiniTypeOK
  <1>2. ASSUME NEW d \in Directives PROVE RowInv(d)'
    BY DEF MiniInv, RowInv, RowMove, WorkerMove, Terminal
  <1>3. ASSUME NEW d \in Directives PROVE StopInv(d)'
    BY DEF MiniInv, StopInv, RowMove, StopMove
  <1>4. LaunchInv'
    <2> SUFFICES ASSUME phase' \in {"launch", "spawned"} PROVE LaunchInv'
      BY DEF LaunchInv
    <2>1. phase' = phase /\ pass'.claims = pass.claims
      BY DEF PhaseMove, Resting
    <2> DEFINE e == Smallest(pass.claims)
    <2>2. /\ e \in Directives /\ dir[e].status \notin {"none", "pending"}
          /\ e \notin stoppedAtRest /\ (phase = "launch" => worker[e] = "none")
      BY <2>1 DEF MiniInv, LaunchInv
    <2>3. Smallest(pass.claims)' = e
      BY <2>1 DEF Smallest
    <2> HIDE DEF e
    <2>4. /\ dir'[e].status \notin {"none", "pending"} /\ e \notin stoppedAtRest'
          /\ phase = "launch" => worker'[e] = "none"
      BY <2>1, <2>2 DEF RowMove, StopMove, WorkerMove, Terminal
    <2> QED BY <2>1, <2>2, <2>3, <2>4 DEF LaunchInv
  <1>5. RestInv'
    BY DEF MiniInv, RestInv, PhaseMove, Resting
  <1>6. FilesApart'
    <2>1. \A d \in Directives : dir'[d].in /\ dir'[d].status \in Active
                                  => dir[d].in /\ dir[d].status \in Active
      BY DEF RowMove, Active, Terminal
    <2> QED BY <2>1 DEF MiniInv, FilesApart, With, InFile
  <1>7. RowsStep /\ SpawnStep
    BY DEF RowsStep, SpawnStep, RowMove, WorkerMove, Terminal
  <1> QED BY <1>2, <1>3, <1>4, <1>5, <1>6, <1>7 DEF MiniStep, MiniInv

\* Steps that leave the file alone.
LEMMA OffFileKeeps ==
  ASSUME MiniInv, MiniTypeOK', dir' = dir, stoppedAtRest' = stoppedAtRest,
         \A d \in Directives :
            /\ WorkerMove(d)
            /\ call'[d] = "idle" => call[d] = "idle"
            /\ d \in pass'.check => d \in pass'.stopped \/ d \notin stoppedAtRest,
         PhaseMove
  PROVE  MiniStep
  <1>1. \A d \in Directives : RowMove(d) /\ StopMove(d)
    BY DEF RowMove, StopMove
  <1> QED BY <1>1, ForwardKeeps

\* The flag is read by whoever checks a stopped directive.
LEMMA CheckedSawStop ==
  ASSUME MiniInv
  PROVE  \A d \in Directives : d \in pass.check => d \in pass.stopped \/ d \notin stoppedAtRest
  BY DEF MiniInv, StopInv

\* The calls' steps off the file, the worker's end, coders that come and go.
LEMMA CallsKeep ==
  ASSUME MiniInv, NEW d \in Directives,
         AwaitResult(d) \/ PollResult(d) \/ PollFails(d) \/ PollDeadline(d)
  PROVE  MiniStep
  <1>1. /\ UNCHANGED <<dir, coder, worker, reported, stopping, phase, pass, stoppedAtRest>>
        /\ faults' \in 0..MaxFaults
        /\ \E c \in {"wait", "late", "told"} : call' = [call EXCEPT ![d] = c]
    BY MiniTypes DEF AwaitResult, PollResult, PollFails, PollDeadline, fileVars, callFrame,
       workerVars, execVars
  <1>2. MiniTypeOK'
    BY <1>1 DEF MiniInv, MiniTypeOK
  <1>3. \A e \in Directives : WorkerMove(e) /\ (call'[e] = "idle" => call[e] = "idle")
    BY <1>1, MiniTypes DEF WorkerMove
  <1>4. PhaseMove
    BY <1>1 DEF PhaseMove
  <1> QED BY <1>1, <1>2, <1>3, <1>4, OffFileKeeps, CheckedSawStop

\* A worker that ends or is stopped, and a coder that closes or reopens, keep the invariant.
LEMMA WorldKeeps ==
  ASSUME MiniInv,
         \/ \E d \in Directives : StopWorker(d) \/ \E ok \in BOOLEAN : WorkerEnds(d, ok)
         \/ \E c \in Coders : CloseCoder(c) \/ ReopenCoder(c)
  PROVE  MiniStep
  <1>1. /\ UNCHANGED <<dir, call, phase, pass, stoppedAtRest>>
        /\ faults' \in 0..MaxFaults /\ coder' \subseteq Coders
        /\ reported' \subseteq Directives /\ stopping' \subseteq Directives
    BY MiniTypes DEF StopWorker, WorkerEnds, CloseCoder, ReopenCoder, fileVars, workerVars,
       execVars, MiniInv, MiniTypeOK
  <1>2. /\ worker' \in [Directives -> {"none", "up", "over"}]
        /\ \A e \in Directives : WorkerMove(e)
    BY MiniTypes DEF StopWorker, WorkerEnds, CloseCoder, ReopenCoder, KillPty, workerVars, WorkerMove
  <1>3. MiniTypeOK'
    BY <1>1, <1>2 DEF MiniInv, MiniTypeOK
  <1>4. PhaseMove
    BY <1>1 DEF PhaseMove
  <1> QED BY <1>1, <1>2, <1>3, <1>4, OffFileKeeps, CheckedSawStop

\* The empty snapshot.
LEMMA NoPassFacts ==
  /\ NoPass \in [timeouts: SUBSET Directives, stuck: SUBSET Directives,
                 check: SUBSET Directives, stopped: SUBSET Directives,
                 inflight: SUBSET Agentic, gone: SUBSET Coders,
                 fresh: SUBSET (SUBSET Coders), claims: SUBSET Directives]
  /\ NoPass.check = {}
  BY DEF NoPass

\* The app comes and goes, a pass ends.
LEMMA AppKeeps ==
  ASSUME MiniInv, AppCrash \/ AppStart \/ PassDone
  PROVE  MiniStep
  <1>1. /\ UNCHANGED <<dir, coder, call, reported, stoppedAtRest>>
        /\ faults' \in 0..MaxFaults /\ stopping' \in {stopping, {}}
        /\ phase' \in Resting /\ pass' = NoPass
    BY MiniTypes DEF AppCrash, AppStart, PassDone, fileVars, workerVars, execFrame, MiniInv,
       RestInv, Resting
  <1>2. /\ worker' \in [Directives -> {"none", "up", "over"}]
        /\ \A e \in Directives : WorkerMove(e)
    BY MiniTypes DEF AppCrash, AppStart, PassDone, workerVars, WorkerMove
  <1>3. MiniTypeOK'
    BY <1>1, <1>2, NoPassFacts DEF MiniInv, MiniTypeOK, Resting
  <1>4. PhaseMove
    BY <1>1 DEF PhaseMove
  <1> QED BY <1>1, <1>2, <1>3, <1>4, NoPassFacts, OffFileKeeps

\* The snapshot: what is stopped by then is known to be.
LEMMA StartPassKeeps ==
  ASSUME MiniInv, StartPass
  PROVE  MiniStep
  <1> DEFINE timeouts == OverdueIn("running") \ Inflight
             check == With(dir, {"running"}) \ timeouts
             stopped == {d \in check : dir[d].kill}
  <1>1. /\ UNCHANGED <<dir, coder, call, worker, reported, stopping, faults, stoppedAtRest>>
        /\ phase' = "pass"
        /\ pass' = [timeouts |-> timeouts, stuck |-> stuck_launching, check |-> check,
                    stopped |-> stopped, inflight |-> Inflight,
                    gone |-> Coders \ coder, fresh |-> {}, claims |-> plan_claims(dir)]
    BY DEF StartPass, fileVars, workerVars, execFrame
  <1>2. /\ timeouts \subseteq Directives /\ stuck_launching \subseteq Directives
        /\ check \subseteq Directives /\ stopped \subseteq Directives
        /\ Inflight \subseteq Agentic /\ plan_claims(dir) \subseteq Directives
    BY ClaimsAreRows DEF OverdueIn, With, InFile, stuck_launching, Inflight
  <1>3. \A d \in stoppedAtRest : d \in check => d \in stopped
    BY MiniTypes DEF MiniInv, StopInv
  <1> HIDE DEF timeouts, check, stopped
  <1>4. MiniTypeOK'
    BY <1>1, <1>2 DEF MiniInv, MiniTypeOK
  <1>5. \A d \in Directives : d \in pass'.check => d \in pass'.stopped \/ d \notin stoppedAtRest
    BY <1>1, <1>3
  <1>6. PhaseMove /\ \A d \in Directives : WorkerMove(d)
    BY <1>1 DEF PhaseMove, WorkerMove
  <1> QED BY <1>1, <1>4, <1>5, <1>6, OffFileKeeps

\* The steps of a pass that only read.
LEMMA ReadsKeep ==
  ASSUME MiniInv, NEW d \in Directives, ReadAgain(d) \/ StillRunning(d)
  PROVE  MiniStep
  <1>1. /\ UNCHANGED <<dir, coder, call, worker, reported, stopping, phase, stoppedAtRest>>
        /\ faults' \in 0..MaxFaults /\ phase = "pass"
    BY MiniTypes DEF ReadAgain, StillRunning, Checking, fileVars, workerVars, execFrame
  <1>2. /\ pass' \in [timeouts: SUBSET Directives, stuck: SUBSET Directives,
                      check: SUBSET Directives, stopped: SUBSET Directives,
                      inflight: SUBSET Agentic, gone: SUBSET Coders,
                      fresh: SUBSET (SUBSET Coders), claims: SUBSET Directives]
        /\ \A e \in Directives : e \in pass'.check =>
              e \in pass.check /\ (e \in pass.stopped => e \in pass'.stopped)
    <2>1. CASE ReadAgain(d)
      BY <2>1, MiniTypes DEF ReadAgain
    <2>2. CASE StillRunning(d)
      BY <2>2, MiniTypes DEF StillRunning, Checked
    <2> QED BY <2>1, <2>2
  <1>3. MiniTypeOK'
    BY <1>1, <1>2 DEF MiniInv, MiniTypeOK
  <1>4. PhaseMove /\ \A e \in Directives : WorkerMove(e)
    BY <1>1 DEF PhaseMove, WorkerMove
  <1> QED BY <1>1, <1>2, <1>3, <1>4, OffFileKeeps, CheckedSawStop

-----------------------------------------------------------------------------
(***************************************************************************)
(* Steps that write the file.                                              *)
(***************************************************************************)

\* A queue to write in which rows moved forward and none left the file.
Moves(q) ==
    /\ q \in [Directives -> Row]
    /\ \A d \in Directives :
          /\ dir[d].kill => q[d].kill
          /\ \/ q[d].status = dir[d].status
             \/ q[d].status \in Terminal /\ dir[d].status # "none"
             \/ dir[d].status = "launching" /\ q[d].status = "running"
          /\ q[d].in = dir[d].in
          /\ d \in stoppedAtRest => q[d].status \in {dir[d].status, "aborted"}

\* The queue as it is.
LEMMA SameMoves ==
  ASSUME MiniInv
  PROVE  Moves(dir)
  BY MiniTypes DEF Moves

\* A row's status is stamped.
LEMMA StampMoves ==
  ASSUME MiniInv, NEW d \in Directives, NEW s \in Terminal \cup {"running"},
         dir[d].status # "none",
         s = "running" => dir[d].status = "launching",
         d \in stoppedAtRest => s = "aborted"
  PROVE  Moves([dir EXCEPT ![d].status = s, ![d].old = FALSE])
  <1> DEFINE q == [dir EXCEPT ![d].status = s, ![d].old = FALSE]
  <1>1. dir \in [Directives -> Row] /\ dir[d] \in Row
    BY MiniTypes
  <1>2. /\ q = [dir EXCEPT ![d] = [dir[d] EXCEPT !.status = s, !.old = FALSE]]
        /\ [dir[d] EXCEPT !.status = s, !.old = FALSE] \in Row
    BY <1>1 DEF Row, Active
  <1>3. q \in [Directives -> Row]
    BY <1>1, <1>2
  <1>4. ASSUME NEW e \in Directives, e # d PROVE q[e] = dir[e]
    BY <1>1, <1>4
  <1>5. q[d].status = s /\ q[d].kill = dir[d].kill /\ q[d].in = dir[d].in
    BY <1>1, <1>2 DEF Row
  <1> HIDE DEF q
  <1>6. ASSUME NEW e \in Directives
        PROVE  /\ dir[e].kill => q[e].kill
               /\ \/ q[e].status = dir[e].status
                  \/ q[e].status \in Terminal /\ dir[e].status # "none"
                  \/ dir[e].status = "launching" /\ q[e].status = "running"
               /\ q[e].in = dir[e].in
               /\ e \in stoppedAtRest => q[e].status \in {dir[e].status, "aborted"}
    <2>1. CASE e = d
      BY <1>5, <2>1
    <2>2. CASE e # d
      BY <1>4, <2>2
    <2> QED BY <2>1, <2>2
  <1>7. Moves(q)
    BY <1>3, <1>6 DEF Moves
  <1> QED BY <1>7 DEF q

\* The reaping paths: the outcome of a row stopped at rest is the Stop.
LEMMA ReapMoves ==
  ASSUME MiniInv, NEW d \in Directives, NEW s \in Terminal
  PROVE  Moves(EndedUnlessStopped(dir, d, s))
  <1> DEFINE t == IF dir[d].kill THEN "aborted" ELSE s
  <1>1. t \in Terminal /\ (d \in stoppedAtRest => t = "aborted")
    BY DEF Terminal, MiniInv, StopInv
  <1>2. EndedUnlessStopped(dir, d, s) = IF dir[d].in /\ dir[d].status \in Active
                                        THEN [dir EXCEPT ![d].status = t, ![d].old = FALSE] ELSE dir
    BY DEF EndedUnlessStopped, Ended
  <1> HIDE DEF t
  <1>3. t # "running"
    BY <1>1 DEF Terminal
  <1>4. ASSUME dir[d].status \in Active
        PROVE  Moves([dir EXCEPT ![d].status = t, ![d].old = FALSE])
    BY <1>1, <1>3, <1>4, StampMoves DEF Active
  <1> QED BY <1>2, <1>4, SameMoves

\* A flag of a row is set.
LEMMA FlagMoves ==
  ASSUME MiniInv, NEW d \in Directives
  PROVE  Moves([dir EXCEPT ![d].kill = TRUE]) /\ Moves([dir EXCEPT ![d].old = TRUE])
  <1>1. dir \in [Directives -> Row] /\ dir[d] \in Row
    BY MiniTypes
  <1>2. ASSUME NEW r \in Row, r.status = dir[d].status, r.in = dir[d].in,
               dir[d].kill => r.kill
        PROVE  Moves([dir EXCEPT ![d] = r])
    BY <1>1, <1>2 DEF Moves
  <1>3. /\ [dir[d] EXCEPT !.kill = TRUE] \in Row
        /\ [dir[d] EXCEPT !.kill = TRUE].status = dir[d].status
        /\ [dir[d] EXCEPT !.kill = TRUE].in = dir[d].in
        /\ [dir[d] EXCEPT !.kill = TRUE].kill
    BY <1>1 DEF Row
  <1>4. /\ [dir[d] EXCEPT !.old = TRUE] \in Row
        /\ [dir[d] EXCEPT !.old = TRUE].status = dir[d].status
        /\ [dir[d] EXCEPT !.old = TRUE].in = dir[d].in
        /\ [dir[d] EXCEPT !.old = TRUE].kill = dir[d].kill
    BY <1>1 DEF Row
  <1> QED BY <1>2, <1>3, <1>4

\* What is written, with or without an eviction, or fails to be written.
LEMMA WriteMoves ==
  ASSUME MiniInv, NEW q, Moves(q), dir' = q \/ dir' = dir \/ OnlyEvicts(q, dir')
  PROVE  dir' \in [Directives -> Row] /\ \A d \in Directives : RowMove(d)
  <1>1. dir' \in [Directives -> Row]
    BY MiniTypes DEF Moves, OnlyEvicts
  <1>2. CASE dir' = q
    BY <1>1, <1>2 DEF Moves, RowMove
  <1>3. CASE dir' = dir
    BY <1>1, <1>3 DEF RowMove
  <1>4. CASE OnlyEvicts(q, dir')
    BY <1>1, <1>4 DEF Moves, RowMove, OnlyEvicts
  <1> QED BY <1>1, <1>2, <1>3, <1>4

\* A write of the app that may fail.
LEMMA MutateMoves ==
  ASSUME MiniInv, NEW q, Moves(q), NEW p, p = q \/ OnlyEvicts(q, p), Mutate(p)
  PROVE  /\ dir' \in [Directives -> Row] /\ \A d \in Directives : RowMove(d)
         /\ faults' \in 0..MaxFaults
  <1>1. dir' = q \/ dir' = dir \/ OnlyEvicts(q, dir')
    BY DEF Mutate
  <1>2. faults' \in 0..MaxFaults
    BY MiniTypes DEF Mutate
  <1> QED BY <1>1, <1>2, WriteMoves

\* A capped write is an eviction after the move.
LEMMA CappedMoves ==
  ASSUME MiniInv, NEW q, Moves(q), NEW P
  PROVE  OnlyEvicts(q, cap_directives_protecting(q, P)) /\ OnlyEvicts(q, cap_pass(q))
  BY CapFacts DEF Moves

\* Killing terminals only ends workers.
LEMMA KillMoves ==
  ASSUME MiniInv, NEW S, worker' = KillPty(S) \/ worker' = worker
  PROVE  /\ worker' \in [Directives -> {"none", "up", "over"}]
         /\ \A d \in Directives : WorkerMove(d)
  BY MiniTypes DEF KillPty, WorkerMove

\* A pass ends the row of a directive: past its cap, hanging in launch, its parent gone.
LEMMA ReapKeeps ==
  ASSUME MiniInv, NEW d \in Directives, TimeOut(d) \/ FailStuck(d) \/ ParentGone(d)
  PROVE  MiniStep
  <1>1. /\ UNCHANGED <<coder, call, reported, stopping, phase, stoppedAtRest>>
        /\ phase = "pass"
        /\ worker' = KillPty({d}) \/ worker' = worker
        /\ \E s \in Terminal :
              Mutate(cap_directives_protecting(EndedUnlessStopped(dir, d, s), {d}))
    BY DEF TimeOut, FailStuck, ParentGone, Checking, Terminal, workerVars, execFrame
  <1>2. /\ pass' \in [timeouts: SUBSET Directives, stuck: SUBSET Directives,
                      check: SUBSET Directives, stopped: SUBSET Directives,
                      inflight: SUBSET Agentic, gone: SUBSET Coders,
                      fresh: SUBSET (SUBSET Coders), claims: SUBSET Directives]
        /\ pass'.claims = pass.claims
        /\ \A e \in Directives : e \in pass'.check =>
              e \in pass.check /\ (e \in pass.stopped => e \in pass'.stopped)
    <2>1. CASE TimeOut(d)
      BY <2>1, MiniTypes DEF TimeOut
    <2>2. CASE FailStuck(d)
      BY <2>2, MiniTypes DEF FailStuck
    <2>3. CASE ParentGone(d)
      BY <2>3, MiniTypes DEF ParentGone, Checked
    <2> QED BY <2>1, <2>2, <2>3
  <1>3. /\ dir' \in [Directives -> Row] /\ \A e \in Directives : RowMove(e)
        /\ faults' \in 0..MaxFaults
    <2>1. PICK s \in Terminal : Mutate(cap_directives_protecting(EndedUnlessStopped(dir, d, s), {d}))
      BY <1>1
    <2> DEFINE q == EndedUnlessStopped(dir, d, s)
    <2>2. Moves(q)
      BY ReapMoves
    <2>3. OnlyEvicts(q, cap_directives_protecting(q, {d}))
      BY <2>2, CappedMoves
    <2> HIDE DEF q
    <2> QED BY <2>1, <2>2, <2>3, MutateMoves DEF q
  <1>4. /\ worker' \in [Directives -> {"none", "up", "over"}]
        /\ \A e \in Directives : WorkerMove(e)
    BY <1>1, KillMoves
  <1>5. MiniTypeOK'
    BY <1>1, <1>2, <1>3, <1>4 DEF MiniInv, MiniTypeOK
  <1>6. PhaseMove /\ \A e \in Directives : StopMove(e)
    BY <1>1 DEF PhaseMove, StopMove
  <1>7. \A e \in Directives : e \in pass'.check => e \in pass'.stopped \/ e \notin stoppedAtRest'
    BY <1>1, <1>2, CheckedSawStop
  <1> QED BY <1>1, <1>3, <1>4, <1>5, <1>6, <1>7, ForwardKeeps

\* A set of directives has a smallest one.
LEMMA SmallestIn ==
  ASSUME NEW S \in SUBSET Directives, S # {}
  PROVE  Smallest(S) \in S
  <1>1. S \subseteq Nat
    BY MiniConstants
  <1> DEFINE R == {ss \in Nat \X Nat : ss[1] < ss[2]}
  <1>2. IsWellFoundedOn(R, Nat)
    BY NatLessThanWellFounded, Zenon DEF OpToRel
  <1> HIDE DEF R
  <1>3. PICK x \in S : \A y \in S : ~(<<y, x>> \in R)
    BY <1>1, <1>2, WFMin
  <1>4. ASSUME NEW y \in S PROVE x <= y
    <2>1. x \in Nat /\ y \in Nat /\ <<y, x>> \in Nat \X Nat
      BY <1>1
    <2>2. <<y, x>>[1] = y /\ <<y, x>>[2] = x
      OBVIOUS
    <2>3. ~(y < x)
      BY <1>3, <2>1, <2>2, Zenon DEF R
    <2> QED BY <2>1, <2>3
  <1> QED BY <1>4 DEF Smallest

\* A directive is stamped with an outcome: its worker has ended, its launch failed or is
\* recorded, its caller gives up.
LEMMA StampKeeps ==
  ASSUME MiniInv, NEW d \in Directives,
         Finalize(d) \/ LaunchFails(d) \/ RecordLaunch(d) \/ GiveUp(d)
  PROVE  MiniStep
  <1>1. /\ UNCHANGED <<coder, worker, reported, stopping, stoppedAtRest>>
        /\ call' \in [Directives -> {"idle", "free", "wait", "late", "told"}]
        /\ \A e \in Directives : call'[e] = "idle" => call[e] = "idle"
    <2>1. CASE GiveUp(d)
      BY <2>1, MiniTypes DEF GiveUp, callFrame, workerVars
    <2>2. CASE ~GiveUp(d)
      BY <2>2, MiniTypes DEF Finalize, LaunchFails, RecordLaunch, execFrame, workerVars
    <2> QED BY <2>1, <2>2
  <1>2. /\ pass' \in [timeouts: SUBSET Directives, stuck: SUBSET Directives,
                      check: SUBSET Directives, stopped: SUBSET Directives,
                      inflight: SUBSET Agentic, gone: SUBSET Coders,
                      fresh: SUBSET (SUBSET Coders), claims: SUBSET Directives]
        /\ \A e \in Directives : e \in pass'.check =>
              e \in pass.check /\ (e \in pass.stopped => e \in pass'.stopped)
        /\ PhaseMove
        /\ phase' \in {phase, "pass"}
    <2>1. CASE Finalize(d)
      BY <2>1, MiniTypes DEF Finalize, Checking, Checked, PhaseMove
    <2>2. CASE LaunchFails(d) \/ RecordLaunch(d)
      BY <2>2, MiniTypes DEF LaunchFails, RecordLaunch, Launched, PhaseMove
    <2>3. CASE GiveUp(d)
      BY <2>3, MiniTypes DEF GiveUp, callFrame, execVars, PhaseMove
    <2> QED BY <2>1, <2>2, <2>3
  <1>3. ASSUME NEW p, NEW s \in Terminal \cup {"running"}, NEW X,
               s = "running" => dir[d].status = "launching",
               d \in stoppedAtRest => s = "aborted", X => dir[d].in,
               LET q == IF X THEN [dir EXCEPT ![d].status = s, ![d].old = FALSE] ELSE dir
               IN  (p = q \/ p = cap_pass(q)) /\ Mutate(p)
        PROVE  /\ dir' \in [Directives -> Row] /\ \A e \in Directives : RowMove(e)
               /\ faults' \in 0..MaxFaults
    <2> DEFINE q == IF X THEN [dir EXCEPT ![d].status = s, ![d].old = FALSE] ELSE dir
    <2>1. X => dir[d].status # "none"
      BY <1>3 DEF MiniInv, RowInv
    <2>2. X => Moves([dir EXCEPT ![d].status = s, ![d].old = FALSE])
      BY <1>3, <2>1, StampMoves
    <2>3. Moves(q)
      BY <2>2, SameMoves
    <2>4. (p = q \/ p = cap_pass(q)) /\ Mutate(p)
      BY <1>3
    <2> HIDE DEF q
    <2>5. p = q \/ OnlyEvicts(q, p)
      BY <2>3, <2>4, CappedMoves
    <2> QED BY <2>3, <2>4, <2>5, MutateMoves
  <1>4. /\ dir' \in [Directives -> Row] /\ \A e \in Directives : RowMove(e)
        /\ faults' \in 0..MaxFaults
    <2>1. CASE Finalize(d)
      <3>1. d \in pass.check
        BY <2>1, MiniTypes, SmallestIn DEF Finalize, Checking
      <3> DEFINE s == finalize_outcome(d)
                 p == IF dir[d].in THEN [dir EXCEPT ![d].status = s, ![d].old = FALSE] ELSE dir
      <3>2. s \in Terminal /\ s # "running" /\ (d \in stoppedAtRest => s = "aborted")
        BY <3>1, CheckedSawStop DEF finalize_outcome, Terminal
      <3>3. Mutate(p)
        BY <2>1 DEF Finalize
      <3> HIDE DEF s
      <3> QED BY <1>3, <3>2, <3>3
    <2>2. CASE LaunchFails(d)
      <3>1. d \notin stoppedAtRest /\ "failed" \in Terminal /\ "failed" # "running"
        BY <2>2 DEF LaunchFails, MiniInv, LaunchInv, Terminal
      <3>2. Mutate(IF dir[d].in THEN [dir EXCEPT ![d].status = "failed", ![d].old = FALSE] ELSE dir)
        BY <2>2 DEF LaunchFails
      <3> QED BY <1>3, <3>1, <3>2, Zenon
    <2>3. CASE RecordLaunch(d)
      <3> DEFINE X == dir[d].in /\ dir[d].status = "launching"
                 q == IF X THEN [dir EXCEPT ![d].status = "running", ![d].old = FALSE] ELSE dir
      <3>1. d \notin stoppedAtRest
        BY <2>3 DEF RecordLaunch, MiniInv, LaunchInv
      <3>2. Mutate(cap_pass(q))
        BY <2>3 DEF RecordLaunch
      <3>3. CASE X
        BY <1>3, <3>1, <3>2, <3>3
      <3>4. CASE ~X
        <4>1. q = dir
          BY <3>4
        <4> HIDE DEF q
        <4> QED BY <3>2, <4>1, SameMoves, CappedMoves, MutateMoves
      <3> QED BY <3>3, <3>4
    <2>4. CASE GiveUp(d)
      <3> DEFINE s == GivenUp(d)
                 X == dir[d].in /\ dir[d].status \notin Terminal
                 q == IF X THEN [dir EXCEPT ![d].status = s, ![d].old = FALSE] ELSE dir
      <3>1. s \in Terminal /\ s # "running" /\ (d \in stoppedAtRest => s = "aborted")
        BY DEF GivenUp, Terminal, MiniInv, StopInv
      <3>2. Mutate(q)
        BY <2>4 DEF GiveUp
      <3> HIDE DEF s
      <3> QED BY <1>3, <3>1, <3>2
    <2> QED BY <2>1, <2>2, <2>3, <2>4
  <1>5. MiniTypeOK'
    BY <1>1, <1>2, <1>4 DEF MiniInv, MiniTypeOK
  <1>6. \A e \in Directives : StopMove(e) /\ WorkerMove(e)
    BY <1>1 DEF StopMove, WorkerMove
  <1>7. \A e \in Directives : e \in pass'.check => e \in pass'.stopped \/ e \notin stoppedAtRest'
    BY <1>1, <1>2, CheckedSawStop
  <1> QED BY <1>1, <1>2, <1>4, <1>5, <1>6, <1>7, ForwardKeeps

\* The sweep at start fails what a crash left launching.
LEMMA SweepKeeps ==
  ASSUME MiniInv, sweep_orphaned_launching
  PROVE  MiniStep
  <1> DEFINE q == SweptRows(dir)
  <1>1. /\ UNCHANGED <<coder, call, worker, reported, stopping, pass, stoppedAtRest>>
        /\ phase' = "idle" /\ phase = "sweep"
        /\ Mutate(IF With(dir, {"launching"}) = {} THEN dir ELSE cap_pass(q))
    BY DEF sweep_orphaned_launching, workerVars, execFrame
  <1>2. Moves(q)
    <2>1. ASSUME NEW d \in Directives
          PROVE  /\ q[d] \in Row /\ q[d].kill = dir[d].kill /\ q[d].in = dir[d].in
                 /\ \/ q[d].status = dir[d].status
                    \/ q[d].status = "failed" /\ dir[d].status = "launching"
      <3>1. dir[d] \in Row
        BY MiniTypes
      <3>2. q[d] = IF dir[d].in /\ dir[d].status = "launching"
                   THEN [dir[d] EXCEPT !.status = "failed", !.old = FALSE] ELSE dir[d]
        BY DEF SweptRows
      <3> HIDE DEF q
      <3> QED BY <3>1, <3>2 DEF Row, Terminal
    <2>2. q \in [Directives -> Row]
      BY <2>1 DEF SweptRows
    <2>3. \A d \in stoppedAtRest : dir[d].status # "launching"
      BY MiniTypes DEF MiniInv, StopInv
    <2> HIDE DEF q
    <2> QED BY <2>1, <2>2, <2>3 DEF Moves, Terminal
  <1> HIDE DEF q
  <1>3. /\ dir' \in [Directives -> Row] /\ \A e \in Directives : RowMove(e)
        /\ faults' \in 0..MaxFaults
    <2>1. CASE With(dir, {"launching"}) = {}
      BY <1>1, <2>1, SameMoves, MutateMoves
    <2>2. CASE With(dir, {"launching"}) # {}
      BY <1>1, <1>2, <2>2, CappedMoves, MutateMoves
    <2> QED BY <2>1, <2>2
  <1>4. pass' = NoPass
    BY <1>1 DEF MiniInv, RestInv, Resting
  <1>5. MiniTypeOK'
    BY <1>1, <1>3 DEF MiniInv, MiniTypeOK
  <1>6. \A e \in Directives : StopMove(e) /\ WorkerMove(e)
    BY <1>1 DEF StopMove, WorkerMove
  <1>7. PhaseMove
    BY <1>1, <1>4 DEF PhaseMove, Resting
  <1> QED BY <1>1, <1>3, <1>4, <1>5, <1>6, <1>7, NoPassFacts, ForwardKeeps

\* A claim given up.
LEMMA ClaimLostKeeps ==
  ASSUME MiniInv, NEW d \in Directives, ClaimLost(d)
  PROVE  MiniStep
  <1>1. /\ UNCHANGED <<coder, call, worker, reported, stopping, phase, stoppedAtRest>>
        /\ phase = "pass" /\ pass' = [NoPass EXCEPT !.claims = pass.claims \ {d}]
        /\ dir' = dir \/ dir' = cap_pass(dir)
        /\ faults' \in 0..MaxFaults
    BY MiniTypes DEF ClaimLost, Claiming, workerVars, execFrame
  <1>2. dir' \in [Directives -> Row] /\ \A e \in Directives : RowMove(e)
    BY <1>1, SameMoves, CappedMoves, WriteMoves
  <1>3. /\ pass' \in [timeouts: SUBSET Directives, stuck: SUBSET Directives,
                      check: SUBSET Directives, stopped: SUBSET Directives,
                      inflight: SUBSET Agentic, gone: SUBSET Coders,
                      fresh: SUBSET (SUBSET Coders), claims: SUBSET Directives]
        /\ pass'.check = {}
    BY <1>1, MiniTypes DEF NoPass
  <1>4. MiniTypeOK'
    BY <1>1, <1>2, <1>3 DEF MiniInv, MiniTypeOK
  <1>5. \A e \in Directives : StopMove(e) /\ WorkerMove(e)
    BY <1>1 DEF StopMove, WorkerMove
  <1>6. PhaseMove
    BY <1>1 DEF PhaseMove
  <1> QED BY <1>1, <1>2, <1>3, <1>4, <1>5, <1>6, ForwardKeeps

\* Time passes for a row; a Stop of the human or of the parent sets the flag.
LEMMA FlagKeeps ==
  ASSUME MiniInv, NEW d \in Directives, GrowOld(d) \/ Stop(d) \/ ToolStop(d)
  PROVE  MiniStep
  <1> DEFINE q == [dir EXCEPT ![d].kill = TRUE]
             o == [dir EXCEPT ![d].old = TRUE]
  <1>1. /\ UNCHANGED <<coder, call, worker, reported, phase, pass, faults>>
        /\ stopping' \subseteq Directives
    BY MiniTypes DEF GrowOld, Stop, ToolStop, stopFrame, workerVars, execVars, MiniInv, MiniTypeOK
  <1>2. Moves(q) /\ Moves(o) /\ q[d].kill /\ q[d].status = dir[d].status
    <2>1. dir \in [Directives -> Row] /\ dir[d] \in Row
      BY MiniTypes
    <2>2. q[d].kill /\ q[d].status = dir[d].status
      BY <2>1 DEF Row
    <2> QED BY <2>2, FlagMoves
  <1>3. /\ dir' = o \/ dir' = q \/ dir' = cap_pass(q) \/ dir' = cap_pass(dir)
        /\ \/ stoppedAtRest' = stoppedAtRest
           \/ /\ stoppedAtRest' = stoppedAtRest \cup {d} /\ phase = "idle"
              /\ dir[d].status = "running" /\ (dir' = q \/ dir' = cap_pass(q))
    BY DEF GrowOld, Stop, StopRow, ToolStop, KillMarked
  <1> HIDE DEF q, o
  <1>4. dir' \in [Directives -> Row] /\ \A e \in Directives : RowMove(e)
    BY <1>2, <1>3, SameMoves, CappedMoves, WriteMoves
  <1>5. \A e \in Directives : StopMove(e)
    <2>1. dir' = q \/ dir' = cap_pass(q) => dir'[d].kill /\ dir'[d].status = dir[d].status
      BY <1>2, CappedMoves DEF OnlyEvicts
    <2> QED BY <1>3, <2>1 DEF StopMove
  <1>6. MiniTypeOK'
    BY <1>1, <1>3, <1>4 DEF MiniInv, MiniTypeOK
  <1>7. PhaseMove /\ \A e \in Directives : WorkerMove(e)
    BY <1>1 DEF PhaseMove, WorkerMove
  <1>8. \A e \in Directives : e \in pass'.check => e \in pass'.stopped \/ e \notin stoppedAtRest'
    <2>1. phase = "idle" => pass.check = {}
      BY NoPassFacts DEF MiniInv, RestInv, Resting
    <2> QED BY <1>1, <1>3, <2>1, CheckedSawStop
  <1> QED BY <1>1, <1>4, <1>5, <1>6, <1>7, <1>8, ForwardKeeps

-----------------------------------------------------------------------------
(***************************************************************************)
(* The steps that append, claim and start.                                 *)
(***************************************************************************)

\* A new pending row, capped; its directive has had no row and no worker before.
LEMMA AppendKeeps ==
  ASSUME MiniInv, NEW d \in Directives,
         AppendMainCoder(d) \/ \E wait \in BOOLEAN : SpawnMiniCoder(d, wait)
  PROVE  MiniStep
  <1> DEFINE q == Appended(d)
  <1>1. /\ UNCHANGED <<coder, faults, worker, reported, stopping, phase, pass, stoppedAtRest>>
        /\ call[d] = "idle"
        /\ \E c \in {"wait", "free"} : call' = [call EXCEPT ![d] = c]
        /\ dir' = cap_pass(q) \/ dir' \in cap_mini_coder_directives(q)
    BY DEF AppendMainCoder, SpawnMiniCoder, NextCreated, callFrame, workerVars, execVars
  <1>2. /\ q \in [Directives -> Row]
        /\ q[d].status = "pending"
        /\ \A e \in Directives : e # d => q[e] = dir[e]
    <2>1. /\ dir \in [Directives -> Row]
          /\ [NoRow EXCEPT !.in = TRUE, !.status = "pending"] \in Row
          /\ [NoRow EXCEPT !.in = TRUE, !.status = "pending"].status = "pending"
      BY MiniTypes DEF NoRow, Row
    <2> QED BY <2>1 DEF Appended
  <1> HIDE DEF q
  <1>3. OnlyEvicts(q, dir')
    BY <1>1, <1>2, CapFacts, ToolCapFacts
  <1>4. /\ dir[d].status = "none" /\ ~dir[d].in /\ worker[d] = "none"
        /\ d \notin stoppedAtRest
    BY <1>1 DEF MiniInv, RowInv, StopInv
  <1>5. /\ dir' \in [Directives -> Row] /\ dir'[d].status = "pending"
        /\ \A e \in Directives : e # d =>
              /\ dir'[e].status = dir[e].status /\ dir'[e].kill = dir[e].kill
              /\ dir'[e].in => dir[e].in
              /\ dir[e].in /\ ~dir'[e].in => dir[e].status \in Terminal
    BY <1>2, <1>3 DEF OnlyEvicts
  <1>6. MiniTypeOK'
    <2>1. call' \in [Directives -> {"idle", "free", "wait", "late", "told"}]
      BY <1>1, MiniTypes
    <2> QED BY <1>1, <1>5, <2>1 DEF MiniInv, MiniTypeOK
  <1>7. ASSUME NEW e \in Directives PROVE RowInv(e)' /\ StopInv(e)'
    <2>1. CASE e = d
      BY <1>1, <1>4, <1>5, <2>1, MiniTypes DEF RowInv, StopInv
    <2>2. CASE e # d
      BY <1>1, <1>5, <2>2, MiniTypes DEF MiniInv, RowInv, StopInv
    <2> QED BY <2>1, <2>2
  <1>8. LaunchInv'
    <2> SUFFICES ASSUME phase \in {"launch", "spawned"} PROVE LaunchInv'
      BY <1>1 DEF LaunchInv
    <2>1. Smallest(pass.claims)' = Smallest(pass.claims) /\ Smallest(pass.claims) # d
      BY <1>1, <1>4 DEF Smallest, MiniInv, LaunchInv
    <2> QED BY <1>1, <1>5, <2>1 DEF MiniInv, LaunchInv
  <1>9. RestInv'
    BY <1>1 DEF MiniInv, RestInv
  <1>10. FilesApart'
    BY <1>5 DEF MiniInv, FilesApart, With, InFile, Active
  <1>11. RowsStep /\ SpawnStep
    BY <1>1, <1>4, <1>5 DEF RowsStep, SpawnStep, Terminal
  <1> QED BY <1>6, <1>7, <1>8, <1>9, <1>10, <1>11 DEF MiniStep, MiniInv

\* The claim: the row is pending and its files are free in the file as it is now.
LEMMA ClaimKeeps ==
  ASSUME MiniInv, NEW d \in Directives, Claim(d)
  PROVE  MiniStep
  <1> DEFINE q == [dir EXCEPT ![d].status = "launching", ![d].old = FALSE]
  <1>1. /\ UNCHANGED <<coder, call, worker, reported, stopping, faults, stoppedAtRest>>
        /\ phase' = "launch" /\ pass' = [NoPass EXCEPT !.claims = pass.claims]
        /\ d = Smallest(pass.claims)
        /\ dir[d].in /\ dir[d].status = "pending"
        /\ Files[d] \cap active_file_set(dir) = {}
        /\ dir' = cap_pass(q)
    BY DEF Claim, Claiming, Claimable, workerVars, execFrame
  <1>2. /\ q \in [Directives -> Row]
        /\ q[d].status = "launching" /\ q[d].in
        /\ \A e \in Directives : e # d => q[e] = dir[e]
    <2>1. dir \in [Directives -> Row] /\ dir[d] \in Row
      BY MiniTypes
    <2>2. /\ q = [dir EXCEPT ![d] = [dir[d] EXCEPT !.status = "launching", !.old = FALSE]]
          /\ [dir[d] EXCEPT !.status = "launching", !.old = FALSE] \in Row
          /\ [dir[d] EXCEPT !.status = "launching", !.old = FALSE].status = "launching"
          /\ [dir[d] EXCEPT !.status = "launching", !.old = FALSE].in = dir[d].in
      BY <2>1 DEF Row, Active
    <2> QED BY <1>1, <2>1, <2>2
  <1> HIDE DEF q
  <1>3. OnlyEvicts(q, dir')
    BY <1>1, <1>2, CapFacts
  <1>4. /\ worker[d] = "none" /\ d \notin stoppedAtRest
        /\ call[d] # "idle"
    BY <1>1 DEF MiniInv, RowInv, StopInv
  <1>5. /\ dir' \in [Directives -> Row] /\ dir'[d].status = "launching" /\ dir'[d].in
        /\ \A e \in Directives : e # d =>
              /\ dir'[e].status = dir[e].status /\ dir'[e].kill = dir[e].kill
              /\ dir'[e].in => dir[e].in
              /\ dir[e].in /\ ~dir'[e].in => dir[e].status \in Terminal
    BY <1>2, <1>3 DEF OnlyEvicts, Terminal
  <1>6. /\ pass' \in [timeouts: SUBSET Directives, stuck: SUBSET Directives,
                      check: SUBSET Directives, stopped: SUBSET Directives,
                      inflight: SUBSET Agentic, gone: SUBSET Coders,
                      fresh: SUBSET (SUBSET Coders), claims: SUBSET Directives]
        /\ pass'.check = {} /\ pass'.claims = pass.claims
    BY <1>1, MiniTypes DEF NoPass
  <1>7. MiniTypeOK'
    BY <1>1, <1>5, <1>6 DEF MiniInv, MiniTypeOK
  <1>8. ASSUME NEW e \in Directives PROVE RowInv(e)' /\ StopInv(e)'
    <2>1. CASE e = d
      BY <1>1, <1>4, <1>5, <2>1 DEF RowInv, StopInv
    <2>2. CASE e # d
      BY <1>1, <1>5, <1>6, <2>2 DEF MiniInv, RowInv, StopInv
    <2> QED BY <2>1, <2>2
  <1>9. LaunchInv'
    <2>1. Smallest(pass.claims)' = d
      BY <1>1, <1>6 DEF Smallest
    <2> QED BY <1>1, <1>4, <1>5, <2>1 DEF LaunchInv
  <1>10. RestInv'
    BY <1>1 DEF RestInv, Resting
  <1>11. FilesApart'
    <2> SUFFICES ASSUME NEW e \in With(dir, Active)', NEW f \in With(dir, Active)', e # f
                 PROVE  Files[e] \cap Files[f] = {}
      BY DEF FilesApart
    <2>1. \A g \in With(dir, Active)' : g = d \/ g \in With(dir, Active)
      BY <1>5 DEF With, InFile
    <2>2. \A g \in With(dir, Active) : Files[d] \cap Files[g] = {}
      BY <1>1 DEF active_file_set
    <2>3. CASE e = d \/ f = d
      BY <2>1, <2>2, <2>3
    <2>4. CASE e # d /\ f # d
      BY <2>1, <2>4 DEF MiniInv, FilesApart
    <2> QED BY <2>3, <2>4
  <1>12. RowsStep /\ SpawnStep
    BY <1>1, <1>5 DEF RowsStep, SpawnStep, Terminal
  <1> QED BY <1>7, <1>8, <1>9, <1>10, <1>11, <1>12 DEF MiniStep, MiniInv

\* The claimed directive's worker: it is the first.
LEMMA SpawnKeeps ==
  ASSUME MiniInv, NEW d \in Directives, SpawnWorker(d)
  PROVE  MiniStep
  <1>1. /\ UNCHANGED <<dir, coder, call, reported, stopping, pass, faults, stoppedAtRest>>
        /\ phase = "launch" /\ phase' = "spawned" /\ d = Smallest(pass.claims)
        /\ worker' = [worker EXCEPT ![d] = "up"]
    BY DEF SpawnWorker, fileVars, execFrame
  <1>2. /\ worker[d] = "none" /\ d \notin stoppedAtRest
        /\ dir[d].status \notin {"none", "pending"}
    BY <1>1 DEF MiniInv, LaunchInv
  <1>3. MiniTypeOK'
    BY <1>1 DEF MiniInv, MiniTypeOK
  <1>4. ASSUME NEW e \in Directives PROVE RowInv(e)' /\ StopInv(e)'
    BY <1>1, <1>2, MiniTypes DEF MiniInv, RowInv, StopInv
  <1>5. LaunchInv'
    <2>1. Smallest(pass.claims)' = d
      BY <1>1 DEF Smallest
    <2> QED BY <1>1, <1>2, <2>1 DEF LaunchInv
  <1>6. RestInv' /\ FilesApart'
    BY <1>1 DEF MiniInv, RestInv, Resting, FilesApart, With, InFile
  <1>7. RowsStep /\ SpawnStep
    BY <1>1, <1>2, MiniTypes DEF RowsStep, SpawnStep
  <1> QED BY <1>3, <1>4, <1>5, <1>6, <1>7 DEF MiniStep, MiniInv

-----------------------------------------------------------------------------
(***************************************************************************)
(* The theorems.                                                           *)
(***************************************************************************)

\* Nothing has happened yet.
LEMMA MiniInitInv == MiniInit => MiniInv
  <1> SUFFICES ASSUME MiniInit PROVE MiniInv
    OBVIOUS
  <1>1. /\ \A d \in Directives : dir[d] = NoRow /\ call[d] = "idle" /\ worker[d] = "none"
        /\ phase = "sweep" /\ pass = NoPass /\ stoppedAtRest = {}
    BY DEF MiniInit, MiniScene
  <1>2. MiniTypeOK
    <2>1. NoRow \in Row
      BY DEF NoRow, Row
    <2> QED BY <2>1, NoPassFacts, MiniConstants DEF MiniInit, MiniScene, MiniTypeOK
  <1>3. \A d \in Directives : RowInv(d) /\ StopInv(d)
    BY <1>1 DEF RowInv, StopInv, NoRow
  <1>4. LaunchInv /\ RestInv
    BY <1>1 DEF LaunchInv, RestInv
  <1>5. FilesApart
    BY <1>1 DEF FilesApart, With, InFile, NoRow
  <1> QED BY <1>2, <1>3, <1>4, <1>5 DEF MiniInv

\* Every step keeps the invariant, ends rows for good and starts no second worker.
LEMMA MiniStepInv == MiniInv /\ [MiniNext]_miniVars => MiniInv' /\ [RowsStep /\ SpawnStep]_miniVars
  <1> SUFFICES ASSUME MiniInv, [MiniNext]_miniVars
               PROVE  MiniInv' /\ [RowsStep /\ SpawnStep]_miniVars
    OBVIOUS
  <1>1. CASE MiniNext
    <2>1. ASSUME NEW d \in Directives, CallStep(d) PROVE MiniStep
      BY <2>1, AppendKeeps, CallsKeep, StampKeeps DEF CallStep, CallProgress
    <2>2. ASSUME NEW d \in Directives, StopStep(d) PROVE MiniStep
      BY <2>2, FlagKeeps, WorldKeeps DEF StopStep
    <2>3. ASSUME NEW d \in Directives, DirectiveStep(d) PROVE MiniStep
      BY <2>3, ReapKeeps, ReadsKeep, StampKeeps, ClaimKeeps, ClaimLostKeeps, SpawnKeeps
         DEF DirectiveStep
    <2>4. ASSUME Executor PROVE MiniStep
      BY <2>3, <2>4, SweepKeeps, StartPassKeeps, AppKeeps DEF Executor
    <2>5. MiniStep
      BY <1>1, <2>1, <2>2, <2>4, AppKeeps, FlagKeeps, WorldKeeps DEF MiniNext
    <2> QED BY <2>5 DEF MiniStep
  <1>2. CASE UNCHANGED miniVars
    <2>1. UNCHANGED <<dir, coder, call, worker, reported, stopping, phase, pass, faults,
                      stoppedAtRest>>
      BY <1>2 DEF miniVars, fileVars, workerVars, execVars
    <2>2. Smallest(pass.claims)' = Smallest(pass.claims)
      BY <2>1 DEF Smallest
    <2>3. MiniTypeOK' /\ LaunchInv' /\ RestInv' /\ FilesApart'
      BY <2>1, <2>2 DEF MiniInv, MiniTypeOK, LaunchInv, RestInv, FilesApart, With, InFile
    <2>4. \A d \in Directives : RowInv(d)' /\ StopInv(d)'
      BY <2>1 DEF MiniInv, RowInv, StopInv
    <2> QED BY <1>2, <2>3, <2>4 DEF MiniInv
  <1> QED BY <1>1, <1>2

\* The inductive invariant of the pool.
THEOREM MiniInvariant == MiniSpec => []MiniInv
  BY MiniInitInv, MiniStepInv, PTL DEF MiniSpec

\* No two active directives share a file: the claim re-reads the rows the pass planned on.
THEOREM MiniFilesApart == MiniSpec => []FilesApart
  <1>1. MiniInv => FilesApart
    BY DEF MiniInv
  <1> QED BY <1>1, MiniInvariant, PTL

\* A Stop between two passes is the outcome of the directive it stopped.
THEOREM MiniStopWins == MiniSpec => []StopAtRestWins
  <1>1. MiniInv => StopAtRestWins
    BY MiniTypes DEF MiniInv, StopInv, StopAtRestWins, Terminal
  <1> QED BY <1>1, MiniInvariant, PTL

\* A directive leaves the queue only with its outcome, and an outcome is final.
THEOREM MiniRowsOnlyEnd == MiniSpec => RowsOnlyEnd
  <1>1. MiniInv /\ [MiniNext]_miniVars => [RowsStep]_miniVars
    BY MiniStepInv
  <1>2. MiniSpec => [][RowsStep]_miniVars
    BY <1>1, MiniInvariant, PTL DEF MiniSpec
  <1> QED BY <1>2 DEF RowsOnlyEnd, RowsStep

\* No directive gets a second worker.
THEOREM MiniSpawnedOnce == MiniSpec => SpawnedOnce
  <1>1. MiniInv /\ [MiniNext]_miniVars => [SpawnStep]_miniVars
    BY MiniStepInv
  <1>2. MiniSpec => [][SpawnStep]_miniVars
    BY <1>1, MiniInvariant, PTL DEF MiniSpec
  <1> QED BY <1>2 DEF SpawnedOnce, SpawnStep
=============================================================================
