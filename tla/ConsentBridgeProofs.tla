------------------------- MODULE ConsentBridgeProofs -------------------------
(***************************************************************************)
(* Proofs about consent, for any number of sessions, hooks, runs, blocks,  *)
(* subjects and projects, any bound of the queue and any faults.           *)
(*                                                                         *)
(* Two invariants carry the proofs.  A row is appended once: a hook that   *)
(* has not asked has no row, and a block that has a row is no longer among *)
(* the blocks its run still reports (HookInv, BlockInv).  And the executor *)
(* thread spawns or ends one run at a time (ExecutorAlone), so a one-shot  *)
(* taken from the broker is held by one run.                               *)
(***************************************************************************)
EXTENDS ConsentBridge, FiniteSetTheorems, TLAPS

RowRec == [in: BOOLEAN, status: {"none", "pending"} \cup Terminal]

HookRec == [pc: {"idle", "poll", "expired", "done"}, errors: 0..(MaxErrors - 1),
            told: {"none", "allow", "deny"}]

WorkerRec == [pc: {"idle", "taken", "running", "ending", "done"},
              mode: {"ask", "unattended"}, taken: SUBSET Subjects,
              may: SUBSET Subjects, blocked: SUBSET Blocks]

\* A hook that has not asked has no row; one that was allowed has the verdict for it.
HookInv(h) ==
    /\ hook[h].pc = "idle" => row[h].status = "none"
    /\ hook[h].told # "none" => hook[h].pc = "done"
    /\ hook[h].told = "allow" => row[h].status = "allowed"

\* A block with a row was reported, and is not reported again.
BlockInv(b) ==
    row[b].status # "none" =>
        \/ worker[Blocked[b]].pc = "done"
        \/ worker[Blocked[b]].pc = "ending" /\ b \notin worker[Blocked[b]].blocked

WorkerInv(w) == \A b \in worker[w].blocked : Blocked[b] = w

ExecutorAlone ==
    \A v, w \in Workers :
        worker[v].pc \in {"taken", "ending"} /\ worker[w].pc \in {"taken", "ending"} => v = w

Holds(w, s) == worker[w].pc = "taken" /\ s \in worker[w].taken

Held(s) == IF \E w \in Workers : Holds(w, s) THEN 1 ELSE 0

InBroker(s) == IF s \in once THEN 1 ELSE 0

OneShot(s) == used[s] + Held(s) + InBroker(s) <= given[s]

BellInv(a) ==
    bell[a] = "needs_consent" => \E h \in Hooks : HookAgent[h] = a /\ Pending(h)

ConsentInv ==
    /\ ConsentTypeOK
    /\ \A h \in Hooks : HookInv(h)
    /\ \A b \in Blocks : BlockInv(b)
    /\ \A w \in Workers : WorkerInv(w)
    /\ ExecutorAlone
    /\ \A s \in Subjects : OneShot(s)
    /\ \A a \in Agents : BellInv(a)

\* What a step may do to the queue: the body of QueueKeepsVerdicts.
QueueStep ==
    \A r \in Rows :
        /\ Pending(r) => row'[r].in \/ row'[r].status = "superseded"
        /\ row[r].status \in Terminal => row'[r].status = row[r].status

-----------------------------------------------------------------------------
(***************************************************************************)
(* The operators on the queue.                                             *)
(***************************************************************************)

\* The cap takes terminal rows out of the file and changes nothing else.
LEMMA CapFacts ==
  ASSUME NEW q \in [Rows -> RowRec]
  PROVE  /\ cap_consent_requests(q) \in [Rows -> RowRec]
         /\ \A r \in Rows :
              /\ cap_consent_requests(q)[r].status = q[r].status
              /\ cap_consent_requests(q)[r].in => q[r].in
              /\ q[r].status \notin Terminal => cap_consent_requests(q)[r].in = q[r].in
  <1> DEFINE gone == {r \in Evictable(q) : Cardinality({t \in Evictable(q) : t < r})
                                             < Cardinality(InQueue(q)) - MaxConsent}
             p == [r \in Rows |-> [q[r] EXCEPT !.in = @ /\ r \notin gone]]
  <1>1. cap_consent_requests(q) = p
    BY DEF cap_consent_requests
  <1>2. \A r \in gone : q[r].status \in Terminal
    BY DEF Evictable
  <1> HIDE DEF gone
  <1>3. ASSUME NEW r \in Rows
        PROVE  /\ p[r] \in RowRec /\ p[r].status = q[r].status
               /\ p[r].in => q[r].in
               /\ q[r].status \notin Terminal => p[r].in = q[r].in
    <2>1. q[r] \in RowRec /\ p[r] = [q[r] EXCEPT !.in = @ /\ r \notin gone]
      OBVIOUS
    <2> QED BY <1>2, <2>1 DEF RowRec
  <1> QED BY <1>1, <1>3

\* A claim moves the pending rows it names, and no other.
LEMMA ClaimFacts ==
  ASSUME NEW q \in [Rows -> RowRec], NEW R, NEW st \in Terminal
  PROVE  /\ claim_terminal(q, R, st) \in [Rows -> RowRec]
         /\ \A r \in Rows :
              /\ claim_terminal(q, R, st)[r].in = q[r].in
              /\ claim_terminal(q, R, st)[r].status =
                    IF r \in R /\ q[r].in /\ q[r].status = "pending" THEN st ELSE q[r].status
  <1>1. ASSUME NEW r \in Rows
        PROVE  /\ claim_terminal(q, R, st)[r] \in RowRec
               /\ claim_terminal(q, R, st)[r].in = q[r].in
               /\ claim_terminal(q, R, st)[r].status =
                    IF r \in R /\ q[r].in /\ q[r].status = "pending" THEN st ELSE q[r].status
    <2>1. claim_terminal(q, R, st)[r] = IF r \in R /\ q[r].in /\ q[r].status = "pending"
                                        THEN [q[r] EXCEPT !.status = st] ELSE q[r]
      BY DEF claim_terminal
    <2> QED BY <2>1 DEF RowRec
  <1> QED BY <1>1 DEF claim_terminal

\* Hooks and blocks number their rows apart.
LEMMA RowsApart ==
  /\ \A h \in Hooks : h \in Rows /\ h \notin Blocks /\ HookAgent[h] \in Agents
  /\ \A b \in Blocks : b \in Rows /\ b \notin Hooks /\ Blocked[b] \in Workers
  /\ \A r \in Rows : r \in Hooks \/ r \in Blocks
  BY ConsentConstants DEF Rows

\* The types, one variable at a time.
LEMMA ConsentTypes ==
  ASSUME ConsentInv
  PROVE  /\ row \in [Rows -> RowRec] /\ bell \in [Agents -> {"none", "needs_consent"}]
         /\ hook \in [Hooks -> HookRec] /\ worker \in [Workers -> WorkerRec]
         /\ once \subseteq Subjects /\ persisted \subseteq Subjects
         /\ mode \in [Projects -> {"ask", "unattended"}]
         /\ given \in [Subjects -> 0..MaxOnce] /\ used \in [Subjects -> 0..MaxOnce]
         /\ MaxOnce \in Nat
  BY ConsentConstants DEF ConsentInv, ConsentTypeOK, RowRec, HookRec, WorkerRec

-----------------------------------------------------------------------------
(***************************************************************************)
(* Steps that change rows.                                                 *)
(***************************************************************************)

\* The part of the invariant that is about runs and their one-shots.
GrantPart ==
    /\ \A w \in Workers : WorkerInv(w)
    /\ ExecutorAlone
    /\ \A s \in Subjects : OneShot(s)

\* What leaves workers and one-shot grants alone keeps the grants' part.
LEMMA GrantFrame ==
  ASSUME ConsentInv, UNCHANGED <<worker, once, used, given>>
  PROVE  GrantPart'
  BY DEF ConsentInv, GrantPart, WorkerInv, ExecutorAlone, OneShot, Held, Holds, InBroker

\* The locked section of a hook that asks.
LEMMA RecordKeeps ==
  ASSUME ConsentInv, NEW h \in Hooks, RecordRequest(h)
  PROVE  ConsentInv' /\ QueueStep
  <1> DEFINE q == Appended(row, h)
  <1>1. /\ hook[h].pc = "idle" /\ row' = cap_consent_requests(q)
        /\ bell' = [bell EXCEPT ![HookAgent[h]] = "needs_consent"]
        /\ hook' = [hook EXCEPT ![h].pc = "poll"]
        /\ UNCHANGED <<worker, once, persisted, mode, modeChanges, given, used, modal, claim, restarts>>
    BY DEF RecordRequest, hookFrame, brokerVars, uiVars
  <1>2. /\ h \in Rows /\ q \in [Rows -> RowRec]
        /\ q[h] = [in |-> TRUE, status |-> "pending"]
        /\ \A r \in Rows : r # h => q[r] = row[r]
    BY ConsentTypes, RowsApart DEF Appended, RowRec
  <1> HIDE DEF q
  <1>3. row' \in [Rows -> RowRec]
    BY <1>1, <1>2, CapFacts
  <1>4. /\ row'[h].in /\ row'[h].status = "pending"
        /\ \A r \in Rows : r # h => /\ row'[r].status = row[r].status
                                    /\ Pending(r) => row'[r].in
    <2>1. \A r \in Rows : /\ row'[r].status = q[r].status
                          /\ q[r].status \notin Terminal => row'[r].in = q[r].in
      BY <1>1, <1>2, CapFacts
    <2> QED BY <1>2, <2>1 DEF Terminal, Pending
  <1>5. row[h].status = "none"
    BY <1>1 DEF ConsentInv, HookInv
  <1>6. ConsentTypeOK'
    <2>1. hook' \in [Hooks -> HookRec]
      BY <1>1, ConsentTypes DEF HookRec
    <2>2. bell' \in [Agents -> {"none", "needs_consent"}]
      BY <1>1, ConsentTypes
    <2> QED BY <1>1, <1>3, <2>1, <2>2 DEF ConsentInv, ConsentTypeOK, RowRec, HookRec
  <1>7. ASSUME NEW k \in Hooks PROVE HookInv(k)'
    <2>0. k \in Rows /\ HookInv(k)
      BY RowsApart DEF ConsentInv
    <2>1. CASE k = h
      BY <1>1, <2>0, <2>1, ConsentTypes DEF HookInv, HookRec
    <2>2. CASE k # h
      BY <1>1, <1>4, <2>0, <2>2, ConsentTypes DEF HookInv
    <2> QED BY <2>1, <2>2
  <1>8. \A b \in Blocks : BlockInv(b)'
    BY <1>1, <1>4, RowsApart DEF ConsentInv, BlockInv
  <1>9. ASSUME NEW a \in Agents PROVE BellInv(a)'
    <2>1. CASE a = HookAgent[h]
      BY <1>4, <2>1 DEF BellInv, Pending
    <2>2. CASE a # HookAgent[h]
      <3>1. bell'[a] = bell[a] /\ BellInv(a)
        BY <1>1, <2>2, ConsentTypes DEF ConsentInv
      <3> QED BY <1>4, <1>5, <3>1, RowsApart DEF BellInv, Pending
    <2> QED BY <2>1, <2>2
  <1>10. QueueStep
    BY <1>4, <1>5 DEF QueueStep, Pending, Terminal
  <1> QED BY <1>1, <1>6, <1>7, <1>8, <1>9, <1>10, GrantFrame DEF ConsentInv, GrantPart

\* A hook's step of its own, off the file.
LEMMA HookMovesKeeps ==
  ASSUME ConsentInv, NEW h \in Hooks, NEW k \in HookRec,
         hook' = [hook EXCEPT ![h] = k], k.pc # "idle",
         k.told # "none" => k.pc = "done", k.told = "allow" => row[h].status = "allowed",
         UNCHANGED <<fileVars, worker, brokerVars, uiVars>>
  PROVE  ConsentInv' /\ QueueStep
  <1>1. UNCHANGED <<row, bell, worker, once, persisted, mode, modeChanges, given, used,
                    modal, claim, restarts>>
    BY DEF fileVars, brokerVars, uiVars
  <1>2. ConsentTypeOK'
    <2>1. hook' \in [Hooks -> HookRec]
      BY ConsentTypes
    <2> QED BY <1>1, <2>1 DEF ConsentInv, ConsentTypeOK, HookRec
  <1>3. \A g \in Hooks : HookInv(g)'
    BY <1>1, ConsentTypes DEF ConsentInv, HookInv
  <1>4. \A b \in Blocks : BlockInv(b)'
    BY <1>1 DEF ConsentInv, BlockInv
  <1>5. \A a \in Agents : BellInv(a)'
    BY <1>1 DEF ConsentInv, BellInv, Pending
  <1>6. QueueStep
    BY <1>1 DEF QueueStep, Pending
  <1> QED BY <1>1, <1>2, <1>3, <1>4, <1>5, <1>6, GrantFrame DEF ConsentInv, GrantPart

\* A hook that fails to record, polls, times out or is killed keeps the invariant.
LEMMA HookPollsKeep ==
  ASSUME ConsentInv, NEW h \in Hooks,
         RecordFails(h) \/ PollError(h) \/ PollAgain(h) \/ PollVerdict(h) \/ PollDeadline(h)
           \/ KillHook(h)
  PROVE  ConsentInv' /\ QueueStep
  <1>1. UNCHANGED <<fileVars, worker, brokerVars, uiVars>>
    BY DEF RecordFails, PollError, PollAgain, PollVerdict, PollDeadline, KillHook, hookFrame
  <1>2. hook[h] \in HookRec /\ HookInv(h) /\ 0 \in 0..(MaxErrors - 1)
    BY ConsentTypes, ConsentConstants DEF ConsentInv
  <1>3. ASSUME NEW d \in {"none", "allow", "deny"}, HookReturn(h, d),
               d = "allow" => row[h].status = "allowed"
        PROVE  ConsentInv' /\ QueueStep
    <2> DEFINE k == [pc |-> "done", errors |-> 0, told |-> d]
    <2>1. hook' = [hook EXCEPT ![h] = k] /\ k \in HookRec
      BY <1>2, <1>3 DEF HookReturn, HookRec
    <2> QED BY <1>1, <1>3, <2>1, HookMovesKeeps
  <1>4. ASSUME NEW e \in 0..(MaxErrors - 1), hook[h].pc = "poll",
               hook' = [hook EXCEPT ![h].errors = e]
        PROVE  ConsentInv' /\ QueueStep
    <2> DEFINE k == [hook[h] EXCEPT !.errors = e]
    <2>1. /\ hook' = [hook EXCEPT ![h] = k] /\ k \in HookRec
          /\ k.pc = "poll" /\ k.told = hook[h].told
      BY <1>2, <1>4 DEF HookRec
    <2> QED BY <1>1, <1>2, <1>4, <2>1, HookMovesKeeps DEF HookInv
  <1>5. ASSUME hook[h].pc = "poll", hook' = [hook EXCEPT ![h].pc = "expired"]
        PROVE  ConsentInv' /\ QueueStep
    <2> DEFINE k == [hook[h] EXCEPT !.pc = "expired"]
    <2>1. /\ hook' = [hook EXCEPT ![h] = k] /\ k \in HookRec
          /\ k.pc = "expired" /\ k.told = hook[h].told
      BY <1>2, <1>5 DEF HookRec
    <2> QED BY <1>1, <1>2, <1>5, <2>1, HookMovesKeeps DEF HookInv
  <1>6. CASE RecordFails(h)
    BY <1>3, <1>6 DEF RecordFails
  <1>7. CASE PollError(h)
    <2>1. CASE hook[h].errors + 1 < MaxErrors
      <3>1. /\ hook[h].errors + 1 \in 0..(MaxErrors - 1) /\ hook[h].pc = "poll"
            /\ hook' = [hook EXCEPT ![h].errors = hook[h].errors + 1]
        BY <1>2, <1>7, <2>1, ConsentConstants DEF PollError, HookRec
      <3> QED BY <1>4, <3>1
    <2>2. CASE ~(hook[h].errors + 1 < MaxErrors)
      BY <1>3, <1>7, <2>2 DEF PollError
    <2> QED BY <2>1, <2>2
  <1>8. CASE PollAgain(h)
    BY <1>2, <1>4, <1>8 DEF PollAgain
  <1>9. CASE PollVerdict(h)
    BY <1>3, <1>9 DEF PollVerdict
  <1>10. CASE PollDeadline(h)
    BY <1>5, <1>10 DEF PollDeadline
  <1>11. CASE KillHook(h)
    BY <1>3, <1>11 DEF KillHook
  <1> QED BY <1>6, <1>7, <1>8, <1>9, <1>10, <1>11

\* The hook's deadline: its own row and its session's bell.
LEMMA ExpireKeeps ==
  ASSUME ConsentInv, NEW h \in Hooks, Expire(h)
  PROVE  ConsentInv' /\ QueueStep
  <1> DEFINE k == [pc |-> "done", errors |-> 0, told |-> "deny"]
  <1>1. hook' = [hook EXCEPT ![h] = k] /\ k \in HookRec
    BY ConsentConstants DEF Expire, HookReturn, HookRec
  <1>2. CASE UNCHANGED fileVars
    <2>1. UNCHANGED <<fileVars, worker, brokerVars, uiVars>>
      BY <1>2 DEF Expire, hookFrame
    <2> QED BY <1>1, <2>1, HookMovesKeeps
  <1>3. CASE /\ row' = claim_terminal(row, {h}, "timeout")
             /\ bell' = [bell EXCEPT ![HookAgent[h]] = "none"]
    <2>1. UNCHANGED <<worker, once, persisted, mode, modeChanges, given, used, modal, claim, restarts>>
          /\ hook[h].pc = "expired"
      BY DEF Expire, hookFrame, brokerVars, uiVars
    <2>2. /\ row' \in [Rows -> RowRec]
          /\ \A r \in Rows : /\ row'[r].in = row[r].in
                             /\ r # h => row'[r].status = row[r].status
                             /\ row[r].status # "pending" => row'[r].status = row[r].status
      BY <1>3, ClaimFacts, ConsentTypes DEF Terminal
    <2>3. ConsentTypeOK'
      <3>1. hook' \in [Hooks -> HookRec] /\ bell' \in [Agents -> {"none", "needs_consent"}]
        BY <1>1, <1>3, ConsentTypes
      <3> QED BY <2>1, <2>2, <3>1 DEF ConsentInv, ConsentTypeOK, HookRec, RowRec
    <2>4. ASSUME NEW g \in Hooks PROVE HookInv(g)'
      <3>1. g \in Rows /\ HookInv(g)
        BY RowsApart DEF ConsentInv
      <3>2. CASE g = h
        BY <1>1, <3>2, ConsentTypes DEF HookInv
      <3>3. CASE g # h
        BY <1>1, <2>2, <3>1, <3>3, ConsentTypes DEF HookInv
      <3> QED BY <3>2, <3>3
    <2>5. \A b \in Blocks : BlockInv(b)'
      BY <2>1, <2>2, RowsApart DEF ConsentInv, BlockInv
    <2>6. ASSUME NEW a \in Agents PROVE BellInv(a)'
      <3>1. CASE a = HookAgent[h]
        BY <1>3, <3>1, ConsentTypes DEF BellInv
      <3>2. CASE a # HookAgent[h]
        <4>1. bell'[a] = bell[a] /\ BellInv(a)
          BY <1>3, <3>2, ConsentTypes DEF ConsentInv
        <4> QED BY <2>2, <3>2, <4>1, RowsApart DEF BellInv, Pending
      <3> QED BY <3>1, <3>2
    <2>7. QueueStep
      BY <2>2 DEF QueueStep, Pending, Terminal
    <2> QED BY <2>1, <2>3, <2>4, <2>5, <2>6, <2>7, GrantFrame DEF ConsentInv, GrantPart
  <1> QED BY <1>2, <1>3 DEF Expire

\* The human answers a row.
LEMMA RespondKeeps ==
  ASSUME ConsentInv, NEW r \in Rows, NEW d \in Decisions, RespondCloudConsent(r, d)
  PROVE  ConsentInv' /\ QueueStep
  <1>1. /\ row' = claim_terminal(row, {r}, Verdict(d)) /\ Verdict(d) \in Terminal
        /\ bell' = [a \in Agents |-> IF Pending(r) /\ a \in OwnerOf(r) THEN "none" ELSE bell[a]]
        /\ modal' = modal \ {r}
        /\ UNCHANGED <<hook, worker, once, persisted, mode, modeChanges, given, used, claim, restarts>>
    BY DEF RespondCloudConsent, brokerVars, Verdict, Terminal
  <1>2. /\ row' \in [Rows -> RowRec]
        /\ \A x \in Rows : /\ row'[x].in = row[x].in
                           /\ x # r => row'[x].status = row[x].status
                           /\ row[x].status # "pending" => row'[x].status = row[x].status
                           /\ ~Pending(x) => row'[x].status = row[x].status
    BY <1>1, ClaimFacts, ConsentTypes DEF Pending
  <1>3. ConsentTypeOK'
    <2>1. bell' \in [Agents -> {"none", "needs_consent"}]
      BY <1>1, ConsentTypes
    <2> QED BY <1>1, <1>2, <2>1 DEF ConsentInv, ConsentTypeOK, RowRec
  <1>4. \A h \in Hooks : HookInv(h)'
    BY <1>1, <1>2, RowsApart DEF ConsentInv, HookInv
  <1>5. \A b \in Blocks : BlockInv(b)'
    BY <1>1, <1>2, RowsApart DEF ConsentInv, BlockInv
  <1>6. ASSUME NEW a \in Agents, bell'[a] = "needs_consent"
        PROVE  \E h \in Hooks : HookAgent[h] = a /\ Pending(h)'
    <2>1. bell[a] = "needs_consent" /\ ~(Pending(r) /\ a \in OwnerOf(r))
      BY <1>1, <1>6
    <2>2. PICK h \in Hooks : HookAgent[h] = a /\ Pending(h)
      BY <2>1 DEF ConsentInv, BellInv
    <2>3. h # r
      BY <2>1, <2>2 DEF OwnerOf
    <2>4. Pending(h)'
      BY <1>2, <2>2, <2>3, RowsApart DEF Pending
    <2> QED BY <2>2, <2>4
  <1>7. QueueStep
    BY <1>2 DEF QueueStep, Pending, Terminal
  <1> QED BY <1>1, <1>3, <1>4, <1>5, <1>6, <1>7, GrantFrame DEF ConsentInv, GrantPart, BellInv

\* The claim of a subject's rows: blocks only.
LEMMA GrantClaimsKeeps ==
  ASSUME ConsentInv, GrantClaims
  PROVE  ConsentInv' /\ QueueStep
  <1>1. /\ claim # NoClaim /\ modal' = modal \ {claim.subject} /\ claim' = NoClaim
        /\ UNCHANGED <<bell, hook, worker, once, persisted, mode, modeChanges, given, used, restarts>>
    BY DEF GrantClaims, brokerVars
  <1>2. claim.status \in Terminal
    BY <1>1 DEF ConsentInv, ConsentTypeOK, Terminal
  <1>3. /\ row' \in [Rows -> RowRec]
        /\ \A x \in Rows : /\ row'[x].in = row[x].in
                           /\ x \in Hooks => row'[x].status = row[x].status
                           /\ row[x].status # "pending" => row'[x].status = row[x].status
    <2>1. CASE row' = row
      BY <2>1, ConsentTypes
    <2>2. CASE row' = claim_terminal(row, RowsFor(claim.subject), claim.status)
      BY <1>2, <2>2, ClaimFacts, ConsentTypes, RowsApart DEF RowsFor
    <2> QED BY <2>1, <2>2 DEF GrantClaims
  <1>4. ConsentTypeOK'
    BY <1>1, <1>3 DEF ConsentInv, ConsentTypeOK, RowRec
  <1>5. \A h \in Hooks : HookInv(h)'
    BY <1>1, <1>3, RowsApart DEF ConsentInv, HookInv
  <1>6. \A b \in Blocks : BlockInv(b)'
    BY <1>1, <1>3, RowsApart DEF ConsentInv, BlockInv
  <1>7. \A a \in Agents : BellInv(a)'
    BY <1>1, <1>3, RowsApart DEF ConsentInv, BellInv, Pending
  <1>8. QueueStep
    BY <1>3 DEF QueueStep, Pending, Terminal
  <1> QED BY <1>1, <1>4, <1>5, <1>6, <1>7, <1>8, GrantFrame DEF ConsentInv, GrantPart

-----------------------------------------------------------------------------
(***************************************************************************)
(* Steps that change runs and grants.                                      *)
(***************************************************************************)

\* The part of the invariant that is about hooks and bells.
HookPart == (\A h \in Hooks : HookInv(h)) /\ (\A a \in Agents : BellInv(a))

\* What leaves rows, bells and hooks alone keeps the hooks' part and the queue.
LEMMA HookFrame ==
  ASSUME ConsentInv, UNCHANGED <<row, bell, hook>>
  PROVE  HookPart' /\ QueueStep
  <1>1. \A h \in Hooks : HookInv(h)'
    BY DEF ConsentInv, HookInv
  <1>2. \A a \in Agents : BellInv(a)'
    BY DEF ConsentInv, BellInv, Pending
  <1>3. QueueStep
    BY DEF QueueStep, Pending
  <1> QED BY <1>1, <1>2, <1>3 DEF HookPart

\* The counts of the one-shots are numbers.
LEMMA OneShotNumbers ==
  ASSUME ConsentInv, NEW s \in Subjects
  PROVE  /\ used[s] \in Nat /\ given[s] \in Nat /\ given[s] <= MaxOnce /\ MaxOnce \in Nat
         /\ Held(s) \in {0, 1} /\ InBroker(s) \in {0, 1} /\ OneShot(s)
  BY ConsentTypes DEF ConsentInv, Held, InBroker

\* The executor takes the one-shots of a project: they leave the broker as they come to
\* the run, and no other run holds any.
LEMMA TakeGrantsKeeps ==
  ASSUME ConsentInv, NEW w \in Workers, TakeGrants(w)
  PROVE  ConsentInv' /\ QueueStep
  <1> DEFINE T == OfProject(once, w)
             k == [worker[w] EXCEPT !.pc = "taken", !.mode = mode[WorkerProject[w]], !.taken = T]
  <1>1. /\ ExecutorFree /\ worker[w].pc = "idle" /\ once' = once \ T
        /\ worker' = [worker EXCEPT ![w] = k]
        /\ UNCHANGED <<row, bell, hook, persisted, mode, modeChanges, given, used, modal, claim, restarts>>
    BY ConsentTypes DEF TakeGrants, fileVars, uiVars
  <1>2. T \subseteq once /\ T \subseteq Subjects /\ mode[WorkerProject[w]] \in {"ask", "unattended"}
    BY ConsentTypes, ConsentConstants DEF OfProject
  <1> HIDE DEF T
  <1>3. /\ k \in WorkerRec /\ k.pc = "taken" /\ k.taken = T /\ k.blocked = worker[w].blocked
    <2>1. worker[w] \in WorkerRec
      BY ConsentTypes
    <2> QED BY <1>2, <2>1 DEF WorkerRec
  <1> HIDE DEF k
  <1>4. worker' \in [Workers -> WorkerRec] /\ worker'[w] = k
        /\ \A v \in Workers : v # w => worker'[v] = worker[v]
    BY <1>1, <1>3, ConsentTypes
  <1>5. ConsentTypeOK'
    BY <1>1, <1>4 DEF ConsentInv, ConsentTypeOK, WorkerRec
  <1>6. \A b \in Blocks : BlockInv(b)'
    BY <1>1, <1>4, RowsApart DEF ConsentInv, BlockInv
  <1>7. \A v \in Workers : WorkerInv(v)'
    BY <1>3, <1>4 DEF ConsentInv, WorkerInv
  <1>8. ExecutorAlone'
    BY <1>1, <1>4 DEF ExecutorAlone, ExecutorFree
  <1>9. ASSUME NEW s \in Subjects PROVE OneShot(s)'
    <2>1. Held(s) = 0
      BY <1>1 DEF Held, Holds, ExecutorFree
    <2>2. \A v \in Workers : Holds(v, s)' <=> v = w /\ s \in T
      BY <1>1, <1>3, <1>4 DEF Holds, ExecutorFree
    <2>3. Held(s)' = IF s \in T THEN 1 ELSE 0
      BY <2>2 DEF Held
    <2>4. InBroker(s)' = IF s \in once /\ s \notin T THEN 1 ELSE 0
      BY <1>1 DEF InBroker
    <2>5. InBroker(s) = IF s \in once THEN 1 ELSE 0
      BY DEF InBroker
    <2> QED BY <1>1, <1>2, <2>1, <2>3, <2>4, <2>5, OneShotNumbers DEF OneShot
  <1> QED BY <1>1, <1>5, <1>6, <1>7, <1>8, <1>9, HookFrame DEF ConsentInv, HookPart

\* Of the run that is being spawned, nothing is held once it runs or failed to.
LEMMA HolderDone ==
  ASSUME ConsentInv, NEW w \in Workers, worker[w].pc = "taken",
         NEW k \in WorkerRec, k.pc # "taken", worker' = [worker EXCEPT ![w] = k],
         NEW s \in Subjects
  PROVE  /\ Held(s)' = 0
         /\ Held(s) = IF s \in worker[w].taken THEN 1 ELSE 0
  <1>1. worker'[w] = k /\ \A v \in Workers : v # w => worker'[v] = worker[v]
    BY ConsentTypes
  <1>2. \A v \in Workers : v # w => worker[v].pc # "taken"
    BY DEF ConsentInv, ExecutorAlone
  <1>3. \A v \in Workers : ~Holds(v, s)'
    BY <1>1, <1>2 DEF Holds
  <1>4. (\E v \in Workers : Holds(v, s)) <=> s \in worker[w].taken
    BY <1>2 DEF Holds
  <1> QED BY <1>3, <1>4 DEF Held

\* A worker that is spawned with its project's grants keeps the invariant.
LEMMA SpawnKeeps ==
  ASSUME ConsentInv, NEW w \in Workers, SpawnWorker(w)
  PROVE  ConsentInv' /\ QueueStep
  <1> DEFINE T == transient(w)
             m == OfProject(persisted, w) \cup T
             k == [worker[w] EXCEPT !.pc = "running", !.may = m]
  <1>1. /\ worker[w].pc = "taken" /\ worker' = [worker EXCEPT ![w] = k]
        /\ used' = [s \in Subjects |-> IF s \in T THEN used[s] + 1 ELSE used[s]]
        /\ UNCHANGED <<row, bell, hook, once, persisted, mode, modeChanges, given, modal, claim, restarts>>
    BY ConsentTypes DEF SpawnWorker, fileVars, uiVars
  <1>2. T \subseteq worker[w].taken /\ T \subseteq Subjects /\ m \subseteq Subjects
    BY ConsentTypes DEF transient, OfProject, WorkerRec
  <1> HIDE DEF T, m
  <1>3. k \in WorkerRec /\ k.pc = "running" /\ k.blocked = worker[w].blocked
    <2>1. worker[w] \in WorkerRec
      BY ConsentTypes
    <2> QED BY <1>2, <2>1 DEF WorkerRec
  <1> HIDE DEF k
  <1>4. worker' \in [Workers -> WorkerRec] /\ worker'[w] = k
        /\ \A v \in Workers : v # w => worker'[v] = worker[v]
    BY <1>1, <1>3, ConsentTypes
  <1>5. ASSUME NEW s \in Subjects PROVE OneShot(s)' /\ used'[s] \in 0..MaxOnce
    <2>1. Held(s)' = 0 /\ Held(s) = IF s \in worker[w].taken THEN 1 ELSE 0
      BY <1>1, <1>3, HolderDone
    <2>2. InBroker(s)' = InBroker(s) /\ given'[s] = given[s]
      BY <1>1 DEF InBroker
    <2>3. used'[s] = IF s \in T THEN used[s] + 1 ELSE used[s]
      BY <1>1
    <2> QED BY <1>2, <2>1, <2>2, <2>3, OneShotNumbers DEF OneShot
  <1>6. ConsentTypeOK'
    BY <1>1, <1>4, <1>5 DEF ConsentInv, ConsentTypeOK, WorkerRec
  <1>7. \A b \in Blocks : BlockInv(b)'
    BY <1>1, <1>4, RowsApart DEF ConsentInv, BlockInv
  <1>8. \A v \in Workers : WorkerInv(v)'
    BY <1>3, <1>4 DEF ConsentInv, WorkerInv
  <1>9. ExecutorAlone'
    BY <1>3, <1>4 DEF ConsentInv, ExecutorAlone
  <1> QED BY <1>1, <1>5, <1>6, <1>7, <1>8, <1>9, HookFrame DEF ConsentInv, HookPart

\* A run with nothing in hand.
LEMMA PlainWorker ==
  \A pc \in {"idle", "ending", "done"} :
     Worker(pc) \in WorkerRec /\ Worker(pc).pc = pc /\ Worker(pc).blocked = {}
  BY DEF Worker, WorkerRec

\* A worker whose spawn fails puts its grants back.
LEMMA SpawnFailsKeeps ==
  ASSUME ConsentInv, NEW w \in Workers, SpawnFails(w)
  PROVE  ConsentInv' /\ QueueStep
  <1> DEFINE T == transient(w)
             k == Worker("done")
  <1>1. /\ worker[w].pc = "taken" /\ worker' = [worker EXCEPT ![w] = k] /\ once' = once \cup T
        /\ UNCHANGED <<row, bell, hook, persisted, mode, modeChanges, given, used, modal, claim, restarts>>
    BY DEF SpawnFails, fileVars, uiVars
  <1>2. T \subseteq worker[w].taken /\ T \subseteq Subjects
    BY ConsentTypes DEF transient, WorkerRec
  <1>3. k \in WorkerRec /\ k.pc = "done" /\ k.blocked = {}
    BY PlainWorker
  <1> HIDE DEF T, k
  <1>4. worker' \in [Workers -> WorkerRec] /\ worker'[w] = k
        /\ \A v \in Workers : v # w => worker'[v] = worker[v]
    BY <1>1, <1>3, ConsentTypes
  <1>5. ASSUME NEW s \in Subjects PROVE OneShot(s)'
    <2>1. Held(s)' = 0 /\ Held(s) = IF s \in worker[w].taken THEN 1 ELSE 0
      BY <1>1, <1>3, HolderDone
    <2>2. /\ InBroker(s)' = IF s \in once \/ s \in T THEN 1 ELSE 0
          /\ InBroker(s) = IF s \in once THEN 1 ELSE 0
      BY <1>1 DEF InBroker
    <2> QED BY <1>1, <1>2, <2>1, <2>2, OneShotNumbers DEF OneShot
  <1>6. ConsentTypeOK'
    BY <1>1, <1>2, <1>4 DEF ConsentInv, ConsentTypeOK, WorkerRec
  <1>7. \A b \in Blocks : BlockInv(b)'
    BY <1>1, <1>3, <1>4, RowsApart DEF ConsentInv, BlockInv
  <1>8. \A v \in Workers : WorkerInv(v)'
    BY <1>3, <1>4 DEF ConsentInv, WorkerInv
  <1>9. ExecutorAlone'
    BY <1>3, <1>4 DEF ConsentInv, ExecutorAlone
  <1> QED BY <1>1, <1>5, <1>6, <1>7, <1>8, <1>9, HookFrame DEF ConsentInv, HookPart

\* Runs that neither take nor return grants leave the count alone.
LEMMA OneShotFrame ==
  ASSUME ConsentInv, NEW s \in Subjects,
         \A v \in Workers : Holds(v, s)' <=> Holds(v, s),
         UNCHANGED <<once, given, used>>
  PROVE  OneShot(s)'
  BY DEF ConsentInv, OneShot, Held, InBroker

\* A worker that ends keeps the invariant.
LEMMA EndKeeps ==
  ASSUME ConsentInv, NEW w \in Workers, NEW B \in SUBSET Blocks, EndWorker(w, B)
  PROVE  ConsentInv' /\ QueueStep
  <1> DEFINE k == IF B = {} THEN Worker("done") ELSE [Worker("ending") EXCEPT !.blocked = B]
  <1>1. /\ ExecutorFree /\ worker[w].pc = "running" /\ worker' = [worker EXCEPT ![w] = k]
        /\ \A b \in B : Blocked[b] = w
        /\ UNCHANGED <<row, bell, hook, once, persisted, mode, modeChanges, given, used, modal, claim, restarts>>
    BY DEF EndWorker, fileVars, uiVars, brokerVars
  <1>2. k \in WorkerRec /\ k.pc \in {"done", "ending"} /\ k.blocked \subseteq B
    BY DEF Worker, WorkerRec
  <1> HIDE DEF k
  <1>3. worker' \in [Workers -> WorkerRec] /\ worker'[w] = k
        /\ \A v \in Workers : v # w => worker'[v] = worker[v]
    BY <1>1, <1>2, ConsentTypes
  <1>4. ConsentTypeOK'
    BY <1>1, <1>3 DEF ConsentInv, ConsentTypeOK, WorkerRec
  <1>5. \A b \in Blocks : BlockInv(b)'
    BY <1>1, <1>3, RowsApart DEF ConsentInv, BlockInv
  <1>6. \A v \in Workers : WorkerInv(v)'
    BY <1>1, <1>2, <1>3 DEF ConsentInv, WorkerInv
  <1>7. ExecutorAlone'
    BY <1>1, <1>3 DEF ExecutorAlone, ExecutorFree
  <1>8. \A s \in Subjects, v \in Workers : Holds(v, s)' <=> Holds(v, s)
    BY <1>1, <1>2, <1>3 DEF Holds
  <1>9. \A s \in Subjects : OneShot(s)'
    BY <1>1, <1>8, OneShotFrame
  <1> QED BY <1>1, <1>4, <1>5, <1>6, <1>7, <1>9, HookFrame DEF ConsentInv, HookPart

\* A block is reported: its row is new, older rows of its subject are superseded.
LEMMA ReportKeeps ==
  ASSUME ConsentInv, NEW w \in Workers, NEW b \in Blocks, ReportBlock(w, b)
  PROVE  ConsentInv' /\ QueueStep
  <1> DEFINE k == IF worker[w].blocked = {b} THEN Worker("done")
                  ELSE [worker[w] EXCEPT !.blocked = worker[w].blocked \ {b}]
  <1>1. /\ worker[w].pc = "ending" /\ b \in worker[w].blocked
        /\ worker' = [worker EXCEPT ![w] = k]
        /\ row' = row \/ row' = append_superseding(row, b)
        /\ modal' = modal \/ modal' = modal \cup {Subject[b]}
        /\ UNCHANGED <<bell, hook, once, persisted, mode, modeChanges, given, used, claim, restarts>>
    BY DEF ReportBlock, brokerVars
  <1>2. /\ k \in WorkerRec /\ k.pc \in {"done", "ending"} /\ b \notin k.blocked
        /\ k.blocked \subseteq worker[w].blocked
    BY <1>1, PlainWorker, ConsentTypes DEF WorkerRec
  <1> HIDE DEF k
  <1>3. worker' \in [Workers -> WorkerRec] /\ worker'[w] = k
        /\ \A v \in Workers : v # w => worker'[v] = worker[v]
    BY <1>1, <1>2, ConsentTypes
  <1>4. b \in Rows /\ Blocked[b] = w /\ row[b].status = "none" /\ b \notin Hooks
    BY <1>1, RowsApart DEF ConsentInv, WorkerInv, BlockInv
  <1>5. /\ row' \in [Rows -> RowRec]
        /\ \A r \in Rows : r # b =>
              /\ row'[r].status = row[r].status
                   \/ (r \in Blocks /\ Pending(r) /\ row'[r].status = "superseded")
              /\ Pending(r) => row'[r].in \/ row'[r].status = "superseded"
    <2>1. CASE row' = row
      BY <2>1, ConsentTypes DEF Pending
    <2>2. CASE row' = append_superseding(row, b)
      <3> DEFINE q1 == claim_terminal(row, RowsFor(Subject[b]), "superseded")
                 q2 == Appended(q1, b)
      <3>1. row' = cap_consent_requests(q2)
        BY <2>2 DEF append_superseding
      <3>2. q1 \in [Rows -> RowRec] /\ \A r \in Rows :
               /\ q1[r].in = row[r].in
               /\ q1[r].status = IF r \in RowsFor(Subject[b]) /\ row[r].in /\ row[r].status = "pending"
                                 THEN "superseded" ELSE row[r].status
        BY ClaimFacts, ConsentTypes DEF Terminal
      <3> HIDE DEF q1
      <3>3. q2 \in [Rows -> RowRec] /\ \A r \in Rows : r # b => q2[r] = q1[r]
        BY <1>4, <3>2 DEF Appended, RowRec
      <3> HIDE DEF q2
      <3>4. row' \in [Rows -> RowRec] /\ \A r \in Rows :
               /\ row'[r].status = q2[r].status
               /\ q2[r].status \notin Terminal => row'[r].in = q2[r].in
        BY <3>1, <3>3, CapFacts
      <3> QED BY <3>2, <3>3, <3>4 DEF Pending, RowsFor, Terminal
    <2> QED BY <1>1, <2>1, <2>2
  <1>6. ConsentTypeOK'
    <2>1. modal' \subseteq Rows \cup Subjects
      BY <1>1, ConsentConstants DEF ConsentInv, ConsentTypeOK
    <2> QED BY <1>1, <1>3, <1>5, <2>1 DEF ConsentInv, ConsentTypeOK, WorkerRec, RowRec
  <1>7. \A h \in Hooks : HookInv(h)'
    BY <1>1, <1>4, <1>5, RowsApart DEF ConsentInv, HookInv
  <1>8. ASSUME NEW c \in Blocks PROVE BlockInv(c)'
    <2>1. c \in Rows /\ BlockInv(c)
      BY RowsApart DEF ConsentInv
    <2>2. CASE Blocked[c] = w
      <3>1. CASE c = b
        BY <1>2, <1>3, <2>2, <3>1 DEF BlockInv
      <3>2. CASE c # b
        <4>1. row'[c].status # "none" => row[c].status # "none"
          BY <1>5, <2>1, <3>2 DEF Pending
        <4> QED BY <1>1, <1>2, <1>3, <2>1, <2>2, <4>1 DEF BlockInv
      <3> QED BY <3>1, <3>2
    <2>3. CASE Blocked[c] # w
      <3>1. row'[c].status # "none" => row[c].status # "none"
        BY <1>4, <1>5, <2>1, <2>3 DEF Pending
      <3> QED BY <1>3, <2>1, <2>3, <3>1, RowsApart DEF BlockInv
    <2> QED BY <2>2, <2>3
  <1>9. \A a \in Agents : BellInv(a)'
    BY <1>1, <1>4, <1>5, RowsApart DEF ConsentInv, BellInv, Pending
  <1>10. \A v \in Workers : WorkerInv(v)'
    BY <1>2, <1>3 DEF ConsentInv, WorkerInv
  <1>11. ExecutorAlone'
    BY <1>1, <1>3 DEF ConsentInv, ExecutorAlone
  <1>12. \A s \in Subjects, v \in Workers : Holds(v, s)' <=> Holds(v, s)
    BY <1>1, <1>2, <1>3 DEF Holds
  <1>13. \A s \in Subjects : OneShot(s)'
    BY <1>1, <1>12, OneShotFrame
  <1>14. QueueStep
    BY <1>4, <1>5 DEF QueueStep, Pending, Terminal
  <1> QED BY <1>6, <1>7, <1>8, <1>9, <1>10, <1>11, <1>13, <1>14 DEF ConsentInv

\* The human's grant: a one-shot is counted before the broker has it.
LEMMA GrantKeeps ==
  ASSUME ConsentInv, NEW s \in Subjects, NEW d \in Decisions, GrantConsent(s, d)
  PROVE  ConsentInv' /\ QueueStep
  <1>1. /\ claim' = [subject |-> s, status |-> Verdict(d)] /\ Verdict(d) \in {"allowed", "denied"}
        /\ UNCHANGED <<row, bell, hook, worker, mode, modeChanges, used, modal, restarts>>
    BY DEF GrantConsent, fileVars, Verdict
  <1>2. \/ UNCHANGED <<once, given>> /\ (persisted' = persisted \/ persisted' = persisted \cup {s})
        \/ /\ given[s] < MaxOnce /\ once' = once \cup {s} /\ persisted' = persisted
           /\ given' = [given EXCEPT ![s] = @ + 1]
    BY DEF GrantConsent, Decisions
  <1>3. ASSUME NEW t \in Subjects PROVE OneShot(t)' /\ given'[t] \in 0..MaxOnce
    <2>1. Held(t)' = Held(t) /\ used'[t] = used[t]
      BY <1>1 DEF Held, Holds
    <2>2. CASE UNCHANGED <<once, given>>
      BY <2>1, <2>2, OneShotNumbers DEF OneShot, InBroker
    <2>3. CASE /\ given[s] < MaxOnce /\ once' = once \cup {s}
               /\ given' = [given EXCEPT ![s] = @ + 1]
      <3>1. CASE t = s
        <4>1. given'[t] = given[t] + 1 /\ InBroker(t)' <= InBroker(t) + 1 /\ InBroker(t)' \in {0, 1}
          BY <2>3, <3>1, ConsentTypes DEF InBroker
        <4> QED BY <2>1, <2>3, <3>1, <4>1, OneShotNumbers DEF OneShot
      <3>2. CASE t # s
        <4>1. given'[t] = given[t] /\ InBroker(t)' = InBroker(t)
          BY <2>3, <3>2, ConsentTypes DEF InBroker
        <4> QED BY <2>1, <4>1, OneShotNumbers DEF OneShot
      <3> QED BY <3>1, <3>2
    <2> QED BY <1>2, <2>2, <2>3
  <1>4. ConsentTypeOK'
    <2>1. once' \subseteq Subjects /\ persisted' \subseteq Subjects /\ given' \in [Subjects -> 0..MaxOnce]
      BY <1>2, <1>3, ConsentTypes
    <2> QED BY <1>1, <2>1 DEF ConsentInv, ConsentTypeOK
  <1>5. \A b \in Blocks : BlockInv(b)'
    BY <1>1 DEF ConsentInv, BlockInv
  <1>6. (\A v \in Workers : WorkerInv(v)') /\ ExecutorAlone'
    BY <1>1 DEF ConsentInv, WorkerInv, ExecutorAlone
  <1> QED BY <1>1, <1>3, <1>4, <1>5, <1>6, HookFrame DEF ConsentInv, HookPart

\* The modal's poll and the mode switch touch nothing the invariant speaks of.
LEMMA PollModalSetModeKeep ==
  ASSUME ConsentInv, PollModal \/ \E m \in Projects : SetMode(m)
  PROVE  ConsentInv' /\ QueueStep
  <1>1. UNCHANGED <<row, bell, hook, worker, once, persisted, given, used, claim, restarts>>
    BY DEF PollModal, SetMode, fileVars, brokerVars, uiVars
  <1>2. ConsentTypeOK'
    <2>1. CASE PollModal
      BY <1>1, <2>1 DEF PollModal, brokerVars, ConsentInv, ConsentTypeOK
    <2>2. CASE \E m \in Projects : SetMode(m)
      <3>1. PICK m \in Projects : SetMode(m)
        BY <2>2
      <3>2. mode' \in [Projects -> {"ask", "unattended"}] /\ modeChanges' \in 0..MaxModes
            /\ UNCHANGED modal
        BY <3>1, ConsentConstants DEF SetMode, uiVars, ConsentInv, ConsentTypeOK
      <3> QED BY <1>1, <3>2 DEF ConsentInv, ConsentTypeOK
    <2> QED BY <2>1, <2>2
  <1>3. \A b \in Blocks : BlockInv(b)'
    BY <1>1 DEF ConsentInv, BlockInv
  <1> QED BY <1>1, <1>2, <1>3, HookFrame, GrantFrame DEF ConsentInv, HookPart, GrantPart

\* A restart ends every run and empties the broker.
LEMMA RestartKeeps ==
  ASSUME ConsentInv, AppRestart
  PROVE  ConsentInv' /\ QueueStep
  <1>1. /\ restarts < MaxRestarts /\ restarts' = restarts + 1
        /\ modal' = {} /\ once' = {} /\ claim' = NoClaim
        /\ worker' = [w \in Workers |-> IF worker[w].pc = "idle" THEN worker[w] ELSE Worker("done")]
        /\ UNCHANGED <<row, bell, hook, persisted, mode, modeChanges, given, used>>
    BY DEF AppRestart, fileVars
  <1>2. /\ worker' \in [Workers -> WorkerRec]
        /\ \A w \in Workers : \/ worker[w].pc = "idle" /\ worker'[w] = worker[w]
                              \/ worker'[w].pc = "done" /\ worker'[w].blocked = {}
    BY <1>1, PlainWorker, ConsentTypes
  <1>3. ConsentTypeOK'
    BY <1>1, <1>2, ConsentConstants DEF ConsentInv, ConsentTypeOK, WorkerRec
  <1>4. \A b \in Blocks : BlockInv(b)'
    BY <1>1, <1>2, RowsApart DEF ConsentInv, BlockInv
  <1>5. (\A v \in Workers : WorkerInv(v)') /\ ExecutorAlone'
    BY <1>2 DEF ConsentInv, WorkerInv, ExecutorAlone
  <1>6. ASSUME NEW s \in Subjects PROVE OneShot(s)'
    <2>1. Held(s)' = 0 /\ InBroker(s)' = 0
      BY <1>1, <1>2 DEF Held, Holds, InBroker
    <2> QED BY <1>1, <2>1, OneShotNumbers DEF OneShot
  <1> QED BY <1>1, <1>3, <1>4, <1>5, <1>6, HookFrame DEF ConsentInv, HookPart

-----------------------------------------------------------------------------
(***************************************************************************)
(* The invariant and the queue.                                            *)
(***************************************************************************)

\* No request, grant or worker exists at the start.
LEMMA ConsentInitInv == ConsentInit => ConsentInv
  <1> SUFFICES ASSUME ConsentInit PROVE ConsentInv
    OBVIOUS
  <1>1. ConsentTypeOK
    <2>1. Hook("idle") \in HookRec
      BY ConsentConstants DEF Hook, HookRec
    <2>2. hook \in [Hooks -> HookRec] /\ worker \in [Workers -> WorkerRec]
      BY <2>1, PlainWorker DEF ConsentInit
    <2>3. /\ row \in [Rows -> RowRec] /\ bell \in [Agents -> {"none", "needs_consent"}]
          /\ once \subseteq Subjects /\ persisted \subseteq Subjects
          /\ mode \in [Projects -> {"ask", "unattended"}]
          /\ modal \subseteq Rows \cup Subjects /\ claim = NoClaim
          /\ restarts \in 0..MaxRestarts /\ modeChanges \in 0..MaxModes
      BY ConsentConstants DEF ConsentInit, ConsentScene, RowRec
    <2>4. given \in [Subjects -> 0..MaxOnce] /\ used \in [Subjects -> 0..MaxOnce]
      BY ConsentConstants DEF ConsentInit, ConsentScene
    <2> QED BY <2>2, <2>3, <2>4 DEF ConsentTypeOK, HookRec, WorkerRec, RowRec
  <1>2. \A h \in Hooks : HookInv(h)
    BY RowsApart DEF ConsentInit, ConsentScene, HookInv, Hook
  <1>3. \A b \in Blocks : BlockInv(b)
    BY RowsApart DEF ConsentInit, ConsentScene, BlockInv
  <1>4. \A w \in Workers : worker[w].pc = "idle" /\ worker[w].blocked = {}
    BY PlainWorker DEF ConsentInit
  <1>5. (\A w \in Workers : WorkerInv(w)) /\ ExecutorAlone
    BY <1>4 DEF WorkerInv, ExecutorAlone
  <1>6. ASSUME NEW s \in Subjects PROVE OneShot(s)
    <2>1. Held(s) = 0
      BY <1>4 DEF Held, Holds
    <2>2. InBroker(s) = 0 /\ used[s] = 0 /\ given[s] = 0
      BY DEF InBroker, ConsentInit, ConsentScene
    <2> QED BY <2>1, <2>2 DEF OneShot
  <1>7. \A a \in Agents : BellInv(a)
    BY DEF ConsentInit, ConsentScene, BellInv
  <1> QED BY <1>1, <1>2, <1>3, <1>5, <1>6, <1>7 DEF ConsentInv

\* Every step of the bridge keeps the invariant and its queue the verdicts.
LEMMA ConsentStepInv ==
  ASSUME ConsentInv, [ConsentNext]_consentVars
  PROVE  ConsentInv' /\ QueueStep
  <1>1. ASSUME NEW h \in Hooks, HookStep(h) PROVE ConsentInv' /\ QueueStep
    BY <1>1, RecordKeeps, HookPollsKeep, ExpireKeeps DEF HookStep, HookProgress
  <1>2. ASSUME NEW w \in Workers, WorkerStep(w) PROVE ConsentInv' /\ QueueStep
    BY <1>2, TakeGrantsKeeps, SpawnKeeps, SpawnFailsKeeps, EndKeeps, ReportKeeps DEF WorkerStep
  <1>3. CASE HumanStep
    BY <1>3, PollModalSetModeKeep, RespondKeeps, GrantKeeps DEF HumanStep
  <1>4. CASE UNCHANGED consentVars
    <2>1. UNCHANGED <<row, bell, hook, worker, once, persisted, mode, modeChanges, given, used,
                      modal, claim, restarts>>
      BY <1>4 DEF consentVars, fileVars, brokerVars, uiVars
    <2>2. ConsentTypeOK' /\ \A b \in Blocks : BlockInv(b)'
      BY <2>1 DEF ConsentInv, ConsentTypeOK, BlockInv
    <2> QED BY <2>1, <2>2, HookFrame, GrantFrame DEF ConsentInv, HookPart, GrantPart
  <1> QED BY <1>1, <1>2, <1>3, <1>4, GrantClaimsKeeps, RestartKeeps DEF ConsentNext

\* The inductive invariant of the consent bridge.
THEOREM ConsentInvariant == ConsentSpec => []ConsentInv
  BY ConsentInitInv, ConsentStepInv, PTL DEF ConsentSpec

\* The consent bell rings only while a request of its session waits in the queue.
THEOREM ConsentBellCaused == ConsentSpec => []ConsentBellHasCause
  <1>1. ConsentInv => ConsentBellHasCause
    BY DEF ConsentInv, BellInv, ConsentBellHasCause
  <1> QED BY <1>1, ConsentInvariant, PTL

\* A set with no two different members has none or one.
LEMMA AtMostOne ==
  ASSUME NEW S, \A x, y \in S : x = y
  PROVE  Cardinality(S) = IF S = {} THEN 0 ELSE 1
  <1>1. CASE S = {}
    BY <1>1, FS_EmptySet
  <1>2. CASE S # {}
    <2>1. PICK x : S = {x}
      BY <1>2
    <2> QED BY <2>1, FS_Singleton
  <1> QED BY <1>1, <1>2

\* No run ever uses a one-shot grant the human did not give, nor one twice.
THEOREM ConsentOneShots == ConsentSpec => []OneShotConserved
  <1>1. ConsentInv => OneShotConserved
    <2> SUFFICES ASSUME ConsentInv, NEW s \in Subjects
                 PROVE  used[s] + Cardinality({w \in Workers : worker[w].pc = "taken"
                                                             /\ s \in worker[w].taken})
                          + (IF s \in once THEN 1 ELSE 0) <= given[s]
      BY DEF OneShotConserved
    <2> DEFINE S == {w \in Workers : worker[w].pc = "taken" /\ s \in worker[w].taken}
    <2>1. \A v, w \in S : v = w
      BY DEF ConsentInv, ExecutorAlone
    <2>2. Cardinality(S) = IF S = {} THEN 0 ELSE 1
      BY <2>1, AtMostOne
    <2>3. Cardinality(S) = Held(s)
      BY <2>2 DEF Held, Holds
    <2> HIDE DEF S
    <2>4. used[s] + Cardinality(S) + InBroker(s) <= given[s]
      BY <2>3 DEF ConsentInv, OneShot
    <2> QED BY <2>4 DEF InBroker, S
  <1> QED BY <1>1, ConsentInvariant, PTL

\* No append drops a request whose asker waits, and no verdict is rewritten.
THEOREM ConsentQueueKeeps == ConsentSpec => QueueKeepsVerdicts
  <1>1. ConsentInv /\ [ConsentNext]_consentVars => QueueStep
    BY ConsentStepInv
  <1>2. ConsentInv /\ [ConsentNext]_consentVars => [QueueStep]_consentVars
    BY <1>1
  <1> QED BY <1>2, ConsentInvariant, PTL DEF ConsentSpec, QueueKeepsVerdicts, QueueStep

-----------------------------------------------------------------------------
(***************************************************************************)
(* The hook's requests pass the abstract gate.                             *)
(***************************************************************************)
HookEffects == [h \in Hooks |-> HookEffect(hook[h].told)]

\* What each status and each decision is to the gate.
LEMMA HookVerdicts ==
  /\ HookVerdictOf("none") = "none" /\ HookVerdictOf("pending") = "asked"
  /\ HookVerdictOf("allowed") = "granted"
  /\ \A st \in {"denied", "timeout", "superseded"} : HookVerdictOf(st) = "refused"
  /\ HookEffect("allow") = 1 /\ HookEffect("none") = 0 /\ HookEffect("deny") = 0
  BY DEF HookVerdictOf, HookEffect

\* The gate does not see a hook whose status and decision are the same.
SameHook(h) == row'[h].status = row[h].status /\ hook'[h].told = hook[h].told

\* One hook's request moves.
HookMoves(h) ==
    \/ /\ hook'[h].told = hook[h].told
       /\ \/ row[h].status = "none" /\ row'[h].status = "pending"
          \/ row[h].status = "pending" /\ row'[h].status \in Terminal
    \/ /\ row'[h].status = row[h].status /\ hook[h].told = "none"
       /\ hook'[h].told = "allow" => row[h].status = "allowed"
       /\ hook'[h].told \in {"none", "allow", "deny"}

\* It moves as a request of the gate does.
LEMMA OneHookMoves ==
  ASSUME NEW h \in Hooks, \A k \in Hooks \ {h} : SameHook(k), SameHook(h) \/ HookMoves(h)
  PROVE  [HookGate!Next]_(HookGate!gate)
  <1>1. /\ HookVerdict' = [HookVerdict EXCEPT ![h] = HookVerdictOf(row'[h].status)]
        /\ HookEffects' = [HookEffects EXCEPT ![h] = HookEffect(hook'[h].told)]
        /\ HookVerdict[h] = HookVerdictOf(row[h].status)
        /\ HookEffects[h] = HookEffect(hook[h].told)
    BY DEF SameHook, HookVerdict, HookEffects
  <1>2. CASE SameHook(h)
    <2>1. HookVerdict' = HookVerdict /\ HookEffects' = HookEffects
      BY <1>1, <1>2 DEF SameHook, HookVerdict, HookEffects
    <2> QED BY <2>1 DEF HookGate!gate, HookEffects
  <1>3. CASE /\ hook'[h].told = hook[h].told
             /\ \/ row[h].status = "none" /\ row'[h].status = "pending"
                \/ row[h].status = "pending" /\ row'[h].status \in Terminal
    <2>1. HookEffects' = HookEffects
      BY <1>1, <1>3 DEF HookEffects
    <2>2. \/ HookVerdict[h] = "none" /\ HookVerdictOf(row'[h].status) = "asked"
          \/ /\ HookVerdict[h] = "asked"
             /\ HookVerdictOf(row'[h].status) \in {"granted", "refused"}
      BY <1>1, <1>3, HookVerdicts DEF Terminal
    <2> QED BY <1>1, <2>1, <2>2
            DEF HookEffects, HookGate!Next, HookGate!Ask, HookGate!Grant, HookGate!Refuse, HookGate!Move
  <1>4. CASE /\ row'[h].status = row[h].status /\ hook[h].told = "none"
             /\ hook'[h].told = "allow" => row[h].status = "allowed"
             /\ hook'[h].told \in {"none", "allow", "deny"}
    <2>1. HookVerdict' = HookVerdict
      BY <1>1, <1>4 DEF HookVerdict
    <2>2. CASE hook'[h].told = "allow"
      <3>1. HookVerdict[h] = "granted" /\ HookEffects[h] = 0
            /\ HookEffects' = [HookEffects EXCEPT ![h] = 1]
        BY <1>1, <1>4, <2>2, HookVerdicts
      <3> QED BY <2>1, <3>1 DEF HookEffects, HookGate!Next, HookGate!Act
    <2>3. CASE hook'[h].told \in {"none", "deny"}
      <3>1. HookEffects' = HookEffects
        <4>1. HookEffect(hook'[h].told) = HookEffect(hook[h].told)
          BY <1>4, <2>3, HookVerdicts
        <4> QED BY <1>1, <4>1 DEF HookEffects
      <3> QED BY <2>1, <3>1 DEF HookGate!gate, HookEffects
    <2> QED BY <1>4, <2>2, <2>3
  <1> QED BY <1>2, <1>3, <1>4 DEF HookMoves

\* No hook moves.
LEMMA NoHookMoves ==
  ASSUME \A h \in Hooks : SameHook(h)
  PROVE  [HookGate!Next]_(HookGate!gate)
  <1>1. HookVerdict' = HookVerdict /\ HookEffects' = HookEffects
    BY DEF SameHook, HookVerdict, HookEffects
  <1> QED BY <1>1 DEF HookGate!gate, HookEffects

\* Every step is one of the abstract gate or leaves it alone.
LEMMA HookSimulation ==
  ASSUME ConsentInv, [ConsentNext]_consentVars
  PROVE  [HookGate!Next]_(HookGate!gate)
  <1>1. ASSUME NEW h \in Hooks, RecordRequest(h) PROVE [HookGate!Next]_(HookGate!gate)
    <2> DEFINE q == Appended(row, h)
    <2>1. /\ hook[h].pc = "idle" /\ row' = cap_consent_requests(q)
          /\ hook' = [hook EXCEPT ![h].pc = "poll"]
      BY <1>1 DEF RecordRequest
    <2>2. /\ h \in Rows /\ q \in [Rows -> RowRec] /\ q[h].status = "pending"
          /\ \A r \in Rows : r # h => q[r] = row[r]
      BY ConsentTypes, RowsApart DEF Appended, RowRec
    <2> HIDE DEF q
    <2>3. \A r \in Rows : row'[r].status = q[r].status
      BY <2>1, <2>2, CapFacts
    <2>4. row[h].status = "none"
      BY <2>1 DEF ConsentInv, HookInv
    <2>5. \A k \in Hooks : hook'[k].told = hook[k].told
      BY <2>1, ConsentTypes DEF HookRec
    <2>6. (\A k \in Hooks \ {h} : SameHook(k)) /\ HookMoves(h)
      BY <2>2, <2>3, <2>4, <2>5, RowsApart DEF SameHook, HookMoves
    <2> QED BY <2>6, OneHookMoves
  <1>2. ASSUME NEW h \in Hooks,
               RecordFails(h) \/ PollError(h) \/ PollAgain(h) \/ PollVerdict(h)
                 \/ PollDeadline(h) \/ KillHook(h)
        PROVE  [HookGate!Next]_(HookGate!gate)
    <2>1. row' = row /\ hook[h].pc # "done"
      BY <1>2 DEF RecordFails, PollError, PollAgain, PollVerdict, PollDeadline, KillHook, fileVars
    <2>2. hook[h].told = "none" /\ hook[h] \in HookRec
      BY <2>1, ConsentTypes DEF ConsentInv, HookInv
    <2>3. ASSUME NEW d \in {"none", "allow", "deny"}, HookReturn(h, d),
                 d = "allow" => row[h].status = "allowed"
          PROVE  [HookGate!Next]_(HookGate!gate)
      <3>1. /\ hook'[h].told = d /\ \A k \in Hooks \ {h} : hook'[k] = hook[k]
        BY <2>3, ConsentTypes DEF HookReturn
      <3>2. (\A k \in Hooks \ {h} : SameHook(k)) /\ HookMoves(h)
        BY <2>1, <2>2, <2>3, <3>1 DEF SameHook, HookMoves
      <3> QED BY <3>2, OneHookMoves
    <2>4. ASSUME \A k \in Hooks : hook'[k].told = hook[k].told
          PROVE  [HookGate!Next]_(HookGate!gate)
      BY <2>1, <2>4, NoHookMoves DEF SameHook
    <2>5. CASE RecordFails(h) \/ KillHook(h)
      BY <2>3, <2>5 DEF RecordFails, KillHook
    <2>6. CASE PollVerdict(h)
      BY <2>3, <2>6 DEF PollVerdict
    <2>7. CASE PollAgain(h) \/ PollDeadline(h)
      <3>1. \A k \in Hooks : hook'[k].told = hook[k].told
        BY <2>7, ConsentTypes DEF PollAgain, PollDeadline, HookRec
      <3> QED BY <2>4, <3>1
    <2>8. CASE PollError(h)
      <3>1. CASE hook' = [hook EXCEPT ![h].errors = @ + 1]
        <4>1. \A k \in Hooks : hook'[k].told = hook[k].told
          BY <3>1, ConsentTypes DEF HookRec
        <4> QED BY <2>4, <4>1
      <3>2. CASE HookReturn(h, "deny")
        BY <2>3, <3>2
      <3> QED BY <2>8, <3>1, <3>2 DEF PollError
    <2> QED BY <1>2, <2>5, <2>6, <2>7, <2>8
  <1>3. ASSUME NEW h \in Hooks, Expire(h) PROVE [HookGate!Next]_(HookGate!gate)
    <2>1. /\ hook'[h].told = "deny" /\ \A k \in Hooks \ {h} : hook'[k] = hook[k]
      BY <1>3, ConsentTypes DEF Expire, HookReturn
    <2>2. hook[h].told = "none"
      BY <1>3, ConsentTypes DEF Expire, ConsentInv, HookInv
    <2>3. /\ \A k \in Hooks \ {h} : row'[k].status = row[k].status
          /\ \/ row'[h].status = row[h].status
             \/ row[h].status = "pending" /\ row'[h].status = "timeout"
      <3>1. CASE row' = row
        BY <3>1
      <3>2. CASE row' = claim_terminal(row, {h}, "timeout")
        BY <3>2, ClaimFacts, ConsentTypes, RowsApart DEF Terminal
      <3> QED BY <1>3, <3>1, <3>2 DEF Expire, fileVars
    <2>4. HookEffect(hook'[h].told) = HookEffect(hook[h].told)
      BY <2>1, <2>2, HookVerdicts
    <2>5. HookEffects' = HookEffects
      BY <2>1, <2>4 DEF HookEffects
    <2>6. HookVerdict' = [HookVerdict EXCEPT ![h] = HookVerdictOf(row'[h].status)]
          /\ HookVerdict[h] = HookVerdictOf(row[h].status)
      BY <2>3 DEF HookVerdict
    <2>7. CASE row'[h].status = row[h].status
      <3>1. HookVerdict' = HookVerdict
        BY <2>6, <2>7 DEF HookVerdict
      <3> QED BY <2>5, <3>1 DEF HookGate!gate, HookEffects
    <2>8. CASE row[h].status = "pending" /\ row'[h].status = "timeout"
      <3>1. HookVerdict[h] = "asked" /\ HookVerdict' = [HookVerdict EXCEPT ![h] = "refused"]
        BY <2>6, <2>8, HookVerdicts
      <3> QED BY <2>5, <3>1 DEF HookEffects, HookGate!Next, HookGate!Refuse, HookGate!Move
    <2> QED BY <2>3, <2>7, <2>8
  <1>4. ASSUME NEW r \in Rows, NEW d \in Decisions, RespondCloudConsent(r, d)
        PROVE  [HookGate!Next]_(HookGate!gate)
    <2>1. /\ hook' = hook /\ row' = claim_terminal(row, {r}, Verdict(d))
          /\ Verdict(d) \in Terminal
      BY <1>4 DEF RespondCloudConsent, Verdict, Terminal
    <2>2. \A x \in Rows : \/ row'[x].status = row[x].status
                          \/ x = r /\ row[x].status = "pending" /\ row'[x].status \in Terminal
      BY <2>1, ClaimFacts, ConsentTypes
    <2>3. CASE r \in Hooks
      <3>1. (\A k \in Hooks \ {r} : SameHook(k)) /\ (SameHook(r) \/ HookMoves(r))
        BY <2>1, <2>2, RowsApart DEF SameHook, HookMoves
      <3> QED BY <2>3, <3>1, OneHookMoves
    <2>4. CASE r \notin Hooks
      BY <2>1, <2>2, <2>4, RowsApart, NoHookMoves DEF SameHook
    <2> QED BY <2>3, <2>4
  <1>5. CASE GrantClaims
    <2>1. hook' = hook /\ claim.status \in Terminal
      BY <1>5 DEF GrantClaims, ConsentInv, ConsentTypeOK, Terminal
    <2>2. \A h \in Hooks : row'[h].status = row[h].status
      <3>1. CASE row' = row
        BY <3>1
      <3>2. CASE row' = claim_terminal(row, RowsFor(claim.subject), claim.status)
        BY <2>1, <3>2, ClaimFacts, ConsentTypes, RowsApart DEF RowsFor
      <3> QED BY <1>5, <3>1, <3>2 DEF GrantClaims
    <2> QED BY <2>1, <2>2, NoHookMoves DEF SameHook
  <1>6. ASSUME NEW w \in Workers, NEW b \in Blocks, ReportBlock(w, b)
        PROVE  [HookGate!Next]_(HookGate!gate)
    <2>1. hook' = hook /\ (row' = row \/ row' = append_superseding(row, b))
      BY <1>6 DEF ReportBlock
    <2>2. \A h \in Hooks : row'[h].status = row[h].status
      <3>1. CASE row' = row
        BY <3>1
      <3>2. CASE row' = append_superseding(row, b)
        <4> DEFINE q1 == claim_terminal(row, RowsFor(Subject[b]), "superseded")
                   q2 == Appended(q1, b)
        <4>1. row' = cap_consent_requests(q2)
          BY <3>2 DEF append_superseding
        <4>2. q1 \in [Rows -> RowRec] /\ \A h \in Hooks : q1[h].status = row[h].status
          BY ClaimFacts, ConsentTypes, RowsApart DEF Terminal, RowsFor
        <4> HIDE DEF q1
        <4>3. q2 \in [Rows -> RowRec] /\ \A h \in Hooks : q2[h] = q1[h]
          BY <4>2, RowsApart DEF Appended, RowRec
        <4> HIDE DEF q2
        <4> QED BY <4>1, <4>2, <4>3, CapFacts, RowsApart
      <3> QED BY <2>1, <3>1, <3>2
    <2> QED BY <2>1, <2>2, NoHookMoves DEF SameHook
  <1>7. ASSUME UNCHANGED <<row, hook>> PROVE [HookGate!Next]_(HookGate!gate)
    BY <1>7, NoHookMoves DEF SameHook
  <1>8. ASSUME NEW w \in Workers, TakeGrants(w) \/ SpawnWorker(w) \/ SpawnFails(w)
                                    \/ \E B \in SUBSET Blocks : EndWorker(w, B)
        PROVE  UNCHANGED <<row, hook>>
    BY <1>8 DEF TakeGrants, SpawnWorker, SpawnFails, EndWorker, fileVars
  <1>9. ASSUME PollModal \/ (\E s \in Subjects, d \in Decisions : GrantConsent(s, d))
                 \/ (\E m \in Projects : SetMode(m)) \/ AppRestart \/ UNCHANGED consentVars
        PROVE  UNCHANGED <<row, hook>>
    BY <1>9 DEF PollModal, GrantConsent, SetMode, AppRestart, fileVars, consentVars
  <1>10. ASSUME NEW h \in Hooks, HookStep(h) PROVE [HookGate!Next]_(HookGate!gate)
    BY <1>1, <1>2, <1>3, <1>10 DEF HookStep, HookProgress
  <1>11. ASSUME NEW w \in Workers, WorkerStep(w) PROVE [HookGate!Next]_(HookGate!gate)
    BY <1>6, <1>7, <1>8, <1>11 DEF WorkerStep
  <1>12. CASE HumanStep
    BY <1>4, <1>7, <1>9, <1>12 DEF HumanStep
  <1> QED BY <1>5, <1>7, <1>9, <1>10, <1>11, <1>12 DEF ConsentNext

\* A hook's request gets one verdict, and its tool action runs at most once and only
\* after it was allowed.
THEOREM ConsentGateImplemented == ConsentSpec => HookRefinesGate
  <1>1. ConsentInit => HookGate!Init
    <2> SUFFICES ASSUME ConsentInit PROVE HookGate!Init
      OBVIOUS
    <2>1. \A h \in Hooks : row[h].status = "none" /\ hook[h].told = "none"
      BY RowsApart DEF ConsentInit, ConsentScene, Hook
    <2>2. HookVerdict = [h \in Hooks |-> "none"]
      BY <2>1, HookVerdicts DEF HookVerdict
    <2>3. HookEffects = [h \in Hooks |-> 0]
      BY <2>1, HookVerdicts DEF HookEffects
    <2> QED BY <2>2, <2>3 DEF HookGate!Init, HookEffects
  <1>2. ConsentInv /\ [ConsentNext]_consentVars => [HookGate!Next]_(HookGate!gate)
    BY HookSimulation
  <1> QED BY <1>1, <1>2, ConsentInvariant, PTL DEF ConsentSpec, HookRefinesGate, HookGate!Spec
=============================================================================
