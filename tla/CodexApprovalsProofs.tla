------------------------ MODULE CodexApprovalsProofs ------------------------
(***************************************************************************)
(* Proofs about the approvals of a Codex session, for any number of        *)
(* launches and approvals and any in-flight limit.                         *)
(*                                                                         *)
(* The invariant says where an approval's sender, its tracked id and its   *)
(* reply can be at each step of its waiter (ApprovalInv), and that the     *)
(* reader thread of a launch is inside one registration at most, which is  *)
(* why the counter cannot overrun its limit between the check and the      *)
(* increment.                                                              *)
(***************************************************************************)
EXTENDS CodexApprovals, FiniteSetTheorems, TLAPS

Live == {"registered", "wait", "expired"}

\* What the map, the tracked ids and the client know of approval a.
ApprovalInv(a) ==
    /\ appr[a].pc # "idle" => reader[ClientOf[a]] # "idle"
    /\ appr[a].pc \in {"idle", "refused"} => appr[a].sent = "none" /\ appr[a].reply = "none"
    /\ appr[a].pc \in Live => appr[a].reply = "none"
    /\ appr[a].reply = "accept" => appr[a].sent = "allow"
    /\ a \in pending => /\ appr[a].pc \in Live /\ appr[a].sent = "none"
                        /\ appr[a].pc = "registered" \/ a \in tracked
    /\ a \in tracked => /\ reader[ClientOf[a]] # "ended"
                        /\ appr[a].pc \notin {"idle", "registered"}
    /\ appr[a].pc = "registered" => /\ reader[ClientOf[a]] = "reading"
                                    /\ inFlight[ClientOf[a]] < MaxInFlight
                                    /\ appr[a].sent = "none" => a \in pending
    /\ /\ appr[a].pc = "wait" /\ appr[a].sent = "none"
       /\ reader[ClientOf[a]] = "reading" /\ ClientOf[a] \notin killed
       => a \in pending

\* The reader of a launch is inside one registration at most.
OneRegistered ==
    \A a, b \in Approvals :
        appr[a].pc = "registered" /\ appr[b].pc = "registered" /\ ClientOf[a] = ClientOf[b]
           => a = b

CodexInv ==
    /\ CodexTypeOK
    /\ \A a \in Approvals : ApprovalInv(a)
    /\ OneRegistered
    /\ InFlightExact

-----------------------------------------------------------------------------
(***************************************************************************)
(* CloudConsentState: an id names one approval, across launches.           *)
(***************************************************************************)

\* The nonce in an approval's id keeps the launches apart.
LEMMA EntryIsOwn ==
    ASSUME pending \subseteq Approvals, NEW a \in Approvals
    PROVE  Entry(a) = pending \cap {a}
BY CodexConstants DEF Entry, approval_id

\* So a cancel drops the senders it names and no other.
LEMMA CancelDropsOwn ==
    ASSUME pending \subseteq Approvals, NEW A \in SUBSET Approvals
    PROVE  cancel(A) = pending \ A
BY EntryIsOwn DEF cancel

-----------------------------------------------------------------------------
(***************************************************************************)
(* Counting the waiter threads.                                            *)
(***************************************************************************)
Threads(c) == {a \in OfClient(c) : Waiting(a)}

\* A child has finitely many request threads, before and after a step.
LEMMA ThreadsFinite ==
    ASSUME NEW c
    PROVE  IsFiniteSet(Threads(c)) /\ IsFiniteSet(Threads(c)')
<1>1. IsFiniteSet(Approvals)
  BY CodexConstants
<1>2. Threads(c) \subseteq Approvals /\ Threads(c)' \subseteq Approvals
  BY DEF Threads, OfClient
<1> QED BY <1>1, <1>2, FS_Subset

\* A step that starts and ends no thread keeps the count.
LEMMA CountKept ==
    ASSUME InFlightExact, inFlight' = inFlight,
           \A a \in Approvals : Waiting(a)' <=> Waiting(a)
    PROVE  InFlightExact'
<1>1. \A c \in Clients : Threads(c)' = Threads(c)
  BY DEF Threads, OfClient
<1> QED BY <1>1 DEF InFlightExact, Threads

\* A thread that starts is counted.
LEMMA CountUp ==
    ASSUME CodexTypeOK, InFlightExact, NEW a \in Approvals, ~Waiting(a), Waiting(a)',
           inFlight' = [inFlight EXCEPT ![ClientOf[a]] = @ + 1],
           \A b \in Approvals \ {a} : Waiting(b)' <=> Waiting(b)
    PROVE  InFlightExact'
<1> SUFFICES ASSUME NEW c \in Clients
             PROVE  inFlight'[c] = Cardinality(Threads(c)')
  BY DEF InFlightExact, Threads
<1>1. inFlight[c] = Cardinality(Threads(c))
  BY DEF InFlightExact, Threads
<1>2. CASE c = ClientOf[a]
  <2>1. Threads(c)' = Threads(c) \cup {a} /\ a \notin Threads(c)
    BY <1>2 DEF Threads, OfClient
  <2>2. Cardinality(Threads(c)') = Cardinality(Threads(c)) + 1
    BY <2>1, ThreadsFinite, FS_AddElement
  <2> QED BY <1>1, <1>2, <2>2 DEF CodexTypeOK
<1>3. CASE c # ClientOf[a]
  <2>1. Threads(c)' = Threads(c)
    BY <1>3 DEF Threads, OfClient
  <2> QED BY <1>1, <1>3, <2>1 DEF CodexTypeOK
<1> QED BY <1>2, <1>3

\* A thread that ends is no longer counted, and the counter was not zero.
LEMMA CountDown ==
    ASSUME CodexTypeOK, InFlightExact, NEW a \in Approvals, Waiting(a), ~Waiting(a)',
           inFlight' = [inFlight EXCEPT ![ClientOf[a]] = @ - 1],
           \A b \in Approvals \ {a} : Waiting(b)' <=> Waiting(b)
    PROVE  InFlightExact' /\ inFlight' \in [Clients -> 0..MaxInFlight]
<1>0. ClientOf[a] \in Clients /\ MaxInFlight \in Nat
  BY CodexConstants
<1>1. ASSUME NEW c \in Clients
      PROVE  inFlight[c] = Cardinality(Threads(c))
  BY <1>1 DEF InFlightExact, Threads
<1>2. \A c \in Clients \ {ClientOf[a]} : Threads(c)' = Threads(c) /\ inFlight'[c] = inFlight[c]
  BY DEF Threads, OfClient, CodexTypeOK
<1> DEFINE k == ClientOf[a]
<1>3. Threads(k)' = Threads(k) \ {a} /\ a \in Threads(k)
  BY DEF Threads, OfClient
<1>4. Cardinality(Threads(k)') = Cardinality(Threads(k)) - 1
  BY <1>3, ThreadsFinite, FS_RemoveElement
<1>5. Cardinality(Threads(k)) \in Nat /\ Cardinality(Threads(k)) # 0
  BY <1>3, ThreadsFinite, FS_CardinalityType, FS_EmptySet
<1>6. inFlight[k] \in 1..MaxInFlight
  BY <1>0, <1>1, <1>5 DEF CodexTypeOK
<1>7. inFlight'[k] = inFlight[k] - 1
  BY <1>0 DEF CodexTypeOK
<1>8. inFlight' \in [Clients -> 0..MaxInFlight]
  BY <1>0, <1>6 DEF CodexTypeOK
<1>9. InFlightExact'
  <2>1. \A c \in Clients : inFlight'[c] = Cardinality(Threads(c)')
    BY <1>0, <1>1, <1>2, <1>4, <1>7
  <2> QED BY <2>1 DEF InFlightExact, Threads
<1> QED BY <1>8, <1>9

-----------------------------------------------------------------------------
(***************************************************************************)
(* CodexInv is inductive: one lemma for each group of actions.             *)
(***************************************************************************)

\* Approval a is now at pc with that reply; the decision and the others are the same.
Moved(a, pc, reply) ==
    /\ appr' \in [Approvals ->
                    [pc: {"idle", "registered", "wait", "expired", "write", "dec", "done",
                          "refused"},
                     sent: {"none"} \cup Decisions, reply: {"none", "accept", "decline"}]]
    /\ appr'[a].pc = pc /\ appr'[a].sent = appr[a].sent /\ appr'[a].reply = reply
    /\ \A b \in Approvals \ {a} : appr'[b] = appr[b]

\* What the two ways of writing a step of an approval do.
LEMMA Moves ==
    ASSUME CodexTypeOK, NEW a \in Approvals,
           NEW pc \in {"registered", "wait", "expired", "write", "dec", "done", "refused"},
           NEW reply \in {"accept", "decline"}
    PROVE  /\ appr' = [appr EXCEPT ![a].pc = pc] => Moved(a, pc, appr[a].reply)
           /\ Reply(a, pc, reply) => Moved(a, pc, reply)
BY DEF CodexTypeOK, Moved, Reply

\* A launch starts to read: nothing was registered for it before.
LEMMA LaunchInv ==
    ASSUME CodexInv, NEW c \in Clients, Launch(c)
    PROVE  CodexInv'
<1>1. /\ UNCHANGED <<killed, appr, pending, tracked, inFlight>>
      /\ reader' \in [Clients -> {"idle", "reading", "ended"}]
      /\ reader[c] = "idle" /\ reader'[c] = "reading"
      /\ \A d \in Clients \ {c} : reader'[d] = reader[d]
  BY DEF CodexInv, CodexTypeOK, Launch
<1>2. CodexTypeOK'
  BY <1>1 DEF CodexInv, CodexTypeOK
<1>3. ASSUME NEW a \in Approvals
      PROVE  ApprovalInv(a)'
  BY <1>1, CodexConstants DEF CodexInv, ApprovalInv, Live
<1>4. OneRegistered'
  BY <1>1 DEF CodexInv, OneRegistered
<1>5. InFlightExact'
  BY <1>1, CountKept DEF CodexInv, Waiting
<1> QED BY <1>2, <1>3, <1>4, <1>5 DEF CodexInv

\* The reader declines at once, or registers a waiter: no other is being registered.
LEMMA RegisterInv ==
    ASSUME CodexInv, NEW a \in Approvals, TooMany(a) \/ Register(a)
    PROVE  CodexInv'
<1>1. CodexTypeOK /\ ClientOf[a] \in Clients
  BY CodexConstants DEF CodexInv
<1>2. UNCHANGED <<reader, killed, tracked, inFlight>>
  BY DEF TooMany, Register
<1>3. /\ appr[a].pc = "idle" /\ reader[ClientOf[a]] = "reading"
      /\ \A b \in Approvals : ClientOf[b] = ClientOf[a] => appr[b].pc # "registered"
  BY DEF TooMany, Register, AtRead, OfClient
<1>4. \/ Moved(a, "refused", appr[a].reply) /\ pending' = pending
      \/ /\ Moved(a, "registered", appr[a].reply)
         /\ pending' = pending \cup {a} /\ inFlight[ClientOf[a]] < MaxInFlight
  <2>1. pending \subseteq Approvals
    BY <1>1 DEF CodexTypeOK
  <2>2. register(a) = pending \cup {a}
    BY <2>1, EntryIsOwn DEF register
  <2> QED BY <1>1, <2>2, Moves DEF TooMany, Register
<1>5. CodexTypeOK'
  BY <1>1, <1>2, <1>4 DEF CodexTypeOK, Moved
<1>6. ASSUME NEW b \in Approvals
      PROVE  ApprovalInv(b)'
  <2>1. ApprovalInv(b)
    BY DEF CodexInv
  <2>2. CASE b = a
    BY <1>2, <1>3, <1>4, <2>1, <2>2 DEF ApprovalInv, Moved, Live
  <2>3. CASE b # a
    BY <1>2, <1>4, <2>1, <2>3 DEF ApprovalInv, Moved, Live
  <2> QED BY <2>2, <2>3
<1>7. OneRegistered'
  BY <1>3, <1>4 DEF CodexInv, OneRegistered, Moved
<1>8. InFlightExact'
  BY <1>2, <1>3, <1>4, CountKept DEF CodexInv, Waiting, Moved
<1> QED BY <1>5, <1>6, <1>7, <1>8 DEF CodexInv

\* The waiter thread starts: the place checked for it is still free.
LEMMA StartWaiterInv ==
    ASSUME CodexInv, NEW a \in Approvals, StartWaiter(a)
    PROVE  CodexInv'
<1>1. /\ CodexTypeOK /\ ApprovalInv(a) /\ appr[a].pc = "registered"
      /\ ClientOf[a] \in Clients /\ MaxInFlight \in Nat
  BY CodexConstants DEF CodexInv, StartWaiter
<1>2. /\ UNCHANGED <<reader, killed, pending>> /\ tracked' = tracked \cup {a}
      /\ inFlight' = [inFlight EXCEPT ![ClientOf[a]] = @ + 1]
      /\ Moved(a, "wait", appr[a].reply)
  BY <1>1, Moves DEF StartWaiter
<1>3. inFlight' \in [Clients -> 0..MaxInFlight]
  BY <1>1, <1>2 DEF CodexTypeOK, ApprovalInv
<1>4. CodexTypeOK'
  BY <1>1, <1>2, <1>3 DEF CodexTypeOK, Moved
<1>5. ASSUME NEW b \in Approvals
      PROVE  ApprovalInv(b)'
  <2>1. ApprovalInv(b) /\ ClientOf[b] \in Clients
    BY CodexConstants DEF CodexInv
  <2>2. CASE b = a
    BY <1>1, <1>2, <2>2 DEF ApprovalInv, Moved, Live
  <2>3. CASE b # a
    <3>1. appr[b].pc = "registered" => ClientOf[b] # ClientOf[a]
      BY <1>1, <2>3 DEF CodexInv, OneRegistered
    <3>2. appr[b].pc = "registered" => inFlight'[ClientOf[b]] = inFlight[ClientOf[b]]
      BY <1>1, <1>2, <2>1, <3>1 DEF CodexTypeOK
    <3> QED BY <1>2, <2>1, <2>3, <3>2 DEF ApprovalInv, Moved, Live
  <2> QED BY <2>2, <2>3
<1>6. OneRegistered'
  BY <1>2 DEF CodexInv, OneRegistered, Moved
<1>7. InFlightExact'
  <2>1. ~Waiting(a) /\ Waiting(a)' /\ \A b \in Approvals \ {a} : Waiting(b)' <=> Waiting(b)
    BY <1>1, <1>2 DEF Waiting, Moved
  <2> QED BY <1>1, <1>2, <2>1, CountUp DEF CodexInv
<1> QED BY <1>4, <1>5, <1>6, <1>7 DEF CodexInv

\* A waiter that could not start, or whose time is up, drops its sender and declines.
LEMMA DeclineInv ==
    ASSUME CodexInv, NEW a \in Approvals, StartFails(a) \/ DeclineExpired(a)
    PROVE  CodexInv'
<1>1. CodexTypeOK /\ ApprovalInv(a) /\ pending \subseteq Approvals
  BY DEF CodexInv, CodexTypeOK
<1>2. UNCHANGED <<reader, killed, tracked, inFlight>> /\ pending' = pending \ {a}
  BY <1>1, CancelDropsOwn DEF StartFails, DeclineExpired
<1>3. \/ appr[a].pc = "registered" /\ Moved(a, "done", "decline")
      \/ appr[a].pc = "expired" /\ Moved(a, "write", "decline")
  BY <1>1, Moves DEF StartFails, DeclineExpired
<1>4. CodexTypeOK'
  BY <1>1, <1>2, <1>3 DEF CodexTypeOK, Moved
<1>5. ASSUME NEW b \in Approvals
      PROVE  ApprovalInv(b)'
  <2>1. ApprovalInv(b)
    BY DEF CodexInv
  <2>2. CASE b = a
    BY <1>2, <1>3, <2>1, <2>2 DEF ApprovalInv, Moved, Live
  <2>3. CASE b # a
    BY <1>2, <1>3, <2>1, <2>3 DEF ApprovalInv, Moved, Live
  <2> QED BY <2>2, <2>3
<1>6. OneRegistered'
  BY <1>3 DEF CodexInv, OneRegistered, Moved
<1>7. InFlightExact'
  BY <1>2, <1>3, CountKept DEF CodexInv, Waiting, Moved
<1> QED BY <1>4, <1>5, <1>6, <1>7 DEF CodexInv

\* A kill or the end of the output cancels what is tracked.  A waiter registered before
\* the kill and tracked after it is left to the end of the output, which cannot come
\* before its id is tracked.
LEMMA CancelInv ==
    ASSUME CodexInv, NEW c \in Clients, Kill(c) \/ Eof(c)
    PROVE  CodexInv'
<1>1. CodexTypeOK /\ pending \subseteq Approvals /\ tracked \subseteq Approvals
  BY DEF CodexInv, CodexTypeOK
<1>2. /\ UNCHANGED <<appr, inFlight>>
      /\ tracked' = tracked \ OfClient(c) /\ pending' = pending \ (tracked \cap OfClient(c))
  <2>1. tracked \cap OfClient(c) \in SUBSET Approvals
    BY <1>1
  <2>2. cancel(tracked \cap OfClient(c)) = pending \ (tracked \cap OfClient(c))
    BY <1>1, <2>1, CancelDropsOwn
  <2> QED BY <2>2 DEF Kill, Eof, CancelWaiters
<1>3. /\ reader' \in [Clients -> {"idle", "reading", "ended"}] /\ killed' \subseteq Clients
      /\ \A d \in Clients \ {c} : reader'[d] = reader[d] /\ (d \in killed' <=> d \in killed)
      /\ \/ reader' = reader /\ c \in killed' /\ reader[c] # "idle"
         \/ /\ killed' = killed /\ reader'[c] = "ended"
            /\ \A a \in OfClient(c) : appr[a].pc # "registered"
  BY <1>1 DEF CodexTypeOK, Kill, Eof, AtRead
<1>4. CodexTypeOK'
  BY <1>1, <1>2, <1>3 DEF CodexTypeOK
<1>5. ASSUME NEW a \in Approvals
      PROVE  ApprovalInv(a)'
  <2>1. ApprovalInv(a) /\ ClientOf[a] \in Clients
    BY CodexConstants DEF CodexInv
  <2>2. CASE ClientOf[a] = c
    BY <1>2, <1>3, <2>1, <2>2 DEF ApprovalInv, OfClient, Live
  <2>3. CASE ClientOf[a] # c
    BY <1>2, <1>3, <2>1, <2>3 DEF ApprovalInv, OfClient, Live
  <2> QED BY <2>2, <2>3
<1>6. OneRegistered'
  BY <1>2 DEF CodexInv, OneRegistered
<1>7. InFlightExact'
  BY <1>2, CountKept DEF CodexInv, Waiting
<1> QED BY <1>4, <1>5, <1>6, <1>7 DEF CodexInv

\* The steps of a waiter thread after it started, up to its last one.
LEMMA WaiterInv ==
    ASSUME CodexInv, NEW a \in Approvals,
           ReceiveDecision(a) \/ ReceiveFails(a) \/ WriteReply(a)
    PROVE  CodexInv'
<1>1. CodexTypeOK /\ ApprovalInv(a)
  BY DEF CodexInv
<1>2. /\ UNCHANGED <<reader, killed, pending, inFlight>>
      /\ \/ /\ appr[a].pc = "wait" /\ appr[a].sent = "allow"
            /\ Moved(a, "write", "accept") /\ tracked' = tracked
         \/ /\ appr[a].pc = "wait" /\ appr[a].sent = "deny"
            /\ Moved(a, "write", "decline") /\ tracked' = tracked
         \/ /\ appr[a].pc = "wait" /\ Moved(a, "expired", appr[a].reply)
            /\ tracked' = tracked
         \/ /\ appr[a].pc = "write" /\ Moved(a, "dec", appr[a].reply)
            /\ tracked' = tracked \ {a}
  <2>1. appr[a].sent \in {"none", "allow", "deny"}
    BY <1>1 DEF CodexTypeOK, Decisions
  <2>2. CASE ReceiveDecision(a)
    BY <1>1, <2>1, <2>2, Moves DEF ReceiveDecision
  <2>3. CASE ReceiveFails(a) \/ WriteReply(a)
    BY <1>1, <2>3, Moves DEF ReceiveFails, WriteReply
  <2> QED BY <2>2, <2>3
<1>3. CodexTypeOK'
  BY <1>1, <1>2 DEF CodexTypeOK, Moved
<1>4. ASSUME NEW b \in Approvals
      PROVE  ApprovalInv(b)'
  <2>1. ApprovalInv(b)
    BY DEF CodexInv
  <2>2. CASE b = a
    BY <1>2, <2>1, <2>2 DEF ApprovalInv, Moved, Live
  <2>3. CASE b # a
    BY <1>2, <2>1, <2>3 DEF ApprovalInv, Moved, Live
  <2> QED BY <2>2, <2>3
<1>5. OneRegistered'
  BY <1>2 DEF CodexInv, OneRegistered, Moved
<1>6. InFlightExact'
  BY <1>2, CountKept DEF CodexInv, Waiting, Moved
<1> QED BY <1>3, <1>4, <1>5, <1>6 DEF CodexInv

\* A waiter thread ends.
LEMMA EndWaiterInv ==
    ASSUME CodexInv, NEW a \in Approvals, EndWaiter(a)
    PROVE  CodexInv'
<1>1. CodexTypeOK /\ ApprovalInv(a) /\ appr[a].pc = "dec" /\ ClientOf[a] \in Clients
  BY CodexConstants DEF CodexInv, EndWaiter
<1>2. /\ UNCHANGED <<reader, killed, pending, tracked>>
      /\ inFlight' = [inFlight EXCEPT ![ClientOf[a]] = @ - 1]
      /\ Moved(a, "done", appr[a].reply)
  BY <1>1, Moves DEF EndWaiter
<1>3. InFlightExact' /\ inFlight' \in [Clients -> 0..MaxInFlight]
  <2>1. Waiting(a) /\ ~Waiting(a)' /\ \A b \in Approvals \ {a} : Waiting(b)' <=> Waiting(b)
    BY <1>1, <1>2 DEF Waiting, Moved
  <2> QED BY <1>1, <1>2, <2>1, CountDown DEF CodexInv
<1>4. CodexTypeOK'
  BY <1>1, <1>2, <1>3 DEF CodexTypeOK, Moved
<1>5. ASSUME NEW b \in Approvals
      PROVE  ApprovalInv(b)'
  <2>1. ApprovalInv(b) /\ ClientOf[b] \in Clients
    BY CodexConstants DEF CodexInv
  <2>2. inFlight[ClientOf[b]] < MaxInFlight => inFlight'[ClientOf[b]] < MaxInFlight
    <3>1. \A c \in Clients : inFlight[c] \in Int /\ MaxInFlight \in Int
      BY <1>1, CodexConstants DEF CodexTypeOK
    <3>2. inFlight'[ClientOf[b]] \in {inFlight[ClientOf[b]], inFlight[ClientOf[b]] - 1}
      BY <1>1, <1>2, <2>1 DEF CodexTypeOK
    <3> QED BY <2>1, <3>1, <3>2
  <2>3. CASE b = a
    BY <1>1, <1>2, <2>1, <2>3 DEF ApprovalInv, Moved, Live
  <2>4. CASE b # a
    BY <1>2, <2>1, <2>2, <2>4 DEF ApprovalInv, Moved, Live
  <2> QED BY <2>3, <2>4
<1>6. OneRegistered'
  BY <1>2 DEF CodexInv, OneRegistered, Moved
<1> QED BY <1>3, <1>4, <1>5, <1>6 DEF CodexInv

\* A decision goes to the one waiter its id names.
LEMMA ResolveInv ==
    ASSUME CodexInv, NEW a \in Approvals, NEW d \in Decisions, Resolve(a, d)
    PROVE  CodexInv'
<1>1. CodexTypeOK /\ pending \subseteq Approvals
  BY DEF CodexInv, CodexTypeOK
<1>2. a \in pending /\ appr' = [appr EXCEPT ![a].sent = d]
  BY <1>1, EntryIsOwn DEF Resolve
<1>3. /\ UNCHANGED <<reader, killed, tracked, inFlight>>
      /\ pending' = pending \ {a}
  BY <1>1, CancelDropsOwn DEF Resolve
<1>4. /\ appr'[a].pc = appr[a].pc /\ appr'[a].sent = d /\ appr'[a].reply = appr[a].reply
      /\ \A b \in Approvals \ {a} : appr'[b] = appr[b]
  BY <1>1, <1>2 DEF CodexTypeOK
<1>5. CodexTypeOK'
  BY <1>1, <1>2, <1>3 DEF CodexTypeOK
<1>6. ASSUME NEW b \in Approvals
      PROVE  ApprovalInv(b)'
  <2>1. ApprovalInv(b) /\ d # "none"
    BY DEF CodexInv, Decisions
  <2>2. CASE b = a
    BY <1>2, <1>3, <1>4, <2>1, <2>2 DEF ApprovalInv, Live
  <2>3. CASE b # a
    BY <1>3, <1>4, <2>1, <2>3 DEF ApprovalInv, Live
  <2> QED BY <2>2, <2>3
<1>7. OneRegistered'
  BY <1>4 DEF CodexInv, OneRegistered
<1>8. InFlightExact'
  BY <1>3, <1>4, CountKept DEF CodexInv, Waiting
<1> QED BY <1>5, <1>6, <1>7, <1>8 DEF CodexInv

-----------------------------------------------------------------------------
(***************************************************************************)
(* The theorems.                                                           *)
(***************************************************************************)

\* Nothing is launched yet.
LEMMA InitInv == CodexInit => CodexInv
<1> SUFFICES ASSUME CodexInit PROVE CodexInv
  OBVIOUS
<1>1. CodexTypeOK
  BY CodexConstants DEF CodexInit, CodexTypeOK
<1>2. (\A a \in Approvals : ApprovalInv(a)) /\ OneRegistered
  BY DEF CodexInit, ApprovalInv, OneRegistered, Live
<1>3. InFlightExact
  <2>1. \A c : {a \in OfClient(c) : Waiting(a)} = {}
    BY DEF CodexInit, OfClient, Waiting
  <2> QED BY <2>1, FS_EmptySet DEF CodexInit, InFlightExact
<1> QED BY <1>1, <1>2, <1>3 DEF CodexInv

\* Every step of the threads and of the human keeps the invariant.
LEMMA StepInv == CodexInv /\ [CodexNext]_codexVars => CodexInv'
<1> SUFFICES ASSUME CodexInv, [CodexNext]_codexVars PROVE CodexInv'
  OBVIOUS
<1>1. CASE UNCHANGED codexVars
  <2>1. CodexTypeOK' /\ OneRegistered' /\ \A a \in Approvals : ApprovalInv(a)'
    BY <1>1 DEF codexVars, CodexInv, CodexTypeOK, ApprovalInv, OneRegistered
  <2>2. InFlightExact'
    BY <1>1, CountKept DEF codexVars, CodexInv, Waiting
  <2> QED BY <2>1, <2>2 DEF CodexInv
<1>2. ASSUME NEW c \in Clients, Launch(c) \/ Kill(c) \/ Eof(c)
      PROVE  CodexInv'
  BY <1>2, LaunchInv, CancelInv
<1>3. ASSUME NEW a \in Approvals, ReaderStep(a) \/ Waiter(a)
      PROVE  CodexInv'
  BY <1>3, RegisterInv, StartWaiterInv, DeclineInv, WaiterInv, EndWaiterInv
  DEF ReaderStep, Waiter
<1> QED BY <1>1, <1>2, <1>3, ResolveInv DEF CodexNext

\* CodexInv holds in every state the approvals can reach.
THEOREM CodexInvariant == CodexSpec => []CodexInv
BY InitInv, StepInv, PTL DEF CodexSpec

\* The backpressure counter is the number of waiter threads, whatever fails to start,
\* is killed or is launched again.
THEOREM CodexInFlightExact == CodexSpec => []InFlightExact
<1>1. CodexInv => InFlightExact
  BY DEF CodexInv
<1> QED BY <1>1, CodexInvariant, PTL

\* The human can reach every undecided waiter of a live session.
THEOREM CodexWaiterReachable == CodexSpec => []WaiterReachable
<1>1. CodexInv => WaiterReachable
  BY DEF CodexInv, ApprovalInv, WaiterReachable
<1> QED BY <1>1, CodexInvariant, PTL

\* No waiter holds out for the human once its session's output has ended.
THEOREM CodexWaitersEndWithReader == CodexSpec => []NoWaiterOutlivesReader
<1>1. CodexInv => NoWaiterOutlivesReader
  BY DEF CodexInv, CodexTypeOK, ApprovalInv, NoWaiterOutlivesReader
<1> QED BY <1>1, CodexInvariant, PTL

-----------------------------------------------------------------------------
(***************************************************************************)
(* The refinement.                                                         *)
(***************************************************************************)
Effects == [a \in Approvals |-> IF appr[a].reply = "accept" THEN 1 ELSE 0]

\* The abstract verdicts of the records.
LEMMA Verdicts ==
    ASSUME NEW r, r.sent \in {"none"} \cup Decisions
    PROVE  /\ r.sent = "allow" => CodexVerdictOf(r) = "granted"
           /\ r.sent = "deny" => CodexVerdictOf(r) = "refused"
           /\ r.sent = "none" /\ r.reply = "decline" => CodexVerdictOf(r) = "refused"
           /\ r.sent = "none" /\ r.reply # "decline"
                 => CodexVerdictOf(r) = IF r.pc \in {"idle", "refused"}
                                        THEN "none" ELSE "asked"
BY DEF CodexVerdictOf, Decisions

\* What a step can do to approval a, as the abstract gate sees it.
SameApproval(a) == CodexVerdict'[a] = CodexVerdict[a] /\ Effects'[a] = Effects[a]

GateMove(a) ==
    \/ CodexVerdict[a] = "none" /\ CodexVerdict'[a] = "asked" /\ Effects'[a] = Effects[a]
    \/ /\ CodexVerdict[a] = "asked" /\ CodexVerdict'[a] \in {"granted", "refused"}
       /\ Effects'[a] = Effects[a]
    \/ /\ CodexVerdict[a] = "granted" /\ CodexVerdict'[a] = CodexVerdict[a]
       /\ Effects[a] = 0 /\ Effects'[a] = 1

\* If at most one approval moves, the step is one of the abstract gate.
LEMMA OneMoves ==
    ASSUME NEW a \in Approvals, SameApproval(a) \/ GateMove(a),
           \A b \in Approvals \ {a} : SameApproval(b)
    PROVE  [CodexGate!Next]_(CodexGate!gate)
<1>1. /\ CodexVerdict' = [CodexVerdict EXCEPT ![a] = CodexVerdict'[a]]
      /\ Effects' = [Effects EXCEPT ![a] = Effects'[a]]
  BY DEF SameApproval, CodexVerdict, Effects
<1>2. CASE SameApproval(a)
  <2>1. CodexVerdict' = CodexVerdict /\ Effects' = Effects
    BY <1>1, <1>2 DEF SameApproval, CodexVerdict, Effects
  <2> QED BY <2>1 DEF CodexGate!gate, Effects
<1>3. CASE GateMove(a)
  <2>1. CASE CodexVerdict[a] # CodexVerdict'[a]
    <3>1. Effects' = Effects
      BY <1>1, <1>3, <2>1 DEF GateMove, Effects
    <3> QED BY <1>1, <1>3, <2>1, <3>1
            DEF GateMove, Effects, CodexGate!Next, CodexGate!Ask, CodexGate!Grant,
                CodexGate!Refuse, CodexGate!Move
  <2>2. CASE CodexVerdict[a] = CodexVerdict'[a]
    <3>1. CodexVerdict' = CodexVerdict
      BY <1>1, <2>2 DEF CodexVerdict
    <3>2. CodexVerdict[a] = "granted" /\ Effects[a] = 0 /\ Effects'[a] = 1
      BY <1>3, <2>2 DEF GateMove
    <3> QED BY <1>1, <3>1, <3>2 DEF Effects, CodexGate!Next, CodexGate!Act
  <2> QED BY <2>1, <2>2
<1> QED BY <1>2, <1>3

\* An approval whose record does not change is the same to the gate.
LEMMA SameRecord ==
    ASSUME NEW b \in Approvals, appr'[b] = appr[b]
    PROVE  SameApproval(b)
BY DEF SameApproval, CodexVerdict, Effects

\* Every step is one of the abstract gate or leaves it alone.
LEMMA GateSimulation ==
    ASSUME CodexInv, CodexInv', [CodexNext]_codexVars
    PROVE  [CodexGate!Next]_(CodexGate!gate)
<1>1. /\ CodexTypeOK /\ pending \subseteq Approvals
      /\ \A a \in Approvals : ApprovalInv(a)
  BY DEF CodexInv, CodexTypeOK
<1>2. CASE appr' = appr
  <2>1. CodexVerdict' = CodexVerdict /\ Effects' = Effects
    BY <1>2 DEF CodexVerdict, Effects
  <2> QED BY <2>1 DEF CodexGate!gate, Effects
<1>3. \A a \in Approvals :
         /\ appr[a].sent \in {"none"} \cup Decisions /\ appr'[a].sent \in {"none"} \cup Decisions
         /\ CodexVerdict[a] = CodexVerdictOf(appr[a])
         /\ CodexVerdict'[a] = CodexVerdictOf(appr'[a])
  BY DEF CodexInv, CodexTypeOK, CodexVerdict
<1>4. ASSUME NEW a \in Approvals, NEW pc, NEW reply, Moved(a, pc, reply),
             SameApproval(a) \/ GateMove(a)
      PROVE  [CodexGate!Next]_(CodexGate!gate)
  BY <1>4, SameRecord, OneMoves DEF Moved
<1>5. ASSUME NEW a \in Approvals, TooMany(a) \/ Register(a)
      PROVE  [CodexGate!Next]_(CodexGate!gate)
  <2>1. appr[a].pc = "idle" /\ appr[a].sent = "none" /\ appr[a].reply = "none"
    BY <1>1, <1>5 DEF TooMany, Register, ApprovalInv
  <2>2. PICK pc \in {"refused", "registered"} : Moved(a, pc, "none")
    BY <1>1, <1>5, <2>1, Moves DEF TooMany, Register
  <2>3. CodexVerdict[a] = "none" /\ CodexVerdict'[a] \in {"none", "asked"}
    BY <1>3, <2>1, <2>2, Verdicts DEF Moved
  <2>4. Effects'[a] = Effects[a]
    BY <2>1, <2>2 DEF Moved, Effects
  <2> QED BY <1>4, <2>2, <2>3, <2>4 DEF SameApproval, GateMove
<1>6. ASSUME NEW a \in Approvals, StartFails(a) \/ DeclineExpired(a)
      PROVE  [CodexGate!Next]_(CodexGate!gate)
  <2>1. appr[a].pc \in {"registered", "expired"} /\ appr[a].reply = "none"
    BY <1>1, <1>6 DEF StartFails, DeclineExpired, ApprovalInv, Live
  <2>2. PICK pc \in {"done", "write"} : Moved(a, pc, "decline")
    BY <1>1, <1>6, Moves DEF StartFails, DeclineExpired
  <2>3. \/ CodexVerdict[a] = CodexVerdict'[a]
        \/ CodexVerdict[a] = "asked" /\ CodexVerdict'[a] = "refused"
    BY <1>3, <2>1, <2>2, Verdicts DEF Moved, Decisions
  <2>4. Effects'[a] = Effects[a]
    BY <2>1, <2>2 DEF Moved, Effects
  <2> QED BY <1>4, <2>2, <2>3, <2>4 DEF SameApproval, GateMove
<1>7. ASSUME NEW a \in Approvals, ReceiveDecision(a)
      PROVE  [CodexGate!Next]_(CodexGate!gate)
  <2>1. appr[a].pc = "wait" /\ appr[a].reply = "none" /\ appr[a].sent \in {"allow", "deny"}
    BY <1>1, <1>3, <1>7 DEF ReceiveDecision, ApprovalInv, Live, Decisions
  <2>2. CASE appr[a].sent = "allow"
    <3>1. Moved(a, "write", "accept")
      BY <1>1, <1>7, <2>2, Moves DEF ReceiveDecision
    <3>2. CodexVerdict[a] = "granted" /\ CodexVerdict'[a] = "granted"
      BY <1>3, <2>2, <3>1, Verdicts DEF Moved
    <3>3. Effects[a] = 0 /\ Effects'[a] = 1
      BY <2>1, <3>1 DEF Moved, Effects
    <3> QED BY <1>4, <3>1, <3>2, <3>3 DEF GateMove
  <2>3. CASE appr[a].sent = "deny"
    <3>1. Moved(a, "write", "decline")
      BY <1>1, <1>7, <2>3, Moves DEF ReceiveDecision
    <3>2. CodexVerdict[a] = "refused" /\ CodexVerdict'[a] = "refused"
      BY <1>3, <2>3, <3>1, Verdicts DEF Moved
    <3>3. Effects'[a] = Effects[a]
      BY <2>1, <3>1 DEF Moved, Effects
    <3> QED BY <1>4, <3>1, <3>2, <3>3 DEF SameApproval
  <2> QED BY <2>1, <2>2, <2>3
<1>8. ASSUME NEW a \in Approvals,
             StartWaiter(a) \/ ReceiveFails(a) \/ WriteReply(a) \/ EndWaiter(a)
      PROVE  [CodexGate!Next]_(CodexGate!gate)
  <2>1. PICK pc \in {"wait", "expired", "dec", "done"} : Moved(a, pc, appr[a].reply)
    BY <1>1, <1>8, Moves DEF StartWaiter, ReceiveFails, WriteReply, EndWaiter
  <2>2. appr[a].pc \notin {"idle", "refused"}
    BY <1>8 DEF StartWaiter, ReceiveFails, WriteReply, EndWaiter
  <2>3. CodexVerdict'[a] = CodexVerdict[a]
    BY <1>3, <2>1, <2>2, Verdicts DEF Moved, Decisions
  <2>4. Effects'[a] = Effects[a]
    BY <2>1 DEF Moved, Effects
  <2> QED BY <1>4, <2>1, <2>3, <2>4 DEF SameApproval
<1>9. ASSUME NEW a \in Approvals, NEW d \in Decisions, Resolve(a, d)
      PROVE  [CodexGate!Next]_(CodexGate!gate)
  <2>1. a \in pending /\ appr' = [appr EXCEPT ![a].sent = d]
    <3>1. Entry(a) = pending \cap {a}
      BY <1>1, EntryIsOwn
    <3>2. PICK b \in Entry(a) : appr' = [appr EXCEPT ![b].sent = d]
      BY <1>9 DEF Resolve
    <3>3. b = a /\ a \in pending
      BY <3>1, <3>2
    <3> QED BY <3>2, <3>3
  <2>2. /\ appr[a].pc \in Live /\ appr[a].sent = "none" /\ appr[a].reply = "none"
        /\ appr'[a].sent = d /\ appr'[a].reply = "none"
        /\ \A b \in Approvals \ {a} : appr'[b] = appr[b]
    <3>1. appr[a].pc \in Live /\ appr[a].sent = "none" /\ appr[a].reply = "none"
      BY <1>1, <2>1 DEF ApprovalInv
    <3> QED BY <1>1, <2>1, <3>1 DEF CodexTypeOK
  <2>3. CodexVerdict[a] = "asked" /\ CodexVerdict'[a] \in {"granted", "refused"}
    BY <1>3, <2>2, Verdicts DEF Live, Decisions
  <2>4. Effects'[a] = Effects[a]
    BY <2>2 DEF Effects
  <2> QED BY <2>2, <2>3, <2>4, SameRecord, OneMoves DEF GateMove
<1>10. ASSUME NEW c \in Clients, Launch(c) \/ Kill(c) \/ Eof(c)
       PROVE  appr' = appr
  BY <1>10 DEF Launch, Kill, Eof
<1> QED BY <1>2, <1>5, <1>6, <1>7, <1>8, <1>9, <1>10
        DEF CodexNext, ReaderStep, Waiter, codexVars

\* Approvals pass the abstract gate: each is decided once, and an accept is written once
\* at most and only after the human allowed it, for any number of launches.
THEOREM CodexGateImplemented == CodexSpec => CodexRefinesGate
<1>1. CodexInit => CodexGate!Init
  <2> SUFFICES ASSUME CodexInit PROVE CodexGate!Init
    OBVIOUS
  <2>1. \A a \in Approvals : CodexVerdictOf(appr[a]) = "none"
    BY Verdicts DEF CodexInit
  <2>2. CodexVerdict = [a \in Approvals |-> "none"]
    BY <2>1 DEF CodexVerdict
  <2>3. Effects = [a \in Approvals |-> 0]
    BY DEF CodexInit, Effects
  <2> QED BY <2>2, <2>3 DEF CodexGate!Init, Effects
<1>2. CodexInv /\ CodexInv' /\ [CodexNext]_codexVars => [CodexGate!Next]_(CodexGate!gate)
  BY GateSimulation
<1> QED BY <1>1, <1>2, CodexInvariant, PTL DEF CodexSpec, CodexRefinesGate, CodexGate!Spec
=============================================================================
