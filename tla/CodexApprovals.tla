--------------------------- MODULE CodexApprovals ---------------------------
(***************************************************************************)
(* Approvals of a Codex orchestrator session (src-tauri, cloud_duplex.rs). *)
(* The session's reader thread meets an approval request, registers a      *)
(* waiter for it in CloudConsentState and starts a thread that blocks on   *)
(* the human's decision, with a timeout, and writes the reply to Codex.    *)
(* Killing the session, or the end of its output, cancels the waiters.     *)
(*                                                                         *)
(* A "client" is one launch of the orchestrator: its reader thread, its    *)
(* CodexClient (nonce, counter, tracked ids).  Every launch counts request *)
(* ids from 1, so two clients use the same ones.                           *)
(***************************************************************************)
EXTENDS Naturals, FiniteSets

CONSTANTS
    Clients,      \* launches of the orchestrator: numbers, as the session nonce
    Approvals,    \* approval requests Codex sends
    ClientOf,     \* the client each one reaches
    RequestId,    \* its JSON-RPC id
    MaxInFlight   \* MAX_INFLIGHT_APPROVALS

ASSUME CodexConstants ==
    /\ IsFiniteSet(Approvals)
    /\ ClientOf \in [Approvals -> Clients]
    /\ \A a, b \in Approvals :
          ClientOf[a] = ClientOf[b] /\ RequestId[a] = RequestId[b] => a = b
    /\ MaxInFlight \in Nat \ {0}

VARIABLES
    reader,     \* each client's reader thread
    killed,     \* the clients whose session was killed
    appr,       \* each approval: pc of its waiter, decision in its channel, reply
    pending,    \* CloudConsentState: the approvals whose sender is in the map
    tracked,    \* approval_ids of the clients
    inFlight    \* in_flight_approvals of each client

codexVars == <<reader, killed, appr, pending, tracked, inFlight>>

Decisions == {"allow", "deny"}

CodexTypeOK ==
    /\ reader \in [Clients -> {"idle", "reading", "ended"}]
    /\ killed \subseteq Clients
    /\ appr \in [Approvals ->
                   [pc: {"idle", "registered", "wait", "expired", "write", "dec", "done",
                         "refused"},
                    sent: {"none"} \cup Decisions, reply: {"none", "accept", "decline"}]]
    /\ pending \subseteq Approvals /\ tracked \subseteq Approvals
    /\ inFlight \in [Clients -> 0..MaxInFlight]

CodexInit ==
    /\ reader = [c \in Clients |-> "idle"]
    /\ killed = {}
    /\ appr = [a \in Approvals |-> [pc |-> "idle", sent |-> "none", reply |-> "none"]]
    /\ pending = {} /\ tracked = {}
    /\ inFlight = [c \in Clients |-> 0]

-----------------------------------------------------------------------------
(***************************************************************************)
(* CloudConsentState.                                                      *)
(***************************************************************************)

\* Mutant: the id lacks the session's nonce.
NoNonce(a) == RequestId[a]

approval_id(a) == <<ClientOf[a], RequestId[a]>>

\* The entries of the map that an approval's id names.
Entry(a) == {b \in pending : approval_id(b) = approval_id(a)}

register(a) == (pending \ Entry(a)) \cup {a}

cancel(A) == pending \ UNION {Entry(a) : a \in A}

-----------------------------------------------------------------------------
(***************************************************************************)
(* The reader thread.                                                      *)
(***************************************************************************)
Launch(c) ==
    /\ reader[c] = "idle"
    /\ reader' = [reader EXCEPT ![c] = "reading"]
    /\ UNCHANGED <<killed, appr, pending, tracked, inFlight>>

OfClient(c) == {a \in Approvals : ClientOf[a] = c}

\* The reader is at the top of its loop.
AtRead(c) ==
    /\ reader[c] = "reading"
    /\ \A a \in OfClient(c) : appr[a].pc # "registered"

Reply(a, pc, answer) == appr' = [appr EXCEPT ![a].pc = pc, ![a].reply = answer]

\* Backpressure: too many waiters, decline at once.
TooMany(a) ==
    /\ appr[a].pc = "idle" /\ AtRead(ClientOf[a])
    /\ inFlight[ClientOf[a]] >= MaxInFlight
    /\ appr' = [appr EXCEPT ![a].pc = "refused"]
    /\ UNCHANGED <<reader, killed, pending, tracked, inFlight>>

\* The waiter is registered before the request is shown to the human.
Register(a) ==
    /\ appr[a].pc = "idle" /\ AtRead(ClientOf[a])
    /\ inFlight[ClientOf[a]] < MaxInFlight
    /\ pending' = register(a)
    /\ appr' = [appr EXCEPT ![a].pc = "registered"]
    /\ UNCHANGED <<reader, killed, tracked, inFlight>>

\* The id is tracked and the waiter thread starts.
StartWaiter(a) ==
    /\ appr[a].pc = "registered"
    /\ tracked' = tracked \cup {a}
    /\ inFlight' = [inFlight EXCEPT ![ClientOf[a]] = @ + 1]
    /\ appr' = [appr EXCEPT ![a].pc = "wait"]
    /\ UNCHANGED <<reader, killed, pending>>

\* Mutant: the increment is not undone when the thread does not start.
StartLeaks(a) ==
    /\ appr[a].pc = "registered"
    /\ inFlight' = [inFlight EXCEPT ![ClientOf[a]] = @ + 1]
    /\ pending' = cancel({a})
    /\ Reply(a, "done", "decline")
    /\ UNCHANGED <<reader, killed, tracked>>

\* The thread does not start: everything is undone and the request declined.
StartFails(a) ==
    /\ appr[a].pc = "registered"
    /\ pending' = cancel({a})
    /\ Reply(a, "done", "decline")
    /\ UNCHANGED <<reader, killed, tracked, inFlight>>

\* cancel_codex_session_waiters: drain the tracked ids, drop their senders.
CancelWaiters(c) ==
    /\ tracked' = tracked \ OfClient(c)
    /\ pending' = cancel(tracked \cap OfClient(c))

\* kill_cloud_duplex, on another thread than the reader's.
Kill(c) ==
    /\ reader[c] # "idle" /\ c \notin killed
    /\ killed' = killed \cup {c}
    /\ CancelWaiters(c)
    /\ UNCHANGED <<reader, appr, inFlight>>

\* Mutant: the end of the output leaves the waiters to the kill.
EofSilent(c) ==
    /\ AtRead(c)
    /\ reader' = [reader EXCEPT ![c] = "ended"]
    /\ UNCHANGED <<killed, appr, inFlight, pending, tracked>>

\* The output ends: the child exited or was killed.
Eof(c) ==
    /\ AtRead(c)
    /\ reader' = [reader EXCEPT ![c] = "ended"]
    /\ CancelWaiters(c)
    /\ UNCHANGED <<killed, appr, inFlight>>

-----------------------------------------------------------------------------
(***************************************************************************)
(* The waiter thread.                                                      *)
(***************************************************************************)
ReceiveDecision(a) ==
    /\ appr[a].pc = "wait" /\ appr[a].sent # "none"
    /\ Reply(a, "write", IF appr[a].sent = "allow" THEN "accept" ELSE "decline")
    /\ UNCHANGED <<reader, killed, pending, tracked, inFlight>>

\* Mutant: a waiter does not notice that its sender is gone, and has no timeout.
WaitForever(a) == FALSE

\* recv_timeout fails: the time is up, or the sender was dropped.
ReceiveFails(a) ==
    /\ appr[a].pc = "wait" /\ appr[a].sent = "none"
    /\ appr' = [appr EXCEPT ![a].pc = "expired"]
    /\ UNCHANGED <<reader, killed, pending, tracked, inFlight>>

\* Mutant: a decision that arrives after the timeout is not looked at, and the
\* request is accepted.
ExpiredAccepts(a) ==
    /\ appr[a].pc = "expired"
    /\ pending' = cancel({a})
    /\ Reply(a, "write", "accept")
    /\ UNCHANGED <<reader, killed, tracked, inFlight>>

DeclineExpired(a) ==
    /\ appr[a].pc = "expired"
    /\ pending' = cancel({a})
    /\ Reply(a, "write", "decline")
    /\ UNCHANGED <<reader, killed, tracked, inFlight>>

WriteReply(a) ==
    /\ appr[a].pc = "write"
    /\ tracked' = tracked \ {a}
    /\ appr' = [appr EXCEPT ![a].pc = "dec"]
    /\ UNCHANGED <<reader, killed, pending, inFlight>>

EndWaiter(a) ==
    /\ appr[a].pc = "dec"
    /\ inFlight' = [inFlight EXCEPT ![ClientOf[a]] = @ - 1]
    /\ appr' = [appr EXCEPT ![a].pc = "done"]
    /\ UNCHANGED <<reader, killed, pending, tracked>>

Waiter(a) ==
    ReceiveDecision(a) \/ ReceiveFails(a) \/ DeclineExpired(a) \/ WriteReply(a) \/ EndWaiter(a)

\* respond_cloud_consent finds the sender: the human is told the answer was delivered.
\* Without a sender the human is told of an error, and nothing changes.
Resolve(a, decision) ==
    /\ \E b \in Entry(a) : appr' = [appr EXCEPT ![b].sent = decision]
    /\ pending' = cancel({a})
    /\ UNCHANGED <<reader, killed, tracked, inFlight>>

-----------------------------------------------------------------------------
ReaderStep(a) == TooMany(a) \/ Register(a) \/ StartWaiter(a) \/ StartFails(a)

CodexNext ==
    \/ \E c \in Clients : Launch(c) \/ Kill(c) \/ Eof(c)
    \/ \E a \in Approvals : ReaderStep(a) \/ Waiter(a)
    \/ \E a \in Approvals, d \in Decisions : Resolve(a, d)

CodexSpec == CodexInit /\ [][CodexNext]_codexVars

\* The reader gets through what it began, and the waiter threads run; the human owes
\* no answer and the session need not end.
CodexFairSpec ==
    /\ CodexSpec
    /\ \A a \in Approvals : WF_codexVars(StartWaiter(a) \/ StartFails(a)) /\ WF_codexVars(Waiter(a))

-----------------------------------------------------------------------------
(***************************************************************************)
(* Properties.                                                             *)
(***************************************************************************)
Waiting(a) == appr[a].pc \in {"wait", "expired", "write", "dec"}

\* The backpressure counter of a client is the number of its waiter threads: no path,
\* a thread that does not start, a kill or a relaunch included, leaks an increment.
InFlightExact ==
    \A c \in Clients : inFlight[c] = Cardinality({a \in OfClient(c) : Waiting(a)})

\* While a session lives, a waiter that has no decision yet can be given one: the late
\* timeout of another launch never takes its sender away.
WaiterReachable ==
    \A a \in Approvals :
        /\ appr[a].pc = "wait" /\ appr[a].sent = "none"
        /\ reader[ClientOf[a]] = "reading" /\ ClientOf[a] \notin killed
        => a \in pending

\* Once a client's output has ended none of its waiters holds out for the human, even
\* if the kill came between the registration and the tracking of its id.
NoWaiterOutlivesReader ==
    \A a \in pending : reader[ClientOf[a]] # "ended"

\* Codex gets a reply to every approval the reader registered.
CodexReplied == \A a \in Approvals : appr[a].pc = "registered" ~> appr[a].pc = "done"

\* Approvals pass the abstract gate: one verdict each, and an accept is written at most
\* once and only after the human allowed it.
CodexVerdictOf(r) ==
    CASE r.sent = "allow" -> "granted"
      [] r.sent = "deny" -> "refused"
      [] r.sent = "none" /\ r.reply = "decline" -> "refused"
      [] r.sent = "none" /\ r.reply # "decline" /\ r.pc \in {"idle", "refused"} -> "none"
      [] OTHER -> "asked"

CodexVerdict == [a \in Approvals |-> CodexVerdictOf(appr[a])]

CodexGate == INSTANCE ApprovalGate WITH
    Requests <- Approvals,
    verdict <- CodexVerdict,
    effects <- [a \in Approvals |-> IF appr[a].reply = "accept" THEN 1 ELSE 0]

CodexRefinesGate == CodexGate!Spec
=============================================================================
