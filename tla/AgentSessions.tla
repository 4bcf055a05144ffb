---------------------------- MODULE AgentSessions ----------------------------
(***************************************************************************)
(* The session rows of .aspis-agents.json: the app launches an agent and   *)
(* records a pending row with its launch token, the agent registers with   *)
(* the tool server and gets a session token for its later calls, the app's *)
(* poll prepares the rows for display and closes the ones nobody was heard *)
(* of for too long.                                                        *)
(*                                                                         *)
(* Tokens are numbers, 0 for none; a row's hash of a token is the token.   *)
(* Their windows of 2 and 12 hours do not end here, and the caps of 40 and *)
(* 200 rows are not reached.                                               *)
(***************************************************************************)
EXTENDS Naturals

CONSTANTS
    Agents,
    Sidecar,      \* the agents the app runs in a Pi sidecar
    Orchestrator, \* the agents whose id is stable, so that it can be launched again
    PendingTicks, \* LAUNCH_PENDING_STALE
    LiveTicks,    \* LIVE_HEARTBEAT_STALE
    MaxTokens     \* bound: tokens issued

VARIABLES
    rows,  \* the session row of each agent
    proc,  \* the process of each agent, with the tokens it was handed
    last   \* the last token issued

sessionVars == <<rows, proc, last>>

NoRow == [status |-> "none", age |-> 0, launch |-> 0, token |-> 0, consumed |-> FALSE]
NoProc == [run |-> FALSE, launch |-> 0, token |-> 0]

SessionsInit ==
    /\ rows = [a \in Agents |-> NoRow]
    /\ proc = [a \in Agents |-> NoProc]
    /\ last = 0

Issue == last < MaxTokens /\ last' = last + 1

-----------------------------------------------------------------------------
launch_id_collision(a) ==
    a \notin Orchestrator /\ rows[a].status \notin {"none", "launch_pending"}

Pending(a) ==
    [rows[a] EXCEPT !.status = "launch_pending", !.age = 0, !.launch = last', !.consumed = FALSE]

\* The row is written before the process starts.  The model follows the newest process
\* of an id: one that still holds a stable id is stopped first, and one of a pending row
\* has a token that is no longer valid.
Launch(a) ==
    /\ ~launch_id_collision(a) /\ Issue
    /\ rows' = [rows EXCEPT ![a] = Pending(a)]
    /\ proc' = [proc EXCEPT ![a] = [NoProc EXCEPT !.run = TRUE, !.launch = last']]

\* The process does not start, and the row is closed.
LaunchFails(a) ==
    /\ ~launch_id_collision(a) /\ Issue
    /\ rows' = [rows EXCEPT ![a] = [Pending(a) EXCEPT !.status = "closed"]]
    /\ proc' = [proc EXCEPT ![a] = IF a \in Orchestrator THEN NoProc ELSE @]

\* The server accepts a registration with this launch token.
validate_launch_token(a, t) ==
    /\ rows[a].status # "none"
    /\ IF rows[a].launch # 0
       THEN rows[a].launch = t
       ELSE rows[a].status # "launch_pending" /\ ~rows[a].consumed

agent_register(a) ==
    /\ proc[a].run /\ validate_launch_token(a, proc[a].launch)
    /\ Issue
    /\ rows' = [rows EXCEPT ![a] =
                  [status |-> "active", age |-> 0, launch |-> 0, token |-> last',
                   consumed |-> @.consumed \/ @.launch # 0]]
    /\ proc' = [proc EXCEPT ![a].token = last']

require_session_token(a) == rows[a].token # 0 /\ rows[a].token = proc[a].token

agent_heartbeat(a, status) ==
    /\ proc[a].run /\ rows[a].status \notin {"none", "launch_pending"}
    /\ require_session_token(a)
    /\ rows' = [rows EXCEPT ![a].status = status, ![a].age = 0]
    /\ UNCHANGED <<proc, last>>

\* The reader of an app-hosted process sees its end and closes the row.
ExitSeen(a) ==
    /\ proc[a].run
    /\ proc' = [proc EXCEPT ![a] = NoProc]
    /\ rows' = [rows EXCEPT ![a].status = "closed", ![a].age = 0]
    /\ UNCHANGED last

\* Nobody sees the end: an external console, or the app itself is gone.
ExitUnseen(a) ==
    /\ proc[a].run
    /\ proc' = [proc EXCEPT ![a] = NoProc]
    /\ UNCHANGED <<rows, last>>

-----------------------------------------------------------------------------
(***************************************************************************)
(* The poll.                                                               *)
(***************************************************************************)

\* What the display shows of a row.
stamp_sessions_from_ledger(r) ==
    IF r.status = "none" THEN r
    ELSE [r EXCEPT !.launch = 0, !.token = 0, !.consumed = FALSE]

\* A live sidecar's row is shown as running.
overlay_pi_sessions(a, r) ==
    IF a \in Sidecar /\ proc[a].run THEN [r EXCEPT !.status = "running", !.age = 0] ELSE r

\* Closed, finished and waiting rows are left alone.
Ghost(r) ==
    /\ r.status \in {"launch_pending", "active", "running"}
    /\ r.age > (IF r.status = "launch_pending" THEN PendingTicks ELSE LiveTicks)

\* The rows in the file change only if some row was reaped, and are then the displayed ones.
get_agent_live_state ==
    LET shown == [a \in Agents |-> overlay_pi_sessions(a, stamp_sessions_from_ledger(rows[a]))]
        reaped == {a \in Agents : Ghost(shown[a])}
    IN  /\ reaped # {}
        /\ rows' = [a \in Agents |-> IF a \in reaped
                                     THEN [shown[a] EXCEPT !.status = "closed", !.age = 0]
                                     ELSE shown[a]]
        /\ UNCHANGED <<proc, last>>

\* A minute passes; ages beyond the longer window are alike.
Tick ==
    /\ rows' = [a \in Agents |-> [rows[a] EXCEPT !.age =
                  IF rows[a].status = "none" \/ @ > LiveTicks THEN @ ELSE @ + 1]]
    /\ UNCHANGED <<proc, last>>

SessionsNext ==
    \/ \E a \in Agents :
          \/ Launch(a) \/ LaunchFails(a) \/ agent_register(a)
          \/ \E status \in {"active", "idle"} : agent_heartbeat(a, status)
          \/ ExitSeen(a) \/ ExitUnseen(a)
    \/ get_agent_live_state \/ Tick

SessionsSpec == SessionsInit /\ [][SessionsNext]_sessionVars

-----------------------------------------------------------------------------
\* What the display scrubs and stamps stays in the display: an agent the app has launched,
\* and whose row still waits for it, is accepted when it registers with its launch token.
\* The comments say of these fields that they are scrubbed for the UI, and stamped at read
\* time and never persisted; the poll that reaps a row writes the displayed rows.
LaunchedCanRegister ==
    \A a \in Agents :
        proc[a].run /\ rows[a].status = "launch_pending" => validate_launch_token(a, proc[a].launch)
=============================================================================
