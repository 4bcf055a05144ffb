------------------------------- MODULE AskGate -------------------------------
(***************************************************************************)
(* The question gate: ask_user (devboule-mcp) leaves a pendingQuestion on  *)
(* the agent's session and polls for a userReply, which the human's reply  *)
(* box writes through reply_to_agent (src-tauri).                          *)
(*                                                                         *)
(* One agent can have several ask_user calls running: its client may issue *)
(* tool calls in parallel, or give up on a call that the tool server keeps *)
(* polling for.  The session has room for one question and one reply.      *)
(***************************************************************************)
EXTENDS GateState

CONSTANTS
    Questions,    \* ids of ask_user questions
    Asker,        \* the agent that asks each question
    AskFaults     \* failures considered: see Faults of GitPushGate; and a session that is
                  \* closed and pruned while its agent asks

ASSUME AskConstants ==
    /\ Questions \subseteq Nat
    /\ Asker \in [Questions -> Agents]
    /\ AskFaults \subseteq {"lock", "kill", "prune"}

VARIABLES
    askCall,          \* each ask_user call: pc and answer told to the agent
    pendingQuestion,  \* the session's pendingQuestion id
    userReply,        \* the session's userReply: its questionId and, as history,
                      \* the question the human was reading when writing it
    shown             \* the question the human's reply box displays

askLocal == <<askCall, pendingQuestion, userReply, shown>>

NoQuestion == -1

NoReply == [questionId |-> NoQuestion, about |-> NoQuestion]

QuestionOrNone == Questions \cup {NoQuestion}

AskTypeOK ==
    /\ askCall \in [Questions -> [pc: {"idle", "poll", "timeout", "done"},
                                  told: {"none", "error", "reply", "timeout"},
                                  about: QuestionOrNone]]
    /\ pendingQuestion \in [Agents -> QuestionOrNone]
    /\ userReply \in [Agents -> [questionId: QuestionOrNone, about: QuestionOrNone]]
    /\ shown \in [Agents -> QuestionOrNone]

AskInit ==
    /\ askCall = [q \in Questions |-> [pc |-> "idle", told |-> "none", about |-> NoQuestion]]
    /\ pendingQuestion = [a \in Agents |-> NoQuestion]
    /\ userReply = [a \in Agents |-> NoReply]
    /\ shown = [a \in Agents |-> NoQuestion]

-----------------------------------------------------------------------------
AskReturn(q, answer, about) ==
    askCall' = [askCall EXCEPT ![q] = [pc |-> "done", told |-> answer, about |-> about]]

\* The locked section that puts the question; it drops any earlier reply.
AskUser(q) ==
    LET a == Asker[q]
    IN  /\ askCall[q].pc = "idle"
        /\ session[a] = "active"
        /\ BellFree(a, "question")
        /\ needsUser' = set_needs_user(a, "question")
        /\ pendingQuestion' = [pendingQuestion EXCEPT ![a] = q]
        /\ userReply' = [userReply EXCEPT ![a] = NoReply]
        /\ askCall' = [askCall EXCEPT ![q].pc = "poll"]
        /\ UNCHANGED <<session, pushReq, planReq, shown>>

RefuseAsk(q) ==
    /\ askCall[q].pc = "idle"
    /\ \/ session[Asker[q]] # "active"
       \/ ~BellFree(Asker[q], "question")
       \/ "lock" \in AskFaults
    /\ AskReturn(q, "error", NoQuestion)
    /\ UNCHANGED <<gateVars, pendingQuestion, userReply, shown>>

MyReply(q) ==
    /\ userReply[Asker[q]].questionId = q
    /\ pendingQuestion[Asker[q]] = q

\* Mutant: the reply stays in the session after it was taken.
ReplyKept(q) ==
    LET a == Asker[q]
    IN  /\ askCall[q].pc = "poll"
        /\ MyReply(q)
        /\ pendingQuestion' = [pendingQuestion EXCEPT ![a] = NoQuestion]
        /\ needsUser' = clear_needs_user_if_reason(a, "question")
        /\ AskReturn(q, "reply", userReply[a].about)
        /\ UNCHANGED <<session, pushReq, planReq, userReply, shown>>

\* One poll that finds a reply: take it if it is for this call, drop it if not.
PollAskReply(q) ==
    LET a == Asker[q]
    IN  /\ askCall[q].pc = "poll"
        /\ userReply[a] # NoReply
        /\ userReply' = [userReply EXCEPT ![a] = NoReply]
        /\ IF MyReply(q)
           THEN /\ pendingQuestion' = [pendingQuestion EXCEPT ![a] = NoQuestion]
                /\ needsUser' = clear_needs_user_if_reason(a, "question")
                /\ AskReturn(q, "reply", userReply[a].about)
           ELSE UNCHANGED <<pendingQuestion, needsUser, askCall>>
        /\ UNCHANGED <<session, pushReq, planReq, shown>>

\* One poll that finds no session.
PollAskGone(q) ==
    /\ askCall[q].pc = "poll"
    /\ session[Asker[q]] = "absent"
    /\ AskReturn(q, "timeout", NoQuestion)
    /\ UNCHANGED <<gateVars, pendingQuestion, userReply, shown>>

PollAskFails(q) ==
    /\ "lock" \in AskFaults
    /\ askCall[q].pc = "poll"
    /\ AskReturn(q, "error", NoQuestion)
    /\ UNCHANGED <<gateVars, pendingQuestion, userReply, shown>>

\* Mutant: a question that was replaced by a later one has no deadline.
DeadlinePending(q) ==
    /\ askCall[q].pc = "poll" /\ pendingQuestion[Asker[q]] = q
    /\ askCall' = [askCall EXCEPT ![q].pc = "timeout"]
    /\ UNCHANGED <<gateVars, pendingQuestion, userReply, shown>>

PollAskDeadline(q) ==
    /\ askCall[q].pc = "poll"
    /\ askCall' = [askCall EXCEPT ![q].pc = "timeout"]
    /\ UNCHANGED <<gateVars, pendingQuestion, userReply, shown>>

\* Mutant: the timeout forgets to silence the bell.
SweepKeepsBell(q) ==
    LET a == Asker[q]
    IN  /\ askCall[q].pc = "timeout"
        /\ pendingQuestion' = [pendingQuestion EXCEPT ![a] = IF @ = q THEN NoQuestion ELSE @]
        /\ AskReturn(q, "timeout", NoQuestion)
        /\ UNCHANGED <<session, pushReq, planReq, userReply, shown, needsUser>>

\* The timeout: clear the own question and the question bell, whoever's it is.
SweepAsk(q) ==
    LET a == Asker[q]
    IN  /\ askCall[q].pc = "timeout"
        /\ \/ /\ pendingQuestion' = [pendingQuestion EXCEPT ![a] = IF @ = q THEN NoQuestion
                                                                             ELSE @]
              /\ needsUser' = clear_needs_user_if_reason(a, "question")
           \/ "lock" \in AskFaults /\ UNCHANGED <<pendingQuestion, needsUser>>
        /\ AskReturn(q, "timeout", NoQuestion)
        /\ UNCHANGED <<session, pushReq, planReq, userReply, shown>>

KillAsk(q) ==
    /\ "kill" \in AskFaults
    /\ askCall[q].pc \in {"poll", "timeout"}
    /\ AskReturn(q, "none", NoQuestion)
    /\ UNCHANGED <<gateVars, pendingQuestion, userReply, shown>>

\* What a call is bound to get to: a poll that finds nothing ends at its deadline.
AskCallProgress(q) == PollAskDeadline(q) \/ SweepAsk(q)

AskCallStep(q) == \/ AskCallProgress(q) \/ PollAskReply(q) \/ PollAskGone(q)
                  \/ PollAskFails(q)

-----------------------------------------------------------------------------
\* The reply box refreshes from the live state.
ShowQuestion(a) ==
    /\ shown[a] # pendingQuestion[a]
    /\ shown' = [shown EXCEPT ![a] = pendingQuestion[a]]
    /\ UNCHANGED <<gateVars, askCall, pendingQuestion, userReply>>

\* The command names the agent, not the question: the reply is stamped with the
\* question that is pending when the lock is taken.
reply_to_agent(a) ==
    /\ shown[a] # NoQuestion
    /\ pendingQuestion[a] # NoQuestion
    /\ userReply' = [userReply EXCEPT ![a] = [questionId |-> pendingQuestion[a],
                                              about |-> shown[a]]]
    /\ needsUser' = clear_needs_user_if_reason(a, "question")
    /\ UNCHANGED <<session, pushReq, planReq, askCall, pendingQuestion, shown>>

\* prune_closed_sessions, after the session was closed: the row goes with all it holds.
PruneSession(a) ==
    /\ "prune" \in AskFaults
    /\ session[a] # "absent"
    /\ session' = [session EXCEPT ![a] = "absent"]
    /\ needsUser' = [needsUser EXCEPT ![a] = "none"]
    /\ pendingQuestion' = [pendingQuestion EXCEPT ![a] = NoQuestion]
    /\ userReply' = [userReply EXCEPT ![a] = NoReply]
    /\ UNCHANGED <<pushReq, planReq, askCall, shown>>

AskNext ==
    \/ \E q \in Questions : \/ AskUser(q) \/ RefuseAsk(q) \/ AskCallStep(q) \/ KillAsk(q)
    \/ \E a \in Agents : ShowQuestion(a) \/ reply_to_agent(a) \/ PruneSession(a)

-----------------------------------------------------------------------------
(***************************************************************************)
(* The question gate alone.                                                *)
(***************************************************************************)
AskOnlyInit == GateInit /\ AskInit

askOnlyVars == <<gateVars, askLocal>>

AskOnlySpec == AskOnlyInit /\ [][AskNext]_askOnlyVars

\* Polling is bounded by a deadline.
AskOnlyFairSpec ==
    AskOnlySpec /\ \A q \in Questions : WF_askOnlyVars(AskCallProgress(q))

AskOnlyTypeOK == GateTypeOK /\ AskTypeOK

-----------------------------------------------------------------------------
(***************************************************************************)
(* Properties.                                                             *)
(***************************************************************************)

\* However calls of one agent overlap, at most one of them is told a given reply,
\* and the reply waiting in the session was stamped for, and written below, a question
\* of that agent.
ReplyForOwnAgent ==
    \A a \in Agents : userReply[a] # NoReply =>
        /\ userReply[a].questionId \in Questions
        /\ Asker[userReply[a].questionId] = a /\ Asker[userReply[a].about] = a
        /\ askCall[userReply[a].questionId].told # "reply"

\* The question bell rings only while the session holds a question.
QuestionBellHasCause ==
    \A a \in Agents : needsUser[a] = "question" => pendingQuestion[a] # NoQuestion

\* Every ask_user call returns.
AskReturns == \A q \in Questions : askCall[q].pc # "idle" ~> askCall[q].pc = "done"
=============================================================================
