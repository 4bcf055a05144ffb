---------------------------- MODULE AskGateProofs ----------------------------
(***************************************************************************)
(* Proofs about the question gate, for any number of agents and of         *)
(* overlapping ask_user calls, and any subset of the faults.               *)
(*                                                                         *)
(* The reply carries no agent of its own: that it reaches a call of the    *)
(* right agent, once, rests on what the session's single pendingQuestion   *)
(* may hold (PendingInv): a question of this agent whose call has not been *)
(* answered.  Only the call that asked it writes it there, once.           *)
(***************************************************************************)
EXTENDS AskGate, TLAPS

\* A call that was told something has returned.
CallInv(q) == askCall[q].told # "none" => askCall[q].pc = "done"

\* The session's question is one of the agent's, and nobody was told its reply.
PendingInv(a) ==
    pendingQuestion[a] # NoQuestion =>
        Asker[pendingQuestion[a]] = a /\ askCall[pendingQuestion[a]].told # "reply"

\* What the reply box shows, possibly stale, is a question of the agent.
ShownInv(a) == shown[a] # NoQuestion => Asker[shown[a]] = a

\* The session's reply is to a question that nobody was told the reply of.
ReplyInv(a) ==
    userReply[a] # NoReply =>
        /\ userReply[a].questionId \in Questions /\ userReply[a].about \in Questions
        /\ Asker[userReply[a].questionId] = a /\ Asker[userReply[a].about] = a
        /\ askCall[userReply[a].questionId].told # "reply"

BellInv(a) == needsUser[a] = "question" => pendingQuestion[a] # NoQuestion

AskInv ==
    /\ AskOnlyTypeOK
    /\ \A q \in Questions : CallInv(q)
    /\ \A a \in Agents : PendingInv(a) /\ ShownInv(a) /\ ReplyInv(a) /\ BellInv(a)

-----------------------------------------------------------------------------
\* NoQuestion is no question, and every question has an asking agent.
LEMMA QuestionFacts ==
  NoQuestion \notin Questions /\ \A q \in Questions : Asker[q] \in Agents
  BY AskConstants DEF NoQuestion

\* The types, one variable at a time.
LEMMA AskTypes ==
  ASSUME AskInv
  PROVE  /\ session \in [Agents -> SessionStatus] /\ needsUser \in [Agents -> Reasons]
         /\ pendingQuestion \in [Agents -> QuestionOrNone]
         /\ shown \in [Agents -> QuestionOrNone]
         /\ userReply \in [Agents -> [questionId: QuestionOrNone, about: QuestionOrNone]]
         /\ askCall \in [Questions -> [pc: {"idle", "poll", "timeout", "done"},
                                       told: {"none", "error", "reply", "timeout"},
                                       about: QuestionOrNone]]
  BY DEF AskInv, AskOnlyTypeOK, GateTypeOK, AskTypeOK

\* Putting the question.
LEMMA AskUserKeeps ==
  ASSUME AskInv, NEW q \in Questions, AskUser(q)
  PROVE  AskInv'
  <1> DEFINE a == Asker[q]
  <1>1. /\ askCall[q].pc = "idle" /\ a \in Agents
        /\ needsUser' = [needsUser EXCEPT ![a] = "question"]
        /\ pendingQuestion' = [pendingQuestion EXCEPT ![a] = q]
        /\ userReply' = [userReply EXCEPT ![a] = NoReply]
        /\ askCall' = [askCall EXCEPT ![q].pc = "poll"]
        /\ UNCHANGED <<session, pushReq, planReq, shown>>
    BY QuestionFacts DEF AskUser, set_needs_user
  <1>2. AskOnlyTypeOK'
    BY <1>1 DEF AskInv, AskOnlyTypeOK, GateTypeOK, AskTypeOK, Reasons, NoReply, QuestionOrNone
  <1>3. /\ \A p \in Questions : askCall'[p].told = askCall[p].told
        /\ \A p \in Questions : p # q => askCall'[p] = askCall[p]
    BY <1>1, AskTypes
  <1>4. askCall[q].told = "none"
    BY <1>1, AskTypes DEF AskInv, CallInv
  <1>5. \A p \in Questions : CallInv(p)'
    BY <1>3, <1>4 DEF AskInv, CallInv
  <1>6. ASSUME NEW b \in Agents
        PROVE  PendingInv(b)' /\ ShownInv(b)' /\ ReplyInv(b)' /\ BellInv(b)'
    <2>1. CASE b = a
      BY <1>1, <1>3, <1>4, <2>1, AskTypes, QuestionFacts
         DEF AskInv, PendingInv, ShownInv, ReplyInv, BellInv
    <2>2. CASE b # a
      <3>1. /\ pendingQuestion'[b] = pendingQuestion[b] /\ userReply'[b] = userReply[b]
            /\ needsUser'[b] = needsUser[b] /\ shown'[b] = shown[b]
        BY <1>1, <2>2, AskTypes
      <3> QED BY <1>3, <3>1, AskTypes
              DEF AskInv, PendingInv, ShownInv, ReplyInv, BellInv, QuestionOrNone
    <2> QED BY <2>1, <2>2
  <1> QED BY <1>2, <1>5, <1>6 DEF AskInv

\* A call moves, or returns anything but a reply; the session is left alone.
LEMMA CallMovesKeeps ==
  ASSUME AskInv, NEW q \in Questions,
         NEW r \in [pc: {"idle", "poll", "timeout", "done"},
                    told: {"none", "error", "timeout"}, about: QuestionOrNone],
         askCall' = [askCall EXCEPT ![q] = r], r.told # "none" => r.pc = "done",
         UNCHANGED <<gateVars, pendingQuestion, userReply, shown>>
  PROVE  AskInv'
  <1>1. AskOnlyTypeOK'
    BY DEF gateVars, AskInv, AskOnlyTypeOK, GateTypeOK, AskTypeOK
  <1>2. \A p \in Questions : askCall'[p] = IF p = q THEN r ELSE askCall[p]
    BY AskTypes
  <1>3. \A p \in Questions : CallInv(p)'
    BY <1>2 DEF AskInv, CallInv
  <1>4. \A b \in Agents : PendingInv(b)' /\ ShownInv(b)' /\ ReplyInv(b)' /\ BellInv(b)'
    BY <1>2, AskTypes DEF gateVars, AskInv, PendingInv, ShownInv, ReplyInv, BellInv, QuestionOrNone
  <1> QED BY <1>1, <1>3, <1>4 DEF AskInv

\* The moves of that kind.
LEMMA OtherCallStepsKeep ==
  ASSUME AskInv, NEW q \in Questions,
         \/ RefuseAsk(q) \/ PollAskGone(q) \/ PollAskFails(q)
         \/ PollAskDeadline(q) \/ KillAsk(q)
  PROVE  AskInv'
  <1>1. UNCHANGED <<gateVars, pendingQuestion, userReply, shown>>
    BY DEF RefuseAsk, PollAskGone, PollAskFails, PollAskDeadline, KillAsk
  <1>2. CASE PollAskDeadline(q)
    <2> DEFINE r == [askCall[q] EXCEPT !.pc = "timeout"]
    <2>1. askCall[q].pc = "poll" /\ askCall[q].told = "none"
      BY <1>2, AskTypes DEF PollAskDeadline, AskInv, CallInv
    <2>2. r \in [pc: {"idle", "poll", "timeout", "done"},
                 told: {"none", "error", "timeout"}, about: QuestionOrNone]
      BY <2>1, AskTypes
    <2>3. askCall' = [askCall EXCEPT ![q] = r] /\ r.told = "none"
      BY <1>2, <2>1, AskTypes DEF PollAskDeadline
    <2> QED BY <1>1, <2>2, <2>3, CallMovesKeeps
  <1>3. CASE RefuseAsk(q) \/ PollAskGone(q) \/ PollAskFails(q) \/ KillAsk(q)
    <2>1. PICK t \in {"none", "error", "timeout"} :
            askCall' = [askCall EXCEPT ![q] = [pc |-> "done", told |-> t, about |-> NoQuestion]]
      BY <1>3 DEF RefuseAsk, PollAskGone, PollAskFails, KillAsk, AskReturn
    <2> DEFINE r == [pc |-> "done", told |-> t, about |-> NoQuestion]
    <2>2. r \in [pc: {"idle", "poll", "timeout", "done"},
                 told: {"none", "error", "timeout"}, about: QuestionOrNone]
      BY DEF QuestionOrNone
    <2> QED BY <1>1, <2>1, <2>2, CallMovesKeeps
  <1> QED BY <1>2, <1>3

\* A poll that finds a reply.
LEMMA PollReplyKeeps ==
  ASSUME AskInv, NEW q \in Questions, PollAskReply(q)
  PROVE  AskInv'
  <1> DEFINE a == Asker[q]
  <1>1. /\ askCall[q].pc = "poll" /\ a \in Agents /\ userReply[a] # NoReply
        /\ userReply' = [userReply EXCEPT ![a] = NoReply]
        /\ UNCHANGED <<session, pushReq, planReq, shown>>
    BY QuestionFacts DEF PollAskReply
  <1>2. CASE MyReply(q)
    <2> DEFINE r == [pc |-> "done", told |-> "reply", about |-> userReply[a].about]
    <2>1. /\ pendingQuestion' = [pendingQuestion EXCEPT ![a] = NoQuestion]
          /\ needsUser' = [needsUser EXCEPT ![a] = IF @ = "question" THEN "none" ELSE @]
          /\ askCall' = [askCall EXCEPT ![q] = r]
      BY <1>2 DEF PollAskReply, AskReturn, clear_needs_user_if_reason
    <2>2. AskOnlyTypeOK'
      BY <1>1, <2>1 DEF AskInv, AskOnlyTypeOK, GateTypeOK, AskTypeOK, Reasons, NoReply, QuestionOrNone
    <2>3. \A p \in Questions : askCall'[p] = IF p = q THEN r ELSE askCall[p]
      BY <2>1, AskTypes
    <2>4. \A p \in Questions : CallInv(p)'
      BY <2>3 DEF AskInv, CallInv
    <2>5. ASSUME NEW b \in Agents
          PROVE  PendingInv(b)' /\ ShownInv(b)' /\ ReplyInv(b)' /\ BellInv(b)'
      <3>1. CASE b = a
        BY <1>1, <2>1, <2>3, <3>1, AskTypes DEF AskInv, PendingInv, ShownInv, ReplyInv, BellInv
      <3>2. CASE b # a
        <4>1. /\ pendingQuestion'[b] = pendingQuestion[b] /\ userReply'[b] = userReply[b]
              /\ needsUser'[b] = needsUser[b] /\ shown'[b] = shown[b]
          BY <1>1, <2>1, <3>2, AskTypes
        <4>2. /\ pendingQuestion[b] # NoQuestion =>
                    pendingQuestion[b] \in Questions /\ pendingQuestion[b] # q
              /\ userReply[b] # NoReply => userReply[b].questionId # q
          BY <3>2, AskTypes DEF AskInv, PendingInv, ReplyInv, QuestionOrNone
        <4>3. PendingInv(b) /\ ShownInv(b) /\ ReplyInv(b) /\ BellInv(b)
          BY DEF AskInv
        <4>4. PendingInv(b)' /\ ShownInv(b)' /\ BellInv(b)'
          BY <2>3, <4>1, <4>2, <4>3 DEF PendingInv, ShownInv, BellInv
        <4>5. ReplyInv(b)'
          BY <2>3, <4>1, <4>2, <4>3 DEF ReplyInv
        <4> QED BY <4>4, <4>5
      <3> QED BY <3>1, <3>2
    <2> QED BY <2>2, <2>4, <2>5 DEF AskInv
  <1>3. CASE ~MyReply(q)
    <2>1. UNCHANGED <<pendingQuestion, needsUser, askCall>>
      BY <1>3 DEF PollAskReply
    <2>2. AskOnlyTypeOK'
      BY <1>1, <2>1 DEF AskInv, AskOnlyTypeOK, GateTypeOK, AskTypeOK, NoReply, QuestionOrNone
    <2>3. \A p \in Questions : CallInv(p)'
      BY <2>1 DEF AskInv, CallInv
    <2>4. \A b \in Agents : PendingInv(b)' /\ ShownInv(b)' /\ ReplyInv(b)' /\ BellInv(b)'
      BY <1>1, <2>1, AskTypes DEF AskInv, PendingInv, ShownInv, ReplyInv, BellInv
    <2> QED BY <2>2, <2>3, <2>4 DEF AskInv
  <1> QED BY <1>2, <1>3

\* The timeout's sweep: the bell goes silent before the question can be gone.
LEMMA SweepAskKeeps ==
  ASSUME AskInv, NEW q \in Questions, SweepAsk(q)
  PROVE  AskInv'
  <1> DEFINE a == Asker[q]
             r == [pc |-> "done", told |-> "timeout", about |-> NoQuestion]
  <1>1. /\ a \in Agents /\ UNCHANGED <<session, pushReq, planReq, userReply, shown>>
        /\ askCall' = [askCall EXCEPT ![q] = r]
    BY QuestionFacts DEF SweepAsk, AskReturn
  <1>2. CASE UNCHANGED <<pendingQuestion, needsUser>>
    <2>1. r \in [pc: {"idle", "poll", "timeout", "done"},
                 told: {"none", "error", "timeout"}, about: QuestionOrNone]
      BY DEF QuestionOrNone
    <2> QED BY <1>1, <1>2, <2>1, CallMovesKeeps DEF gateVars
  <1>3. CASE /\ pendingQuestion' = [pendingQuestion EXCEPT ![a] = IF @ = q THEN NoQuestion ELSE @]
             /\ needsUser' = clear_needs_user_if_reason(a, "question")
    <2>1. needsUser' = [needsUser EXCEPT ![a] = IF @ = "question" THEN "none" ELSE @]
      BY <1>3 DEF clear_needs_user_if_reason
    <2>2. AskOnlyTypeOK'
      BY <1>1, <1>3, <2>1 DEF AskInv, AskOnlyTypeOK, GateTypeOK, AskTypeOK, Reasons, QuestionOrNone
    <2>3. \A p \in Questions : askCall'[p] = IF p = q THEN r ELSE askCall[p]
      BY <1>1, AskTypes
    <2>4. \A p \in Questions : CallInv(p)'
      BY <2>3 DEF AskInv, CallInv
    <2>5. ASSUME NEW b \in Agents
          PROVE  PendingInv(b)' /\ ShownInv(b)' /\ ReplyInv(b)' /\ BellInv(b)'
      <3>1. /\ pendingQuestion'[b] \in {pendingQuestion[b], NoQuestion}
            /\ needsUser'[b] = "question" => /\ needsUser[b] = "question"
                                             /\ pendingQuestion'[b] = pendingQuestion[b]
        BY <1>3, <2>1, AskTypes
      <3> QED BY <1>1, <2>3, <3>1, AskTypes
              DEF AskInv, PendingInv, ShownInv, ReplyInv, BellInv, QuestionOrNone
    <2> QED BY <2>2, <2>4, <2>5 DEF AskInv
  <1> QED BY <1>2, <1>3 DEF SweepAsk

\* The human's side: the box refreshes, the reply is stamped with what is pending.
LEMMA HumanKeeps ==
  ASSUME AskInv, NEW a \in Agents, ShowQuestion(a) \/ reply_to_agent(a)
  PROVE  AskInv'
  <1>1. CASE ShowQuestion(a)
    <2>1. /\ shown' = [shown EXCEPT ![a] = pendingQuestion[a]]
          /\ UNCHANGED <<session, needsUser, pushReq, planReq, askCall, pendingQuestion, userReply>>
      BY <1>1 DEF ShowQuestion, gateVars
    <2>2. AskOnlyTypeOK'
      BY <2>1 DEF AskInv, AskOnlyTypeOK, GateTypeOK, AskTypeOK
    <2>3. \A p \in Questions : CallInv(p)'
      BY <2>1 DEF AskInv, CallInv
    <2>4. \A b \in Agents : PendingInv(b)' /\ ShownInv(b)' /\ ReplyInv(b)' /\ BellInv(b)'
      BY <2>1, AskTypes DEF AskInv, PendingInv, ShownInv, ReplyInv, BellInv
    <2> QED BY <2>2, <2>3, <2>4 DEF AskInv
  <1>2. CASE reply_to_agent(a)
    <2> DEFINE r == [questionId |-> pendingQuestion[a], about |-> shown[a]]
    <2>1. /\ shown[a] # NoQuestion /\ pendingQuestion[a] # NoQuestion
          /\ userReply' = [userReply EXCEPT ![a] = r]
          /\ needsUser' = [needsUser EXCEPT ![a] = IF @ = "question" THEN "none" ELSE @]
          /\ UNCHANGED <<session, pushReq, planReq, askCall, pendingQuestion, shown>>
      BY <1>2 DEF reply_to_agent, clear_needs_user_if_reason
    <2>2. AskOnlyTypeOK'
      BY <2>1 DEF AskInv, AskOnlyTypeOK, GateTypeOK, AskTypeOK, Reasons
    <2>3. \A p \in Questions : CallInv(p)'
      BY <2>1 DEF AskInv, CallInv
    <2>4. \A b \in Agents : PendingInv(b)' /\ ShownInv(b)' /\ BellInv(b)'
      BY <2>1, AskTypes DEF AskInv, PendingInv, ShownInv, BellInv
    <2>5. \A b \in Agents : userReply'[b] = IF b = a THEN r ELSE userReply[b]
      BY <2>1, AskTypes
    <2>6. pendingQuestion[a] \in Questions /\ shown[a] \in Questions
      BY <2>1, AskTypes DEF QuestionOrNone
    <2>7. \A b \in Agents : ReplyInv(b)'
      BY <2>1, <2>5, <2>6 DEF AskInv, PendingInv, ShownInv, ReplyInv
    <2> QED BY <2>2, <2>3, <2>4, <2>7 DEF AskInv
  <1> QED BY <1>1, <1>2

\* A session that is pruned takes its question, its reply and its bell along.
LEMMA PruneKeeps ==
  ASSUME AskInv, NEW a \in Agents, PruneSession(a)
  PROVE  AskInv'
  <1>1. /\ session' = [session EXCEPT ![a] = "absent"]
        /\ needsUser' = [needsUser EXCEPT ![a] = "none"]
        /\ pendingQuestion' = [pendingQuestion EXCEPT ![a] = NoQuestion]
        /\ userReply' = [userReply EXCEPT ![a] = NoReply]
        /\ UNCHANGED <<pushReq, planReq, askCall, shown>>
    BY DEF PruneSession
  <1>2. AskOnlyTypeOK'
    BY <1>1 DEF AskInv, AskOnlyTypeOK, GateTypeOK, AskTypeOK, SessionStatus, Reasons, NoReply,
       QuestionOrNone
  <1>3. \A p \in Questions : CallInv(p)'
    BY <1>1 DEF AskInv, CallInv
  <1>4. ASSUME NEW b \in Agents
        PROVE  PendingInv(b)' /\ ShownInv(b)' /\ ReplyInv(b)' /\ BellInv(b)'
    <2>1. CASE b = a
      <3>1. /\ pendingQuestion'[b] = NoQuestion /\ userReply'[b] = NoReply
            /\ needsUser'[b] = "none" /\ shown'[b] = shown[b]
        BY <1>1, <2>1, AskTypes
      <3> QED BY <3>1 DEF AskInv, PendingInv, ShownInv, ReplyInv, BellInv
    <2>2. CASE b # a
      <3>1. /\ pendingQuestion'[b] = pendingQuestion[b] /\ userReply'[b] = userReply[b]
            /\ needsUser'[b] = needsUser[b] /\ shown'[b] = shown[b]
        BY <1>1, <2>2, AskTypes
      <3> QED BY <1>1, <3>1 DEF AskInv, PendingInv, ShownInv, ReplyInv, BellInv
    <2> QED BY <2>1, <2>2
  <1> QED BY <1>2, <1>3, <1>4 DEF AskInv

-----------------------------------------------------------------------------
\* No question, call or bell exists at the start.
LEMMA AskInitInv == AskOnlyInit => AskInv
  BY GateConstants DEF AskOnlyInit, GateInit, AskInit, AskInv, AskOnlyTypeOK, GateTypeOK, AskTypeOK,
     SessionStatus, Reasons, PushRow, PushStatus, PushTerminal, PlanRow, PlanStatus,
     PlanTerminal, QuestionOrNone, NoReply, CallInv, PendingInv, ShownInv, ReplyInv, BellInv

\* Every step of the question gate keeps the invariant.
LEMMA AskStepInv == AskInv /\ [AskNext]_askOnlyVars => AskInv'
  <1> SUFFICES ASSUME AskInv, [AskNext]_askOnlyVars PROVE AskInv'
    OBVIOUS
  <1>1. ASSUME NEW q \in Questions, AskUser(q) \/ RefuseAsk(q) \/ AskCallStep(q) \/ KillAsk(q)
        PROVE  AskInv'
    BY <1>1, AskUserKeeps, OtherCallStepsKeep, PollReplyKeeps, SweepAskKeeps
       DEF AskCallStep, AskCallProgress
  <1>2. ASSUME NEW a \in Agents, ShowQuestion(a) \/ reply_to_agent(a) \/ PruneSession(a)
        PROVE  AskInv'
    BY <1>2, HumanKeeps, PruneKeeps
  <1>3. CASE UNCHANGED askOnlyVars
    BY <1>3 DEF askOnlyVars, gateVars, askLocal, AskInv, AskOnlyTypeOK, GateTypeOK, AskTypeOK,
       CallInv, PendingInv, ShownInv, ReplyInv, BellInv
  <1> QED BY <1>1, <1>2, <1>3 DEF AskNext

\* The inductive invariant of the question gate.
THEOREM AskInvariant == AskOnlySpec => []AskInv
  BY AskInitInv, AskStepInv, PTL DEF AskOnlySpec

\* A reply is for a question of its own agent, and at most one call is told of it.
THEOREM AskReplyForOwnAgent == AskOnlySpec => []ReplyForOwnAgent
  <1>1. AskInv => ReplyForOwnAgent
    BY DEF AskInv, ReplyInv, ReplyForOwnAgent
  <1> QED BY <1>1, AskInvariant, PTL

\* The question bell rings only while the session holds a question.
THEOREM AskBellHasCause == AskOnlySpec => []QuestionBellHasCause
  <1>1. AskInv => QuestionBellHasCause
    BY DEF AskInv, BellInv, QuestionBellHasCause
  <1> QED BY <1>1, AskInvariant, PTL
=============================================================================
