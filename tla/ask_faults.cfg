SPECIFICATION AskOnlyFairSpec
CONSTANTS
  a1 = a1
  a2 = a2
  Agents = {a1, a2}
  Questions = {1, 2, 3}
  Asker <- MCAsker
  AskFaults = {"lock", "kill", "prune"}
  PushIds = {}
  PushOwner <- MCPushOwner
  MaxPush = 1
  GraceTicks = 1
  PlanIds = {}
  PlanOwner <- MCPlanOwner
  MaxPlan = 1
INVARIANTS
  ReplyForOwnAgent
  QuestionBellHasCause
PROPERTIES
  AskReturns
CHECK_DEADLOCK FALSE
