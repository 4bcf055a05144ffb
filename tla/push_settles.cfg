SPECIFICATION PushOnlyFairSpec
CONSTANTS
  a1 = a1
  Agents = {a1}
  PushIds = {1, 2}
  PushOwner <- MCPushOwner
  MaxPush = 1
  GraceTicks = 2
  PlanIds = {}
  PlanOwner <- MCPlanOwner
  MaxPlan = 1
  Commands = {c1}
  PushWindow = 1
  Faults = {"kill", "crash"}
INVARIANTS
  ToldTimeoutNeverPushed
PROPERTIES
  ApprovedResolves
  PushCallReturns
CHECK_DEADLOCK FALSE
