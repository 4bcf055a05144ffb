SPECIFICATION PlanOnlySpec
CONSTANTS
  a1 = a1
  j1 = j1
  Agents = {a1}
  Projects = {j1}
  PlanIds = {1}
  PlanOwner <- MCPlanOwner
  PlanProject <- MCPlanProject
  MaxPlan = 1
  Deciders = {c1}
  PlanFaults = {}
  PushIds = {}
  PushOwner <- MCPushOwner
  MaxPush = 1
  GraceTicks = 1
INVARIANTS PromotionMeansApproved
CHECK_DEADLOCK FALSE
