SPECIFICATION PlanOnlySpec
CONSTANTS
  a1 = a1
  j1 = j1
  Agents = {a1}
  Projects = {j1}
  PlanIds = {1, 2}
  PlanOwner <- MCPlanOwner
  PlanProject <- MCPlanProject
  MaxPlan = 1
  Deciders = {c1}
  PlanFaults = {"lock", "kill", "crash", "write"}
  PushIds = {}
  PushOwner <- MCPushOwner
  MaxPush = 1
  GraceTicks = 1
INVARIANTS
  SidecarVerdictTrue
  SidecarSettled
  ApprovalPromotes
PROPERTIES
  PlanImplementsGate
  PlanEvictionSafe
CHECK_DEADLOCK FALSE
