SPECIFICATION PushOnlySpec
CONSTANTS
  a1 = a1
  Agents = {a1}
  PushIds = {1, 2}
  PushOwner <- MCPushOwner
  MaxPush = 2
  GraceTicks = 2
  PlanIds = {}
  PlanOwner <- MCPlanOwner
  MaxPlan = 1
  Commands = {c1, c2}
  PushWindow = 1
  Faults = {"lock", "kill", "crash"}
SYMMETRY CommandSymmetry
INVARIANTS
  AtMostOnePush
  RecordTruthful
  InFlightHeld
  AnswerTruthful
  PushBellHasCause
PROPERTIES
  PushImplementsGate
CHECK_DEADLOCK FALSE
