SPECIFICATION SessionsSpec
CONSTANTS
  orch = orch
  c1 = c1
  c2 = c2
  Agents = {orch, c1, c2}
  Sidecar = {orch}
  Orchestrator = {orch}
  PendingTicks = 1
  LiveTicks = 2
  MaxTokens = 5
INVARIANTS
  LaunchedCanRegister
CHECK_DEADLOCK FALSE
