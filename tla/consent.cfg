SPECIFICATION MCFairSpec
CONSTANTS
  a1 = a1
  w1 = w1
  w2 = w2
  net = net
  folder = folder
  p1 = p1
  Agents = {a1}
  Hooks = {1, 2}
  HookAgent <- MCHookAgent
  Workers = {w1, w2}
  WorkerProject <- MCWorkerProject
  Blocks = {3, 4, 5}
  Blocked <- MCBlocked
  Subject <- MCSubject
  Subjects = {net, folder}
  SubjectProject <- MCSubjectProject
  Projects = {p1}
  MaxConsent = 1
  MaxErrors = 2
  MaxOnce = 1
  MaxRestarts = 1
  MaxModes = 1
  Faults = {"lock", "kill"}
INVARIANTS
  ConsentBellHasCause
  OneShotConserved
PROPERTIES
  QueueKeepsVerdicts
  HookReturns
  HookRefinesGate
CHECK_DEADLOCK FALSE
