SPECIFICATION CodexFairSpec
CONSTANTS
  Clients = {1, 2}
  Approvals = {1, 2, 3}
  ClientOf <- MCClientOf
  RequestId <- MCRequestId
  MaxInFlight = 1
INVARIANTS
  InFlightExact
  WaiterReachable
  NoWaiterOutlivesReader
PROPERTIES
  CodexReplied
  CodexRefinesGate
CHECK_DEADLOCK FALSE
