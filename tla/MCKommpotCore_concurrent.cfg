\* Two application threads that request enumerations at the same time.
CONSTANTS
  c1 = c1
  c2 = c2
  Clients <- TwoClients
  MaxRequests = 2
  MaxRefusals = 1
  Failures <- NoFailure
SPECIFICATION Spec
INVARIANTS
  RequestsNeverInterleave
PROPERTIES
  GuardReleased
  EveryRequestCompletes
