\* One application thread, as libkommpot.h's attention notes assume, and every failure.
CONSTANTS
  c1 = c1
  c2 = c2
  Clients <- OneClient
  MaxRequests = 3
  MaxRefusals = 2
  Failures <- AllFailures
SPECIFICATION Spec
INVARIANTS
  AtMostOneEnumeration
  CallerNeverBlocked
  QuiescentAfterDeinitialize
PROPERTIES
  ImplementsService
  DeinitializeTerminates
