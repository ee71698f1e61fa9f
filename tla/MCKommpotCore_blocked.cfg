\* Two application threads: the claim of the comment at kommpot_core.h:42.
CONSTANTS
  c1 = c1
  c2 = c2
  Clients <- TwoClients
  MaxRequests = 2
  MaxRefusals = 1
  Failures <- NoFailure
SPECIFICATION SafetySpec
INVARIANT CallerNeverBlocked
