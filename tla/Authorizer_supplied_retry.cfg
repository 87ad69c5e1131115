CONSTANTS
  Nil = Nil
  f = f
  g = g
  p = p
  q = q
  t1 = t1
  t2 = t2
  Facts <- MCFacts
  Tenants <- MCTenants
  Policies <- MCPolicies
  Decisions <- MCDecisions
  Required <- MCRequired
  Decide <- MCDecide
  Writers = {r1}
  Serialized = FALSE
  Calls <- RetryCalls
  Resolutions <- RetryResolutions
  MaxTime = 1
  MaxRuns = 2
  MaxFaults = 1
SPECIFICATION Spec
INVARIANT SuppliedRetryAccepted
