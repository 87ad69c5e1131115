CONSTANTS
  Nil = Nil
  f = f
  g = g
  p = p
  q = q
  t1 = t1
  t2 = t2
  Facts <- MCFacts
  Tenants <- MCTenants
  Policies <- MCPolicies
  Decisions <- MCDecisions
  Required <- MCRequired
  Decide <- MCDecide
  Writers = {r1, r2}
  Serialized = FALSE
  Calls <- MixedCalls
  Resolutions <- MixedResolutions
  MaxTime = 1
  MaxRuns = 2
  MaxFaults = 1
SPECIFICATION Spec
INVARIANTS
  TypeOK
  
  ReturnedIsDurable
  ObservedIsDurable
  JudgedAtReceipt
  FrozenNeverConflicts
  AttemptExcludesDecision
  FailureIsRecorded
  ReplayAgrees
PROPERTY ImplementsPromise
