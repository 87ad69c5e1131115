CONSTANTS
  a = a
  b = b
  Denied = Denied
  NoLabel = NoLabel
  NoResidual = NoResidual
  Facts <- MCFacts
  Obligations <- MCObligations
  Labels <- MCLabels
  Outcomes <- MCOutcomes
  Meet <- MCMeet
  Join <- MCJoin
  Policies <- MCPolicies
SPECIFICATION ResidualSpec
INVARIANT PartialPreservesObligations
