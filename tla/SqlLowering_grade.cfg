CONSTANTS
  a = a
  b = b
  Denied = Denied
  NoLabel = NoLabel
  NoResidual = NoResidual
  NoRow = NoRow
  Null = Null
  Facts <- MCFacts
  Obligations <- MCObligations
  Labels <- MCLabels
  Outcomes <- MCOutcomes
  Meet <- MCMeet
  Join <- MCJoin
  Ordinal <- MCOrdinal
  Policies <- MCPolicies
  Tenant = "mine"
  Tenants = {"mine", "other"}
SPECIFICATION ListSpec
INVARIANT GradeIsGranted
