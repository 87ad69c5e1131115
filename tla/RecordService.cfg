CONSTANTS
  Nil = Nil
  Null = Null
  Denied = Denied
  NoLabel = NoLabel
  demo = demo
  other = other
  ann = ann
  w1 = w1
  w2 = w2
  Facts <- RecordFacts
  Obligations = {}
  Labels = {NoLabel}
  Outcomes <- Access
  Meet <- MeetAccess
  Join <- JoinAccess
  Ordinal <- Rank
  Tenant = demo
  Tenants = {demo, other}
  People = {ann}
  Records = {1, 2, 3}
  Stored <- MCStored
  Workers = {w1, w2}
  Requests <- MCRequests
  InitialAccess <- MCInitialAccess
  Changes <- MCChanges
  PageLimit = 1
  MaxTime = 1
  MaxChanges = 1
  MaxFaults = 1
SPECIFICATION Spec
INVARIANTS
  PermissionIsFenced
  ListAgreesWithReads
  AnswersMatchAudit
