CONSTANTS
  Nil = Nil
  Bound <- MCBound
  SubjectOf <- MCSubjectOf
  Order <- MCOrder
  Tenant = "mine"
  Requests <- MCRequests
  Assignments <- MCAssignments
  MaxTime = 2
  MaxChanges = 2
SPECIFICATION Spec
INVARIANTS
  SubjectIsConsistent
  FreshnessBoundsPresence
  PathsAgree
  EvidenceIsCurrent
