CONSTANTS
  Nil = Nil
  forward = forward
  reverse = reverse
  restricted = restricted
  c1 = c1
  c2 = c2
  c3 = c3
  c4 = c4
  k1 = k1
  k2 = k2
  k3 = k3
  k4 = k4
  k5 = k5
  s1 = s1
  Workers = {w1, w2}
  Jobs <- MCJobs
  Commands <- MCCommands
  Sessions = {s1}
  Scopes = {forward, reverse, restricted}
  AdmissionScopes <- MCAdmissionScopes
  Foreign <- MCForeign
  MaxTime = 2
  MaxJobs = 3
  MaxToggles = 1
  MaxFaults = 1
SPECIFICATION FairSpec
INVARIANTS
  CommitIsWhole
  RetryIsReplayed
  AuthorityHolds
  AdmittedUnblocked
PROPERTY TransactionEnds
CHECK_DEADLOCK FALSE
