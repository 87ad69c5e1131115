CONSTANTS
  Nil = Nil
  t1 = t1
  t2 = t2
  s1 = s1
  s2 = s2
  i1 = i1
  i2 = i2
  l1 = l1
  p = p
  Tenants = {t1, t2}
  Source = s1
  Sources = {s1, s2}
  Ids = {i1, i2}
  LegacyIds = {l1}
  Inputs <- MCInputs
  AttemptInputs <- MCAttemptInputs
  ImportInputs <- MCImportInputs
  Histories <- MCHistories
  Micro = 2
  Portable = 3
  MaxBytes = 1
  MaxRows = 5
SPECIFICATION Spec
INVARIANTS
  RoundTrips
  ReadersAreExact
  ImportKeepsDecision
