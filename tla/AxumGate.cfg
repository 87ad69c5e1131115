CONSTANTS
  Nil = Nil
  f = f
  g = g
  p = p
  q = q
  t1 = t1
  r1 = r1
  r2 = r2
  en = en
  code = code
  other = other
  generic = generic
  Facts <- MCFacts
  Tenants = {t1}
  Policies = {p, q}
  Decisions <- MCDecisions
  Required <- MCRequired
  Decide <- MCDecide
  Writers = {r1, r2}
  Serialized = TRUE
  Calls <- MCCalls
  Resolutions <- MCResolutions
  MaxTime = 0
  MaxRuns = 2
  MaxFaults = 1
  Clause <- MCClause
  Reasons = {code, other}
  Locale <- MCLocale
  Locales = {en}
  HiddenReason = generic
  ForbiddenFallback = "forbidden"
  HiddenFallback = "not found"
SPECIFICATION GateFairSpec
INVARIANTS
  HiddenIsUniform
  ResponseIsAudited
PROPERTY CallSettles
