CONSTANTS
  Nil = Nil
  f = f
  p = p
  t1 = t1
  t2 = t2
  Facts = {f}
  Tenants = {t1, t2}
  Policies = {p}
  Decisions = {"permit", "deny"}
  Required <- MCRequired
  Decide <- MCDecide
  Writers = {b1, b2}
  Serialized = FALSE
  Submissions <- MCSubmissions
  Loads <- MCLoads
  Resolutions <- MCResolutions
  MaxTime = 1
  MaxRuns = 1
  MaxFaults = 1
SPECIFICATION FairSpec
INVARIANTS
  ResultsAnswerTheirContexts
  DurableIsPrefix
  ItemJudgedAtReceipt
PROPERTY BatchSettles
