\* Does an escalation get past the claims that humans have reviewed?
CONSTANTS
  v1 = v1
  v2 = v2
  Reviewable = {v1, v2}
  Confident = {v1}
  Auditor = {t1, t2}
  MaxLogs = 2
  NoAudit = NoAudit
  Plans <- MCPlans
  Conflicting <- MCConflicting
SPECIFICATION ReviewSpec
INVARIANTS ReviewsDoNotStopEscalation
