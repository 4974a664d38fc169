\* Does a second escalation leave the claims alone that the first escalated?
CONSTANTS
  v1 = v1
  v2 = v2
  Reviewable = {v1, v2}
  Confident = {v1}
  Auditor = {t1, t2}
  MaxLogs = 2
  NoAudit = NoAudit
  Plans <- MCPlans
  Conflicting <- MCConflicting
SPECIFICATION ReviewSpec
PROPERTIES NoSecondEscalation
