\* Does every run of an agent end as a row of agent_runs?
CONSTANTS
  v1 = v1
  v2 = v2
  Reviewable = {v1, v2}
  Confident = {v1}
  Auditor = {t1, t2}
  MaxLogs = 2
  NoAudit = NoAudit
  Plans <- MCPlans
  Conflicting <- MCConflicting
SPECIFICATION ReviewSpec
PROPERTIES RunsAreLogged
