\* Ledger: one session, so that edits do not overlap, and a reader that does
\* overlap them.  Replay: three messages, a window of two ticks, room for two
\* ids.  Keys: five pairs.  Files: two of everything.  Credentials: one, which
\* two clerks revoke.  Attestations: two RSA pairs and one other.  Archive:
\* three entries, answers of two.  Walks: four concepts, three claims, depths
\* to 3.  Reviews: two contradicting claims, one of them to be escalated, two
\* audits.
CONSTANTS
  Claim = {c1, c2}
  Session = {s1}
  OverrideTargets = {"draft", "deprecated"}
  MaxEdits = 2
  Nil = Nil
  Message = {m1, m2, m3}
  Window = 2
  MaxCache = 2
  MaxTime = 5
  MaxPairs = 5
  Missing = Missing
  Cut = Cut
  Entity = {e1, e2}
  Cid = {h1, h2}
  Object = {o1, o2}
  NoFile = NoFile
  Partial = Partial
  Content = Content
  None = None
  Award = {a1}
  Clerk = {w1, w2}
  MaxReading = 3
  MaxMappings = 2
  Never = Never
  AttestedClaim = {d1, d2}
  Signer = {r1, r2}
  SigningPair = {p1, p2, p3}
  RsaPair = {p1, p2}
  MaxMade = 2
  ArchiveEntry = {n1, n2, n3}
  Subject = {j1, j2}
  Limit = 2
  MaxStamps = 4
  x1 = x1
  x2 = x2
  x3 = x3
  x4 = x4
  Vertex = {x1, x2, x3, x4}
  Link <- MCLink
  MaxAnswer = 3
  MaxDepth = 3
  NoSubgraph = NoSubgraph
  y1 = y1
  y2 = y2
  y3 = y3
  Tenet = {y1, y2, y3}
  Dependency <- MCDependency
  MaxSearch = 3
  NoImpact = NoImpact
  v1 = v1
  v2 = v2
  Reviewable = {v1, v2}
  Confident = {v1}
  Auditor = {t1, t2}
  MaxLogs = 2
  NoAudit = NoAudit
  Plans <- MCPlans
  Conflicting <- MCConflicting
SPECIFICATION StateSpec
SYMMETRY Symmetry
INVARIANTS
  HistoryExplainsClaim
  ReportsAreExplained
  SnapshotsAreOfOneMoment
  ReplaysBounded
  KeysKept
  FileTypeOK
  RevocationsNotForgotten
  KeptUntilDeleted
  AttestationsHold
  SubgraphIsBall
  DependentsFound
  FlagsPerRace
  EscalationLeavesNoneOut
PROPERTIES
  ImplementsLifecycle
  VerdictsStand
  PastIsFinal
\* The clock stops at MaxTime, the keys at MaxPairs, the ledger at MaxEdits, and so
\* do the others.
CHECK_DEADLOCK FALSE
