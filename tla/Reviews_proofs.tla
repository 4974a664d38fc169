--------------------------- MODULE Reviews_proofs ---------------------------
(***************************************************************************)
(* Theorems about Reviews for every set of claims and conflicting pairs,   *)
(* every finite set of sessions and every set of plans.                    *)
(***************************************************************************)
EXTENDS Reviews, FiniteSetTheorems, TLAPS

-----------------------------------------------------------------------------
(***************************************************************************)
(* Bags: how many copies of a row there are after rows come and go.        *)
(***************************************************************************)
LEMMA CopiesNat ==
  ASSUME NEW B, IsABag(B), NEW e
  PROVE  Copies(e, B) \in Nat /\ (Copies(e, B) > 0 <=> BagIn(e, B))
BY DEF IsABag, Copies, BagIn, BagToSet

\* The sum of two bags has the copies of both.
LEMMA CopiesSummed ==
  ASSUME NEW A, NEW B, IsABag(A), IsABag(B)
  PROVE  /\ IsABag(A (+) B)
         /\ BagToSet(A (+) B) = BagToSet(A) \cup BagToSet(B)
         /\ \A e : Copies(e, A (+) B) = Copies(e, A) + Copies(e, B)
BY DEF IsABag, Copies, BagIn, BagToSet, (+)

\* A set is a bag of its elements.
LEMMA SetAsBag ==
  ASSUME NEW S
  PROVE  IsABag(SetToBag(S)) /\ BagToSet(SetToBag(S)) = S
BY DEF IsABag, SetToBag, BagToSet

\* An insertion adds one copy.
LEMMA CopiesAdded ==
  ASSUME NEW B, IsABag(B), NEW x
  PROVE  /\ IsABag(Insert(B, x))
         /\ BagToSet(Insert(B, x)) = BagToSet(B) \cup {x}
         /\ \A e : Copies(e, Insert(B, x))
                     = Copies(e, B) + IF e = x THEN 1 ELSE 0
<1>1. \A e : Copies(e, SetToBag({x})) = IF e = x THEN 1 ELSE 0
  BY DEF Copies, SetToBag, BagIn, BagToSet
<1>2. IsABag(SetToBag({x})) /\ BagToSet(SetToBag({x})) = {x}
  BY SetAsBag
<1>. DEFINE one == SetToBag({x})
<1>3. Insert(B, x) = B (+) one
  BY DEF Insert
<1>. HIDE DEF one
<1>4. IsABag(one) /\ BagToSet(one) = {x}
      /\ \A e : Copies(e, one) = IF e = x THEN 1 ELSE 0
  BY <1>1, <1>2 DEF one
<1>5. /\ IsABag(B (+) one)
      /\ BagToSet(B (+) one) = BagToSet(B) \cup {x}
      /\ \A e : Copies(e, B (+) one) = Copies(e, B) + Copies(e, one)
  BY <1>4, CopiesSummed
<1>. QED
  BY <1>3, <1>4, <1>5

\* A deletion takes one copy.
LEMMA CopiesRemoved ==
  ASSUME NEW B, IsABag(B), NEW x, BagIn(x, B)
  PROVE  /\ IsABag(DeleteRow(B, x))
         /\ BagToSet(DeleteRow(B, x)) \subseteq BagToSet(B)
         /\ \A e : Copies(e, DeleteRow(B, x))
                     = Copies(e, B) - IF e = x THEN 1 ELSE 0
<1>. DEFINE left == [e \in DOMAIN B |-> IF e = x THEN B[e] - 1 ELSE B[e]]
<1>1. DeleteRow(B, x) = [e \in {d \in DOMAIN left : left[d] > 0} |-> left[e]]
  BY DEF DeleteRow, (-), SetToBag
<1>2. /\ B \in [DOMAIN B -> {n \in Nat : n > 0}] /\ x \in DOMAIN B
      /\ DOMAIN left = DOMAIN B
      /\ \A e \in DOMAIN B : left[e] = IF e = x THEN B[e] - 1 ELSE B[e]
  BY DEF IsABag, BagIn, BagToSet
<1>. HIDE DEF left
<1>3. /\ DOMAIN DeleteRow(B, x) = {d \in DOMAIN B : left[d] > 0}
      /\ \A e \in DOMAIN DeleteRow(B, x) : DeleteRow(B, x)[e] = left[e]
  BY <1>1, <1>2
<1>4. IsABag(DeleteRow(B, x)) /\ BagToSet(DeleteRow(B, x)) \subseteq BagToSet(B)
  <2>1. DeleteRow(B, x) = [e \in DOMAIN DeleteRow(B, x) |-> DeleteRow(B, x)[e]]
    BY <1>1, <1>3
  <2>2. \A e \in DOMAIN DeleteRow(B, x) : DeleteRow(B, x)[e] \in {n \in Nat : n > 0}
    BY <1>2, <1>3
  <2>. QED
    BY <1>3, <2>1, <2>2 DEF IsABag, BagToSet
<1>5. ASSUME NEW e
      PROVE  Copies(e, DeleteRow(B, x)) = Copies(e, B) - IF e = x THEN 1 ELSE 0
  BY <1>2, <1>3 DEF Copies, BagIn, BagToSet
<1>. QED
  BY <1>4, <1>5

\* Bags of logs.
LEMMA LogsAdded ==
  ASSUME NEW B, IsBagOfLogs(B), NEW r \in Log
  PROVE  IsBagOfLogs(Insert(B, r)) /\ BagToSet(Insert(B, r)) = BagToSet(B) \cup {r}
BY CopiesAdded DEF IsBagOfLogs

\* Logs added to logs are logs.
LEMMA LogsSummed ==
  ASSUME NEW A, NEW B, IsBagOfLogs(A), IsBagOfLogs(B)
  PROVE  IsBagOfLogs(A (+) B) /\ BagToSet(A (+) B) = BagToSet(A) \cup BagToSet(B)
BY CopiesSummed DEF IsBagOfLogs

\* The rows of a claim are logs; the engine and the escalation never sign as
\* a human.
LEMMA LogRows ==
  ASSUME NEW c \in Reviewable
  PROVE  /\ FlagClaimForReview(c) \in Log /\ ~FlagClaimForReview(c).human
         /\ Escalated(c) \in Log /\ ~Escalated(c).human
         /\ \A verdict \in {"approved", "rejected"} : Reviewed(c, verdict) \in Log
BY DEF FlagClaimForReview, Escalated, Reviewed, Log, ReviewStatus

-----------------------------------------------------------------------------
(***************************************************************************)
(* The number of reviews that a claim has never falls.                     *)
(***************************************************************************)
LEMMA HumanLogsNat ==
  ASSUME IsABag(logs), NEW c
  PROVE  HumanLogs(c) \in Nat
BY CopiesNat DEF HumanLogs

\* An answer may replace the row of an earlier answer, but only by another
\* for the same claim.
LEMMA AnswersStay ==
  ASSUME IsBagOfLogs(logs), NEW r \in BagToSet(logs),
         NEW verdict \in {"approved", "rejected"},
         AnswerReview(r, verdict), NEW c
  PROVE  HumanLogs(c)' >= HumanLogs(c)
<1>. DEFINE less == DeleteRow(logs, r)
            more == Reviewed(r.claim, verdict)
            n(v) == Copies(Reviewed(c, v), logs)
            minus(v) == IF Reviewed(c, v) = r THEN 1 ELSE 0
            plus(v) == IF Reviewed(c, v) = more THEN 1 ELSE 0
<1>1. IsABag(logs) /\ BagIn(r, logs) /\ r \in Log
  BY DEF IsBagOfLogs, BagIn
<1>2. /\ IsABag(less)
      /\ \A e : Copies(e, less) = Copies(e, logs) - IF e = r THEN 1 ELSE 0
  BY <1>1, CopiesRemoved
<1>3. \A e : Copies(e, Insert(less, more))
               = Copies(e, less) + IF e = more THEN 1 ELSE 0
  BY <1>2, CopiesAdded
<1>4. logs' = Insert(less, more)
  BY DEF AnswerReview
<1>5. \A v \in {"approved", "rejected"} :
        Copies(Reviewed(c, v), logs') = (n(v) - minus(v)) + plus(v)
  BY <1>2, <1>3, <1>4
<1>6. n("approved") \in Nat /\ n("rejected") \in Nat
  BY <1>1, CopiesNat
<1>7. minus("approved") + minus("rejected") <= plus("approved") + plus("rejected")
  <2>1. CASE r.claim = c /\ r.human
    <3>1. plus(verdict) = 1
      BY <2>1
    <3>2. minus("approved") = 0 \/ minus("rejected") = 0
      BY DEF Reviewed
    <3>3. {minus("approved"), minus("rejected"), plus("approved"), plus("rejected")}
            \subseteq {0, 1}
      OBVIOUS
    <3>. QED
      BY <3>1, <3>2, <3>3
  <2>2. CASE ~(r.claim = c /\ r.human)
    <3>1. minus("approved") = 0 /\ minus("rejected") = 0
      BY <2>2 DEF Reviewed
    <3>. QED
      BY <3>1
  <2>. QED
    BY <2>1, <2>2
<1>8. {minus("approved"), minus("rejected"), plus("approved"), plus("rejected")}
        \subseteq {0, 1}
  OBVIOUS
<1>9. /\ HumanLogs(c) = n("approved") + n("rejected")
      /\ HumanLogs(c)' = ((n("approved") - minus("approved")) + plus("approved"))
                         + ((n("rejected") - minus("rejected")) + plus("rejected"))
  BY <1>5 DEF HumanLogs
<1>. HIDE DEF n, minus, plus
<1>. QED
  BY <1>6, <1>7, <1>8, <1>9

\* Whatever a step does to the logs, no claim loses a review.
LEMMA ReviewsStay ==
  ASSUME ReviewTypeOK, ReviewNext, NEW c
  PROVE  HumanLogs(c) \in Nat /\ HumanLogs(c)' \in Int /\ HumanLogs(c)' >= HumanLogs(c)
<1>1. IsBagOfLogs(logs) /\ IsABag(logs) /\ HumanLogs(c) \in Nat
  BY HumanLogsNat DEF ReviewTypeOK, IsBagOfLogs
<1>2. CASE logs' = logs
  BY <1>1, <1>2 DEF HumanLogs
<1>3. ASSUME NEW s \in Auditor, CommitAudit(s)
      PROVE  HumanLogs(c)' \in Int /\ HumanLogs(c)' >= HumanLogs(c)
  <2>1. IsABag(audit[s].logs) /\ logs' = logs (+) audit[s].logs
    BY <1>3 DEF ReviewTypeOK, AuditTypeOK, IsBagOfLogs, CommitAudit, Complete
  <2>2. \A e : /\ Copies(e, logs') = Copies(e, logs) + Copies(e, audit[s].logs)
               /\ Copies(e, logs) \in Nat /\ Copies(e, audit[s].logs) \in Nat
    BY <1>1, <2>1, CopiesSummed, CopiesNat
  <2>. QED
    BY <2>2 DEF HumanLogs
<1>4. ASSUME NEW r \in BagToSet(logs), NEW verdict \in {"approved", "rejected"},
             AnswerReview(r, verdict)
      PROVE  HumanLogs(c)' \in Int /\ HumanLogs(c)' >= HumanLogs(c)
  <2>1. HumanLogs(c)' >= HumanLogs(c)
    BY <1>1, <1>4, AnswersStay
  <2>2. IsABag(logs')
    BY <1>1, <1>4, CopiesAdded, CopiesRemoved DEF AnswerReview
  <2>3. \A e : Copies(e, logs') \in Nat
    BY <2>2, CopiesNat
  <2>. QED
    BY <2>1, <2>3 DEF HumanLogs
<1>5. ASSUME NEW d \in Reviewable, NEW valid \in BOOLEAN, LogOverride(d, valid)
      PROVE  HumanLogs(c)' \in Int /\ HumanLogs(c)' >= HumanLogs(c)
  <2>1. logs' = Insert(logs, Reviewed(d, "approved"))
    BY <1>5 DEF LogOverride
  <2>2. \A e : /\ Copies(e, logs) \in Nat
               /\ \/ Copies(e, logs') = Copies(e, logs) + 1
                  \/ Copies(e, logs') = Copies(e, logs) + 0
    BY <1>1, <2>1, CopiesAdded, CopiesNat
  <2>. QED
    BY <2>2 DEF HumanLogs
<1>6. ASSUME NEW s \in Auditor,
             \/ \E plan \in Plans : RunVerification(s, plan)
             \/ DetectConflicts(s) \/ \E p \in Conflicting : AskFlag(s, p)
             \/ DetectOutdatedClaims(s) \/ EscalateHighConfidenceClaims(s)
             \/ \E d \in Reviewable : AskHumanLog(s, d)
             \/ Fail(s)
      PROVE  logs' = logs
  BY <1>6 DEF RunVerification, DetectConflicts, AskFlag, DetectOutdatedClaims,
     EscalateHighConfidenceClaims, AskHumanLog, Fail, reviewTables
<1>7. ASSUME NEW d \in Reviewable, ClaimMoves(d)
      PROVE  logs' = logs
  BY <1>7 DEF ClaimMoves
<1>. QED
  BY <1>1, <1>2, <1>3, <1>4, <1>5, <1>6, <1>7 DEF ReviewNext, ApproveReview, RejectReview

-----------------------------------------------------------------------------
(***************************************************************************)
(* The inductive invariant.                                                *)
(***************************************************************************)

\* The sessions that are about to insert a flag of a pair.
Flagging(p) == {s \in Auditor : audit[s] # NoAudit /\ p \in audit[s].flags}

\* There are no more sessions in a set than in all.
LEMMA SomeSessions ==
  ASSUME NEW S \in SUBSET Auditor
  PROVE  /\ IsFiniteSet(S) /\ Cardinality(S) \in Nat
         /\ Cardinality(S) <= Cardinality(Auditor)
         /\ Cardinality(Auditor) \in Nat
<1>1. IsFiniteSet(S) /\ Cardinality(S) <= Cardinality(Auditor)
  BY AuditorFinite, FS_Subset
<1>2. Cardinality(S) \in Nat
  BY <1>1, FS_CardinalityType
<1>3. Cardinality(Auditor) \in Nat
  BY AuditorFinite, FS_CardinalityType
<1>. QED
  BY <1>1, <1>2, <1>3

\* There are no more sessions about to flag than sessions.
LEMMA FlaggingFinite ==
  ASSUME NEW p
  PROVE  /\ IsFiniteSet(Flagging(p)) /\ Cardinality(Flagging(p)) \in Nat
         /\ Cardinality(Flagging(p)) <= Cardinality(Auditor)
         /\ Cardinality(Auditor) \in Nat
<1>1. Flagging(p) \subseteq Auditor
  BY DEF Flagging
<1>. QED
  BY <1>1, SomeSessions

\* No flag, no log, no run and no audit.
THEOREM InitIInv == ReviewInit => ReviewInv
<1>. SUFFICES ASSUME ReviewInit PROVE ReviewInv
  OBVIOUS
<1>. USE DEF ReviewInit
<1>1. \A s \in Auditor : audit[s] = NoAudit
  OBVIOUS
<1>2. IsBagOfLogs(logs)
  BY SetAsBag DEF EmptyBag, IsBagOfLogs
<1>3. ReviewTypeOK
  BY <1>1, <1>2 DEF ReviewTypeOK, AgentRunStatus
<1>4. ASSUME NEW p \in Conflicting
      PROVE  flags[p] + Cardinality(Flagging(p)) <= Cardinality(Auditor)
  <2>1. flags[p] = 0
    OBVIOUS
  <2>. QED
    BY <2>1, FlaggingFinite
<1>5. FlagsPerRace
  BY <1>4 DEF FlagsPerRace, Flagging
<1>. QED
  BY <1>1, <1>3, <1>5 DEF ReviewInv

\* A step of one audit that commits nothing: it flags a pair only if it has
\* found no flag of it.
LEMMA AuditStep ==
  ASSUME ReviewInv, NEW s \in Auditor, NEW a,
         audit' = [audit EXCEPT ![s] = a], UNCHANGED reviewTables,
         a # NoAudit => AuditTypeOK(a) /\ EscalationSound(a),
         a # NoAudit => \A p \in a.flags :
           flags[p] = 0 \/ (audit[s] # NoAudit /\ p \in audit[s].flags)
  PROVE  ReviewInv'
<1>1. UNCHANGED <<verified, flags, logs, runs>>
  BY DEF reviewTables
<1>2. /\ DOMAIN audit' = Auditor /\ audit'[s] = a
      /\ \A t \in Auditor : t # s => audit'[t] = audit[t]
  BY DEF ReviewInv, ReviewTypeOK
<1>3. \A t \in Auditor : audit'[t] # NoAudit => AuditTypeOK(audit'[t])
  BY <1>2 DEF ReviewInv, ReviewTypeOK
<1>4. ReviewTypeOK'
  BY <1>1, <1>2, <1>3 DEF ReviewInv, ReviewTypeOK, AuditTypeOK
<1>5. ASSUME NEW p \in Conflicting
      PROVE  flags[p] + Cardinality(Flagging(p)') <= Cardinality(Auditor)
  <2>1. /\ flags[p] \in Nat
        /\ flags[p] + Cardinality(Flagging(p)) <= Cardinality(Auditor)
    BY DEF ReviewInv, ReviewTypeOK, FlagsPerRace, Flagging
  <2>2. Flagging(p)' \subseteq Auditor
    BY DEF Flagging
  <2>3. CASE flags[p] = 0
    BY <2>2, <2>3, SomeSessions
  <2>4. CASE flags[p] # 0
    <3>1. Flagging(p)' \subseteq Flagging(p)
      BY <1>2, <2>4 DEF Flagging
    <3>2. /\ IsFiniteSet(Flagging(p)) /\ Cardinality(Flagging(p)) \in Nat
          /\ Cardinality(Auditor) \in Nat
      BY FlaggingFinite
    <3>3. Cardinality(Flagging(p)') <= Cardinality(Flagging(p))
      BY <3>1, <3>2, FS_Subset
    <3>4. Cardinality(Flagging(p)') \in Nat
      BY <2>2, SomeSessions
    <3>. QED
      BY <2>1, <3>2, <3>3, <3>4
  <2>. QED
    BY <2>3, <2>4
<1>6. FlagsPerRace'
  BY <1>1, <1>5 DEF FlagsPerRace, Flagging
<1>7. \A t \in Auditor : audit'[t] # NoAudit => EscalationSound(audit'[t])
  BY <1>2 DEF ReviewInv
<1>8. \A t \in Auditor : (audit[t] # NoAudit => EscalationSound(audit[t]))'
  BY <1>1, <1>7 DEF EscalationSound, HumanLogs
<1>. QED
  BY <1>1, <1>4, <1>6, <1>8 DEF ReviewInv

\* An audit begins, and turns to its parts.
LEMMA BeginIInv ==
  ASSUME ReviewInv, NEW s \in Auditor,
         \/ \E plan \in Plans : RunVerification(s, plan)
         \/ DetectConflicts(s) \/ EscalateHighConfidenceClaims(s)
         \/ DetectOutdatedClaims(s)
  PROVE  ReviewInv'
<1>. DEFINE old == audit[s]
<1>1. old # NoAudit => AuditTypeOK(old) /\ EscalationSound(old)
  BY DEF ReviewInv, ReviewTypeOK
<1>2. verified \subseteq Reviewable
  BY DEF ReviewInv, ReviewTypeOK
<1>3. ASSUME NEW plan \in Plans, RunVerification(s, plan)
      PROVE  ReviewInv'
  <2>. DEFINE a == [plan |-> plan, left |-> plan,
                    pairs |-> {}, flags |-> {}, claims |-> {}, chosen |-> {},
                    logs |-> EmptyBag]
  <2>1. audit' = [audit EXCEPT ![s] = a] /\ UNCHANGED reviewTables
    BY <1>3 DEF RunVerification
  <2>2. IsBagOfLogs(EmptyBag) /\ BagToSet(EmptyBag) = {}
    BY SetAsBag DEF EmptyBag, IsBagOfLogs
  <2>3. AuditTypeOK(a)
    BY <2>2, PlansAreParts DEF AuditTypeOK
  <2>4. EscalationSound(a)
    BY DEF EscalationSound
  <2>5. a.flags = {}
    OBVIOUS
  <2>. HIDE DEF a
  <2>. QED
    BY <2>1, <2>3, <2>4, <2>5, AuditStep
<1>4. CASE DetectConflicts(s)
  <2>. DEFINE a == [old EXCEPT !.left = @ \ {"conflicts"},
                               !.pairs = LikelyConflicts]
  <2>1. /\ audit' = [audit EXCEPT ![s] = a] /\ UNCHANGED reviewTables
        /\ old # NoAudit /\ "conflicts" \in old.left
    BY <1>4 DEF DetectConflicts, Begins, ReviewInv, ReviewTypeOK
  <2>2. LikelyConflicts \subseteq Conflicting
    BY DEF LikelyConflicts
  <2>3. AuditTypeOK(a)
    BY <1>1, <2>1, <2>2 DEF AuditTypeOK
  <2>4. EscalationSound(a) /\ a.flags = old.flags
    BY <1>1, <2>1 DEF EscalationSound, AuditTypeOK
  <2>. HIDE DEF a
  <2>. QED
    BY <2>1, <2>3, <2>4, AuditStep
<1>5. CASE EscalateHighConfidenceClaims(s)
  <2>. DEFINE chosen == verified \cap Confident
              a == [old EXCEPT !.left = {}, !.claims = chosen, !.chosen = chosen]
  <2>1. /\ audit' = [audit EXCEPT ![s] = a] /\ UNCHANGED reviewTables
        /\ old # NoAudit /\ old.pairs = {}
    BY <1>5 DEF EscalateHighConfidenceClaims, Begins, ReviewInv, ReviewTypeOK
  <2>2. AuditTypeOK(a)
    BY <1>1, <1>2, <2>1 DEF AuditTypeOK
  <2>3. EscalationSound(a) /\ a.flags = old.flags
    BY <1>1, <2>1 DEF EscalationSound, AuditTypeOK
  <2>. HIDE DEF a
  <2>. QED
    BY <2>1, <2>2, <2>3, AuditStep
<1>6. CASE DetectOutdatedClaims(s)
  <2>1. PICK stale \in SUBSET verified :
          audit' = [audit EXCEPT
            ![s].left = @ \ {"outdated"},
            ![s].logs = @ (+) SetToBag({FlagClaimForReview(c) : c \in stale})]
    BY <1>6 DEF DetectOutdatedClaims
  <2>. DEFINE asked == SetToBag({FlagClaimForReview(c) : c \in stale})
              a == [old EXCEPT !.left = @ \ {"outdated"}, !.logs = @ (+) asked]
  <2>2. /\ audit' = [audit EXCEPT ![s] = a] /\ UNCHANGED reviewTables
        /\ old # NoAudit /\ old.pairs = {}
    BY <1>6, <2>1 DEF DetectOutdatedClaims, Begins, ReviewInv, ReviewTypeOK
  <2>3. /\ IsBagOfLogs(asked)
        /\ \A r \in BagToSet(asked) : ~r.human
    BY <1>2, LogRows, SetAsBag DEF IsBagOfLogs
  <2>. HIDE DEF asked
  <2>4. /\ IsBagOfLogs(old.logs (+) asked)
        /\ BagToSet(old.logs (+) asked) = BagToSet(old.logs) \cup BagToSet(asked)
    BY <1>1, <2>2, <2>3, LogsSummed DEF AuditTypeOK
  <2>5. /\ a.logs = old.logs (+) asked /\ a.flags = old.flags
        /\ a.chosen = old.chosen /\ a.claims = old.claims
    BY <1>1, <2>2 DEF AuditTypeOK
  <2>6. AuditTypeOK(a)
    BY <1>1, <2>2, <2>3, <2>4 DEF AuditTypeOK
  <2>7. EscalationSound(a)
    BY <1>1, <2>2, <2>4, <2>5 DEF EscalationSound, BagIn
  <2>. HIDE DEF a
  <2>. QED
    BY <2>2, <2>5, <2>6, <2>7, AuditStep
<1>. QED
  BY <1>3, <1>4, <1>5, <1>6

\* The lookup of a pair.
LEMMA AskFlagIInv ==
  ASSUME ReviewInv, NEW s \in Auditor, NEW p \in Conflicting, AskFlag(s, p)
  PROVE  ReviewInv'
<1>. DEFINE old == audit[s]
<1>1. /\ AuditTypeOK(old) /\ EscalationSound(old) /\ old # NoAudit
      /\ p \in old.pairs /\ UNCHANGED reviewTables
  BY DEF AskFlag, ReviewInv, ReviewTypeOK
<1>2. CASE KnownFlag(s, p)
  <2>. DEFINE a == [old EXCEPT !.pairs = @ \ {p}]
  <2>1. audit' = [audit EXCEPT ![s] = a]
    BY <1>2 DEF KnownFlag
  <2>2. AuditTypeOK(a)
    BY <1>1 DEF AuditTypeOK
  <2>3. EscalationSound(a) /\ a.flags = old.flags
    BY <1>1 DEF EscalationSound, AuditTypeOK
  <2>. HIDE DEF a
  <2>. QED
    BY <1>1, <2>1, <2>2, <2>3, AuditStep
<1>3. CASE NewFlag(s, p)
  <2>1. PICK c \in p :
          audit' = [audit EXCEPT
            ![s].pairs = @ \ {p},
            ![s].flags = @ \cup {p},
            ![s].logs = IF "outdated" \in audit[s].plan
                          THEN @ ELSE Insert(@, FlagClaimForReview(c))]
    BY <1>3 DEF NewFlag
  <2>2. c \in Reviewable
    BY ConflictingArePairs
  <2>. DEFINE asked == IF "outdated" \in old.plan
                         THEN old.logs ELSE Insert(old.logs, FlagClaimForReview(c))
              a == [old EXCEPT !.pairs = @ \ {p}, !.flags = @ \cup {p}, !.logs = asked]
  <2>3. audit' = [audit EXCEPT ![s] = a]
    BY <2>1 DEF ReviewInv, ReviewTypeOK
  <2>4. /\ IsBagOfLogs(asked) /\ BagToSet(old.logs) \subseteq BagToSet(asked)
        /\ \A r \in BagToSet(asked) : ~r.human
    BY <1>1, <2>2, LogRows, LogsAdded DEF AuditTypeOK
  <2>. HIDE DEF asked
  <2>5. AuditTypeOK(a)
    BY <1>1, <2>4 DEF AuditTypeOK
  <2>6. EscalationSound(a) /\ a.flags = old.flags \cup {p}
    BY <1>1, <2>4 DEF EscalationSound, AuditTypeOK, BagIn
  <2>7. flags[p] = 0
    BY <1>3 DEF NewFlag
  <2>. HIDE DEF a
  <2>. QED
    BY <1>1, <2>3, <2>5, <2>6, <2>7, AuditStep
<1>. QED
  BY <1>2, <1>3 DEF AskFlag

\* The lookup of a claim: without a review it is escalated, with one it is
\* left as it is, with two the lookup raises.
LEMMA AskHumanLogIInv ==
  ASSUME ReviewInv, NEW s \in Auditor, NEW c \in Reviewable, AskHumanLog(s, c)
  PROVE  ReviewInv'
<1>. DEFINE old == audit[s]
            asked == IF HumanLogs(c) = 0 THEN Insert(old.logs, Escalated(c))
                     ELSE old.logs
            a == [old EXCEPT !.claims = @ \ {c}, !.logs = asked]
<1>1. /\ AuditTypeOK(old) /\ EscalationSound(old) /\ old # NoAudit
      /\ c \in old.claims /\ UNCHANGED reviewTables /\ HumanLogs(c) <= 1
      /\ IsABag(logs)
  BY DEF AskHumanLog, ReviewInv, ReviewTypeOK, IsBagOfLogs
<1>2. audit' = [audit EXCEPT ![s] = a]
  BY DEF AskHumanLog, ReviewInv, ReviewTypeOK
<1>3. HumanLogs(c) \in Nat
  BY <1>1, HumanLogsNat
<1>4. /\ IsBagOfLogs(asked) /\ BagToSet(old.logs) \subseteq BagToSet(asked)
      /\ \A r \in BagToSet(asked) : ~r.human
      /\ HumanLogs(c) = 0 => BagIn(Escalated(c), asked)
  BY <1>1, LogRows, LogsAdded DEF AuditTypeOK, BagIn
<1>. HIDE DEF asked
<1>5. AuditTypeOK(a)
  BY <1>1, <1>4 DEF AuditTypeOK
<1>6. /\ a.claims = old.claims \ {c} /\ a.logs = asked /\ a.flags = old.flags
      /\ a.chosen = old.chosen
  BY <1>1 DEF AuditTypeOK
<1>. HIDE DEF a
<1>7. EscalationSound(a)
  <2>2. HumanLogs(c) > 0 \/ BagIn(Escalated(c), asked)
    BY <1>3, <1>4
  <2>3. \A d \in a.chosen \ a.claims : HumanLogs(d) > 0 \/ BagIn(Escalated(d), a.logs)
    BY <1>1, <1>4, <1>6, <2>2 DEF EscalationSound, BagIn
  <2>. QED
    BY <2>3 DEF EscalationSound
<1>. QED
  BY <1>1, <1>2, <1>5, <1>6, <1>7, AuditStep

\* The end of an audit that commits: its flags and logs are inserted, and it
\* is no longer about to insert them.
LEMMA CommitAuditIInv ==
  ASSUME ReviewInv, NEW s \in Auditor, CommitAudit(s)
  PROVE  ReviewInv'
<1>. DEFINE old == audit[s]
<1>1. /\ ReviewTypeOK /\ AuditTypeOK(old) /\ old # NoAudit
  BY DEF CommitAudit, Complete, ReviewInv, ReviewTypeOK
<1>2. /\ flags' = [p \in Conflicting |->
                     IF p \in old.flags THEN flags[p] + 1 ELSE flags[p]]
      /\ logs' = logs (+) old.logs
      /\ audit' = [audit EXCEPT ![s] = NoAudit]
      /\ verified' = verified
      /\ runs' \subseteq runs \cup {"completed"}
  BY DEF CommitAudit, RunRows
<1>3. /\ DOMAIN audit' = Auditor /\ audit'[s] = NoAudit
      /\ \A t \in Auditor : t # s => audit'[t] = audit[t]
  BY <1>1, <1>2 DEF ReviewTypeOK
<1>4. ReviewTypeOK'
  <2>1. IsBagOfLogs(logs')
    BY <1>1, <1>2, LogsSummed DEF ReviewTypeOK, AuditTypeOK
  <2>2. flags' \in [Conflicting -> Nat]
    BY <1>1, <1>2 DEF ReviewTypeOK
  <2>3. \A t \in Auditor : audit'[t] # NoAudit => AuditTypeOK(audit'[t])
    BY <1>1, <1>3 DEF ReviewTypeOK
  <2>4. runs' \subseteq AgentRunStatus
    BY <1>1, <1>2 DEF ReviewTypeOK, AgentRunStatus
  <2>. QED
    BY <1>1, <1>2, <1>3, <2>1, <2>2, <2>3, <2>4 DEF ReviewTypeOK, AuditTypeOK
<1>5. ASSUME NEW p \in Conflicting
      PROVE  flags'[p] + Cardinality(Flagging(p)') <= Cardinality(Auditor)
  <2>1. /\ flags[p] \in Nat
        /\ flags[p] + Cardinality(Flagging(p)) <= Cardinality(Auditor)
    BY DEF ReviewInv, ReviewTypeOK, FlagsPerRace, Flagging
  <2>2. Flagging(p)' = Flagging(p) \ {s}
    BY <1>3 DEF Flagging
  <2>3. s \in Flagging(p) <=> p \in old.flags
    BY <1>1 DEF Flagging
  <2>4. IsFiniteSet(Flagging(p)) /\ Cardinality(Flagging(p)) \in Nat
        /\ Cardinality(Auditor) \in Nat
    BY FlaggingFinite
  <2>5. Cardinality(Flagging(p)')
          = IF s \in Flagging(p) THEN Cardinality(Flagging(p)) - 1
            ELSE Cardinality(Flagging(p))
    BY <2>2, <2>4, FS_RemoveElement
  <2>6. flags'[p] = IF p \in old.flags THEN flags[p] + 1 ELSE flags[p]
    BY <1>2
  <2>. QED
    BY <2>1, <2>3, <2>4, <2>5, <2>6
<1>6. FlagsPerRace'
  BY <1>5 DEF FlagsPerRace, Flagging
<1>7. ASSUME NEW t \in Auditor, audit'[t] # NoAudit
      PROVE  EscalationSound(audit[t])'
  <2>1. audit'[t] = audit[t] /\ EscalationSound(audit[t])
    BY <1>3, <1>7 DEF ReviewInv
  <2>2. \A c : /\ HumanLogs(c) \in Nat /\ HumanLogs(c)' \in Int
               /\ HumanLogs(c)' >= HumanLogs(c)
    BY <1>1, ReviewsStay DEF ReviewNext
  <2>. QED
    BY <2>1, <2>2 DEF EscalationSound
<1>. QED
  BY <1>4, <1>6, <1>7 DEF ReviewInv

\* Humans and the ledger, while audits run.
LEMMA OutsideIInv ==
  ASSUME ReviewInv,
         \/ \E r \in BagToSet(logs) : ApproveReview(r) \/ RejectReview(r)
         \/ \E c \in Reviewable : \/ \E valid \in BOOLEAN : LogOverride(c, valid)
                                  \/ ClaimMoves(c)
  PROVE  ReviewInv'
<1>1. ReviewTypeOK /\ ReviewNext
  BY DEF ReviewInv, ReviewNext
<1>2. UNCHANGED <<flags, runs, audit>>
  BY DEF ApproveReview, RejectReview, AnswerReview, LogOverride, ClaimMoves
<1>3. verified' \subseteq Reviewable
  BY <1>1 DEF ReviewTypeOK, ApproveReview, RejectReview, AnswerReview,
              LogOverride, ClaimMoves
<1>4. IsBagOfLogs(logs')
  <2>1. ASSUME NEW r \in BagToSet(logs), NEW verdict \in {"approved", "rejected"},
               AnswerReview(r, verdict)
        PROVE  IsBagOfLogs(logs')
    <3>1. IsABag(logs) /\ BagIn(r, logs) /\ r.claim \in Reviewable
          /\ BagToSet(logs) \subseteq Log
      BY <1>1 DEF ReviewTypeOK, IsBagOfLogs, BagIn, Log
    <3>2. IsBagOfLogs(DeleteRow(logs, r))
      BY <3>1, CopiesRemoved DEF IsBagOfLogs
    <3>. QED
      BY <2>1, <3>1, <3>2, LogRows, LogsAdded DEF AnswerReview
  <2>2. ASSUME NEW c \in Reviewable, NEW valid \in BOOLEAN, LogOverride(c, valid)
        PROVE  IsBagOfLogs(logs')
    BY <1>1, <2>2, LogRows, LogsAdded DEF ReviewTypeOK, LogOverride
  <2>3. ASSUME NEW c \in Reviewable, ClaimMoves(c)
        PROVE  IsBagOfLogs(logs')
    BY <1>1, <2>3 DEF ReviewTypeOK, ClaimMoves
  <2>. QED
    BY <2>1, <2>2, <2>3 DEF ApproveReview, RejectReview
<1>5. ReviewTypeOK'
  BY <1>1, <1>2, <1>3, <1>4 DEF ReviewTypeOK, AuditTypeOK
<1>6. ASSUME NEW t \in Auditor, audit[t] # NoAudit
      PROVE  EscalationSound(audit[t])'
  <2>1. EscalationSound(audit[t])
    BY <1>6 DEF ReviewInv
  <2>2. \A c : /\ HumanLogs(c) \in Nat /\ HumanLogs(c)' \in Int
               /\ HumanLogs(c)' >= HumanLogs(c)
    BY <1>1, ReviewsStay
  <2>. QED
    BY <1>2, <2>1, <2>2 DEF EscalationSound
<1>. QED
  BY <1>2, <1>5, <1>6 DEF ReviewInv, FlagsPerRace

\* Every step keeps the inductive invariant.
THEOREM NextIInv == ReviewInv /\ [ReviewNext]_reviewVars => ReviewInv'
<1>. SUFFICES ASSUME ReviewInv, [ReviewNext]_reviewVars PROVE ReviewInv'
  OBVIOUS
<1>1. CASE UNCHANGED reviewVars
  BY <1>1 DEF reviewVars, ReviewInv, ReviewTypeOK, AuditTypeOK, FlagsPerRace,
              EscalationSound, HumanLogs
<1>2. ASSUME NEW s \in Auditor,
             \/ \E plan \in Plans : RunVerification(s, plan)
             \/ DetectConflicts(s) \/ EscalateHighConfidenceClaims(s)
             \/ DetectOutdatedClaims(s)
      PROVE  ReviewInv'
  BY <1>2, BeginIInv
<1>3. ASSUME NEW s \in Auditor, NEW p \in Conflicting, AskFlag(s, p)
      PROVE  ReviewInv'
  BY <1>3, AskFlagIInv
<1>4. ASSUME NEW s \in Auditor, NEW c \in Reviewable, AskHumanLog(s, c)
      PROVE  ReviewInv'
  BY <1>4, AskHumanLogIInv
<1>5. ASSUME NEW s \in Auditor, CommitAudit(s)
      PROVE  ReviewInv'
  BY <1>5, CommitAuditIInv
<1>6. ASSUME NEW s \in Auditor, Fail(s)
      PROVE  ReviewInv'
  BY <1>6, AuditStep DEF Fail
<1>7. CASE \/ \E r \in BagToSet(logs) : ApproveReview(r) \/ RejectReview(r)
           \/ \E c \in Reviewable : \/ \E valid \in BOOLEAN : LogOverride(c, valid)
                                    \/ ClaimMoves(c)
  BY <1>7, OutsideIInv
<1>. QED
  BY <1>1, <1>2, <1>3, <1>4, <1>5, <1>6, <1>7 DEF ReviewNext

\* The inductive invariant holds in every reachable state.
THEOREM Inductive == ReviewSpec => []ReviewInv
BY InitIInv, NextIInv, PTL DEF ReviewSpec

-----------------------------------------------------------------------------
(***************************************************************************)
(* What follows from it.                                                   *)
(***************************************************************************)

\* Tables and sessions keep their types.
THEOREM TypeCorrect == ReviewSpec => []ReviewTypeOK
<1>1. ReviewInv => ReviewTypeOK
  BY DEF ReviewInv
<1>. QED
  BY <1>1, Inductive, PTL

\* However audits overlap, a pair of claims never has more flags, committed
\* and about to be, than there are sessions.
THEOREM FlagsSafe == ReviewSpec => []FlagsPerRace
<1>1. ReviewInv => FlagsPerRace
  BY DEF ReviewInv
<1>. QED
  BY <1>1, Inductive, PTL

\* An escalation that is about to commit has left out no claim it selected.
THEOREM EscalationSafe == ReviewSpec => []EscalationLeavesNoneOut
<1>1. ReviewInv => EscalationLeavesNoneOut
  <2>. SUFFICES ASSUME ReviewInv, NEW s \in Auditor, Complete(s),
                       NEW c \in audit[s].chosen
                PROVE  HumanLogs(c) > 0 \/ BagIn(Escalated(c), logs (+) audit[s].logs)
    BY DEF EscalationLeavesNoneOut
  <2>1. HumanLogs(c) > 0 \/ BagIn(Escalated(c), audit[s].logs)
    BY DEF ReviewInv, Complete, EscalationSound
  <2>2. IsABag(logs) /\ IsABag(audit[s].logs)
    BY DEF ReviewInv, ReviewTypeOK, AuditTypeOK, IsBagOfLogs, Complete
  <2>3. BagToSet(logs (+) audit[s].logs) = BagToSet(logs) \cup BagToSet(audit[s].logs)
    BY <2>2, CopiesSummed
  <2>. QED
    BY <2>1, <2>3 DEF BagIn
<1>. QED
  BY <1>1, Inductive, PTL

=============================================================================
