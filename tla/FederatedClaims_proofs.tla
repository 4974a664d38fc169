----------------------- MODULE FederatedClaims_proofs -----------------------
(***************************************************************************)
(* Theorems about FederatedClaims for every set of claims, nodes and       *)
(* sessions.                                                               *)
(***************************************************************************)
EXTENDS FederatedClaims, TLAPS

-----------------------------------------------------------------------------
(***************************************************************************)
(* The inductive invariant.  The safety properties speak of the committed  *)
(* tables; what keeps them is that every open operation has decided on a   *)
(* row whose evidence is in the records, and that evidence never goes.     *)
(***************************************************************************)
PublishedBy(c, n) ==
  \E i \in DOMAIN records[c] :
    records[c][i].action = "publish" /\ records[c][i].source = n

\* The records that a row with these values needs.
EvidenceOf(c, row) ==
  /\ row.category # "local" => Recorded(c, "publish") /\ row.publisher # Nil
  /\ row.category = "contested" => Recorded(c, "contest")
  /\ row.category = "imported" => Recorded(c, "adopt")
  /\ row.publisher # Nil => PublishedBy(c, row.publisher)
  /\ row.publisher # Nil /\ profile[c].origin # Nil =>
       row.publisher = profile[c].origin

RowsHaveEvidence ==
  \A c \in Claim :
    /\ status[c] = "verified" => c \in onceVerified
    /\ EvidenceOf(c, federated[c])
    /\ Recorded(c, "publish") => federated[c].publisher # Nil /\ c \in onceVerified

\* Each record rests on earlier ones.
HistoriesAreOrdered ==
  \A c \in Claim : \A i \in DOMAIN records[c] :
    /\ records[c][i].action = "adopt" =>
         \E j \in 1 .. i - 1 : records[c][j].action = "contest"
    /\ records[c][i].action = "import" =>
         \E j \in 1 .. i - 1 : /\ records[c][j].action = "publish"
                               /\ records[c][j].source = records[c][i].source
    /\ records[c][i].action = "contest" =>
         \E j \in 1 .. i - 1 : records[c][j].action = "publish"

\* What an operation has decided, given the row it has read.
Justified(op) ==
  LET c == op.claim  r == op.read  m == op.mine  a == op.record.action IN
  /\ a = "publish" =>
       /\ m.category = "shared" /\ m.publisher = op.record.source
       /\ m.review = r.review
       /\ c \in onceVerified
       /\ profile[c].origin \in {Nil, op.record.source}
  /\ a # "publish" => m.publisher = r.publisher
  /\ a = "import" =>
       /\ m.category = r.category /\ r.category # "local"
       /\ op.record.source = r.publisher
       /\ r.review => m.review
       /\ profile[c].classification \in {"supersedes", "conflicts_with"} => m.review
  /\ a = "contest" =>
       m.category = "contested" /\ r.category # "local" /\ m.review = r.review
  /\ a = "adopt" =>
       m.category = "imported" /\ r.category = "contested" /\ m.review = r.review

\* What holds of an open operation: the row it has read had its evidence,
\* neither a flag nor a publisher has gone since, and it is justified.
Remembers(op) ==
  /\ EvidenceOf(op.claim, op.read)
  /\ op.read.review => federated[op.claim].review
  /\ op.read.publisher # Nil => federated[op.claim].publisher # Nil
  /\ Justified(op)

OperationsRemember ==
  \A s \in Session : operation[s] # Idle => Remembers(operation[s])

IInv ==
  /\ FederationTypeOK
  /\ RowsHaveEvidence
  /\ HistoriesAreOrdered
  /\ ImportsAreFlagged
  /\ OperationsRemember

-----------------------------------------------------------------------------
(***************************************************************************)
(* Lemmas about rows and records.                                          *)
(***************************************************************************)

\* Merging the columns of two rows over a third gives a row, column by column.
LEMMA MergeRow ==
  ASSUME NEW op \in Operation, NEW row \in FederatedRow
  PROVE  /\ MergedRow(op, row) \in FederatedRow
         /\ MergedRow(op, row).category =
              IF op.mine.category # op.read.category THEN op.mine.category
              ELSE row.category
         /\ MergedRow(op, row).publisher =
              IF op.mine.publisher # op.read.publisher THEN op.mine.publisher
              ELSE row.publisher
         /\ MergedRow(op, row).review =
              IF op.mine.review # op.read.review THEN op.mine.review
              ELSE row.review
<1>1. DOMAIN row = {"category", "publisher", "review"}
  BY DEF FederatedRow
<1>2. MergedRow(op, row) =
        [category |-> IF op.mine.category # op.read.category
                      THEN op.mine.category ELSE row.category,
         publisher |-> IF op.mine.publisher # op.read.publisher
                       THEN op.mine.publisher ELSE row.publisher,
         review |-> IF op.mine.review # op.read.review
                    THEN op.mine.review ELSE row.review]
  BY <1>1 DEF MergedRow
<1>3. op.mine \in FederatedRow /\ op.read \in FederatedRow
  BY DEF Operation
<1>. QED
  BY <1>2, <1>3 DEF FederatedRow

\* A record, once committed, stays where it is; so evidence is never lost.
LEMMA RecordsStay ==
  ASSUME NEW c \in Claim, NEW r,
         records[c] \in Seq(Record), r \in Record,
         records'[c] = Append(records[c], r)
  PROVE  /\ DOMAIN records'[c] = 1 .. Len(records[c]) + 1
         /\ \A i \in DOMAIN records[c] :
              i \in DOMAIN records'[c] /\ records'[c][i] = records[c][i]
         /\ records'[c][Len(records[c]) + 1] = r
BY DEF Record

-----------------------------------------------------------------------------
(***************************************************************************)
(* The initial states and the steps that commit nothing.                   *)
(***************************************************************************)

\* Nothing is federated, recorded or open at the start.
LEMMA InitIInv == FederationInit => IInv
<1>. SUFFICES ASSUME FederationInit PROVE IInv
  OBVIOUS
<1>1. FederationTypeOK
  <2>1. "draft" \in Status
    BY DEF Status
  <2>2. NotFederated \in FederatedRow
    BY DEF NotFederated, FederatedRow, Category
  <2>3. DefaultPolicy \in Policy
    BY DEF DefaultPolicy, Policy
  <2>4. \A c \in Claim : << >> \in Seq(Record)
    OBVIOUS
  <2>. QED
    BY <2>1, <2>2, <2>3, <2>4 DEF FederationInit, ClaimsInit, FederationTypeOK, ClaimsTypeOK
<1>2. \A c \in Claim : federated[c] = NotFederated /\ records[c] = << >>
  BY DEF FederationInit, ClaimsInit
<1>3. RowsHaveEvidence
  BY <1>2 DEF FederationInit, ClaimsInit, RowsHaveEvidence, EvidenceOf, Recorded, NotFederated
<1>4. HistoriesAreOrdered /\ ImportsAreFlagged
  BY <1>2 DEF HistoriesAreOrdered, ImportsAreFlagged, Recorded
<1>5. OperationsRemember
  BY DEF OperationsRemember, FederationInit, ClaimsInit
<1>. QED
  BY <1>1, <1>3, <1>4, <1>5 DEF IInv

\* An open session is in the middle of an operation.
LEMMA OpenIsOperation ==
  ASSUME FederationTypeOK, NEW s \in Session, operation[s] # Idle
  PROVE  operation[s] \in Operation
BY DEF FederationTypeOK, ClaimsTypeOK

\* The ledger and the nodes change nothing the invariant relates, except that
\* a claim may become one that was once verified.
LEMMA EnvironmentIInv ==
  ASSUME IInv,
         \/ \E c \in Claim, new \in ClaimTargets : LedgerMovesClaim(c, new)
         \/ \E n \in Node, new \in Policy : UpdateGovernancePolicy(n, new)
  PROVE  IInv'
<1>1. UNCHANGED <<profile, federated, records, operation>>
  BY DEF LedgerMovesClaim, ClaimMoves, claimsOnly, UpdateGovernancePolicy
<1>2. onceVerified \subseteq onceVerified'
  BY DEF LedgerMovesClaim, ClaimMoves, claimsOnly, UpdateGovernancePolicy
<1>3. FederationTypeOK'
  BY ClaimTargetsAreStatuses DEF IInv, FederationTypeOK, ClaimsTypeOK, LedgerMovesClaim, ClaimMoves, claimsOnly, UpdateGovernancePolicy
<1>5. RowsHaveEvidence'
  BY <1>1, <1>2 DEF IInv, FederationTypeOK, ClaimsTypeOK, RowsHaveEvidence, EvidenceOf, Recorded,
                     PublishedBy, LedgerMovesClaim, ClaimMoves, claimsOnly, UpdateGovernancePolicy
<1>6. (HistoriesAreOrdered /\ ImportsAreFlagged)'
  BY <1>1 DEF IInv, HistoriesAreOrdered, ImportsAreFlagged, Recorded
<1>7. OperationsRemember'
  <2>1. SUFFICES ASSUME NEW s \in Session, operation[s] # Idle
                 PROVE  Remembers(operation[s])'
    BY <1>1 DEF OperationsRemember
  <2>2. Remembers(operation[s])
    BY <2>1 DEF IInv, OperationsRemember
  <2>3. EvidenceOf(operation[s].claim, operation[s].read)'
    BY <1>1, <2>2 DEF Remembers, EvidenceOf, Recorded, PublishedBy
  <2>4. Justified(operation[s])'
    BY <1>1, <1>2, <2>2 DEF Remembers, Justified
  <2>. QED
    BY <1>1, <2>2, <2>3, <2>4 DEF Remembers
<1>. QED
  BY <1>3, <1>5, <1>6, <1>7 DEF IInv

\* What is said of an operation depends on its claim, its rows and its record,
\* not on how far it has come.
LEMMA RequestStepIInv ==
  ASSUME IInv, UNCHANGED <<others, federated, records>>,
         NEW s \in Session, NEW op,
         operation' = [operation EXCEPT ![s] = op],
         op = Idle \/ (op \in Operation /\ Remembers(op))
  PROVE  IInv'
<1>. USE DEF others, claimsOnly
<1>1. FederationTypeOK'
  BY DEF IInv, FederationTypeOK, ClaimsTypeOK
<1>2. RowsHaveEvidence'
  BY DEF IInv, RowsHaveEvidence, EvidenceOf, Recorded, PublishedBy
<1>3. (HistoriesAreOrdered /\ ImportsAreFlagged)'
  BY DEF IInv, HistoriesAreOrdered, ImportsAreFlagged, Recorded
<1>4. OperationsRemember'
  <2>1. ASSUME NEW t \in Session, operation'[t] # Idle
        PROVE  Remembers(operation'[t])
    <3>1. operation'[t] = IF t = s THEN op ELSE operation[t]
      BY DEF IInv, FederationTypeOK, ClaimsTypeOK
    <3>. QED
      BY <2>1, <3>1 DEF IInv, OperationsRemember
  <2>2. SUFFICES ASSUME NEW t \in Session, operation'[t] # Idle
                 PROVE  Remembers(operation[t])'
    BY DEF OperationsRemember
  <2>3. Remembers(operation'[t])
    BY <2>1, <2>2
  <2>4. EvidenceOf(operation[t].claim, operation[t].read)'
    <3>1. EvidenceOf(operation'[t].claim, operation'[t].read)
      BY <2>3 DEF Remembers
    <3>. QED
      BY <3>1 DEF EvidenceOf, Recorded, PublishedBy
  <2>5. Justified(operation[t])'
    BY <2>3 DEF Remembers, Justified
  <2>. QED
    BY <2>3, <2>4, <2>5 DEF Remembers
<1>. QED
  BY <1>1, <1>2, <1>3, <1>4 DEF IInv

\* A flush and a rollback.
LEMMA SendRollbackIInv ==
  ASSUME IInv, NEW s \in Session, Send(s) \/ RollbackOperation(s)
  PROVE  IInv'
<1>1. CASE RollbackOperation(s)
  BY <1>1, RequestStepIInv DEF RollbackOperation
<1>2. CASE Send(s)
  <2>. DEFINE op == [operation[s] EXCEPT !.kind = "sent"]
  <2>1. operation[s] # Idle /\ operation[s] \in Operation
    BY <1>2, OpenIsOperation DEF Send, Idle, IInv
  <2>2. /\ op \in Operation /\ op.claim = operation[s].claim
        /\ op.read = operation[s].read /\ op.mine = operation[s].mine
        /\ op.record = operation[s].record
    BY <2>1 DEF Operation
  <2>3. operation' = [operation EXCEPT ![s] = op]
    BY <1>2 DEF Send
  <2>4. Remembers(operation[s])
    BY <2>1 DEF IInv, OperationsRemember
  <2>. HIDE DEF op
  <2>5. Remembers(op)
    BY <2>2, <2>4 DEF Remembers, Justified
  <2>. QED
    BY <1>2, <2>2, <2>3, <2>5, RequestStepIInv DEF Send
<1>. QED
  BY <1>1, <1>2

-----------------------------------------------------------------------------
(***************************************************************************)
(* The four operations: each has decided on what the row shows.            *)
(***************************************************************************)

\* A loaded operation that is justified keeps the invariant: what it has read
\* is the row, whose evidence the invariant gives.
LEMMA LoadIInv ==
  ASSUME IInv, NEW s \in Session, NEW c \in Claim,
         NEW mine \in FederatedRow, NEW record \in Record,
         Load(s, c, mine, record),
         Justified([kind |-> "loaded", claim |-> c, read |-> federated[c],
                    mine |-> mine, record |-> record])
  PROVE  IInv'
<1>. DEFINE op == [kind |-> "loaded", claim |-> c, read |-> federated[c],
                   mine |-> mine, record |-> record]
<1>1. op \in Operation
  BY DEF IInv, FederationTypeOK, ClaimsTypeOK, Operation
<1>2. /\ op.claim = c /\ op.read = federated[c]
  OBVIOUS
<1>3. Remembers(op)
  BY DEF IInv, RowsHaveEvidence, Remembers
<1>4. operation' = [operation EXCEPT ![s] = op]
  BY DEF Load
<1>. HIDE DEF op
<1>. QED
  BY <1>1, <1>3, <1>4, RequestStepIInv DEF Load

\* A publication has seen the claim verified and owned by the node.
LEMMA PublishIInv ==
  ASSUME IInv, NEW s \in Session, NEW n \in Node, NEW c \in Claim,
         PublishClaim(s, n, c)
  PROVE  IInv'
<1>. DEFINE mine == [federated[c] EXCEPT !.category = "shared", !.publisher = n]
<1>1. federated[c] \in FederatedRow
  BY DEF IInv, FederationTypeOK, ClaimsTypeOK
<1>2. /\ mine \in FederatedRow /\ mine.category = "shared"
      /\ mine.publisher = n /\ mine.review = federated[c].review
  BY <1>1 DEF FederatedRow, Category
<1>3. RecordOf("publish", n) \in Record
  BY DEF RecordOf, Record
<1>4. Justified([kind |-> "loaded", claim |-> c, read |-> federated[c],
                 mine |-> mine, record |-> RecordOf("publish", n)])
  <2>1. c \in onceVerified /\ profile[c].origin \in {Nil, n}
    BY DEF PublishClaim, MayPublish, IInv, RowsHaveEvidence
  <2>. HIDE DEF mine
  <2>. QED
    BY <1>2, <2>1 DEF Justified, RecordOf
<1>5. Load(s, c, mine, RecordOf("publish", n))
  BY DEF PublishClaim
<1>. HIDE DEF mine
<1>. QED
  BY <1>2, <1>3, <1>4, <1>5, LoadIInv

\* An import finds a publisher in the row, and its check across nodes flags
\* every claim that supersedes doctrine or conflicts with it.
LEMMA ImportIInv ==
  ASSUME IInv, NEW s \in Session, NEW n \in Node, NEW c \in Claim,
         NEW core \in BOOLEAN, ImportClaim(s, n, c, core)
  PROVE  IInv'
<1>. DEFINE mine == [federated[c] EXCEPT !.review = @ \/ Flagged(c, core)]
            record == [action |-> "import", source |-> ImportSource(c, n),
                       target |-> n]
<1>1. federated[c] \in FederatedRow /\ profile[c] \in Profile
  BY DEF IInv, FederationTypeOK, ClaimsTypeOK
<1>2. federated[c].publisher # Nil /\ federated[c].publisher \in Node
  BY <1>1 DEF ImportClaim, Propagates, IInv, RowsHaveEvidence, EvidenceOf, FederatedRow
<1>3. record \in Record /\ record.action = "import"
      /\ record.source = federated[c].publisher
  BY <1>2 DEF Record, ImportSource
<1>4. profile[c].classification \in {"supersedes", "conflicts_with"} => Flagged(c, core)
  BY DEF Flagged, ImportConflicts, None
<1>5. Flagged(c, core) \in BOOLEAN
  BY DEF Flagged
<1>6. /\ mine \in FederatedRow
      /\ mine.category = federated[c].category
      /\ mine.publisher = federated[c].publisher
      /\ mine.review = (federated[c].review \/ Flagged(c, core))
  BY <1>1, <1>5 DEF FederatedRow
<1>7. Load(s, c, mine, record)
  BY DEF ImportClaim
<1>8. federated[c].category # "local"
  BY DEF ImportClaim, Propagates
<1>. HIDE DEF mine, record
<1>9. Justified([kind |-> "loaded", claim |-> c, read |-> federated[c],
                 mine |-> mine, record |-> record])
  BY <1>3, <1>4, <1>6, <1>8 DEF Justified
<1>. QED
  BY <1>3, <1>6, <1>7, <1>9, LoadIInv

\* A contest has seen a claim that propagates.
LEMMA ContestIInv ==
  ASSUME IInv, NEW s \in Session, NEW n \in Node, NEW c \in Claim,
         ContestClaim(s, n, c)
  PROVE  IInv'
<1>. DEFINE mine == [federated[c] EXCEPT !.category = "contested"]
<1>1. federated[c] \in FederatedRow
  BY DEF IInv, FederationTypeOK, ClaimsTypeOK
<1>2. /\ mine \in FederatedRow /\ mine.category = "contested"
      /\ mine.publisher = federated[c].publisher
      /\ mine.review = federated[c].review
  BY <1>1 DEF FederatedRow, Category
<1>3. RecordOf("contest", n) \in Record
  BY DEF RecordOf, Record
<1>4. Justified([kind |-> "loaded", claim |-> c, read |-> federated[c],
                 mine |-> mine, record |-> RecordOf("contest", n)])
  BY <1>2 DEF Justified, RecordOf, ContestClaim, Propagates
<1>5. Load(s, c, mine, RecordOf("contest", n))
  BY DEF ContestClaim
<1>. HIDE DEF mine
<1>. QED
  BY <1>2, <1>3, <1>4, <1>5, LoadIInv

\* An adoption has seen a contested claim.
LEMMA AdoptIInv ==
  ASSUME IInv, NEW s \in Session, NEW n \in Node, NEW c \in Claim,
         AdoptClaim(s, n, c)
  PROVE  IInv'
<1>. DEFINE mine == [federated[c] EXCEPT !.category = "imported"]
<1>1. federated[c] \in FederatedRow
  BY DEF IInv, FederationTypeOK, ClaimsTypeOK
<1>2. /\ mine \in FederatedRow /\ mine.category = "imported"
      /\ mine.publisher = federated[c].publisher
      /\ mine.review = federated[c].review
  BY <1>1 DEF FederatedRow, Category
<1>3. RecordOf("adopt", n) \in Record
  BY DEF RecordOf, Record
<1>4. Justified([kind |-> "loaded", claim |-> c, read |-> federated[c],
                 mine |-> mine, record |-> RecordOf("adopt", n)])
  BY <1>2 DEF Justified, RecordOf, AdoptClaim
<1>5. Load(s, c, mine, RecordOf("adopt", n))
  BY DEF AdoptClaim
<1>. HIDE DEF mine
<1>. QED
  BY <1>2, <1>3, <1>4, <1>5, LoadIInv

-----------------------------------------------------------------------------
(***************************************************************************)
(* The commit.                                                             *)
(***************************************************************************)

\* What a commit does to its claim, and that evidence only grows.
LEMMA CommitEffect ==
  ASSUME IInv, NEW s \in Session, Commit(s)
  PROVE  LET op == operation[s]  c == op.claim  row == federated'[c]  len == Len(records[c]) IN
         /\ op \in Operation /\ Remembers(op)
         /\ row \in FederatedRow
         /\ row.category = IF op.mine.category # op.read.category
                           THEN op.mine.category ELSE federated[c].category
         /\ row.publisher = IF op.mine.publisher # op.read.publisher
                            THEN op.mine.publisher ELSE federated[c].publisher
         /\ row.review = IF op.mine.review # op.read.review
                         THEN op.mine.review ELSE federated[c].review
         /\ records'[c] \in Seq(Record)
         /\ len \in Nat
         /\ DOMAIN records[c] = 1 .. len
         /\ DOMAIN records'[c] = 1 .. len + 1
         /\ \A i \in 1 .. len : records'[c][i] = records[c][i]
         /\ records'[c][len + 1] = op.record
         /\ \A d \in Claim \ {c} : federated'[d] = federated[d] /\ records'[d] = records[d]
<1>. DEFINE op == operation[s]
            c == op.claim
<1>1. op # Idle /\ op \in Operation
  BY OpenIsOperation DEF Commit, Idle, IInv
<1>2. c \in Claim /\ op.record \in Record
  BY <1>1 DEF Operation
<1>3. federated[c] \in FederatedRow /\ records[c] \in Seq(Record)
  BY <1>2 DEF IInv, FederationTypeOK, ClaimsTypeOK
<1>4. Remembers(op)
  BY <1>1 DEF IInv, OperationsRemember
<1>5. /\ federated'[c] = MergedRow(op, federated[c])
      /\ records'[c] = Append(records[c], op.record)
      /\ \A d \in Claim \ {c} : federated'[d] = federated[d] /\ records'[d] = records[d]
  BY <1>2 DEF IInv, FederationTypeOK, ClaimsTypeOK, Commit
<1>. HIDE DEF op
<1>6. records'[c] \in Seq(Record) /\ Len(records[c]) \in Nat
      /\ DOMAIN records[c] = 1 .. Len(records[c])
  BY <1>2, <1>3, <1>5
<1>7. /\ DOMAIN records'[c] = 1 .. Len(records[c]) + 1
      /\ \A i \in 1 .. Len(records[c]) : records'[c][i] = records[c][i]
      /\ records'[c][Len(records[c]) + 1] = op.record
  BY <1>2, <1>3, <1>5, <1>6, RecordsStay
<1>8. MergedRow(op, federated[c]) \in FederatedRow
  BY <1>1, <1>3, MergeRow
<1>9. /\ federated'[c].category = IF op.mine.category # op.read.category
                           THEN op.mine.category ELSE federated[c].category
      /\ federated'[c].publisher = IF op.mine.publisher # op.read.publisher
                            THEN op.mine.publisher ELSE federated[c].publisher
      /\ federated'[c].review = IF op.mine.review # op.read.review
                         THEN op.mine.review ELSE federated[c].review
  BY <1>1, <1>3, <1>5, MergeRow
<1>. QED
  BY <1>1, <1>4, <1>5, <1>6, <1>7, <1>8, <1>9 DEF op

\* A commit keeps the invariant: what it writes has evidence, flags and
\* publishers stay, and its record rests on what it has read.
LEMMA CommitKeeps ==
  ASSUME IInv, NEW s \in Session, Commit(s),
         NEW op, op = operation[s], NEW c, c = op.claim,
         NEW len, len = Len(records[c])
  PROVE  IInv'
<1>1. /\ op \in Operation /\ Remembers(op)
      /\ federated'[c] \in FederatedRow
      /\ federated'[c].category = IF op.mine.category # op.read.category
                           THEN op.mine.category ELSE federated[c].category
      /\ federated'[c].publisher = IF op.mine.publisher # op.read.publisher
                            THEN op.mine.publisher ELSE federated[c].publisher
      /\ federated'[c].review = IF op.mine.review # op.read.review
                         THEN op.mine.review ELSE federated[c].review
      /\ records'[c] \in Seq(Record)
      /\ len \in Nat
      /\ DOMAIN records[c] = 1 .. len
      /\ DOMAIN records'[c] = 1 .. len + 1
      /\ \A i \in 1 .. len : records'[c][i] = records[c][i]
      /\ records'[c][len + 1] = op.record
      /\ \A d \in Claim \ {c} : federated'[d] = federated[d] /\ records'[d] = records[d]
  BY CommitEffect
<1>2. /\ c \in Claim /\ op.record \in Record
      /\ op.read \in FederatedRow /\ op.mine \in FederatedRow
  BY <1>1 DEF Operation
<1>3. UNCHANGED <<profile, status, policy, onceVerified>>
      /\ operation' = [operation EXCEPT ![s] = Idle]
  BY DEF Commit, others, claimsOnly
<1>4. FederationTypeOK'
  BY <1>1, <1>3 DEF IInv, FederationTypeOK, ClaimsTypeOK, Commit, others, claimsOnly
<1>5. Justified(op) /\ EvidenceOf(c, op.read)
      /\ (op.read.review => federated[c].review)
      /\ (op.read.publisher # Nil => federated[c].publisher # Nil)
  BY <1>1 DEF Remembers
<1>6. op.record.action \in {"publish", "import", "contest", "adopt"}
      /\ op.record.source \in Node
  BY <1>2 DEF Record
<1>7. /\ DOMAIN records'[c] = DOMAIN records[c] \cup {len + 1}
      /\ \A i \in DOMAIN records[c] : records'[c][i] = records[c][i]
      /\ records'[c][len + 1] = op.record
  BY <1>1
<1>8. \A d \in Claim : d # c => federated'[d] = federated[d] /\ records'[d] = records[d]
  BY <1>1
<1>9. \A d \in Claim : \A a : Recorded(d, a) => \E i \in DOMAIN records'[d] : records'[d][i].action = a
  BY <1>7, <1>8 DEF Recorded
<1>10. \A d \in Claim : \A n : PublishedBy(d, n) =>
        \E i \in DOMAIN records'[d] :
          records'[d][i].action = "publish" /\ records'[d][i].source = n
  BY <1>7, <1>8 DEF PublishedBy
<1>11. \A a : (\E i \in DOMAIN records'[c] : records'[c][i].action = a) =>
        Recorded(c, a) \/ op.record.action = a
  BY <1>7 DEF Recorded
<1>12. \E i \in DOMAIN records'[c] :
         /\ records'[c][i].action = op.record.action
         /\ records'[c][i].source = op.record.source
  BY <1>7
<1>13. \A d \in Claim : federated[d].review => federated'[d].review
  <2>1. op.read.review => op.mine.review
    BY <1>5, <1>6 DEF Justified
  <2>2. op.read.review \in BOOLEAN /\ op.mine.review \in BOOLEAN
    BY <1>2 DEF FederatedRow
  <2>3. federated[c].review => federated'[c].review
    BY <1>1, <2>1, <2>2
  <2>. QED
    BY <1>1, <2>3
<1>14. \A d \in Claim : federated[d].publisher # Nil => federated'[d].publisher # Nil
  BY <1>1, <1>5, <1>6, NilIsNoNode DEF Justified
<1>15. EvidenceOf(c, federated[c])
  BY <1>2 DEF IInv, RowsHaveEvidence
<1>16. EvidenceOf(c, federated[c])'
  <2>1. /\ (federated'[c].category # "local" =>
              Recorded(c, "publish") \/ op.record.action = "publish")
        /\ (federated'[c].category = "contested" =>
              Recorded(c, "contest") \/ op.record.action = "contest")
        /\ (federated'[c].category = "imported" =>
              Recorded(c, "adopt") \/ op.record.action = "adopt")
    BY <1>1, <1>5, <1>6, <1>15 DEF Justified, EvidenceOf
  <2>2. federated'[c].category # "local" => federated'[c].publisher # Nil
    BY <1>1, <1>5, <1>6, <1>14, <1>15, <1>2, NilIsNoNode DEF Justified, EvidenceOf
  <2>3. federated'[c].publisher # Nil =>
          \/ PublishedBy(c, federated'[c].publisher)
          \/ /\ op.record.action = "publish"
             /\ op.record.source = federated'[c].publisher
    BY <1>1, <1>5, <1>6, <1>15 DEF Justified, EvidenceOf
  <2>4. federated'[c].publisher # Nil /\ profile[c].origin # Nil =>
          federated'[c].publisher = profile[c].origin
    BY <1>1, <1>5, <1>6, <1>15 DEF Justified, EvidenceOf
  <2>5. \A a : Recorded(c, a) \/ op.record.action = a => Recorded(c, a)'
    BY <1>2, <1>9, <1>12 DEF Recorded
  <2>6. federated'[c].publisher # Nil => PublishedBy(c, federated[c].publisher)'
    BY <1>2, <1>10, <1>12, <2>3 DEF PublishedBy
  <2>. QED
    BY <1>3, <2>1, <2>2, <2>4, <2>5, <2>6 DEF EvidenceOf
<1>17. RowsHaveEvidence'
  <2>1. ASSUME NEW d \in Claim, d # c
        PROVE  EvidenceOf(d, federated[d])'
    <3>1. EvidenceOf(d, federated[d])
      BY DEF IInv, RowsHaveEvidence
    <3>. QED
      BY <1>3, <1>8, <2>1, <3>1 DEF EvidenceOf, Recorded, PublishedBy
  <2>2. Recorded(c, "publish")' => federated'[c].publisher # Nil /\ c \in onceVerified
    <3>1. CASE Recorded(c, "publish")
      BY <1>2, <1>14, <3>1 DEF IInv, RowsHaveEvidence
    <3>2. CASE op.record.action = "publish"
      <4>1. op.mine.publisher \in Node /\ c \in onceVerified
        BY <1>5, <1>6, <1>2, <3>2 DEF Justified
      <4>. QED
        BY <1>1, <1>5, <4>1, <1>14, NilIsNoNode
    <3>. QED
      BY <1>11, <3>1, <3>2 DEF Recorded
  <2>3. ASSUME NEW d \in Claim, d # c
        PROVE  Recorded(d, "publish")' => federated'[d].publisher # Nil /\ d \in onceVerified
    BY <1>1, <2>3 DEF IInv, RowsHaveEvidence, Recorded
  <2>4. \A d \in Claim : EvidenceOf(d, federated[d])'
    BY <1>16, <2>1
  <2>5. \A d \in Claim :
          Recorded(d, "publish")' => federated'[d].publisher # Nil /\ d \in onceVerified
    BY <2>2, <2>3
  <2>. QED
    BY <1>3, <2>4, <2>5 DEF IInv, RowsHaveEvidence
<1>18. HistoriesAreOrdered'
  <2>1. SUFFICES ASSUME NEW d \in Claim, NEW i \in DOMAIN records'[d]
        PROVE  /\ records'[d][i].action = "adopt" =>
                    \E j \in 1 .. i - 1 : records'[d][j].action = "contest"
               /\ records'[d][i].action = "import" =>
                    \E j \in 1 .. i - 1 : /\ records'[d][j].action = "publish"
                                          /\ records'[d][j].source = records'[d][i].source
               /\ records'[d][i].action = "contest" =>
                    \E j \in 1 .. i - 1 : records'[d][j].action = "publish"
    BY DEF HistoriesAreOrdered
  <2>2. CASE d # c
    BY <1>8, <2>2 DEF IInv, HistoriesAreOrdered
  <2>3. CASE d = c /\ i \in 1 .. len
    <3>1. \A j \in 1 .. i : j \in 1 .. len /\ records'[c][j] = records[c][j]
      BY <1>1, <2>3
    <3>2. /\ records[c][i].action = "adopt" =>
               \E j \in 1 .. i - 1 : records[c][j].action = "contest"
          /\ records[c][i].action = "import" =>
               \E j \in 1 .. i - 1 : /\ records[c][j].action = "publish"
                                     /\ records[c][j].source = records[c][i].source
          /\ records[c][i].action = "contest" =>
               \E j \in 1 .. i - 1 : records[c][j].action = "publish"
      <4>1. c \in Claim /\ i \in DOMAIN records[c]
        BY <1>1, <1>2, <2>3
      <4>. QED
        BY <4>1 DEF IInv, HistoriesAreOrdered
    <3>3. i \in 1 .. i /\ \A j \in 1 .. i - 1 : j \in 1 .. i
      BY <2>3
    <3>. QED
      BY <2>3, <3>1, <3>2, <3>3
  <2>4. CASE d = c /\ i = len + 1
    <3>0. DOMAIN records[c] = 1 .. len
      BY <1>1
    <3>1. \A a : Recorded(c, a) => \E j \in 1 .. len : records'[c][j].action = a
      BY <1>7, <3>0 DEF Recorded
    <3>2. \A n : PublishedBy(c, n) =>
            \E j \in 1 .. len : /\ records'[c][j].action = "publish"
                                /\ records'[c][j].source = n
      BY <1>7, <3>0 DEF PublishedBy
    <3>3. 1 .. i - 1 = 1 .. len
      BY <1>1, <2>4
    <3>4. op.record.action = "adopt" => Recorded(c, "contest")
      BY <1>5 DEF Justified, EvidenceOf
    <3>5. op.record.action = "import" => PublishedBy(c, op.record.source)
      BY <1>5 DEF Justified, EvidenceOf
    <3>6. op.record.action = "contest" => Recorded(c, "publish")
      BY <1>5 DEF Justified, EvidenceOf
    <3>. QED
      BY <1>7, <2>4, <3>1, <3>2, <3>3, <3>4, <3>5, <3>6
  <2>. QED
    BY <1>1, <2>2, <2>3, <2>4
<1>19. ImportsAreFlagged'
  <2>1. SUFFICES ASSUME NEW d \in Claim,
                        \E i \in DOMAIN records'[d] : records'[d][i].action = "import",
                        profile[d].classification \in {"supersedes", "conflicts_with"}
                 PROVE  federated'[d].review
    BY <1>3 DEF ImportsAreFlagged, Recorded
  <2>2. CASE Recorded(d, "import")
    BY <1>13, <2>1, <2>2 DEF IInv, ImportsAreFlagged
  <2>3. CASE d = c /\ op.record.action = "import"
    <3>1. op.mine.review
      BY <1>5, <2>1, <2>3 DEF Justified
    <3>2. op.read.review \in BOOLEAN /\ op.mine.review \in BOOLEAN
      BY <1>2 DEF FederatedRow
    <3>. QED
      BY <1>1, <1>5, <2>3, <3>1, <3>2
  <2>4. CASE d # c
    BY <1>8, <2>1, <2>2, <2>4 DEF Recorded
  <2>. QED
    BY <1>11, <2>1, <2>2, <2>3, <2>4
<1>20. OperationsRemember'
  <2>1. SUFFICES ASSUME NEW t \in Session, operation'[t] # Idle
                 PROVE  Remembers(operation[t])'
    BY DEF OperationsRemember
  <2>2. operation'[t] = operation[t] /\ operation[t] # Idle
    BY <1>3, <2>1 DEF IInv, FederationTypeOK, ClaimsTypeOK
  <2>3. Remembers(operation[t]) /\ operation[t].claim \in Claim
    BY <2>2, OpenIsOperation DEF IInv, OperationsRemember, Operation
  <2>4. EvidenceOf(operation[t].claim, operation[t].read)'
    <3>1. ASSUME NEW d \in Claim, NEW row, EvidenceOf(d, row)
          PROVE  EvidenceOf(d, row)'
      <4>1. \A a : Recorded(d, a) => Recorded(d, a)'
        BY <1>9 DEF Recorded
      <4>2. \A n : PublishedBy(d, n) => PublishedBy(d, n)'
        BY <1>10 DEF PublishedBy
      <4>. QED
        BY <1>3, <3>1, <4>1, <4>2 DEF EvidenceOf
    <3>2. PICK d \in Claim : d = operation[t].claim
      BY <2>3
    <3>3. PICK row : row = operation[t].read
      OBVIOUS
    <3>4. EvidenceOf(d, row)'
      BY <2>3, <3>1, <3>2, <3>3 DEF Remembers
    <3>. QED
      BY <2>2, <3>2, <3>3, <3>4 DEF EvidenceOf, Recorded, PublishedBy
  <2>5. Justified(operation[t])'
    BY <1>3, <2>2, <2>3 DEF Remembers, Justified
  <2>. QED
    BY <1>13, <1>14, <2>2, <2>3, <2>4, <2>5 DEF Remembers
<1>. QED
  BY <1>4, <1>17, <1>18, <1>19, <1>20 DEF IInv

-----------------------------------------------------------------------------
(***************************************************************************)
(* The theorems.                                                           *)
(***************************************************************************)

\* Every step keeps the invariant.
LEMMA NextIInv == IInv /\ [FederationNext]_federationVars => IInv'
<1>. SUFFICES ASSUME IInv, [FederationNext]_federationVars PROVE IInv'
  OBVIOUS
<1>1. CASE \/ \E c \in Claim, new \in ClaimTargets : LedgerMovesClaim(c, new)
           \/ \E n \in Node, new \in Policy : UpdateGovernancePolicy(n, new)
  BY <1>1, EnvironmentIInv
<1>2. ASSUME NEW s \in Session, NEW n \in Node, NEW c \in Claim,
             \/ PublishClaim(s, n, c) \/ ContestClaim(s, n, c) \/ AdoptClaim(s, n, c)
             \/ \E core \in BOOLEAN : ImportClaim(s, n, c, core)
      PROVE  IInv'
  BY <1>2, PublishIInv, ContestIInv, AdoptIInv, ImportIInv
<1>3. ASSUME NEW s \in Session, Send(s) \/ RollbackOperation(s)
      PROVE  IInv'
  BY <1>3, SendRollbackIInv
<1>4. ASSUME NEW s \in Session, Commit(s)
      PROVE  IInv'
  BY <1>4, CommitKeeps
<1>5. CASE UNCHANGED federationVars
  <2>1. UNCHANGED <<profile, status, federated, records, policy, operation, onceVerified>>
    BY <1>5 DEF federationVars
  <2>2. FederationTypeOK'
    BY <2>1 DEF IInv, FederationTypeOK, ClaimsTypeOK
  <2>3. (RowsHaveEvidence /\ HistoriesAreOrdered /\ ImportsAreFlagged)'
    BY <2>1 DEF IInv, RowsHaveEvidence, HistoriesAreOrdered, ImportsAreFlagged,
                EvidenceOf, Recorded, PublishedBy
  <2>4. OperationsRemember'
    BY <2>1 DEF IInv, OperationsRemember, Remembers, EvidenceOf, Justified,
                Recorded, PublishedBy
  <2>. QED
    BY <2>2, <2>3, <2>4 DEF IInv
<1>. QED
  BY <1>1, <1>2, <1>3, <1>4, <1>5 DEF FederationNext

\* The invariant holds however the sessions of the federation overlap.
THEOREM Inductive == FederationSpec => []IInv
BY InitIInv, NextIInv, PTL DEF FederationSpec

\* Rows, records and sessions keep their types.
THEOREM TypeCorrect == FederationSpec => []FederationTypeOK
<1>1. IInv => FederationTypeOK
  BY DEF IInv
<1>. QED
  BY <1>1, Inductive, PTL

\* The records of a claim explain its category: nothing leaves "local" without
\* a publication, and an adoption has a contest before it.
THEOREM CategoryIsExplained == FederationSpec => []CategoryIsRecorded
<1>1. IInv => CategoryIsRecorded
  BY DEF IInv, RowsHaveEvidence, EvidenceOf, HistoriesAreOrdered, CategoryIsRecorded
<1>. QED
  BY <1>1, Inductive, PTL

\* An import names a node that has published the claim before it.
THEOREM ImportSourcesPublished == FederationSpec => []ImportsNameAPublisher
<1>1. ASSUME IInv PROVE ImportsNameAPublisher
  <2>1. SUFFICES ASSUME NEW c \in Claim, NEW i \in DOMAIN records[c]
        PROVE  LET r == records[c][i]
                   publishers == {records[c][j].source :
                        j \in {k \in 1 .. i - 1 : records[c][k].action = "publish"}}
               IN  /\ r.action = "import" => r.source \in publishers
                   /\ r.action = "contest" => publishers # {}
    BY DEF ImportsNameAPublisher
  <2>2. /\ records[c][i].action = "import" =>
             \E j \in 1 .. i - 1 : /\ records[c][j].action = "publish"
                                   /\ records[c][j].source = records[c][i].source
        /\ records[c][i].action = "contest" =>
             \E j \in 1 .. i - 1 : records[c][j].action = "publish"
    BY <1>1 DEF IInv, HistoriesAreOrdered
  <2>. QED
    BY <2>2
<1>. QED
  BY <1>1, Inductive, PTL

\* A published claim has been verified, and belongs to the node it names.
THEOREM PublicationSafe == FederationSpec => []PublishedWasVerified
<1>1. IInv => PublishedWasVerified
  BY DEF IInv, RowsHaveEvidence, EvidenceOf, PublishedWasVerified
<1>. QED
  BY <1>1, Inductive, PTL

\* An imported claim that alters doctrine is flagged for review.
THEOREM ImportFlagSafe == FederationSpec => []ImportsAreFlagged
<1>1. IInv => ImportsAreFlagged
  BY DEF IInv
<1>. QED
  BY <1>1, Inductive, PTL

\* In the precedence of sources, what may act on a claim without a review may
\* also do so from a source of higher authority (PrecedenceEngine.check).
THEOREM AuthorityMonotone == AuthorityIsMonotone
<1>1. \A t \in SourceType : PrecedenceLevel(t) \in Int
  <2>1. ASSUME NEW t \in SourceType PROVE PrecedenceLevel(t) \in Int
    <3>1. PICK i \in DOMAIN PrecedenceOrder : t = PrecedenceOrder[i]
      BY DEF SourceType
    <3>2. (CHOOSE j \in DOMAIN PrecedenceOrder : PrecedenceOrder[j] = t)
            \in DOMAIN PrecedenceOrder
      BY <3>1
    <3>3. DOMAIN PrecedenceOrder \subseteq Int /\ Len(PrecedenceOrder) \in Int
      BY DEF PrecedenceOrder
    <3>. QED
      BY <3>2, <3>3 DEF PrecedenceLevel
  <2>. QED
    BY <2>1
<1>2. PrecedenceLevel(None) \in Int
  BY DEF PrecedenceLevel, PrecedenceOrder
<1>. SUFFICES ASSUME NEW a \in SourceType, NEW b \in SourceType,
                     NEW cl \in Classification \cup {None},
                     NEW i \in SourceType \cup {None},
                     PrecedenceLevel(a) <= PrecedenceLevel(b),
                     RequiresReview(a, cl, i)
              PROVE  RequiresReview(b, cl, i)
  BY DEF AuthorityIsMonotone
<1>3. PrecedenceLevel(a) \in Int /\ PrecedenceLevel(b) \in Int /\ PrecedenceLevel(i) \in Int
  BY <1>1, <1>2
<1>. QED
  BY <1>3 DEF RequiresReview

\* Every branch of the precedence check but one concerns a classification
\* that workers may not propose by themselves.
THEOREM SafeguardCovers == SafeguardCoversPrecedence
BY DEF SafeguardCoversPrecedence, RequiresReview, AltersDoctrine,
       CheckDoctrineSafeguards, RestrictedClassifications
=============================================================================
