--------------------------- MODULE FederatedClaims ---------------------------
(***************************************************************************)
(* Claims shared between academy nodes: publish, import, contest and adopt *)
(* as overlapping database sessions, called by the API and by the handlers *)
(* of federation messages, while the ledger moves the claims (ClaimLedger) *)
(* and nodes change their policies.                                        *)
(*                                                                         *)
(* Sessions follow the rules of Curriculum: reads do not lock, an UPDATE   *)
(* holds its row to the end of the transaction and names only the columns  *)
(* whose value changed in the session.  An operation reads its claim and   *)
(* the policy of its node one after the other and decides at once; the     *)
(* reads are one step here, the decision is stale until the commit.  The   *)
(* hash of the statement, which never changes, is left out.                *)
(***************************************************************************)
EXTENDS MovingClaims, Doctrine

CONSTANTS
  Node,             \* the rows of academy_nodes
  Origins,          \* the origin_node_id that claims may have (bounds Init)
  Types,            \* the types of their sources (bounds Init)
  Classifications,  \* their classifications (bounds Init)
  MaxRecords        \* bound: no operation starts on a longer history

ASSUME NilIsNoNode == Nil \notin Node
ASSUME OriginsAreNodes == Origins \subseteq Node \cup {Nil}
ASSUME TypesAreSourceTypes == Types \subseteq SourceType
ASSUME ClassificationsExist == Classifications \subseteq Classification \cup {None}

VARIABLES
  profile,      \* columns of a claim that no operation writes
  federated,    \* the committed columns of the federation
  records,      \* federated_claim_records of each claim, in commit order
  policy,       \* node_governance_policies
  operation     \* what each session is doing

federationVars == <<profile, status, federated, records, policy, operation, onceVerified>>
others == <<profile, policy, claimsOnly>>

Profile == [origin : Origins, type : Types, classification : Classifications]

Category == {"local", "shared", "imported", "contested"}
FederatedRow == [category : Category, publisher : Node \cup {Nil},
                 review : BOOLEAN]
NotFederated == [category |-> "local", publisher |-> Nil, review |-> FALSE]

Record == [action : {"publish", "import", "contest", "adopt"},
           source : Node, target : Node \cup {Nil}]

Policy == [publication : BOOLEAN, imports : BOOLEAN]
DefaultPolicy == [publication |-> FALSE, imports |-> TRUE]

\* A session that has read its claim, changed the loaded object to mine and
\* will add a record; once sent, its UPDATE holds the row.
Operation == [kind : {"loaded", "sent"}, claim : Claim,
              read : FederatedRow, mine : FederatedRow, record : Record]

\* Rows, records and sessions keep their types.
FederationTypeOK ==
  /\ ClaimsTypeOK
  /\ profile \in [Claim -> Profile]
  /\ federated \in [Claim -> FederatedRow]
  /\ records \in [Claim -> Seq(Record)]
  /\ policy \in [Node -> Policy]
  /\ operation \in [Session -> {Idle} \cup Operation]

FederationInit ==
  /\ ClaimsInit
  /\ profile \in [Claim -> Profile]
  /\ federated = [c \in Claim |-> NotFederated]
  /\ records = [c \in Claim |-> << >>]
  /\ policy = [n \in Node |-> DefaultPolicy]
  /\ operation = [s \in Session |-> Idle]

-----------------------------------------------------------------------------
(***************************************************************************)
(* The environment: the ledger moves a claim, a node changes its policy.   *)
(***************************************************************************)
LedgerMovesClaim(c, new) ==
  /\ ClaimMoves(c, new)
  /\ UNCHANGED <<profile, federated, records, policy, operation>>

UpdateGovernancePolicy(n, new) ==
  /\ policy[n] # new
  /\ policy' = [policy EXCEPT ![n] = new]
  /\ UNCHANGED <<profile, federated, records, operation, claimsOnly>>

-----------------------------------------------------------------------------
(***************************************************************************)
(* The four operations of the protocol up to their flush.                  *)
(***************************************************************************)
Load(s, c, mine, record) ==
  /\ operation[s] = Idle
  /\ Len(records[c]) < MaxRecords
  /\ operation' = [operation EXCEPT ![s] =
       [kind |-> "loaded", claim |-> c, read |-> federated[c],
        mine |-> mine, record |-> record]]
  /\ UNCHANGED <<others, federated, records>>

RecordOf(action, n) == [action |-> action, source |-> n, target |-> Nil]

MayPublish(n, c) ==
  /\ policy[n].publication
  /\ status[c] = "verified"
  /\ profile[c].origin \in {Nil, n}

\* Mutated form: the status is not checked.
PublishClaimUnverified(s, n, c) ==
  /\ policy[n].publication /\ profile[c].origin \in {Nil, n}
  /\ Load(s, c, [federated[c] EXCEPT !.category = "shared", !.publisher = n],
          RecordOf("publish", n))

\* Mutated form: the publisher is not stored.
PublishClaimAnonymous(s, n, c) ==
  /\ MayPublish(n, c)
  /\ Load(s, c, [federated[c] EXCEPT !.category = "shared"],
          RecordOf("publish", n))

\* The category is not asked for: a contested claim may be published again.
PublishClaim(s, n, c) ==
  /\ MayPublish(n, c)
  /\ Load(s, c, [federated[c] EXCEPT !.category = "shared", !.publisher = n],
          RecordOf("publish", n))

Propagates(c) == federated[c].category \in {"shared", "imported"}

\* Who an import record names as its source.
ImportSource(c, n) ==
  IF federated[c].publisher # Nil THEN federated[c].publisher
  ELSE IF profile[c].origin # Nil THEN profile[c].origin ELSE n

\* Whether the import finds a conflict that asks for review.
Flagged(c, core) ==
  LET p == profile[c]
  IN  p.classification # None /\ ImportConflicts(p.type, p.classification, core) # {}

\* Mutated form: the findings of the detector are logged and not stored.
ImportClaimUnflagged(s, n, c, core) ==
  /\ policy[n].imports /\ Propagates(c) /\ profile[c].origin # n
  /\ Load(s, c, federated[c],
          [action |-> "import", source |-> ImportSource(c, n), target |-> n])

\* core is what the detector reads of the other claims.  The category is left
\* as it is, the status is not asked for, and a flag does not block.
ImportClaim(s, n, c, core) ==
  /\ policy[n].imports /\ Propagates(c) /\ profile[c].origin # n
  /\ Load(s, c, [federated[c] EXCEPT !.review = @ \/ Flagged(c, core)],
          [action |-> "import", source |-> ImportSource(c, n), target |-> n])

\* Mutated form: any claim may be contested.
ContestClaimAnywhere(s, n, c) ==
  Load(s, c, [federated[c] EXCEPT !.category = "contested"],
       RecordOf("contest", n))

ContestClaim(s, n, c) ==
  /\ Propagates(c)
  /\ Load(s, c, [federated[c] EXCEPT !.category = "contested"],
          RecordOf("contest", n))

AdoptClaim(s, n, c) ==
  /\ federated[c].category = "contested"
  /\ Load(s, c, [federated[c] EXCEPT !.category = "imported"],
          RecordOf("adopt", n))

-----------------------------------------------------------------------------
(***************************************************************************)
(* Flush, commit and rollback.                                             *)
(***************************************************************************)
ChangesRow(op) == op.mine # op.read

Send(s) ==
  LET op == operation[s] IN
  /\ op.kind = "loaded"
  /\ ChangesRow(op) => \A t \in Session \ {s} :
       ~(operation[t].kind = "sent" /\ operation[t].claim = op.claim
         /\ ChangesRow(operation[t]))
  /\ operation' = [operation EXCEPT ![s].kind = "sent"]
  /\ UNCHANGED <<others, federated, records>>

\* The columns the session changed, over the row as it is now.
MergedRow(op, row) ==
  [col \in DOMAIN row |->
     IF op.mine[col] # op.read[col] THEN op.mine[col] ELSE row[col]]

\* The columns and the record become visible together.
Commit(s) ==
  LET op == operation[s] IN
  /\ op.kind = "sent"
  /\ federated' = [federated EXCEPT ![op.claim] = MergedRow(op, @)]
  /\ records' = [records EXCEPT ![op.claim] = Append(@, op.record)]
  /\ operation' = [operation EXCEPT ![s] = Idle]
  /\ UNCHANGED others

RollbackOperation(s) ==
  /\ operation[s] # Idle
  /\ operation' = [operation EXCEPT ![s] = Idle]
  /\ UNCHANGED <<others, federated, records>>

FederationNext ==
  \/ \E c \in Claim, new \in ClaimTargets : LedgerMovesClaim(c, new)
  \/ \E n \in Node, new \in Policy : UpdateGovernancePolicy(n, new)
  \/ \E s \in Session, n \in Node, c \in Claim :
       \/ PublishClaim(s, n, c) \/ ContestClaim(s, n, c) \/ AdoptClaim(s, n, c)
       \/ \E core \in BOOLEAN : ImportClaim(s, n, c, core)
  \/ \E s \in Session : Send(s) \/ Commit(s) \/ RollbackOperation(s)

FederationSpec == FederationInit /\ [][FederationNext]_federationVars

-----------------------------------------------------------------------------
(***************************************************************************)
(* Properties that hold however sessions overlap.                          *)
(***************************************************************************)
Recorded(c, action) ==
  \E i \in DOMAIN records[c] : records[c][i].action = action

\* The records explain the category, although columns are merged from edits
\* of stale rows: no claim leaves "local" unpublished, is contested without a
\* contest or counts as imported without an import or an adoption, and an
\* adoption has a contest before it.
CategoryIsRecorded ==
  \A c \in Claim :
    /\ federated[c].category # "local" => Recorded(c, "publish")
    /\ federated[c].category = "contested" => Recorded(c, "contest")
    /\ federated[c].category = "imported" =>
         Recorded(c, "import") \/ Recorded(c, "adopt")
    /\ \A i \in DOMAIN records[c] : records[c][i].action = "adopt" =>
         \E j \in 1 .. i - 1 : records[c][j].action = "contest"

\* "Importing requires the source node to have published the claim": the node
\* that an import or a contest builds on has published the claim before, and
\* an import names such a node as its source.
ImportsNameAPublisher ==
  \A c \in Claim : \A i \in DOMAIN records[c] :
    LET r == records[c][i]
        publishers == {records[c][j].source :
                        j \in {k \in 1 .. i - 1 : records[c][k].action = "publish"}}
    IN  /\ r.action = "import" => r.source \in publishers
        /\ r.action = "contest" => publishers # {}

\* What the federation has ever seen was verified when it was published, and
\* published by the node it originates in, if it has one.
PublishedWasVerified ==
  \A c \in Claim : Recorded(c, "publish") =>
    /\ c \in onceVerified
    /\ profile[c].origin # Nil => federated[c].publisher = profile[c].origin

\* A claim that alters doctrine is never imported without being flagged for
\* constitutional review, whatever other sessions write to its row.
ImportsAreFlagged ==
  \A c \in Claim :
    Recorded(c, "import") /\ profile[c].classification \in {"supersedes", "conflicts_with"}
      => federated[c].review

\* An operation whose claim no other session has changed since it was read.
CommitsFresh(s) ==
  /\ operation[s].kind = "sent" /\ operation'[s] = Idle
  /\ records' # records
  /\ federated[operation[s].claim] = operation[s].read

-----------------------------------------------------------------------------
(***************************************************************************)
(* What the documentation says and the code does not do.                   *)
(***************************************************************************)

\* docs/claim_federation_protocol.md: import_claim takes a claim to IMPORTED
\* (:27, :75, and the docstring of import_claim), and a contest blocks further
\* propagation until it is resolved (:94), which only an adoption does.  An
\* import leaves the category as it is, and a publication ends a contest.
CategoryFollowsProtocol ==
  [][\A s \in Session : CommitsFresh(s) =>
       LET op == operation[s]
           before == federated[op.claim].category
           after  == federated'[op.claim].category
       IN  /\ op.record.action = "import" => after = "imported"
           /\ before = "contested" =>
                after = "contested" \/ op.record.action = "adopt"]_federationVars
=============================================================================
