--------------------------- MODULE ClaimLifecycle ---------------------------
(***************************************************************************)
(* What the claim ledger promises when every request runs alone: claims    *)
(* are created as drafts under fresh numbers, move along the status graph  *)
(* or by a human override, and every move is one more revision and one     *)
(* more version.                                                           *)
(***************************************************************************)
EXTENDS ClaimRecords

CONSTANT Claim

VARIABLES
  claims,     \* the claims table: Claim -> row, or Absent
  revisions   \* the claim_revisions table, per claim in timestamp order

lifecycleVars == <<claims, revisions>>

Existing == {c \in Claim : claims[c] # Absent}

LifecycleTypeOK ==
  /\ claims \in [Claim -> Row \cup {Absent}]
  /\ revisions \in [Claim -> Seq(Revision)]

LifecycleInit ==
  /\ claims = [c \in Claim |-> Absent]
  /\ revisions = [c \in Claim |-> <<>>]

-----------------------------------------------------------------------------

\* The numbers the next k claims get.
NextNumbers(k) == Cardinality(Existing) + 1 .. Cardinality(Existing) + k

\* One transaction inserts the drafts of B, numbered by num.
Create(B, num) ==
  /\ B # {} /\ B \subseteq Claim \ Existing
  /\ \A b1, b2 \in B : num[b1] = num[b2] => b1 = b2
  /\ claims' = [c \in Claim |->
                  IF c \in B
                    THEN [status |-> "draft", version |-> 1, number |-> num[c]]
                    ELSE claims[c]]
  /\ UNCHANGED revisions

\* The claim moves to new: the row and the revision are written together.
Move(c, new, by) ==
  /\ c \in Existing
  /\ claims' = [claims EXCEPT ![c].status = new,
                              ![c].version = claims[c].version + 1]
  /\ revisions' = [revisions EXCEPT ![c] =
                     Append(revisions[c], [previous |-> claims[c].status,
                                           updated  |-> new,
                                           by       |-> by])]

Advance(c, new) ==
  /\ c \in Existing
  /\ TransitionValid(claims[c].status, new)
  /\ Move(c, new, "ledger")

Override(c, new) == Move(c, new, "human")

LifecycleNext ==
  \/ \E B \in SUBSET Claim : \E num \in [B -> NextNumbers(Cardinality(B))] : Create(B, num)
  \/ \E c \in Claim, new \in Status : Advance(c, new) \/ Override(c, new)

LifecycleSpec == LifecycleInit /\ [][LifecycleNext]_lifecycleVars

-----------------------------------------------------------------------------
(***************************************************************************)
(* The history of a claim explains its row: it starts from draft, each     *)
(* revision starts where the one before it ended, the row has the status   *)
(* of the last one, the version counts them, and only a human override     *)
(* leaves "deprecated".                                                    *)
(***************************************************************************)
HistoryStarts(c) ==
  revisions[c] # <<>> => revisions[c][1].previous = "draft"

HistoryChained(c) ==
  \A i \in 1 .. Len(revisions[c]) - 1 :
    revisions[c][i].updated = revisions[c][i + 1].previous

HistoryEnds(c) ==
  claims[c].status = IF revisions[c] = <<>>
                       THEN "draft"
                       ELSE revisions[c][Len(revisions[c])].updated

VersionCounts(c) == claims[c].version = 1 + Len(revisions[c])

DeprecatedIsFinal(c) ==
  \A i \in 1 .. Len(revisions[c]) :
    revisions[c][i].previous = "deprecated" => revisions[c][i].by = "human"

\* The audit trail of a claim (GovernanceManager.get_claim_audit_trail and
\* ClaimLedger.get_claim_history) explains the claim's row completely.
HistoryExplainsClaim ==
  \A c \in Existing :
    /\ HistoryStarts(c) /\ HistoryChained(c) /\ HistoryEnds(c)
    /\ VersionCounts(c) /\ DeprecatedIsFinal(c)
=============================================================================
