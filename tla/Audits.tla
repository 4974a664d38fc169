------------------------------- MODULE Audits -------------------------------
(***************************************************************************)
(* Readers of the claim ledger that take several queries while edits       *)
(* commit in between: audit_claim, which stores what it read, and the      *)
(* temporal view's snapshot of all claims.  At READ COMMITTED each query   *)
(* sees what is committed by then.  One reader is at work at a time.       *)
(***************************************************************************)
EXTENDS ClaimLedger

VARIABLE reader  \* what the reader at work has read, or Nil

\* Sources, logs, attestations, federation events and citations of a claim
\* are read after its revisions and in the same way; they are left out.
Report == [claim : Claim, row : Row, history : Seq(Revision)]

AuditInit == Init /\ reader = Nil

-----------------------------------------------------------------------------
(***************************************************************************)
(* audit_claim.                                                            *)
(***************************************************************************)

LoadAudited(c) ==
  /\ reader = Nil /\ c \in Existing
  /\ reader' = [kind |-> "audit", claim |-> c, row |-> claims[c]]

\* Mutated form: the claim is loaded again after its revisions.
WriteReportRefreshed(r) == [claim |-> r.claim, row |-> claims[r.claim],
                            history |-> r.history]

\* The findings, put together from the rows as they were loaded.
WriteReport(r) == [claim |-> r.claim, row |-> r.row, history |-> r.history]

ReadRevisions ==
  /\ reader # Nil /\ reader.kind = "audit"
  /\ reader' = [kind |-> "audited", claim |-> reader.claim, row |-> reader.row,
                history |-> revisions[reader.claim]]

\* A stored report is never changed: one is kept here, to be exported.
StoreReport ==
  /\ reader # Nil /\ reader.kind = "audited"
  /\ reader' = [kind |-> "stored", report |-> WriteReport(reader)]

-----------------------------------------------------------------------------
(***************************************************************************)
(* snapshot_at, of a moment at which no edit is between its flush, which   *)
(* stamps its revision, and its commit.                                    *)
(***************************************************************************)

\* The claims created by then; a revision counts if it was there by then.
\* was keeps what their statuses were (history: only the property uses it).
StartSnapshot ==
  /\ reader = Nil /\ Existing # {}
  /\ \A s \in Session : phase[s] # "flushed"
  /\ reader' = [kind   |-> "snapshot",
                as_of  |-> [c \in Existing |-> Len(revisions[c])],
                was    |-> [c \in Existing |-> claims[c].status],
                states |-> [c \in {} |-> "draft"]]

\* Mutated form: the status the claim has now.
SnapshotStateNow(c) == claims[c].status

SnapshotState(c) == StateAt(revisions[c], reader.as_of[c])

SnapshotClaim(c) ==
  /\ reader # Nil /\ reader.kind = "snapshot"
  /\ c \in DOMAIN reader.as_of \ DOMAIN reader.states
  /\ reader' = [reader EXCEPT !.states =
                  [d \in DOMAIN reader.states \cup {c} |->
                     IF d = c THEN SnapshotState(c) ELSE reader.states[d]]]

\* The answer goes out and makes room for another reader; a reader may also
\* fail at any point.
ReaderEnds == reader # Nil /\ reader' = Nil

ReaderStep ==
  \/ ReadRevisions \/ StoreReport \/ StartSnapshot \/ ReaderEnds
  \/ \E c \in Claim : LoadAudited(c) \/ SnapshotClaim(c)

AuditNext ==
  \/ Next /\ UNCHANGED reader
  \/ ReaderStep /\ UNCHANGED vars

AuditSpec == AuditInit /\ [][AuditNext]_<<vars, reader>>

-----------------------------------------------------------------------------
(***************************************************************************)
(* Properties, for requests that do not overlap each other but do overlap  *)
(* the reader.                                                             *)
(***************************************************************************)

\* A report is torn in one way only: the revisions in it explain the status
\* and the version of the row in it, and those beyond them are edits that
\* were committed while the audit ran.
ReportsAreExplained ==
  reader # Nil /\ reader.kind = "stored" =>
    LET k == reader.report.row.version - 1 IN
    /\ reader.report \in Report
    /\ k \in 0 .. Len(reader.report.history)
    /\ StateAt(reader.report.history, k) = reader.report.row.status

\* A snapshot is of one moment, although its claims are read one by one while
\* edits commit: it has the status that each claim had then.
SnapshotsAreOfOneMoment ==
  reader # Nil /\ reader.kind = "snapshot" =>
    \A c \in DOMAIN reader.states : reader.states[c] = reader.was[c]
=============================================================================
