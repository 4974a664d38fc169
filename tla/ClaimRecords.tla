---------------------------- MODULE ClaimRecords ----------------------------
(***************************************************************************)
(* The rows of the claim ledger and the status graph of a claim: the data  *)
(* that ClaimLifecycle (what the ledger promises) and ClaimLedger (how     *)
(* concurrent requests produce it) have in common.                         *)
(*                                                                         *)
(* A claim row is reduced to the columns that decide what may happen to    *)
(* the claim; its statement, source, tags, confidence and hashes are left  *)
(* out.  number is the integer in CLM000001, CLM000002, ...                *)
(***************************************************************************)
EXTENDS Naturals, Sequences, FiniteSets

Status == { "draft", "verified", "contested", "deprecated",
            "constitutional_review_required",
            "constitutional_review_in_progress",
            "constitutional_decision_recorded" }

\* The statuses a claim may move to through the ledger, per current status.
AllowedTransitions ==
  [ draft      |-> {"verified", "contested", "deprecated",
                    "constitutional_review_required"},
    verified   |-> {"contested", "deprecated",
                    "constitutional_review_required"},
    contested  |-> {"verified", "deprecated",
                    "constitutional_review_required"},
    constitutional_review_required    |->
                   {"constitutional_review_in_progress", "deprecated"},
    constitutional_review_in_progress |->
                   {"constitutional_decision_recorded", "deprecated"},
    constitutional_decision_recorded  |-> {"verified", "deprecated"},
    deprecated |-> {} ]

TransitionValid(current, new) == new \in AllowedTransitions[current]

\* A row of the claims table, or the absence of one.
Row == [status : Status, version : Nat, number : Nat]
Absent == [status |-> "absent", version |-> 0, number |-> 0]

\* A row of claim_revisions.  by is "human" for the revisions whose reason is
\* prefixed with [HUMAN OVERRIDE].
Revision == [previous : Status, updated : Status, by : {"ledger", "human"}]

\* A revision that moved the claim, as opposed to a human override that
\* confirmed the status it found.
Moves(r) == r.previous # r.updated
=============================================================================
