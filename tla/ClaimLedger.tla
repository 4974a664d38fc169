---------------------------- MODULE ClaimLedger -----------------------------
(***************************************************************************)
(* The claim ledger as concurrent requests drive it.  Every request owns   *)
(* one database session: it reads, decides in Python, flushes, and the     *)
(* session dependency commits at the end or rolls back on any exception.   *)
(* The database runs at READ COMMITTED: a session sees committed rows and  *)
(* its own, an UPDATE holds the row until its transaction ends, and an     *)
(* INSERT under a unique key waits for an uncommitted holder of that key   *)
(* and fails on a committed one.  Nothing locks a row that is only read,   *)
(* and no version column is compared, so a decision can rest on a row that *)
(* has changed since.                                                      *)
(*                                                                         *)
(* A request that names an unknown claim, source or concept, or that fails *)
(* a check, is refused before it writes: it leaves no trace and is not a   *)
(* step here.                                                              *)
(***************************************************************************)
EXTENDS ClaimRecords

CONSTANTS
  Claim,            \* the claim ids (UUIDs) requests may ever allot
  Session,          \* the concurrent database sessions
  OverrideTargets,  \* the statuses human overrides ask for (bounds the model)
  MaxEdits,         \* no edit starts on a claim with this many revisions
  Nil               \* the edit of a session that has none

ASSUME ClaimFinite == IsFiniteSet(Claim)
ASSUME OverrideTargetsAreStatuses == OverrideTargets \subseteq Status
ASSUME MaxEditsNat == MaxEdits \in Nat

VARIABLES
  claims,      \* committed rows of claims
  revisions,   \* committed rows of claim_revisions, per claim
  phase,       \* what each session is doing
  edit,        \* the status change a session has decided on, or Nil
  batch,       \* numbers of the rows a session inserted and has not committed
  counted      \* the claim number a session computed and has not used

tables == <<claims, revisions>>
locals == <<phase, edit, batch, counted>>
vars == <<claims, revisions, phase, edit, batch, counted>>

\* idle -> loaded -> flushed -> idle            an edit of one claim
\* idle -> numbered -> inserted (-> numbered -> inserted)* -> idle   creations
Phase == {"idle", "loaded", "flushed", "numbered", "inserted"}

\* read and version are the row as the session loaded it; seen is the length
\* of the claim's history at that moment (a history variable: no code keeps
\* it, only properties use it).
Edit == [claim : Claim, new : Status, by : {"ledger", "human"},
         read : Status, version : Nat, seen : Nat]

ASSUME NilIsNoEdit == Nil \notin Edit

NoBatch == [c \in Claim |-> 0]

Existing == {c \in Claim : claims[c] # Absent}
Inserted(s) == {c \in Claim : batch[s][c] # 0}

\* Tables and sessions keep their types; a session has an edit, a computed
\* number or uncommitted rows exactly in the phases that use them.
TypeOK ==
  /\ claims \in [Claim -> Row \cup {Absent}]
  /\ revisions \in [Claim -> Seq(Revision)]
  /\ phase \in [Session -> Phase]
  /\ edit \in [Session -> Edit \cup {Nil}]
  /\ batch \in [Session -> [Claim -> Nat]]
  /\ counted \in [Session -> Nat]
  /\ \A s \in Session :
       /\ (edit[s] # Nil) <=> (phase[s] \in {"loaded", "flushed"})
       /\ (counted[s] # 0) <=> (phase[s] = "numbered")
       /\ Inserted(s) # {} => phase[s] \in {"numbered", "inserted"}

Init ==
  /\ claims = [c \in Claim |-> Absent]
  /\ revisions = [c \in Claim |-> <<>>]
  /\ phase = [s \in Session |-> "idle"]
  /\ edit = [s \in Session |-> Nil]
  /\ batch = [s \in Session |-> NoBatch]
  /\ counted = [s \in Session |-> 0]

-----------------------------------------------------------------------------
(***************************************************************************)
(* Editing a claim.                                                        *)
(***************************************************************************)

\* SELECT the claim and decide; no lock is taken.
LoadClaim(s, c, new, by) ==
  /\ phase[s] = "idle"
  /\ c \in Existing
  /\ Len(revisions[c]) < MaxEdits
  /\ phase' = [phase EXCEPT ![s] = "loaded"]
  /\ edit' = [edit EXCEPT ![s] =
                [claim |-> c, new |-> new, by |-> by,
                 read |-> claims[c].status, version |-> claims[c].version,
                 seen |-> Len(revisions[c])]]
  /\ UNCHANGED <<claims, revisions, batch, counted>>

\* Mutated form: verify_claim without its draft check.
VerifyClaimUnchecked(s, c) == LoadClaim(s, c, "verified", "ledger")

VerifyClaim(s, c) ==
  /\ claims[c].status = "draft"
  /\ LoadClaim(s, c, "verified", "ledger")

\* Mutated form: update_claim_status without _assert_transition_valid.
UpdateClaimStatusUnchecked(s, c, new) == LoadClaim(s, c, new, "ledger")

UpdateClaimStatus(s, c, new) ==
  /\ c \in Existing
  /\ TransitionValid(claims[c].status, new)
  /\ LoadClaim(s, c, new, "ledger")

HumanOverrideClaim(s, c, new) == LoadClaim(s, c, new, "human")

\* Another transaction has updated the row and not ended.
RowLocked(s, c) ==
  \E t \in Session \ {s} : phase[t] = "flushed" /\ edit[t].claim = c

\* session.flush(): UPDATE claims and INSERT claim_revisions are sent.
FlushEdit(s) ==
  /\ phase[s] = "loaded"
  /\ ~RowLocked(s, edit[s].claim)
  /\ phase' = [phase EXCEPT ![s] = "flushed"]
  /\ UNCHANGED <<claims, revisions, edit, batch, counted>>

\* The UPDATE names only columns whose value changed in the session, so an
\* override to the status it loaded leaves the status column alone.
StatusWritten(e, row) == IF e.new # e.read THEN e.new ELSE row.status

UpdatedRow(e, row) ==
  [row EXCEPT !.status = StatusWritten(e, row), !.version = e.version + 1]

\* Mutated form: the status is assigned before the revision records it.
RevisionOfAfterwards(e) == [previous |-> e.new, updated |-> e.new, by |-> e.by]

RevisionOf(e) == [previous |-> e.read, updated |-> e.new, by |-> e.by]

EndSession(s) ==
  /\ phase' = [phase EXCEPT ![s] = "idle"]
  /\ edit' = [edit EXCEPT ![s] = Nil]
  /\ batch' = [batch EXCEPT ![s] = NoBatch]
  /\ counted' = [counted EXCEPT ![s] = 0]

\* Mutated form: no revision for an override that changes nothing.
CommitEditMovesOnly(s) ==
  LET e == edit[s] IN
  /\ phase[s] = "flushed"
  /\ claims' = [claims EXCEPT ![e.claim] = UpdatedRow(e, claims[e.claim])]
  /\ revisions' = IF e.new = e.read THEN revisions
                  ELSE [revisions EXCEPT ![e.claim] =
                          Append(revisions[e.claim], RevisionOf(e))]
  /\ EndSession(s)

\* Mutated form: an override writes the status but records no revision.
CommitEditSilentOverride(s) ==
  LET e == edit[s] IN
  /\ phase[s] = "flushed"
  /\ claims' = [claims EXCEPT ![e.claim] = UpdatedRow(e, claims[e.claim])]
  /\ revisions' = IF e.by = "human" THEN revisions
                  ELSE [revisions EXCEPT ![e.claim] =
                          Append(revisions[e.claim], RevisionOf(e))]
  /\ EndSession(s)

CommitEdit(s) ==
  LET e == edit[s] IN
  /\ phase[s] = "flushed"
  /\ claims' = [claims EXCEPT ![e.claim] = UpdatedRow(e, claims[e.claim])]
  /\ revisions' = [revisions EXCEPT ![e.claim] =
                     Append(revisions[e.claim], RevisionOf(e))]
  /\ EndSession(s)

-----------------------------------------------------------------------------
(***************************************************************************)
(* Creating claims: one in an API request, many in one session when an     *)
(* agent extracts them from a source.                                      *)
(***************************************************************************)

\* count(*) sees the committed rows and the session's own.
NextClaimNumber(s) == Cardinality(Existing) + Cardinality(Inserted(s)) + 1

UnusedIds == {c \in Claim \ Existing : \A s \in Session : batch[s][c] = 0}

NumberClaim(s) ==
  /\ phase[s] \in {"idle", "inserted"}
  /\ UnusedIds # {}
  /\ phase' = [phase EXCEPT ![s] = "numbered"]
  /\ counted' = [counted EXCEPT ![s] = NextClaimNumber(s)]
  /\ UNCHANGED <<claims, revisions, edit, batch>>

\* Mutated form: no unique constraint on claims.claim_number.
NumberCommittedUnconstrained(n) == FALSE

\* claims.claim_number is UNIQUE.
NumberCommitted(n) == \E c \in Existing : claims[c].number = n
NumberPending(s, n) == \E t \in Session \ {s}, c \in Claim : batch[t][c] = n

\* INSERT at flush; waits while another open transaction holds the number.
InsertClaim(s, c) ==
  /\ phase[s] = "numbered"
  /\ c \in UnusedIds
  /\ ~NumberCommitted(counted[s])
  /\ ~NumberPending(s, counted[s])
  /\ phase' = [phase EXCEPT ![s] = "inserted"]
  /\ batch' = [batch EXCEPT ![s][c] = counted[s]]
  /\ counted' = [counted EXCEPT ![s] = 0]
  /\ UNCHANGED <<claims, revisions, edit>>

\* Mutated form: the insert is tried again under the same number.
InsertConflictRetried(s) ==
  /\ phase[s] = "numbered"
  /\ NumberCommitted(counted[s])
  /\ UNCHANGED vars

\* IntegrityError: the request fails and its whole session is rolled back.
InsertConflict(s) ==
  /\ phase[s] = "numbered"
  /\ NumberCommitted(counted[s])
  /\ EndSession(s)
  /\ UNCHANGED tables

CommitCreated(s) ==
  /\ phase[s] = "inserted"
  /\ claims' = [c \in Claim |->
                  IF c \in Inserted(s)
                    THEN [status |-> "draft", version |-> 1,
                          number |-> batch[s][c]]
                    ELSE claims[c]]
  /\ EndSession(s)
  /\ UNCHANGED revisions

-----------------------------------------------------------------------------
\* An exception, a lost connection or a crash before the commit.
Rollback(s) ==
  /\ phase[s] # "idle"
  /\ EndSession(s)
  /\ UNCHANGED tables

SessionStep(s) ==
  \/ FlushEdit(s) \/ CommitEdit(s)
  \/ \E c \in Claim : InsertClaim(s, c)
  \/ InsertConflict(s) \/ CommitCreated(s)

Next ==
  \E s \in Session :
    \/ \E c \in Claim : VerifyClaim(s, c)
    \/ \E c \in Claim, new \in Status : UpdateClaimStatus(s, c, new)
    \/ \E c \in Claim, new \in OverrideTargets : HumanOverrideClaim(s, c, new)
    \/ NumberClaim(s)
    \/ SessionStep(s)
    \/ Rollback(s)

Spec == Init /\ [][Next]_vars

\* The event loop runs every handler that can run, and the database grants a
\* row or key to its waiters in turn, so a handler that can repeatedly take
\* its next step takes it.  New requests and rollbacks are not promised.
Fairness == \A s \in Session : SF_vars(SessionStep(s))
FairSpec == Spec /\ Fairness

-----------------------------------------------------------------------------
(***************************************************************************)
(* Properties.                                                             *)
(***************************************************************************)

\* Claim numbers are CLM000001, CLM000002, ... without a gap or a double,
\* although count(*) + 1 is read and used in different steps of concurrent
\* sessions, batches are rolled back, and numbers of open transactions are
\* invisible to the count.
NumbersDense ==
  /\ {claims[c].number : c \in Existing} = 1 .. Cardinality(Existing)
  /\ \A c, d \in Existing : claims[c].number = claims[d].number => c = d

\* version += 1 on a stale row loses increments, and may even lower the
\* version, but never counts an edit the history does not have.
VersionNotAhead ==
  \A c \in Existing : claims[c].version <= 1 + Len(revisions[c])

Explains(history, status) ==
  \/ /\ status = "draft"
     /\ \A i \in 1 .. Len(history) : ~Moves(history[i])
  \/ \E i \in 1 .. Len(history) :
       /\ Moves(history[i])
       /\ status = history[i].updated
       /\ \A j \in i + 1 .. Len(history) : ~Moves(history[j])

\* The status of a claim is where its last revision that moved it left it,
\* or draft when none did: no interleaving of stale edits and of overrides
\* that confirm a status leaves a status the history does not account for.
StatusExplained ==
  \A c \in Existing : Explains(revisions[c], claims[c].status)

\* An edit that commits on the history it has seen.
CommitsFresh(s) ==
  /\ phase[s] = "flushed" /\ phase'[s] = "idle"
  /\ revisions' # revisions
  /\ edit[s].seen = Len(revisions[edit[s].claim])

\* A request whose claim was not edited since it loaded it follows the status
\* graph, unless a human overrides, and records the step it really takes:
\* every departure from the graph takes a stale load.
FreshEditObeysGraph(s) ==
  LET c == edit[s].claim
      n == Len(revisions[c])
  IN  /\ \/ edit[s].by = "human"
         \/ TransitionValid(claims[c].status, claims'[c].status)
      /\ revisions'[c][n + 1].previous = claims[c].status
      /\ revisions'[c][n + 1].updated = claims'[c].status
      /\ claims'[c].version = claims[c].version + 1

FreshEditsObeyGraph ==
  [][\A s \in Session : CommitsFresh(s) => FreshEditObeysGraph(s)]_vars

\* "No silent status transitions": in the step that changes a status the
\* claim's history grows by a revision that ends in the new status, and no
\* step rewrites or removes a revision.
NoSilentTransition ==
  [][\A c \in Claim :
       /\ Len(revisions'[c]) >= Len(revisions[c])
       /\ \A i \in 1 .. Len(revisions[c]) : revisions'[c][i] = revisions[c][i]
       /\ c \in Existing /\ claims'[c].status # claims[c].status =>
            /\ Len(revisions'[c]) = Len(revisions[c]) + 1
            /\ revisions'[c][Len(revisions'[c])].updated = claims'[c].status
    ]_vars

\* Every request ends: no handler waits for ever on a row, on a number held
\* by another transaction, or on a number that was taken meanwhile.
RequestsFinish ==
  \A s \in Session : phase[s] # "idle" ~> phase[s] = "idle"

-----------------------------------------------------------------------------
(***************************************************************************)
(* The inductive invariant behind the safety properties.                   *)
(***************************************************************************)

Editing(s) == phase[s] \in {"loaded", "flushed"}

\* Edits are of claims that exist; only those have a history.
EditsOnExisting == \A s \in Session : Editing(s) => edit[s].claim \in Existing
HistoriesOfExisting == \A c \in Claim \ Existing : revisions[c] = <<>>

\* What an edit remembers: a length the history has had, a version no larger
\* than that history allows, and the row as it still is unless the history
\* has grown; a ledger edit was legal on what it read.
RemembersRow(e) ==
  /\ e.seen <= Len(revisions[e.claim])
  /\ e.version <= 1 + e.seen
  /\ e.seen = Len(revisions[e.claim]) =>
       e.read = claims[e.claim].status /\ e.version = claims[e.claim].version
  /\ e.by = "ledger" => TransitionValid(e.read, e.new)

EditsRemember == \A s \in Session : Editing(s) => RemembersRow(edit[s])

\* Uncommitted rows have ids of their own; a session with any holds the next
\* numbers, so there is one such session at most.
BatchesFresh ==
  \A s \in Session : \A c \in Inserted(s) :
    c \notin Existing /\ \A t \in Session \ {s} : c \notin Inserted(t)

BatchFollows(s) ==
  LET n == Cardinality(Existing) IN
  /\ {batch[s][c] : c \in Inserted(s)} = n + 1 .. n + Cardinality(Inserted(s))
  /\ \A c, d \in Inserted(s) : batch[s][c] = batch[s][d] => c = d

OneBatch ==
  \A s, t \in Session : Inserted(s) # {} /\ Inserted(t) # {} => s = t

\* A computed number is the next one or one that was committed meanwhile, and
\* never the latter for a session that has inserted.
CountedInReach(s) ==
  /\ counted[s] <= NextClaimNumber(s)
  /\ phase[s] = "numbered" /\ Inserted(s) # {} =>
       counted[s] = NextClaimNumber(s)

Numbering ==
  /\ BatchesFresh /\ OneBatch
  /\ \A s \in Session : BatchFollows(s) /\ CountedInReach(s)

\* The part that proves VersionNotAhead, StatusExplained and the action
\* properties of edits.
IInv ==
  /\ TypeOK /\ EditsOnExisting /\ HistoriesOfExisting /\ BatchesFresh
  /\ EditsRemember /\ VersionNotAhead /\ StatusExplained

\* The part that explains NumbersDense, beside IInv: at most one session has
\* uncommitted rows, and they hold the numbers that follow the committed ones.
NumberingInv == Numbering /\ NumbersDense

-----------------------------------------------------------------------------
(***************************************************************************)
(* What holds when requests do not overlap (one session).                  *)
(***************************************************************************)
Lifecycle == INSTANCE ClaimLifecycle
               WITH Claim <- Claim, claims <- claims, revisions <- revisions

\* Committed rows change only as ClaimLifecycle allows.
ImplementsLifecycle == Lifecycle!LifecycleSpec

\* The audit trail explains the row completely: a chain from draft to the
\* current status, with one version per revision, that leaves "deprecated"
\* only by a human override.
HistoryExplainsClaim == Lifecycle!HistoryExplainsClaim

\* get_claim_state_at: the status of a claim at a moment with k revisions
\* behind it.
StateAt(history, k) == IF k = 0 THEN "draft" ELSE history[k].updated

-----------------------------------------------------------------------------
(***************************************************************************)
(* What the documentation says and concurrent requests break.              *)
(***************************************************************************)

\* "Human override always wins": when an override commits, the claim has the
\* status the human chose.
HumanOverrideWins ==
  [][\A c \in Claim :
       /\ Len(revisions'[c]) > Len(revisions[c])
       /\ revisions'[c][Len(revisions'[c])].by = "human"
       => claims'[c].status = revisions'[c][Len(revisions'[c])].updated]_vars
=============================================================================
