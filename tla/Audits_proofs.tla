---------------------------- MODULE Audits_proofs ----------------------------
(***************************************************************************)
(* Theorems about the claim ledger when requests do not overlap: it does   *)
(* what ClaimLifecycle allows, its histories explain its rows completely,  *)
(* and readers that overlap the edits still get answers the history        *)
(* explains.  For every set of claims and every bound.                     *)
(***************************************************************************)
EXTENDS Audits, ClaimLedger_proofs

\* Requests do not overlap when they share one session.
OneSession == \A s, t \in Session : s = t

-----------------------------------------------------------------------------
(***************************************************************************)
(* The refinement of ClaimLifecycle.  Beside IInv and NumberingInv, nobody *)
(* edits a claim between the load and the commit of an edit.               *)
(***************************************************************************)

EditsAreCurrent ==
  \A s \in Session :
    Editing(s) => edit[s].seen = Len(revisions[edit[s].claim])

\* No edit is open at first.
LEMMA InitCurrent == Init => EditsAreCurrent
BY DEF Init, EditsAreCurrent, Editing

\* The one session loads a claim, and ends when it writes a history.
LEMMA NextCurrent ==
  ASSUME OneSession, IInv, EditsAreCurrent, [Next]_vars
  PROVE  EditsAreCurrent'
<1>. SUFFICES ASSUME NEW s \in Session, Editing(s)'
              PROVE  edit'[s].seen = Len(revisions'[edit'[s].claim])
  BY DEF EditsAreCurrent
<1>1. ASSUME NEW c \in Claim, NEW new, NEW by, LoadClaim(s, c, new, by)
      PROVE  edit'[s].seen = Len(revisions'[edit'[s].claim])
  <2>1. edit'[s] = [claim |-> c, new |-> new, by |-> by,
                    read |-> claims[c].status, version |-> claims[c].version,
                    seen |-> Len(revisions[c])]
    BY <1>1 DEF LoadClaim, IInv, TypeOK
  <2>. QED
    BY <1>1, <2>1 DEF LoadClaim
<1>2. ASSUME EndSession(s)
      PROVE  FALSE
  BY <1>2, OthersEdit DEF IInv
<1>3. ASSUME Editing(s), UNCHANGED <<edit, revisions>>
      PROVE  edit'[s].seen = Len(revisions'[edit'[s].claim])
  BY <1>3 DEF EditsAreCurrent
<1>4. CASE Next
  <2>1. \/ \E c \in Claim, new \in Status, by \in {"ledger", "human"} :
             LoadClaim(s, c, new, by)
        \/ FlushEdit(s)
        \/ EndSession(s)
        \/ NumberClaim(s)
        \/ \E c \in Claim : InsertClaim(s, c)
    BY <1>4, OverrideTargetsAreStatuses
    DEF OneSession, Next, VerifyClaim, UpdateClaimStatus, HumanOverrideClaim,
        SessionStep, CommitEdit, InsertConflict, CommitCreated, Rollback, Status
  <2>2. CASE FlushEdit(s)
    BY <1>3, <2>2 DEF FlushEdit, Editing
  <2>3. ASSUME NEW c \in Claim, NumberClaim(s) \/ InsertClaim(s, c)
        PROVE  FALSE
    BY <2>3 DEF NumberClaim, InsertClaim, Editing, IInv, TypeOK
  <2>4. ~NumberClaim(s)
    BY DEF NumberClaim, Editing, IInv, TypeOK
  <2>. QED
    BY <1>1, <1>2, <2>1, <2>2, <2>3, <2>4
<1>5. CASE UNCHANGED vars
  BY <1>3, <1>5 DEF vars, Editing
<1>. QED
  BY <1>4, <1>5

\* ClaimLifecycle and ClaimLedger mean the same by a row that is there and by
\* a transition.
LEMMA SameRecords ==
  /\ Lifecycle!Existing = Existing
  /\ Lifecycle!Status = Status
  /\ \A old, new : Lifecycle!TransitionValid(old, new) = TransitionValid(old, new)
BY DEF Lifecycle!Existing, Existing, Lifecycle!Absent, Absent,
       Lifecycle!Status, Status, Lifecycle!TransitionValid, TransitionValid,
       Lifecycle!AllowedTransitions, AllowedTransitions

\* The instance of the lifecycle counts sets in the same way.
LEMMA SameCardinality ==
  \A S : Lifecycle!Cardinality(S) = Cardinality(S)
BY DEF Lifecycle!Cardinality, Cardinality

\* A commit of an edit that nobody has overtaken is a move of the claim: along
\* the status graph, or by a human.
LEMMA CommitEditMoves ==
  ASSUME IInv, EditsAreCurrent, NEW s \in Session, CommitEdit(s)
  PROVE  \E c \in Claim, new \in Status :
           Lifecycle!Advance(c, new) \/ Lifecycle!Override(c, new)
<1>. DEFINE e == edit[s]
            c == e.claim
<1>1. /\ e \in Edit /\ c \in Existing /\ c \in Claim /\ claims[c] \in Row
  BY CommitEditEffect DEF Existing
<1>2. RemembersRow(e) /\ e.seen = Len(revisions[c])
  BY DEF CommitEdit, EditsAreCurrent, Editing, IInv, EditsRemember
<1>3. e.read = claims[c].status /\ e.version = claims[c].version
  BY <1>2 DEF RemembersRow
<1>4. UpdatedRow(e, claims[c])
        = [claims[c] EXCEPT !.status = e.new,
                            !.version = claims[c].version + 1]
  BY <1>1, <1>3 DEF UpdatedRow, StatusWritten, Row
<1>5. RevisionOf(e) = [previous |-> claims[c].status, updated |-> e.new,
                       by |-> e.by]
  BY <1>3 DEF RevisionOf
<1>6. Lifecycle!Move(c, e.new, e.by)
  <2>1. claims' = [claims EXCEPT ![c] = UpdatedRow(e, claims[c])]
    BY DEF CommitEdit
  <2>2. revisions' = [revisions EXCEPT ![c] =
                        Append(revisions[c], RevisionOf(e))]
    BY DEF CommitEdit
  <2>. HIDE DEF e, c
  <2>3. claims' = [claims EXCEPT ![c].status = e.new,
                                 ![c].version = claims[c].version + 1]
    BY <1>1, <1>4, <2>1 DEF IInv, TypeOK
  <2>. QED
    BY <1>1, <1>5, <2>2, <2>3, SameRecords DEF Lifecycle!Move
<1>7. e.new \in Status /\ e.by \in {"ledger", "human"}
  BY <1>1 DEF Edit
<1>8. CASE e.by = "ledger"
  <2>1. TransitionValid(claims[c].status, e.new)
    BY <1>2, <1>3, <1>8 DEF RemembersRow
  <2>2. Lifecycle!Advance(c, e.new)
    BY <1>1, <1>6, <1>8, <2>1, SameRecords DEF Lifecycle!Advance
  <2>. QED
    BY <1>1, <1>7, <2>2
<1>9. CASE e.by = "human"
  <2>1. Lifecycle!Override(c, e.new)
    BY <1>6, <1>9 DEF Lifecycle!Override
  <2>. QED
    BY <1>1, <1>7, <2>1
<1>. QED
  BY <1>7, <1>8, <1>9

\* A commit of created claims creates them under the next numbers.
LEMMA CommitCreatedCreates ==
  ASSUME IInv, NumberingInv, NEW s \in Session, CommitCreated(s)
  PROVE  \/ \E B \in SUBSET Claim :
              \E num \in [B -> Lifecycle!NextNumbers(Cardinality(B))] :
                Lifecycle!Create(B, num)
         \/ UNCHANGED Lifecycle!lifecycleVars
<1>. DEFINE B == Inserted(s)
            num == [b \in B |-> batch[s][b]]
<1>1. /\ claims' = [c \in Claim |->
                      IF c \in B
                        THEN [status |-> "draft", version |-> 1,
                              number |-> batch[s][c]]
                        ELSE claims[c]]
      /\ revisions' = revisions
  BY DEF CommitCreated
<1>2. CASE B = {}
  BY <1>1, <1>2 DEF Lifecycle!lifecycleVars, IInv, TypeOK
<1>3. CASE B # {}
  <2>1. B \in SUBSET Claim /\ B \subseteq Claim \ Existing
    BY DEF IInv, BatchesFresh, Inserted
  <2>2. BatchFollows(s)
    BY DEF NumberingInv, Numbering
  <2>3. num \in [B -> Lifecycle!NextNumbers(Cardinality(B))]
    <3>1. \A b \in B : batch[s][b] \in Cardinality(Existing) + 1 ..
                                      Cardinality(Existing) + Cardinality(B)
      BY <2>2 DEF BatchFollows
    <3>. QED
      BY <3>1, SameRecords, SameCardinality DEF Lifecycle!NextNumbers
  <2>4. \A b1, b2 \in B : num[b1] = num[b2] => b1 = b2
    BY <2>2 DEF BatchFollows
  <2>5. claims' = [c \in Claim |->
                     IF c \in B
                       THEN [status |-> "draft", version |-> 1,
                             number |-> num[c]]
                       ELSE claims[c]]
    BY <1>1
  <2>6. Lifecycle!Create(B, num)
    BY <1>1, <1>3, <2>1, <2>4, <2>5, SameRecords DEF Lifecycle!Create
  <2>. QED
    BY <2>1, <2>3, <2>6
<1>. QED
  BY <1>2, <1>3

\* Every step of the ledger is a step of the lifecycle or changes no table.
LEMMA StepsRefine ==
  ASSUME IInv, NumberingInv, EditsAreCurrent, [Next]_vars
  PROVE  [Lifecycle!LifecycleNext]_(Lifecycle!lifecycleVars)
<1>1. \/ \E s \in Session : CommitEdit(s)
      \/ \E s \in Session : CommitCreated(s)
      \/ UNCHANGED tables
  BY DEF Next, SessionStep, VerifyClaim, UpdateClaimStatus, HumanOverrideClaim,
         LoadClaim, NumberClaim, FlushEdit, InsertClaim, InsertConflict,
         Rollback, tables, vars
<1>2. CASE \E s \in Session : CommitEdit(s)
  BY <1>2, CommitEditMoves, SameRecords DEF Lifecycle!LifecycleNext
<1>3. CASE \E s \in Session : CommitCreated(s)
  <2>1. PICK s \in Session : CommitCreated(s)
    BY <1>3
  <2>2. \/ \E B \in SUBSET Claim :
             \E num \in [B -> Lifecycle!NextNumbers(Cardinality(B))] :
               Lifecycle!Create(B, num)
        \/ UNCHANGED Lifecycle!lifecycleVars
    BY <2>1, CommitCreatedCreates
  <2>. QED
    BY <2>2, SameCardinality DEF Lifecycle!LifecycleNext
<1>4. CASE UNCHANGED tables
  BY <1>4 DEF tables, Lifecycle!lifecycleVars
<1>. QED
  BY <1>1, <1>2, <1>3, <1>4

\* What the numbers and the open edits are in every state.
LEMMA CurrentAlways ==
  ASSUME OneSession
  PROVE  Spec => [](IInv /\ NumberingInv /\ EditsAreCurrent)
<1>1. IInv /\ EditsAreCurrent /\ [Next]_vars => EditsAreCurrent'
  BY NextCurrent
<1>. QED
  BY <1>1, InitCurrent, InitNumbering, NextNumbering, Inductive, PTL DEF Spec

\* When requests do not overlap, the ledger with its sessions, stale loads,
\* buffered rows and rollbacks does what ClaimLifecycle promises: claims are
\* created as drafts under the next numbers, move along the status graph or by
\* a human, and each move is one revision and one version more.
THEOREM Refinement ==
  ASSUME OneSession
  PROVE  Spec => ImplementsLifecycle
<1>1. Init => Lifecycle!LifecycleInit
  BY DEF Init, Lifecycle!LifecycleInit, Absent, Lifecycle!Absent
<1>2. IInv /\ NumberingInv /\ EditsAreCurrent /\ [Next]_vars
        => [Lifecycle!LifecycleNext]_(Lifecycle!lifecycleVars)
  BY StepsRefine
<1>. QED
  BY <1>1, <1>2, CurrentAlways, PTL
  DEF Spec, ImplementsLifecycle, Lifecycle!LifecycleSpec
-----------------------------------------------------------------------------
(***************************************************************************)
(* What the lifecycle keeps: the history of a claim explains its row.      *)
(***************************************************************************)

\* A move that continues the history of the claim keeps it an explanation.
LEMMA MoveKeepsHistory ==
  ASSUME IInv, HistoryExplainsClaim, NEW c \in Claim, NEW new \in Status,
         NEW by \in {"ledger", "human"}, Lifecycle!Move(c, new, by),
         by = "ledger" => TransitionValid(claims[c].status, new)
  PROVE  HistoryExplainsClaim'
<1>. DEFINE n == Len(revisions[c])
            r == [previous |-> claims[c].status, updated |-> new, by |-> by]
<1>1. /\ c \in Existing /\ claims[c] \in Row /\ claims[c].version \in Nat
      /\ revisions[c] \in Seq(Revision) /\ n \in Nat /\ r \in Revision
  <2>1. c \in Existing /\ TypeOK
    BY SameRecords DEF Lifecycle!Move, IInv
  <2>2. claims[c] \in Row /\ revisions[c] \in Seq(Revision)
    BY <2>1, ExistingRow DEF TypeOK
  <2>. QED
    BY <2>1, <2>2 DEF Row, Revision
<1>2. /\ claims'[c].status = new
      /\ claims'[c].version = claims[c].version + 1
      /\ claims'[c] # Absent
  <2>1. claims' = [claims EXCEPT ![c].status = new,
                                 ![c].version = claims[c].version + 1]
    BY DEF Lifecycle!Move
  <2>2. claims'[c] = [claims[c] EXCEPT !.status = new,
                                       !.version = claims[c].version + 1]
    BY <1>1, <2>1 DEF IInv, TypeOK
  <2>3. claims'[c] \in Row
    <3>1. claims[c].version + 1 \in Nat
      BY <1>1
    <3>. QED
      BY <1>1, <2>2, <3>1 DEF Row
  <2>. QED
    BY <1>1, <2>2, <2>3, RowIsPresent DEF Row
<1>3. /\ revisions'[c] = Append(revisions[c], r)
      /\ \A d \in Claim \ {c} : /\ claims'[d] = claims[d]
                                /\ revisions'[d] = revisions[d]
  BY DEF Lifecycle!Move, IInv, TypeOK
<1>4. Existing' = Existing
  BY <1>1, <1>2, <1>3 DEF Existing
<1>. HIDE DEF r
<1>5. /\ Len(revisions'[c]) = n + 1 /\ revisions'[c][n + 1] = r
      /\ revisions'[c] # <<>>
      /\ \A i \in 1 .. n : revisions'[c][i] = revisions[c][i]
  BY <1>1, <1>3
<1>6. /\ Lifecycle!HistoryStarts(c) /\ Lifecycle!HistoryChained(c)
      /\ Lifecycle!HistoryEnds(c) /\ Lifecycle!VersionCounts(c)
      /\ Lifecycle!DeprecatedIsFinal(c)
  BY <1>1, SameRecords DEF HistoryExplainsClaim, Lifecycle!HistoryExplainsClaim
<1>7. r.previous = claims[c].status /\ r.updated = new /\ r.by = by
  BY DEF r
<1>8. Lifecycle!HistoryStarts(c)'
  <2>1. CASE n = 0
    BY <1>1, <1>5, <1>6, <1>7, <2>1
    DEF Lifecycle!HistoryStarts, Lifecycle!HistoryEnds
  <2>2. CASE n # 0
    BY <1>1, <1>5, <1>6, <2>2 DEF Lifecycle!HistoryStarts
  <2>. QED
    BY <2>1, <2>2
<1>9. Lifecycle!HistoryChained(c)'
  <2>. SUFFICES ASSUME NEW i \in 1 .. n
                PROVE  revisions'[c][i].updated = revisions'[c][i + 1].previous
    <3>1. Len(revisions'[c]) - 1 = n
      BY <1>1, <1>5
    <3>. QED
      BY <3>1 DEF Lifecycle!HistoryChained
  <2>1. CASE i = n
    BY <1>1, <1>5, <1>6, <1>7, <2>1 DEF Lifecycle!HistoryEnds
  <2>2. CASE i # n
    BY <1>1, <1>5, <1>6, <2>2 DEF Lifecycle!HistoryChained
  <2>. QED
    BY <2>1, <2>2
<1>10. Lifecycle!HistoryEnds(c)' /\ Lifecycle!VersionCounts(c)'
  BY <1>1, <1>2, <1>5, <1>6, <1>7
  DEF Lifecycle!HistoryEnds, Lifecycle!VersionCounts
<1>11. Lifecycle!DeprecatedIsFinal(c)'
  <2>1. claims[c].status = "deprecated" => by = "human"
    BY DEF TransitionValid, AllowedTransitions
  <2>. SUFFICES ASSUME NEW i \in 1 .. n + 1,
                       revisions'[c][i].previous = "deprecated"
                PROVE  revisions'[c][i].by = "human"
    BY <1>5 DEF Lifecycle!DeprecatedIsFinal
  <2>2. CASE i = n + 1
    BY <1>5, <1>7, <2>1, <2>2
  <2>3. CASE i # n + 1
    BY <1>1, <1>5, <1>6, <2>3 DEF Lifecycle!DeprecatedIsFinal
  <2>. QED
    BY <2>2, <2>3
<1>12. ASSUME NEW d \in Existing', d # c
       PROVE  /\ Lifecycle!HistoryStarts(d)' /\ Lifecycle!HistoryChained(d)'
              /\ Lifecycle!HistoryEnds(d)' /\ Lifecycle!VersionCounts(d)'
              /\ Lifecycle!DeprecatedIsFinal(d)'
  <2>1. /\ d \in Existing
        /\ claims'[d] = claims[d] /\ revisions'[d] = revisions[d]
    BY <1>3, <1>4, <1>12 DEF Existing
  <2>. QED
    BY <2>1, SameRecords
    DEF HistoryExplainsClaim, Lifecycle!HistoryExplainsClaim,
        Lifecycle!HistoryStarts, Lifecycle!HistoryChained,
        Lifecycle!HistoryEnds, Lifecycle!VersionCounts,
        Lifecycle!DeprecatedIsFinal
<1>. QED
  BY <1>8, <1>9, <1>10, <1>11, <1>12
  DEF HistoryExplainsClaim, Lifecycle!HistoryExplainsClaim,
      Lifecycle!Existing, Existing, Lifecycle!Absent, Absent

\* Creating claims adds drafts, of version 1 and with an empty history.
LEMMA CreateKeepsHistory ==
  ASSUME IInv, HistoryExplainsClaim, NEW B, NEW num, Lifecycle!Create(B, num)
  PROVE  HistoryExplainsClaim'
<1>1. /\ B \subseteq Claim \ Existing /\ revisions' = revisions
      /\ \A c \in Claim : claims'[c] =
           IF c \in B THEN [status |-> "draft", version |-> 1,
                            number |-> num[c]]
                      ELSE claims[c]
  BY SameRecords DEF Lifecycle!Create
<1>. SUFFICES ASSUME NEW c \in Existing'
              PROVE  /\ Lifecycle!HistoryStarts(c)'
                     /\ Lifecycle!HistoryChained(c)'
                     /\ Lifecycle!HistoryEnds(c)' /\ Lifecycle!VersionCounts(c)'
                     /\ Lifecycle!DeprecatedIsFinal(c)'
  BY DEF HistoryExplainsClaim, Lifecycle!HistoryExplainsClaim,
         Lifecycle!Existing, Existing, Lifecycle!Absent, Absent
<1>2. c \in Claim
  BY DEF Existing
<1>3. CASE c \in B
  <2>1. revisions'[c] = <<>>
    BY <1>1, <1>2, <1>3 DEF IInv, HistoriesOfExisting
  <2>2. claims'[c] = [status |-> "draft", version |-> 1, number |-> num[c]]
    BY <1>1, <1>2, <1>3
  <2>. QED
    BY <2>1, <2>2
    DEF Lifecycle!HistoryStarts, Lifecycle!HistoryChained,
        Lifecycle!HistoryEnds, Lifecycle!VersionCounts,
        Lifecycle!DeprecatedIsFinal
<1>4. CASE c \notin B
  <2>1. c \in Existing /\ claims'[c] = claims[c] /\ revisions'[c] = revisions[c]
    BY <1>1, <1>2, <1>4 DEF Existing
  <2>. QED
    BY <2>1, SameRecords
    DEF HistoryExplainsClaim, Lifecycle!HistoryExplainsClaim,
        Lifecycle!HistoryStarts, Lifecycle!HistoryChained,
        Lifecycle!HistoryEnds, Lifecycle!VersionCounts,
        Lifecycle!DeprecatedIsFinal
<1>. QED
  BY <1>3, <1>4

\* A step of the lifecycle keeps every history an explanation of its row.
LEMMA LifecycleKeepsHistory ==
  ASSUME IInv, HistoryExplainsClaim,
         [Lifecycle!LifecycleNext]_(Lifecycle!lifecycleVars)
  PROVE  HistoryExplainsClaim'
<1>1. ASSUME NEW c \in Claim, NEW new \in Status, Lifecycle!Advance(c, new)
      PROVE  HistoryExplainsClaim'
  BY <1>1, MoveKeepsHistory, SameRecords DEF Lifecycle!Advance
<1>2. ASSUME NEW c \in Claim, NEW new \in Status, Lifecycle!Override(c, new)
      PROVE  HistoryExplainsClaim'
  BY <1>2, MoveKeepsHistory DEF Lifecycle!Override
<1>3. CASE UNCHANGED Lifecycle!lifecycleVars
  BY <1>3
  DEF Lifecycle!lifecycleVars, HistoryExplainsClaim,
      Lifecycle!HistoryExplainsClaim, Lifecycle!Existing,
      Lifecycle!HistoryStarts, Lifecycle!HistoryChained,
      Lifecycle!HistoryEnds, Lifecycle!VersionCounts,
      Lifecycle!DeprecatedIsFinal
<1>. QED
  BY <1>1, <1>2, <1>3, CreateKeepsHistory, SameRecords
  DEF Lifecycle!LifecycleNext

\* When requests do not overlap, the audit trail of a claim is a chain from
\* draft to its status, with a version per revision, and only a human override
\* leaves "deprecated".
THEOREM HistoryIsComplete ==
  ASSUME OneSession
  PROVE  Spec => []HistoryExplainsClaim
<1>1. Init => HistoryExplainsClaim
  BY SameRecords
  DEF Init, Existing, HistoryExplainsClaim, Lifecycle!HistoryExplainsClaim
<1>2. (IInv /\ NumberingInv /\ EditsAreCurrent) /\ HistoryExplainsClaim
        /\ [Next]_vars => HistoryExplainsClaim'
  <2>. SUFFICES ASSUME IInv, NumberingInv, EditsAreCurrent,
                       HistoryExplainsClaim, [Next]_vars
                PROVE  HistoryExplainsClaim'
    OBVIOUS
  <2>1. [Lifecycle!LifecycleNext]_(Lifecycle!lifecycleVars)
    BY StepsRefine
  <2>. QED
    BY <2>1, LifecycleKeepsHistory
<1>. QED
  BY <1>1, <1>2, CurrentAlways, PTL DEF Spec
-----------------------------------------------------------------------------
(***************************************************************************)
(* Readers that overlap the edits.                                         *)
(***************************************************************************)

\* Appending keeps what is there.
LEMMA AppendKeeps ==
  ASSUME NEW R, NEW history \in Seq(R), NEW r \in R
  PROVE  /\ Append(history, r) \in Seq(R)
         /\ Len(history) <= Len(Append(history, r))
         /\ \A i \in 1 .. Len(history) : Append(history, r)[i] = history[i]
OBVIOUS

\* Histories only grow, and rows are not deleted.
LEMMA HistoriesGrow ==
  ASSUME IInv, [Next]_vars
  PROVE  /\ Existing \subseteq Existing'
         /\ \A c \in Claim :
              /\ revisions'[c] \in Seq(Revision)
              /\ Len(revisions[c]) <= Len(revisions'[c])
              /\ \A i \in 1 .. Len(revisions[c]) :
                   revisions'[c][i] = revisions[c][i]
<1>1. \A c \in Claim : revisions[c] \in Seq(Revision)
  BY DEF IInv, TypeOK
<1>2. ASSUME NEW s \in Session, CommitEdit(s)
      PROVE  /\ Existing \subseteq Existing'
             /\ \A c \in Claim :
                  /\ revisions'[c] \in Seq(Revision)
                  /\ Len(revisions[c]) <= Len(revisions'[c])
                  /\ \A i \in 1 .. Len(revisions[c]) :
                       revisions'[c][i] = revisions[c][i]
  <2>. DEFINE e == edit[s]
  <2>1. /\ RevisionOf(e) \in Revision /\ Existing' = Existing
        /\ revisions'[e.claim] = Append(revisions[e.claim], RevisionOf(e))
        /\ \A d \in Claim \ {e.claim} : revisions'[d] = revisions[d]
    BY <1>2, CommitEditEffect
  <2>. HIDE DEF e
  <2>. SUFFICES ASSUME NEW c \in Claim
                PROVE  /\ revisions'[c] \in Seq(Revision)
                       /\ Len(revisions[c]) <= Len(revisions'[c])
                       /\ \A i \in 1 .. Len(revisions[c]) :
                            revisions'[c][i] = revisions[c][i]
    BY <2>1
  <2>2. CASE c = e.claim
    <3>1. revisions[c] \in Seq(Revision) /\ RevisionOf(e) \in Revision
      BY <1>1, <2>1
    <3>2. revisions'[c] = Append(revisions[c], RevisionOf(e))
      BY <2>1, <2>2
    <3>. QED
      BY <3>1, <3>2, AppendKeeps
  <2>3. CASE c # e.claim
    <3>1. revisions[c] \in Seq(Revision) /\ revisions'[c] = revisions[c]
      BY <1>1, <2>1, <2>3
    <3>. QED
      BY <3>1
  <2>. QED
    BY <2>2, <2>3
<1>3. ASSUME NEW s \in Session, CommitCreated(s)
      PROVE  Existing \subseteq Existing' /\ revisions' = revisions
  BY <1>3, CommitCreatedEffect DEF IInv, CommitCreated
<1>4. CASE UNCHANGED tables
  BY <1>1, <1>4 DEF tables, Existing
<1>5. \/ \E s \in Session : CommitEdit(s)
      \/ \E s \in Session : CommitCreated(s)
      \/ UNCHANGED tables
  BY DEF Next, SessionStep, VerifyClaim, UpdateClaimStatus, HumanOverrideClaim,
         LoadClaim, NumberClaim, FlushEdit, InsertClaim, InsertConflict,
         Rollback, tables, vars
<1>. QED
  BY <1>1, <1>2, <1>3, <1>4, <1>5

\* The history has the row's status at the row's version.
Tells(history, row) ==
  LET k == row.version - 1 IN
  k \in 0 .. Len(history) /\ StateAt(history, k) = row.status

\* What a reader has read, in each of its phases: rows that their histories,
\* as read or as they are now, tell; and the statuses of one moment.
AuditLoaded ==
  \E c \in Existing, row \in Row :
    /\ reader = [kind |-> "audit", claim |-> c, row |-> row]
    /\ Tells(revisions[c], row)

AuditRead ==
  \E c \in Claim, row \in Row, history \in Seq(Revision) :
    /\ reader = [kind |-> "audited", claim |-> c, row |-> row,
                 history |-> history]
    /\ Tells(history, row)

AuditStored ==
  \E report \in Report :
    /\ reader = [kind |-> "stored", report |-> report]
    /\ Tells(report.history, report.row)

SnapshotOf(D, E, asOf, was) ==
  /\ E \subseteq D /\ D \subseteq Existing
  /\ asOf \in [D -> Nat] /\ was \in [D -> Status]
  /\ reader = [kind |-> "snapshot", as_of |-> asOf, was |-> was,
               states |-> [c \in E |-> was[c]]]
  /\ \A c \in D : /\ asOf[c] <= Len(revisions[c])
                  /\ StateAt(revisions[c], asOf[c]) = was[c]

SnapshotTaken == \E D, E, asOf, was : SnapshotOf(D, E, asOf, was)

ReaderInv ==
  reader # Nil => AuditLoaded \/ AuditRead \/ AuditStored \/ SnapshotTaken

\* A history keeps telling what it told.
LEMMA StillTells ==
  ASSUME NEW h \in Seq(Revision), NEW g \in Seq(Revision), Len(h) <= Len(g),
         \A i \in 1 .. Len(h) : g[i] = h[i]
  PROVE  /\ \A k \in 0 .. Len(h) : StateAt(g, k) = StateAt(h, k)
         /\ \A row : Tells(h, row) => Tells(g, row)
<1>1. \A k \in 0 .. Len(h) : StateAt(g, k) = StateAt(h, k)
  BY DEF StateAt
<1>. QED
  BY <1>1 DEF Tells

\* The steps of the ledger leave what readers hold true.
LEMMA LedgerKeepsReader ==
  ASSUME IInv, ReaderInv, [Next]_vars, UNCHANGED reader
  PROVE  ReaderInv'
<1>1. /\ Existing \subseteq Existing'
      /\ \A c \in Claim :
           /\ revisions[c] \in Seq(Revision) /\ revisions'[c] \in Seq(Revision)
           /\ Len(revisions[c]) \in Nat /\ Len(revisions'[c]) \in Nat
           /\ Len(revisions[c]) <= Len(revisions'[c])
           /\ \A k \in 0 .. Len(revisions[c]) :
                StateAt(revisions'[c], k) = StateAt(revisions[c], k)
           /\ \A row : Tells(revisions[c], row) => Tells(revisions'[c], row)
  <2>1. ASSUME NEW c \in Claim
        PROVE  /\ revisions[c] \in Seq(Revision) /\ revisions'[c] \in Seq(Revision)
               /\ Len(revisions[c]) <= Len(revisions'[c])
               /\ \A i \in 1 .. Len(revisions[c]) :
                    revisions'[c][i] = revisions[c][i]
    BY HistoriesGrow DEF IInv, TypeOK
  <2>2. ASSUME NEW c \in Claim
        PROVE  /\ \A k \in 0 .. Len(revisions[c]) :
                    StateAt(revisions'[c], k) = StateAt(revisions[c], k)
               /\ \A row : Tells(revisions[c], row) => Tells(revisions'[c], row)
    BY <2>1, StillTells
  <2>. QED
    BY <2>1, <2>2, HistoriesGrow
<1>2. Existing \subseteq Claim
  BY DEF Existing
<1>3. CASE AuditLoaded
  <2>1. PICK c \in Existing, row \in Row :
          /\ reader = [kind |-> "audit", claim |-> c, row |-> row]
          /\ Tells(revisions[c], row)
    BY <1>3 DEF AuditLoaded
  <2>2. c \in Existing' /\ Tells(revisions'[c], row)
    BY <1>1, <1>2, <2>1
  <2>. QED
    BY <2>1, <2>2 DEF ReaderInv, AuditLoaded, Tells, StateAt
<1>4. CASE AuditRead \/ AuditStored
  BY <1>4 DEF ReaderInv, AuditRead, AuditStored, Tells, StateAt
<1>5. CASE SnapshotTaken
  <2>1. PICK D, E, asOf, was : SnapshotOf(D, E, asOf, was)
    BY <1>5 DEF SnapshotTaken
  <2>2. D \subseteq Existing'
    BY <1>1, <2>1 DEF SnapshotOf
  <2>3. \A c \in D : /\ asOf[c] <= Len(revisions'[c])
                     /\ StateAt(revisions'[c], asOf[c]) = was[c]
    <3>. SUFFICES ASSUME NEW c \in D
                  PROVE  /\ asOf[c] <= Len(revisions'[c])
                         /\ StateAt(revisions'[c], asOf[c]) = was[c]
      OBVIOUS
    <3>1. /\ asOf[c] \in Nat /\ asOf[c] <= Len(revisions[c])
          /\ StateAt(revisions[c], asOf[c]) = was[c]
      BY <2>1 DEF SnapshotOf
    <3>2. c \in Claim
      BY <1>2, <2>1 DEF SnapshotOf
    <3>3. asOf[c] \in 0 .. Len(revisions[c])
      BY <1>1, <3>1, <3>2
    <3>. QED
      BY <1>1, <3>1, <3>2, <3>3
  <2>4. SnapshotOf(D, E, asOf, was)'
    BY <2>1, <2>2, <2>3 DEF SnapshotOf, StateAt
  <2>. QED
    BY <2>4 DEF ReaderInv, SnapshotTaken
<1>6. CASE reader = Nil
  BY <1>6 DEF ReaderInv
<1>. QED
  BY <1>3, <1>4, <1>5, <1>6 DEF ReaderInv
\* The row of a claim is told by its history, as it is now.
LEMMA RowsAreTold ==
  ASSUME IInv, HistoryExplainsClaim, NEW c \in Existing
  PROVE  /\ c \in Claim /\ claims[c] \in Row
         /\ revisions[c] \in Seq(Revision) /\ Len(revisions[c]) \in Nat
         /\ Tells(revisions[c], claims[c])
         /\ StateAt(revisions[c], Len(revisions[c])) = claims[c].status
<1>1. /\ c \in Claim /\ claims[c] \in Row
      /\ revisions[c] \in Seq(Revision) /\ Len(revisions[c]) \in Nat
  BY ExistingRow DEF IInv, TypeOK
<1>2. Lifecycle!HistoryEnds(c) /\ Lifecycle!VersionCounts(c)
  BY SameRecords DEF HistoryExplainsClaim, Lifecycle!HistoryExplainsClaim
<1>3. claims[c].version - 1 = Len(revisions[c])
  BY <1>1, <1>2 DEF Lifecycle!VersionCounts
<1>4. StateAt(revisions[c], Len(revisions[c])) = claims[c].status
  BY <1>1, <1>2 DEF Lifecycle!HistoryEnds, StateAt
<1>. QED
  BY <1>1, <1>3, <1>4 DEF Tells

\* Each step of a reader hands on what it has read.
LEMMA ReaderKeepsReader ==
  ASSUME IInv, HistoryExplainsClaim, ReaderInv, ReaderStep, UNCHANGED vars
  PROVE  ReaderInv'
<1>1. UNCHANGED <<claims, revisions>> /\ Existing' = Existing
  BY DEF vars, Existing
<1>2. ASSUME NEW c \in Claim, LoadAudited(c)
      PROVE  ReaderInv'
  <2>1. c \in Existing /\ claims[c] \in Row /\ Tells(revisions[c], claims[c])
    BY <1>2, RowsAreTold DEF LoadAudited
  <2>2. reader' = [kind |-> "audit", claim |-> c, row |-> claims[c]]
    BY <1>2 DEF LoadAudited
  <2>3. AuditLoaded'
    BY <1>1, <2>1, <2>2 DEF AuditLoaded, Tells, StateAt
  <2>. QED
    BY <2>3 DEF ReaderInv
<1>3. CASE ReadRevisions
  <2>1. AuditLoaded
    BY <1>3
    DEF ReadRevisions, ReaderInv, AuditRead, AuditStored, SnapshotTaken,
        SnapshotOf
  <2>2. PICK c \in Existing, row \in Row :
          /\ reader = [kind |-> "audit", claim |-> c, row |-> row]
          /\ Tells(revisions[c], row)
    BY <2>1 DEF AuditLoaded
  <2>3. /\ reader' = [kind |-> "audited", claim |-> c, row |-> row,
                      history |-> revisions[c]]
        /\ c \in Claim /\ revisions[c] \in Seq(Revision)
    BY <1>3, <2>2 DEF ReadRevisions, Existing, IInv, TypeOK
  <2>4. AuditRead'
    BY <2>2, <2>3 DEF AuditRead, Tells, StateAt
  <2>. QED
    BY <2>4 DEF ReaderInv
<1>4. CASE StoreReport
  <2>1. AuditRead
    BY <1>4
    DEF StoreReport, ReaderInv, AuditLoaded, AuditStored, SnapshotTaken,
        SnapshotOf
  <2>2. PICK c \in Claim, row \in Row, history \in Seq(Revision) :
          /\ reader = [kind |-> "audited", claim |-> c, row |-> row,
                       history |-> history]
          /\ Tells(history, row)
    BY <2>1 DEF AuditRead
  <2>. DEFINE report == [claim |-> c, row |-> row, history |-> history]
  <2>3. reader' = [kind |-> "stored", report |-> report] /\ report \in Report
    BY <1>4, <2>2 DEF StoreReport, WriteReport, Report
  <2>4. Tells(report.history, report.row)
    BY <2>2
  <2>5. AuditStored'
    BY <2>3, <2>4 DEF AuditStored, Tells, StateAt
  <2>. QED
    BY <2>5 DEF ReaderInv
<1>5. CASE StartSnapshot
  <2>. DEFINE asOf == [c \in Existing |-> Len(revisions[c])]
              was == [c \in Existing |-> claims[c].status]
  <2>1. /\ asOf \in [Existing -> Nat] /\ was \in [Existing -> Status]
        /\ \A c \in Existing : /\ asOf[c] <= Len(revisions[c])
                               /\ StateAt(revisions[c], asOf[c]) = was[c]
    BY RowsAreTold DEF Row
  <2>2. reader' = [kind |-> "snapshot", as_of |-> asOf, was |-> was,
                   states |-> [c \in {} |-> was[c]]]
    BY <1>5 DEF StartSnapshot
  <2>. HIDE DEF asOf, was
  \* f and g are the values that asOf and was have in this state.
  <2>3. PICK D, f, g : D = Existing /\ f = asOf /\ g = was
    OBVIOUS
  <2>4. SnapshotOf(D, {}, f, g)'
    BY <1>1, <2>1, <2>2, <2>3 DEF SnapshotOf, StateAt
  <2>. QED
    BY <2>4 DEF ReaderInv, SnapshotTaken
<1>6. ASSUME NEW c \in Claim, SnapshotClaim(c)
      PROVE  ReaderInv'
  <2>1. SnapshotTaken
    BY <1>6
    DEF SnapshotClaim, ReaderInv, AuditLoaded, AuditRead, AuditStored
  <2>2. PICK D, E, asOf, was : SnapshotOf(D, E, asOf, was)
    BY <2>1 DEF SnapshotTaken
  <2>3. /\ c \in D \ E
        /\ reader.as_of = asOf
        /\ reader.states = [d \in E |-> was[d]]
    BY <1>6, <2>2 DEF SnapshotClaim, SnapshotOf
  <2>4. SnapshotState(c) = was[c]
    BY <2>2, <2>3 DEF SnapshotState, SnapshotOf
  <2>5. reader' = [kind |-> "snapshot", as_of |-> asOf, was |-> was,
                   states |-> [d \in E \cup {c} |-> was[d]]]
    BY <1>6, <2>2, <2>3, <2>4 DEF SnapshotClaim, SnapshotOf
  <2>6. SnapshotOf(D, E \cup {c}, asOf, was)'
    BY <1>1, <2>2, <2>3, <2>5 DEF SnapshotOf, StateAt
  <2>. QED
    BY <2>6 DEF ReaderInv, SnapshotTaken
<1>7. CASE ReaderEnds
  BY <1>7 DEF ReaderEnds, ReaderInv
<1>. QED
  BY <1>2, <1>3, <1>4, <1>5, <1>6, <1>7 DEF ReaderStep

\* The reader leaves the ledger alone.
LEMMA LedgerInAudit == AuditSpec => Spec
<1>1. AuditInit => Init
  BY DEF AuditInit
<1>2. [AuditNext]_<<vars, reader>> => [Next]_vars
  BY DEF AuditNext, vars
<1>. QED
  BY <1>1, <1>2, PTL DEF AuditSpec, Spec

\* Readers hold what the histories tell, in every interleaving with requests
\* that do not overlap each other.
LEMMA ReaderInductive ==
  ASSUME OneSession
  PROVE  AuditSpec => []ReaderInv
<1>1. AuditInit => ReaderInv
  BY DEF AuditInit, ReaderInv
<1>2. (IInv /\ HistoryExplainsClaim) /\ ReaderInv
        /\ [AuditNext]_<<vars, reader>> => ReaderInv'
  <2>. SUFFICES ASSUME IInv, HistoryExplainsClaim, ReaderInv,
                       [AuditNext]_<<vars, reader>>
                PROVE  ReaderInv'
    OBVIOUS
  <2>1. CASE Next /\ UNCHANGED reader
    BY <2>1, LedgerKeepsReader
  <2>2. CASE ReaderStep /\ UNCHANGED vars
    BY <2>2, ReaderKeepsReader
  <2>3. CASE UNCHANGED <<vars, reader>>
    <3>1. UNCHANGED vars /\ UNCHANGED reader
      BY <2>3
    <3>. QED
      BY <3>1, LedgerKeepsReader
  <2>. QED
    BY <2>1, <2>2, <2>3 DEF AuditNext
<1>3. AuditSpec => [](IInv /\ HistoryExplainsClaim)
  BY LedgerInAudit, Inductive, HistoryIsComplete, PTL
<1>. QED
  BY <1>1, <1>2, <1>3, PTL DEF AuditSpec

\* An audit report that was put together by several queries is torn in one way
\* only: the first revisions in it explain the row in it, and the others are
\* edits that were committed while the audit ran.
THEOREM ReportsSafe ==
  ASSUME OneSession
  PROVE  AuditSpec => []ReportsAreExplained
<1>1. ReaderInv => ReportsAreExplained
  BY DEF ReaderInv, AuditLoaded, AuditRead, AuditStored, SnapshotTaken,
         SnapshotOf, ReportsAreExplained, Tells
<1>. QED
  BY <1>1, ReaderInductive, PTL

\* A snapshot has the status that each claim had at one moment, although its
\* claims are read one by one while edits commit.
THEOREM SnapshotsSafe ==
  ASSUME OneSession
  PROVE  AuditSpec => []SnapshotsAreOfOneMoment
<1>1. ReaderInv => SnapshotsAreOfOneMoment
  BY DEF ReaderInv, AuditLoaded, AuditRead, AuditStored, SnapshotTaken,
         SnapshotOf, SnapshotsAreOfOneMoment
<1>. QED
  BY <1>1, ReaderInductive, PTL
=============================================================================
