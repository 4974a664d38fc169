------------------------- MODULE ClaimLedger_proofs -------------------------
(***************************************************************************)
(* Theorems about ClaimLedger for every set of claims and sessions, every  *)
(* set of override targets and every bound.                                *)
(***************************************************************************)
EXTENDS ClaimLedger, FiniteSetTheorems, TLAPS

-----------------------------------------------------------------------------
(***************************************************************************)
(* Type correctness.                                                       *)
(***************************************************************************)

\* An absent row is not a row, so a claim that exists has its three columns.
LEMMA ExistingRow ==
  ASSUME TypeOK, NEW c \in Existing
  PROVE  c \in Claim /\ claims[c] \in Row
BY DEF TypeOK, Existing

\* No row of the claims table can be mistaken for the absence of one.
LEMMA RowIsPresent ==
  ASSUME NEW r \in Row
  PROVE  r # Absent
BY DEF Absent, Row, Status

\* Nor can the edit of a session for the absence of one.
LEMMA EditIsNotNil ==
  ASSUME NEW e \in Edit
  PROVE  e # Nil
BY NilIsNoEdit

\* An open edit is a record of Edit.
LEMMA OpenEdit ==
  ASSUME TypeOK, NEW s \in Session, phase[s] \in {"loaded", "flushed"}
  PROVE  edit[s] \in Edit
BY DEF TypeOK

\* A load leaves a well-typed edit.
LEMMA LoadType ==
  ASSUME TypeOK, NEW s \in Session, NEW c \in Claim, NEW new \in Status,
         NEW by \in {"ledger", "human"}, LoadClaim(s, c, new, by)
  PROVE  TypeOK' /\ edit'[s] \in Edit
<1>1. claims[c] \in Row
  BY ExistingRow DEF LoadClaim
<1>2. Len(revisions[c]) \in Nat
  BY DEF TypeOK
<1>3. edit'[s] \in Edit
  BY <1>1, <1>2 DEF TypeOK, LoadClaim, Edit, Row
<1>4. edit'[s] # Nil
  BY <1>3, EditIsNotNil
<1>5. edit' \in [Session -> Edit \cup {Nil}]
  BY <1>3 DEF TypeOK, LoadClaim
<1>6. ASSUME NEW t \in Session
      PROVE  /\ (edit'[t] # Nil) <=> (phase'[t] \in {"loaded", "flushed"})
             /\ (counted'[t] # 0) <=> (phase'[t] = "numbered")
             /\ Inserted(t)' # {} => phase'[t] \in {"numbered", "inserted"}
  <2>1. CASE t = s
    BY <1>4, <2>1 DEF TypeOK, LoadClaim, Inserted
  <2>2. CASE t # s
    BY <2>2 DEF TypeOK, LoadClaim, Inserted
  <2>. QED
    BY <2>1, <2>2
<1>. QED
  BY <1>3, <1>5, <1>6 DEF TypeOK, LoadClaim, Phase

\* A session that ends is idle and keeps nothing; the others keep theirs.
LEMMA EndSessionType ==
  ASSUME TypeOK, NEW s \in Session, EndSession(s)
  PROVE  /\ phase' \in [Session -> Phase]
         /\ edit' \in [Session -> Edit \cup {Nil}]
         /\ batch' \in [Session -> [Claim -> Nat]]
         /\ counted' \in [Session -> Nat]
         /\ \A t \in Session :
              /\ (edit'[t] # Nil) <=> (phase'[t] \in {"loaded", "flushed"})
              /\ (counted'[t] # 0) <=> (phase'[t] = "numbered")
              /\ Inserted(t)' # {} => phase'[t] \in {"numbered", "inserted"}
         /\ Inserted(s)' = {}
         /\ \A t \in Session \ {s} : Inserted(t)' = Inserted(t)
<1>1. /\ phase' \in [Session -> Phase]
      /\ edit' \in [Session -> Edit \cup {Nil}]
      /\ batch' \in [Session -> [Claim -> Nat]]
      /\ counted' \in [Session -> Nat]
  BY DEF TypeOK, EndSession, Phase, NoBatch
<1>2. Inserted(s)' = {}
  BY DEF TypeOK, EndSession, Inserted, NoBatch
<1>3. \A t \in Session \ {s} : Inserted(t)' = Inserted(t)
  BY DEF TypeOK, EndSession, Inserted
<1>4. ASSUME NEW t \in Session
      PROVE  /\ (edit'[t] # Nil) <=> (phase'[t] \in {"loaded", "flushed"})
             /\ (counted'[t] # 0) <=> (phase'[t] = "numbered")
             /\ Inserted(t)' # {} => phase'[t] \in {"numbered", "inserted"}
  <2>1. CASE t = s
    BY <1>2, <2>1 DEF TypeOK, EndSession
  <2>2. CASE t # s
    BY <1>3, <2>2 DEF TypeOK, EndSession
  <2>. QED
    BY <2>1, <2>2
<1>. QED
  BY <1>1, <1>2, <1>3, <1>4

\* The row an edit commits is a row, and so is its revision.
LEMMA UpdatedRowType ==
  ASSUME NEW e \in Edit, NEW row \in Row
  PROVE  /\ UpdatedRow(e, row) \in Row
         /\ UpdatedRow(e, row).number = row.number
         /\ UpdatedRow(e, row).version = e.version + 1
         /\ UpdatedRow(e, row).status = StatusWritten(e, row)
<1>1. StatusWritten(e, row) \in Status
  BY DEF StatusWritten, Edit, Row
<1>2. e.version + 1 \in Nat
  BY DEF Edit
<1>. QED
  BY <1>1, <1>2 DEF Row, UpdatedRow

\* The revision an edit records is a row of claim_revisions.
LEMMA RevisionType ==
  ASSUME NEW e \in Edit
  PROVE  RevisionOf(e) \in Revision
BY DEF Edit, Revision, RevisionOf

-----------------------------------------------------------------------------
(***************************************************************************)
(* The inductive invariant IInv, one lemma per step.  Most steps leave the *)
(* tables alone; for those only the session's own edit and batch matter.   *)
(***************************************************************************)

\* The empty tables and idle sessions satisfy the inductive invariant.
THEOREM InitIInv == Init => IInv
<1>. SUFFICES ASSUME Init PROVE IInv
  OBVIOUS
<1>1. TypeOK
  BY DEF Init, TypeOK, Phase, NoBatch, Inserted
<1>2. Existing = {}
  BY DEF Init, Existing
<1>. QED
  BY <1>1, <1>2
  DEF Init, IInv, EditsOnExisting, HistoriesOfExisting, BatchesFresh,
      EditsRemember, VersionNotAhead, StatusExplained, Editing, Inserted,
      NoBatch

\* What is said of the tables alone stays true while they stay the same.
LEMMA TablesKept ==
  ASSUME IInv, UNCHANGED <<claims, revisions>>
  PROVE  /\ Existing' = Existing
         /\ HistoriesOfExisting' /\ VersionNotAhead' /\ StatusExplained'
<1>1. Existing' = Existing
  BY DEF Existing
<1>2. HistoriesOfExisting'
  BY <1>1 DEF IInv, HistoriesOfExisting
<1>3. VersionNotAhead'
  BY <1>1 DEF IInv, VersionNotAhead
<1>4. StatusExplained'
  BY <1>1 DEF IInv, StatusExplained
<1>. QED
  BY <1>1, <1>2, <1>3, <1>4

\* Pending rows stay fresh while no claim and no pending row is added.
LEMMA BatchesKept ==
  ASSUME BatchesFresh, Existing' = Existing,
         \A t \in Session : Inserted(t)' \subseteq Inserted(t)
  PROVE  BatchesFresh'
BY DEF BatchesFresh

\* verify_claim, update_claim_status and human_override_claim up to the
\* flush: what is remembered of the claim is the row as it is.
LEMMA LoadIInv ==
  ASSUME IInv, NEW s \in Session, NEW c \in Claim, NEW new \in Status,
         NEW by \in {"ledger", "human"}, LoadClaim(s, c, new, by),
         by = "ledger" => TransitionValid(claims[c].status, new)
  PROVE  IInv'
<1>1. TypeOK' /\ edit'[s] \in Edit
  BY LoadType DEF IInv
<1>2. UNCHANGED <<claims, revisions, batch>> /\ Existing' = Existing
  BY DEF LoadClaim, Existing
<1>3. \A t \in Session : Inserted(t)' = Inserted(t)
  BY <1>2 DEF Inserted
<1>4. \A t \in Session \ {s} :
        edit'[t] = edit[t] /\ (Editing(t)' <=> Editing(t))
  BY DEF IInv, TypeOK, LoadClaim, Editing
<1>5. c \in Existing /\ edit'[s].claim = c /\ RemembersRow(edit[s])'
  <2>1. edit'[s] = [claim |-> c, new |-> new, by |-> by,
                    read |-> claims[c].status, version |-> claims[c].version,
                    seen |-> Len(revisions[c])]
    BY DEF IInv, TypeOK, LoadClaim
  <2>2. c \in Existing /\ claims[c] \in Row /\ Len(revisions[c]) \in Nat
    BY ExistingRow DEF LoadClaim, IInv, TypeOK
  <2>3. claims[c].version <= 1 + Len(revisions[c])
    BY <2>2 DEF IInv, VersionNotAhead
  <2>. QED
    BY <1>2, <2>1, <2>2, <2>3 DEF RemembersRow
<1>6. EditsOnExisting' /\ EditsRemember'
  <2>. SUFFICES ASSUME NEW t \in Session, Editing(t)'
                PROVE  /\ edit'[t].claim \in Existing'
                       /\ RemembersRow(edit[t])'
    BY DEF EditsOnExisting, EditsRemember
  <2>1. CASE t = s
    BY <1>2, <1>5, <2>1
  <2>2. CASE t # s
    BY <1>2, <1>4, <2>2
    DEF IInv, EditsOnExisting, EditsRemember, RemembersRow
  <2>. QED
    BY <2>1, <2>2
<1>7. BatchesFresh'
  BY <1>2, <1>3, BatchesKept DEF IInv
<1>. QED
  BY <1>1, <1>2, <1>6, <1>7, TablesKept DEF IInv

\* Sending the UPDATE changes nothing that is committed or remembered.
LEMMA FlushIInv ==
  ASSUME IInv, NEW s \in Session, FlushEdit(s)
  PROVE  IInv'
<1>1. /\ UNCHANGED <<claims, revisions, edit, batch, counted>>
      /\ Existing' = Existing
  BY DEF FlushEdit, Existing
<1>2. \A t \in Session : Inserted(t)' = Inserted(t)
  BY <1>1 DEF Inserted
<1>3. ASSUME NEW t \in Session
      PROVE  /\ Editing(t)' <=> Editing(t)
             /\ (phase'[t] = "numbered") <=> (phase[t] = "numbered")
             /\ (phase'[t] \in {"numbered", "inserted"})
                  <=> (phase[t] \in {"numbered", "inserted"})
  <2>1. CASE t = s
    BY <2>1 DEF IInv, TypeOK, FlushEdit, Editing
  <2>2. CASE t # s
    BY <2>2 DEF IInv, TypeOK, FlushEdit, Editing
  <2>. QED
    BY <2>1, <2>2
<1>4. TypeOK'
  <2>1. phase' \in [Session -> Phase]
    BY DEF IInv, TypeOK, FlushEdit, Phase
  <2>. QED
    BY <1>1, <1>2, <1>3, <2>1 DEF IInv, TypeOK, Editing
<1>5. EditsOnExisting' /\ EditsRemember'
  BY <1>1, <1>3
  DEF IInv, EditsOnExisting, EditsRemember, RemembersRow
<1>6. BatchesFresh'
  BY <1>1, <1>2, BatchesKept DEF IInv
<1>. QED
  BY <1>1, <1>4, <1>5, <1>6, TablesKept DEF IInv

\* An edit that is open after a session ended was open before, elsewhere.
LEMMA OthersEdit ==
  ASSUME TypeOK, NEW s \in Session, EndSession(s),
         NEW t \in Session, Editing(t)'
  PROVE  t # s /\ Editing(t) /\ edit'[t] = edit[t]
<1>1. CASE t = s
  BY <1>1 DEF TypeOK, EndSession, Editing
<1>2. CASE t # s
  BY <1>2 DEF TypeOK, EndSession, Editing
<1>. QED
  BY <1>1, <1>2

\* InsertConflict and Rollback: the session ends and nothing is written.
LEMMA EndIInv ==
  ASSUME IInv, NEW s \in Session, EndSession(s), UNCHANGED tables
  PROVE  IInv'
<1>1. UNCHANGED <<claims, revisions>> /\ Existing' = Existing
  BY DEF tables, Existing
<1>2. TypeOK'
  BY <1>1, EndSessionType DEF IInv, TypeOK
<1>3. EditsOnExisting' /\ EditsRemember'
  <2>. SUFFICES ASSUME NEW t \in Session, Editing(t)'
                PROVE  /\ edit'[t].claim \in Existing'
                       /\ RemembersRow(edit[t])'
    BY DEF EditsOnExisting, EditsRemember
  <2>1. Editing(t) /\ edit'[t] = edit[t]
    BY OthersEdit DEF IInv
  <2>. QED
    BY <1>1, <2>1 DEF IInv, EditsOnExisting, EditsRemember, RemembersRow
<1>4. BatchesFresh'
  <2>1. \A t \in Session : Inserted(t)' \subseteq Inserted(t)
    BY EndSessionType DEF IInv
  <2>. QED
    BY <1>1, <2>1, BatchesKept DEF IInv
<1>. QED
  BY <1>1, <1>2, <1>3, <1>4, TablesKept DEF IInv

\* The row and the history an edit leaves behind.
LEMMA CommitEditEffect ==
  ASSUME IInv, NEW s \in Session, CommitEdit(s)
  PROVE  LET e == edit[s]
             c == e.claim
         IN  /\ e \in Edit /\ c \in Existing /\ claims[c] \in Row
             /\ claims'[c] = UpdatedRow(e, claims[c])
             /\ claims'[c] \in Row
             /\ revisions[c] \in Seq(Revision)
             /\ RevisionOf(e) \in Revision
             /\ revisions'[c] = Append(revisions[c], RevisionOf(e))
             /\ Len(revisions'[c]) = Len(revisions[c]) + 1
             /\ \A d \in Claim \ {c} : /\ claims'[d] = claims[d]
                                       /\ revisions'[d] = revisions[d]
             /\ Existing' = Existing
             /\ claims' \in [Claim -> Row \cup {Absent}]
             /\ revisions' \in [Claim -> Seq(Revision)]
<1>. DEFINE e == edit[s]
            c == e.claim
<1>1. phase[s] = "flushed" /\ EndSession(s)
  BY DEF CommitEdit
<1>2. e \in Edit
  BY <1>1, OpenEdit DEF IInv
<1>3. c \in Existing
  BY <1>1 DEF IInv, EditsOnExisting, Editing
<1>4. c \in Claim /\ claims[c] \in Row
  BY <1>3, ExistingRow DEF IInv
<1>5. UpdatedRow(e, claims[c]) \in Row
  BY <1>2, <1>4, UpdatedRowType
<1>6. RevisionOf(e) \in Revision
  BY <1>2, RevisionType
<1>7. revisions[c] \in Seq(Revision)
  BY <1>4 DEF IInv, TypeOK
<1>8. /\ Append(revisions[c], RevisionOf(e)) \in Seq(Revision)
      /\ Len(Append(revisions[c], RevisionOf(e))) = Len(revisions[c]) + 1
  BY <1>6, <1>7
<1>9. /\ claims' = [claims EXCEPT ![c] = UpdatedRow(e, claims[c])]
      /\ revisions' = [revisions EXCEPT ![c] =
                         Append(revisions[c], RevisionOf(e))]
  BY DEF CommitEdit
<1>10. /\ claims \in [Claim -> Row \cup {Absent}]
       /\ revisions \in [Claim -> Seq(Revision)]
  BY DEF IInv, TypeOK
<1>. HIDE DEF e, c
<1>11. /\ claims'[c] = UpdatedRow(e, claims[c])
       /\ revisions'[c] = Append(revisions[c], RevisionOf(e))
       /\ \A d \in Claim \ {c} : /\ claims'[d] = claims[d]
                                 /\ revisions'[d] = revisions[d]
       /\ claims' \in [Claim -> Row \cup {Absent}]
       /\ revisions' \in [Claim -> Seq(Revision)]
  BY <1>4, <1>5, <1>8, <1>9, <1>10
<1>12. Existing' = Existing
  <2>1. claims[c] # Absent /\ claims'[c] # Absent
    BY <1>4, <1>5, <1>11, RowIsPresent
  <2>. QED
    BY <1>11, <2>1 DEF Existing
<1>. QED
  BY <1>2, <1>3, <1>4, <1>5, <1>6, <1>7, <1>8, <1>11, <1>12 DEF e, c

\* A revision appended to a history takes over the explanation if it moved
\* the claim, and leaves it alone if it did not.
LEMMA ExplainsAppend ==
  ASSUME NEW h \in Seq(Revision), NEW r \in Revision, NEW status,
         Explains(h, status)
  PROVE  Explains(Append(h, r), IF Moves(r) THEN r.updated ELSE status)
<1>. DEFINE g == Append(h, r)
            n == Len(h)
<1>1. /\ n \in Nat /\ Len(g) = n + 1 /\ g[n + 1] = r
      /\ \A i \in 1 .. n : g[i] = h[i]
  OBVIOUS
<1>. HIDE DEF g, n
<1>2. CASE Moves(r)
  <2>1. n + 1 \in 1 .. Len(g) /\ n + 1 + 1 .. Len(g) = {}
    BY <1>1
  <2>2. Explains(g, r.updated)
    BY <1>1, <1>2, <2>1 DEF Explains
  <2>. QED
    BY <1>2, <2>2 DEF g
<1>3. CASE ~Moves(r)
  <2>1. CASE status = "draft" /\ \A i \in 1 .. n : ~Moves(h[i])
    <3>1. \A i \in 1 .. Len(g) : ~Moves(g[i])
      BY <1>1, <1>3, <2>1
    <3>. QED
      BY <1>3, <2>1, <3>1 DEF Explains, g
  <2>2. CASE \E i \in 1 .. n :
               /\ Moves(h[i]) /\ status = h[i].updated
               /\ \A j \in i + 1 .. n : ~Moves(h[j])
    <3>1. PICK i \in 1 .. n : /\ Moves(h[i]) /\ status = h[i].updated
                              /\ \A j \in i + 1 .. n : ~Moves(h[j])
      BY <2>2
    <3>2. /\ i \in 1 .. Len(g) /\ Moves(g[i]) /\ status = g[i].updated
      BY <1>1, <3>1
    <3>3. ASSUME NEW j \in i + 1 .. Len(g) PROVE ~Moves(g[j])
      <4>1. CASE j = n + 1
        BY <1>1, <1>3, <4>1
      <4>2. CASE j # n + 1
        <5>1. j \in i + 1 .. n /\ j \in 1 .. n
          BY <1>1, <4>2
        <5>. QED
          BY <1>1, <3>1, <5>1
      <4>. QED
        BY <4>1, <4>2
    <3>4. Explains(g, status)
      BY <3>2, <3>3 DEF Explains
    <3>. QED
      BY <1>3, <3>4 DEF g
  <2>. QED
    BY <2>1, <2>2 DEF Explains, n
<1>. QED
  BY <1>2, <1>3

\* A committed edit keeps the inductive invariant.
LEMMA CommitEditIInv ==
  ASSUME IInv, NEW s \in Session, CommitEdit(s)
  PROVE  IInv'
<1>. DEFINE e == edit[s]
            c == e.claim
            n == Len(revisions[c])
<1>1. EndSession(s) /\ Editing(s)
  BY DEF CommitEdit, Editing
<1>2. /\ e \in Edit /\ c \in Existing /\ claims[c] \in Row
      /\ claims'[c] = UpdatedRow(e, claims[c])
      /\ claims'[c] \in Row
      /\ revisions[c] \in Seq(Revision)
      /\ RevisionOf(e) \in Revision
      /\ revisions'[c] = Append(revisions[c], RevisionOf(e))
      /\ Len(revisions'[c]) = n + 1
      /\ \A d \in Claim \ {c} : /\ claims'[d] = claims[d]
                                /\ revisions'[d] = revisions[d]
      /\ Existing' = Existing
      /\ claims' \in [Claim -> Row \cup {Absent}]
      /\ revisions' \in [Claim -> Seq(Revision)]
  BY CommitEditEffect
<1>3. c \in Claim /\ n \in Nat
  BY <1>2 DEF Existing
<1>4. e.seen \in Nat /\ e.seen <= n /\ e.version \in Nat /\ e.version <= 1 + e.seen
  BY <1>1, <1>2 DEF IInv, EditsRemember, RemembersRow, Edit
<1>. HIDE DEF e, c, n
<1>5. TypeOK'
  BY <1>1, <1>2, EndSessionType DEF IInv, TypeOK
<1>6. HistoriesOfExisting'
  BY <1>2 DEF IInv, HistoriesOfExisting
<1>7. BatchesFresh'
  <2>1. \A t \in Session : Inserted(t)' \subseteq Inserted(t)
    BY <1>1, EndSessionType DEF IInv
  <2>. QED
    BY <1>2, <2>1, BatchesKept DEF IInv
<1>8. VersionNotAhead'
  <2>. SUFFICES ASSUME NEW d \in Existing'
                PROVE  claims'[d].version <= 1 + Len(revisions'[d])
    BY DEF VersionNotAhead
  <2>1. CASE d = c
    BY <1>2, <1>3, <1>4, <2>1, UpdatedRowType
  <2>2. CASE d # c
    BY <1>2, <2>2 DEF IInv, VersionNotAhead, Existing
  <2>. QED
    BY <2>1, <2>2
<1>9. StatusExplained'
  <2>. SUFFICES ASSUME NEW d \in Existing'
                PROVE  Explains(revisions'[d], claims'[d].status)
    BY DEF StatusExplained, Explains
  <2>1. CASE d = c
    <3>1. Explains(revisions[c], claims[c].status)
      BY <1>2 DEF IInv, StatusExplained
    <3>2. claims'[c].status = IF Moves(RevisionOf(e))
                                THEN RevisionOf(e).updated
                                ELSE claims[c].status
      BY <1>2, UpdatedRowType DEF StatusWritten, Moves, RevisionOf
    <3>. QED
      BY <1>2, <2>1, <3>1, <3>2, ExplainsAppend
  <2>2. CASE d # c
    BY <1>2, <2>2 DEF IInv, StatusExplained, Existing
  <2>. QED
    BY <2>1, <2>2
<1>10. EditsOnExisting' /\ EditsRemember'
  <2>. SUFFICES ASSUME NEW t \in Session, Editing(t)'
                PROVE  /\ edit'[t].claim \in Existing'
                       /\ RemembersRow(edit[t])'
    BY DEF EditsOnExisting, EditsRemember
  <2>1. Editing(t) /\ edit'[t] = edit[t]
    BY <1>1, OthersEdit DEF IInv
  <2>2. edit[t] \in Edit /\ edit[t].claim \in Existing /\ RemembersRow(edit[t])
    BY <2>1, OpenEdit DEF IInv, EditsOnExisting, EditsRemember, Editing
  <2>3. CASE edit[t].claim = c
    \* The history has grown, so nothing is claimed of the row any more.
    <3>1. edit[t].seen \in Nat /\ edit[t].seen <= n
      BY <2>2, <2>3 DEF RemembersRow, Edit, n
    <3>2. edit[t].seen < Len(revisions'[c])
      BY <1>2, <1>3, <3>1
    <3>. QED
      BY <1>2, <1>3, <2>1, <2>2, <2>3, <3>1, <3>2 DEF RemembersRow
  <2>4. CASE edit[t].claim # c
    <3>1. /\ claims'[edit[t].claim] = claims[edit[t].claim]
          /\ revisions'[edit[t].claim] = revisions[edit[t].claim]
      BY <1>2, <2>2, <2>4 DEF Existing
    <3>. QED
      BY <1>2, <2>1, <2>2, <3>1 DEF RemembersRow
  <2>. QED
    BY <2>3, <2>4
<1>. QED
  BY <1>5, <1>6, <1>7, <1>8, <1>9, <1>10 DEF IInv

\* Counting claims: NextClaimNumber is a positive number (count(*) is finite
\* because Claim is).
LEMMA NextNumberType ==
  ASSUME NEW s \in Session
  PROVE  /\ Cardinality(Existing) \in Nat
         /\ Cardinality(Inserted(s)) \in Nat
         /\ NextClaimNumber(s) \in Nat /\ NextClaimNumber(s) # 0
<1>1. Existing \in SUBSET Claim /\ Inserted(s) \in SUBSET Claim
  BY DEF Existing, Inserted
<1>2. IsFiniteSet(Existing) /\ IsFiniteSet(Inserted(s))
  BY <1>1, ClaimFinite, FS_Subset
<1>3. Cardinality(Existing) \in Nat /\ Cardinality(Inserted(s)) \in Nat
  BY <1>2, FS_CardinalityType
<1>. QED
  BY <1>3 DEF NextClaimNumber

\* Computing a claim number leaves rows, histories and edits alone.
LEMMA NumberIInv ==
  ASSUME IInv, NEW s \in Session, NumberClaim(s)
  PROVE  IInv'
<1>1. /\ UNCHANGED <<claims, revisions, edit, batch>>
      /\ Existing' = Existing
  BY DEF NumberClaim, Existing
<1>2. \A t \in Session : Inserted(t)' = Inserted(t)
  BY <1>1 DEF Inserted
<1>3. TypeOK'
  <2>1. counted'[s] = NextClaimNumber(s) /\ phase'[s] = "numbered"
    BY DEF IInv, TypeOK, NumberClaim
  <2>2. counted' \in [Session -> Nat] /\ phase' \in [Session -> Phase]
    BY NextNumberType DEF IInv, TypeOK, NumberClaim, Phase
  <2>3. ASSUME NEW t \in Session
        PROVE  /\ (edit'[t] # Nil) <=> (phase'[t] \in {"loaded", "flushed"})
               /\ (counted'[t] # 0) <=> (phase'[t] = "numbered")
               /\ Inserted(t)' # {} => phase'[t] \in {"numbered", "inserted"}
    <3>1. CASE t = s
      BY <1>1, <2>1, <3>1, NextNumberType DEF IInv, TypeOK, NumberClaim
    <3>2. CASE t # s
      BY <1>1, <1>2, <3>2 DEF IInv, TypeOK, NumberClaim
    <3>. QED
      BY <3>1, <3>2
  <2>. QED
    BY <1>1, <2>2, <2>3 DEF IInv, TypeOK
<1>4. \A t \in Session : Editing(t)' => Editing(t)
  BY DEF IInv, TypeOK, NumberClaim, Editing
<1>5. EditsOnExisting' /\ EditsRemember'
  BY <1>1, <1>4
  DEF IInv, EditsOnExisting, EditsRemember, RemembersRow
<1>6. BatchesFresh'
  BY <1>1, <1>2, BatchesKept DEF IInv
<1>. QED
  BY <1>1, <1>3, <1>5, <1>6, TablesKept DEF IInv

\* Inserting a row keeps uncommitted rows apart from the committed ones and
\* from those of other sessions.
LEMMA InsertIInv ==
  ASSUME IInv, NEW s \in Session, NEW c \in Claim, InsertClaim(s, c)
  PROVE  IInv'
<1>1. /\ UNCHANGED <<claims, revisions, edit>>
      /\ Existing' = Existing
      /\ c \in UnusedIds /\ counted[s] # 0 /\ counted[s] \in Nat
  BY DEF InsertClaim, Existing, IInv, TypeOK
<1>2. /\ Inserted(s)' = Inserted(s) \cup {c}
      /\ \A t \in Session \ {s} : Inserted(t)' = Inserted(t)
  BY <1>1 DEF IInv, TypeOK, InsertClaim, Inserted
<1>3. TypeOK'
  <2>1. phase' \in [Session -> Phase] /\ counted' \in [Session -> Nat]
    BY DEF IInv, TypeOK, InsertClaim, Phase
  <2>2. batch' \in [Session -> [Claim -> Nat]]
    BY <1>1 DEF IInv, TypeOK, InsertClaim
  <2>3. ASSUME NEW t \in Session
        PROVE  /\ (edit'[t] # Nil) <=> (phase'[t] \in {"loaded", "flushed"})
               /\ (counted'[t] # 0) <=> (phase'[t] = "numbered")
               /\ Inserted(t)' # {} => phase'[t] \in {"numbered", "inserted"}
    <3>1. CASE t = s
      BY <1>1, <3>1 DEF IInv, TypeOK, InsertClaim
    <3>2. CASE t # s
      BY <1>1, <1>2, <3>2 DEF IInv, TypeOK, InsertClaim
    <3>. QED
      BY <3>1, <3>2
  <2>. QED
    BY <1>1, <2>1, <2>2, <2>3 DEF IInv, TypeOK
<1>4. \A t \in Session : Editing(t)' => Editing(t)
  BY DEF IInv, TypeOK, InsertClaim, Editing
<1>5. EditsOnExisting' /\ EditsRemember'
  BY <1>1, <1>4
  DEF IInv, EditsOnExisting, EditsRemember, RemembersRow
<1>6. BatchesFresh'
  <2>1. c \notin Existing /\ \A t \in Session : c \notin Inserted(t)
    BY <1>1 DEF UnusedIds, Inserted
  <2>. QED
    BY <1>1, <1>2, <2>1 DEF IInv, BatchesFresh
<1>. QED
  BY <1>1, <1>3, <1>5, <1>6, TablesKept DEF IInv

\* Committing a batch adds its rows, as drafts without a history, and leaves
\* the rows that existed alone.
LEMMA CommitCreatedEffect ==
  ASSUME TypeOK, BatchesFresh, NEW s \in Session, CommitCreated(s)
  PROVE  /\ Existing' = Existing \cup Inserted(s)
         /\ claims' \in [Claim -> Row \cup {Absent}]
         /\ \A c \in Existing : claims'[c] = claims[c]
         /\ \A c \in Inserted(s) : /\ c \notin Existing
                                   /\ claims'[c].status = "draft"
                                   /\ claims'[c].version = 1
                                   /\ claims'[c].number = batch[s][c]
<1>1. \A c \in Inserted(s) : c \in Claim /\ c \notin Existing
  BY DEF BatchesFresh, Inserted
<1>2. \A c \in Inserted(s) :
        /\ claims'[c] = [status |-> "draft", version |-> 1,
                         number |-> batch[s][c]]
        /\ claims'[c] \in Row
  BY <1>1 DEF CommitCreated, TypeOK, Row, Status
<1>3. \A c \in Claim \ Inserted(s) : claims'[c] = claims[c]
  BY DEF CommitCreated
<1>4. claims' \in [Claim -> Row \cup {Absent}]
  BY <1>1, <1>2, <1>3 DEF TypeOK, CommitCreated
<1>5. Existing' = Existing \cup Inserted(s)
  BY <1>1, <1>2, <1>3, RowIsPresent DEF Existing
<1>6. \A c \in Existing : claims'[c] = claims[c]
  BY <1>1, <1>3 DEF Existing
<1>7. \A c \in Inserted(s) : /\ c \notin Existing
                            /\ claims'[c].status = "draft"
                            /\ claims'[c].version = 1
                            /\ claims'[c].number = batch[s][c]
  <2>. SUFFICES ASSUME NEW c \in Inserted(s)
                PROVE  /\ c \notin Existing
                       /\ claims'[c].status = "draft"
                       /\ claims'[c].version = 1
                       /\ claims'[c].number = batch[s][c]
    OBVIOUS
  <2>1. claims'[c] = [status |-> "draft", version |-> 1,
                      number |-> batch[s][c]]
    BY <1>2
  <2>. QED
    BY <1>1, <2>1
<1>. QED
  BY <1>4, <1>5, <1>6, <1>7

\* Committing created claims keeps the inductive invariant: the new rows are
\* drafts without a history.
LEMMA CommitCreatedIInv ==
  ASSUME IInv, NEW s \in Session, CommitCreated(s)
  PROVE  IInv'
<1>1. EndSession(s) /\ revisions' = revisions
  BY DEF CommitCreated
<1>2. /\ Existing' = Existing \cup Inserted(s)
      /\ claims' \in [Claim -> Row \cup {Absent}]
      /\ \A c \in Existing : claims'[c] = claims[c]
      /\ \A c \in Inserted(s) : /\ c \notin Existing
                                /\ claims'[c].status = "draft"
                                /\ claims'[c].version = 1
                                /\ c \in Claim /\ revisions[c] = <<>>
  BY CommitCreatedEffect
  DEF IInv, BatchesFresh, HistoriesOfExisting, Inserted
<1>3. TypeOK'
  BY <1>1, <1>2, EndSessionType DEF IInv, TypeOK
<1>4. HistoriesOfExisting'
  BY <1>1, <1>2 DEF IInv, HistoriesOfExisting
<1>5. VersionNotAhead'
  BY <1>1, <1>2 DEF IInv, VersionNotAhead
<1>6. StatusExplained'
  BY <1>1, <1>2 DEF IInv, StatusExplained, Explains
<1>7. BatchesFresh'
  <2>1. /\ Inserted(s)' = {}
        /\ \A t \in Session \ {s} : Inserted(t)' = Inserted(t)
    BY <1>1, EndSessionType DEF IInv
  <2>. QED
    BY <1>2, <2>1 DEF IInv, BatchesFresh
<1>8. EditsOnExisting' /\ EditsRemember'
  <2>. SUFFICES ASSUME NEW t \in Session, Editing(t)'
                PROVE  /\ edit'[t].claim \in Existing'
                       /\ RemembersRow(edit[t])'
    BY DEF EditsOnExisting, EditsRemember
  <2>1. Editing(t) /\ edit'[t] = edit[t]
    BY <1>1, OthersEdit DEF IInv
  <2>2. edit[t].claim \in Existing /\ RemembersRow(edit[t])
    BY <2>1 DEF IInv, EditsOnExisting, EditsRemember
  <2>. QED
    BY <1>1, <1>2, <2>1, <2>2 DEF RemembersRow
<1>. QED
  BY <1>3, <1>4, <1>5, <1>6, <1>7, <1>8 DEF IInv

\* A stutter keeps everything.
LEMMA StutterIInv ==
  ASSUME IInv, UNCHANGED vars
  PROVE  IInv'
BY DEF vars, IInv, TypeOK, EditsOnExisting, HistoriesOfExisting, BatchesFresh,
       EditsRemember, RemembersRow, VersionNotAhead, StatusExplained, Explains,
       Editing, Existing, Inserted

\* Every step of every request keeps the inductive invariant.
THEOREM NextIInv == IInv /\ [Next]_vars => IInv'
<1>. SUFFICES ASSUME IInv, [Next]_vars PROVE IInv'
  OBVIOUS
<1>1. ASSUME NEW s \in Session, NEW c \in Claim, VerifyClaim(s, c)
      PROVE  IInv'
  BY <1>1, LoadIInv
  DEF VerifyClaim, TransitionValid, AllowedTransitions, Status
<1>2. ASSUME NEW s \in Session, NEW c \in Claim, NEW new \in Status,
             UpdateClaimStatus(s, c, new)
      PROVE  IInv'
  BY <1>2, LoadIInv DEF UpdateClaimStatus
<1>3. ASSUME NEW s \in Session, NEW c \in Claim, NEW new \in OverrideTargets,
             HumanOverrideClaim(s, c, new)
      PROVE  IInv'
  BY <1>3, LoadIInv, OverrideTargetsAreStatuses DEF HumanOverrideClaim
<1>4. ASSUME NEW s \in Session, NumberClaim(s)
      PROVE  IInv'
  BY <1>4, NumberIInv
<1>5. ASSUME NEW s \in Session, SessionStep(s)
      PROVE  IInv'
  <2>1. CASE FlushEdit(s)
    BY <2>1, FlushIInv
  <2>2. CASE CommitEdit(s)
    BY <2>2, CommitEditIInv
  <2>3. CASE \E c \in Claim : InsertClaim(s, c)
    BY <2>3, InsertIInv
  <2>4. CASE InsertConflict(s)
    BY <2>4, EndIInv DEF InsertConflict
  <2>5. CASE CommitCreated(s)
    BY <2>5, CommitCreatedIInv
  <2>. QED
    BY <1>5, <2>1, <2>2, <2>3, <2>4, <2>5 DEF SessionStep
<1>6. ASSUME NEW s \in Session, Rollback(s)
      PROVE  IInv'
  BY <1>6, EndIInv DEF Rollback
<1>7. CASE UNCHANGED vars
  BY <1>7, StutterIInv
<1>. QED
  BY <1>1, <1>2, <1>3, <1>4, <1>5, <1>6, <1>7 DEF Next

-----------------------------------------------------------------------------
(***************************************************************************)
(* What follows for every behaviour.                                       *)
(***************************************************************************)

\* Every reachable state of the ledger satisfies the inductive invariant:
\* what each request remembers of its claim, and what the tables say.
THEOREM Inductive == Spec => []IInv
BY InitIInv, NextIInv, PTL DEF Spec

\* Tables, phases, edits and batches keep their types in every interleaving.
THEOREM TypeCorrect == Spec => []TypeOK
<1>1. IInv => TypeOK
  BY DEF IInv
<1>. QED
  BY <1>1, Inductive, PTL

\* However stale the rows that requests decide on, the version of a claim
\* never counts more edits than its history records.
THEOREM VersionSafe == Spec => []VersionNotAhead
<1>1. IInv => VersionNotAhead
  BY DEF IInv
<1>. QED
  BY <1>1, Inductive, PTL

\* However edits and overrides of a claim interleave, its status is where the
\* last revision that moved it left it.
THEOREM StatusIsExplained == Spec => []StatusExplained
<1>1. IInv => StatusExplained
  BY DEF IInv
<1>. QED
  BY <1>1, Inductive, PTL

\* Only a commit of an edit writes a history.
LEMMA HistoryWriters ==
  ASSUME [Next]_vars, revisions' # revisions
  PROVE  \E s \in Session : CommitEdit(s)
<1>. SUFFICES ASSUME Next PROVE \E s \in Session : CommitEdit(s)
  BY DEF vars
<1>. QED
  BY DEF Next, SessionStep, VerifyClaim, UpdateClaimStatus, HumanOverrideClaim,
         LoadClaim, NumberClaim, FlushEdit, InsertClaim, InsertConflict,
         CommitCreated, Rollback, tables

\* A request whose claim was not edited since it loaded it obeys the status
\* graph (or is an override), and its revision records the move it makes.
THEOREM FreshEditsSafe == Spec => FreshEditsObeyGraph
<1>1. ASSUME IInv, [Next]_vars, NEW s \in Session, CommitsFresh(s)
      PROVE  FreshEditObeysGraph(s)
  <2>1. PICK t \in Session : CommitEdit(t)
    BY <1>1, HistoryWriters DEF CommitsFresh
  <2>2. t = s
    BY <1>1, <2>1 DEF CommitsFresh, CommitEdit, EndSession, IInv, TypeOK
  <2>. DEFINE e == edit[s]
              c == e.claim
              n == Len(revisions[c])
  <2>3. /\ e \in Edit /\ c \in Existing /\ claims[c] \in Row
        /\ claims'[c] = UpdatedRow(e, claims[c])
        /\ revisions[c] \in Seq(Revision)
        /\ RevisionOf(e) \in Revision
        /\ revisions'[c] = Append(revisions[c], RevisionOf(e))
    BY <1>1, <2>1, <2>2, CommitEditEffect
  <2>4. RemembersRow(e) /\ e.seen = n
    BY <1>1 DEF IInv, EditsRemember, Editing, CommitsFresh
  <2>5. e.read = claims[c].status /\ e.version = claims[c].version
    BY <2>4 DEF RemembersRow
  <2>6. claims'[c].status = e.new /\ claims'[c].version = claims[c].version + 1
    BY <2>3, <2>5, UpdatedRowType DEF StatusWritten
  <2>7. revisions'[c][n + 1] = RevisionOf(e)
    BY <2>3
  <2>8. e.by = "human" \/ TransitionValid(claims[c].status, e.new)
    BY <2>3, <2>4, <2>5 DEF RemembersRow, Edit
  <2>. QED
    BY <2>5, <2>6, <2>7, <2>8 DEF FreshEditObeysGraph, RevisionOf
<1>2. IInv /\ [Next]_vars =>
        [\A s \in Session : CommitsFresh(s) => FreshEditObeysGraph(s)]_vars
  BY <1>1
<1>. QED
  BY <1>2, Inductive, PTL DEF Spec, FreshEditsObeyGraph

\* No status changes without a revision that ends in it, and no revision is
\* ever rewritten or removed.
THEOREM NoSilentSafe == Spec => NoSilentTransition
<1>. DEFINE Told(c) ==
       /\ Len(revisions'[c]) >= Len(revisions[c])
       /\ \A i \in 1 .. Len(revisions[c]) : revisions'[c][i] = revisions[c][i]
       /\ c \in Existing /\ claims'[c].status # claims[c].status =>
            /\ Len(revisions'[c]) = Len(revisions[c]) + 1
            /\ revisions'[c][Len(revisions'[c])].updated = claims'[c].status
<1>1. ASSUME IInv, [Next]_vars, NEW c \in Claim
      PROVE  Told(c)
  <2>1. revisions[c] \in Seq(Revision) /\ Len(revisions[c]) \in Nat
    BY <1>1 DEF IInv, TypeOK
  <2>2. CASE \E s \in Session : CommitEdit(s)
    <3>1. PICK s \in Session : CommitEdit(s)
      BY <2>2
    <3>. DEFINE e == edit[s]
    <3>2. /\ e \in Edit /\ claims[e.claim] \in Row
          /\ claims'[e.claim] = UpdatedRow(e, claims[e.claim])
          /\ RevisionOf(e) \in Revision
          /\ revisions'[e.claim] = Append(revisions[e.claim], RevisionOf(e))
          /\ \A d \in Claim \ {e.claim} : /\ claims'[d] = claims[d]
                                          /\ revisions'[d] = revisions[d]
      BY <1>1, <3>1, CommitEditEffect
    <3>. HIDE DEF e
    <3>3. CASE c # e.claim
      BY <2>1, <3>2, <3>3
    <3>4. CASE c = e.claim
      <4>1. claims'[c].status = StatusWritten(e, claims[c])
        BY <3>2, <3>4, UpdatedRowType
      <4>2. claims'[c].status # claims[c].status =>
              claims'[c].status = RevisionOf(e).updated
        BY <4>1 DEF StatusWritten, RevisionOf
      <4>3. /\ Len(revisions'[c]) = Len(revisions[c]) + 1
            /\ revisions'[c][Len(revisions[c]) + 1] = RevisionOf(e)
            /\ \A i \in 1 .. Len(revisions[c]) :
                 revisions'[c][i] = revisions[c][i]
        BY <2>1, <3>2, <3>4
      <4>. QED
        BY <2>1, <4>2, <4>3
    <3>. QED
      BY <3>3, <3>4
  <2>3. CASE \E s \in Session : CommitCreated(s)
    <3>1. revisions' = revisions
      BY <2>3 DEF CommitCreated
    <3>2. c \in Existing => claims'[c] = claims[c]
      BY <1>1, <2>3, CommitCreatedEffect DEF IInv
    <3>. QED
      BY <2>1, <3>1, <3>2
  <2>4. CASE UNCHANGED tables
    BY <2>1, <2>4 DEF tables
  <2>5. \/ \E s \in Session : CommitEdit(s)
        \/ \E s \in Session : CommitCreated(s)
        \/ UNCHANGED tables
    BY <1>1
    DEF Next, SessionStep, VerifyClaim, UpdateClaimStatus, HumanOverrideClaim,
        LoadClaim, NumberClaim, FlushEdit, InsertClaim, InsertConflict,
        Rollback, tables, vars
  <2>. QED
    BY <2>2, <2>3, <2>4, <2>5
<1>2. IInv /\ [Next]_vars => [\A c \in Claim : Told(c)]_vars
  BY <1>1
<1>. QED
  BY <1>2, Inductive, PTL DEF Spec, NoSilentTransition
-----------------------------------------------------------------------------
(***************************************************************************)
(* Claim numbers.  The invariant beside IInv is NumberingInv.              *)
(***************************************************************************)

\* What a step that inserts and commits no row does to the numbers of a
\* session: nothing, a new count, or an end.
Quiet(t) ==
  \/ /\ batch'[t] = batch[t] /\ counted'[t] = counted[t]
     /\ phase'[t] = "numbered" => phase[t] = "numbered"
  \/ batch'[t] = batch[t] /\ counted'[t] = NextClaimNumber(t)
  \/ batch'[t] = NoBatch /\ counted'[t] = 0

\* Steps that insert and commit no row keep the numbers in order.
LEMMA QuietNumbering ==
  ASSUME IInv, NumberingInv, Existing' = Existing,
         \A c \in Existing : claims'[c].number = claims[c].number,
         \A t \in Session : Quiet(t)
  PROVE  NumberingInv'
<1>1. NumbersDense'
  BY DEF NumberingInv, NumbersDense
<1>2. ASSUME NEW t \in Session
      PROVE  /\ Inserted(t)' \subseteq Inserted(t)
             /\ BatchFollows(t)' /\ CountedInReach(t)'
  <2>1. NextClaimNumber(t) \in Nat
    BY NextNumberType
  <2>2. BatchFollows(t) /\ CountedInReach(t)
    BY DEF NumberingInv, Numbering
  <2>3. CASE batch'[t] = batch[t]
    <3>1. Inserted(t)' = Inserted(t)
      BY <2>3 DEF Inserted
    <3>2. NextClaimNumber(t)' = NextClaimNumber(t)
      BY <3>1 DEF NextClaimNumber
    <3>3. BatchFollows(t)'
      BY <2>2, <2>3, <3>1 DEF BatchFollows
    <3>4. CountedInReach(t)'
      <4>1. CASE counted'[t] = NextClaimNumber(t)
        BY <2>1, <3>2, <4>1 DEF CountedInReach
      <4>2. CASE /\ counted'[t] = counted[t]
                 /\ phase'[t] = "numbered" => phase[t] = "numbered"
        BY <2>2, <3>1, <3>2, <4>2 DEF CountedInReach
      <4>3. CASE batch'[t] = NoBatch /\ counted'[t] = 0
        BY <2>1, <3>1, <3>2, <4>3 DEF CountedInReach, Inserted, NoBatch
      <4>. QED
        BY <4>1, <4>2, <4>3 DEF Quiet
    <3>. QED
      BY <3>1, <3>3, <3>4
  <2>4. CASE batch'[t] = NoBatch /\ counted'[t] = 0
    <3>1. Inserted(t)' = {}
      BY <2>4 DEF Inserted, NoBatch
    <3>2. Cardinality(Existing) \in Nat /\ Cardinality(Inserted(t)') = 0
      BY <3>1, NextNumberType, FS_EmptySet
    <3>3. BatchFollows(t)'
      BY <3>1, <3>2 DEF BatchFollows
    <3>4. CountedInReach(t)'
      BY <2>4, <3>1, <3>2 DEF CountedInReach, NextClaimNumber
    <3>. QED
      BY <3>1, <3>3, <3>4
  <2>. QED
    BY <2>3, <2>4 DEF Quiet
<1>3. BatchesFresh'
  BY <1>2, BatchesKept DEF IInv
<1>4. OneBatch'
  BY <1>2 DEF NumberingInv, Numbering, OneBatch
<1>. QED
  BY <1>1, <1>2, <1>3, <1>4 DEF NumberingInv, Numbering

\* A session that ends leaves its numbers, the others keep theirs.
LEMMA EndIsQuiet ==
  ASSUME TypeOK, NEW s \in Session, EndSession(s)
  PROVE  \A t \in Session : Quiet(t)
<1>. SUFFICES ASSUME NEW t \in Session PROVE Quiet(t)
  OBVIOUS
<1>1. CASE t = s
  BY <1>1 DEF TypeOK, EndSession, Quiet
<1>2. CASE t # s
  BY <1>2 DEF TypeOK, EndSession, Quiet
<1>. QED
  BY <1>1, <1>2

\* verify_claim, update_claim_status and human_override_claim do not number.
LEMMA LoadIsQuiet ==
  ASSUME TypeOK, NEW s \in Session, NEW c \in Claim, NEW new, NEW by,
         LoadClaim(s, c, new, by)
  PROVE  UNCHANGED claims /\ \A t \in Session : Quiet(t)
<1>. SUFFICES ASSUME NEW t \in Session PROVE Quiet(t)
  BY DEF LoadClaim
<1>1. phase'[t] = "numbered" => phase[t] = "numbered"
  BY DEF TypeOK, LoadClaim
<1>. QED
  BY <1>1 DEF LoadClaim, Quiet

\* Sending an UPDATE does not number.
LEMMA FlushIsQuiet ==
  ASSUME TypeOK, NEW s \in Session, FlushEdit(s)
  PROVE  UNCHANGED claims /\ \A t \in Session : Quiet(t)
<1>. SUFFICES ASSUME NEW t \in Session PROVE Quiet(t)
  BY DEF FlushEdit
<1>1. phase'[t] = "numbered" => phase[t] = "numbered"
  BY DEF TypeOK, FlushEdit
<1>. QED
  BY <1>1 DEF FlushEdit, Quiet

\* count(*) + 1 is the number that follows the session's own.
LEMMA NumberIsQuiet ==
  ASSUME TypeOK, NEW s \in Session, NumberClaim(s)
  PROVE  UNCHANGED claims /\ \A t \in Session : Quiet(t)
<1>. SUFFICES ASSUME NEW t \in Session PROVE Quiet(t)
  BY DEF NumberClaim
<1>1. CASE t = s
  BY <1>1 DEF TypeOK, NumberClaim, Quiet
<1>2. CASE t # s
  BY <1>2 DEF TypeOK, NumberClaim, Quiet
<1>. QED
  BY <1>1, <1>2

\* An INSERT that passes the unique key takes the next number, and no other
\* session has uncommitted rows then: a first row whose computed number is
\* stale would meet a committed one, and the next number of a session with
\* rows is held by that session.
LEMMA InsertTakesNext ==
  ASSUME IInv, NumberingInv, NEW s \in Session, NEW c \in Claim,
         InsertClaim(s, c)
  PROVE  /\ counted[s] = NextClaimNumber(s)
         /\ \A t \in Session \ {s} : Inserted(t) = {}
<1>. DEFINE n == Cardinality(Existing)
<1>1. /\ n \in Nat /\ NextClaimNumber(s) \in Nat
      /\ counted[s] \in Nat /\ counted[s] # 0
      /\ phase[s] = "numbered" /\ CountedInReach(s)
  BY NextNumberType DEF InsertClaim, IInv, TypeOK, NumberingInv, Numbering
<1>2. CASE Inserted(s) # {}
  BY <1>1, <1>2 DEF CountedInReach, NumberingInv, Numbering, OneBatch
<1>3. CASE Inserted(s) = {}
  <2>1. NextClaimNumber(s) = n + 1
    BY <1>1, <1>3, FS_EmptySet DEF NextClaimNumber
  <2>2. counted[s] \notin 1 .. n
    BY DEF InsertClaim, NumberCommitted, NumberingInv, NumbersDense
  <2>3. counted[s] = n + 1
    BY <1>1, <2>1, <2>2 DEF CountedInReach
  <2>4. ASSUME NEW t \in Session \ {s}, Inserted(t) # {}
        PROVE  FALSE
    <3>1. /\ Cardinality(Inserted(t)) \in Nat
          /\ IsFiniteSet(Inserted(t))
      BY ClaimFinite, FS_Subset, NextNumberType DEF Inserted
    <3>2. Cardinality(Inserted(t)) # 0
      BY <2>4, <3>1, FS_EmptySet
    <3>3. n + 1 \in {batch[t][d] : d \in Inserted(t)}
      BY <1>1, <3>1, <3>2 DEF NumberingInv, Numbering, BatchFollows
    <3>. QED
      BY <2>3, <3>3 DEF InsertClaim, NumberPending, Inserted
  <2>. QED
    BY <2>1, <2>3, <2>4
<1>. QED
  BY <1>2, <1>3

\* The row that is inserted extends the batch of its session by one number.
LEMMA InsertNumbering ==
  ASSUME IInv, BatchesFresh', NumberingInv, NEW s \in Session,
         NEW c \in Claim, InsertClaim(s, c)
  PROVE  NumberingInv'
<1>. DEFINE n == Cardinality(Existing)
            m == Cardinality(Inserted(s))
<1>1. UNCHANGED claims /\ Existing' = Existing
  BY DEF InsertClaim, Existing
<1>2. /\ counted[s] \in Nat /\ counted[s] # 0 /\ counted[s] = n + m + 1
      /\ \A t \in Session \ {s} : Inserted(t) = {}
  BY InsertTakesNext DEF NextClaimNumber, IInv, TypeOK, InsertClaim
<1>3. /\ batch'[s][c] = counted[s]
      /\ \A d \in Claim \ {c} : batch'[s][d] = batch[s][d]
      /\ \A t \in Session \ {s} : batch'[t] = batch[t]
      /\ counted'[s] = 0 /\ phase'[s] = "inserted"
      /\ \A t \in Session \ {s} : /\ counted'[t] = counted[t]
                                  /\ phase'[t] = phase[t]
  BY DEF IInv, TypeOK, InsertClaim
<1>4. /\ c \notin Inserted(s)
      /\ Inserted(s)' = Inserted(s) \cup {c}
      /\ \A t \in Session \ {s} : Inserted(t)' = Inserted(t)
  <2>1. c \in Claim /\ batch[s][c] = 0
    BY DEF InsertClaim, UnusedIds
  <2>2. ASSUME NEW d \in Claim
        PROVE  batch'[s][d] # 0 <=> (batch[s][d] # 0 \/ d = c)
    BY <1>2, <1>3, <2>1
  <2>. QED
    BY <1>3, <2>1, <2>2 DEF Inserted
<1>5. /\ n \in Nat /\ m \in Nat
      /\ Cardinality(Inserted(s)') = m + 1
  <2>1. IsFiniteSet(Inserted(s))
    BY ClaimFinite, FS_Subset DEF Inserted
  <2>. QED
    BY <1>4, <2>1, FS_AddElement, NextNumberType
<1>6. NumbersDense'
  BY <1>1 DEF NumberingInv, NumbersDense
<1>7. OneBatch'
  BY <1>2, <1>4 DEF OneBatch
<1>8. BatchFollows(s)'
  <2>1. /\ {batch[s][d] : d \in Inserted(s)} = n + 1 .. n + m
        /\ \A d, e \in Inserted(s) : batch[s][d] = batch[s][e] => d = e
    BY DEF NumberingInv, Numbering, BatchFollows
  <2>2. \A d \in Inserted(s) : d \in Claim /\ d # c
    BY <1>4 DEF Inserted
  <2>3. {batch'[s][d] : d \in Inserted(s)'} = (n + 1 .. n + m) \cup {n + m + 1}
    BY <1>2, <1>3, <1>4, <2>1, <2>2
  <2>4. {batch'[s][d] : d \in Inserted(s)'} = n + 1 .. n + (m + 1)
    BY <1>5, <2>3
  <2>5. \A d \in Inserted(s) : batch[s][d] # counted[s]
    BY <1>2, <1>5, <2>1
  <2>6. \A d, e \in Inserted(s)' : batch'[s][d] = batch'[s][e] => d = e
    BY <1>3, <1>4, <2>1, <2>2, <2>5
  <2>. QED
    BY <1>1, <1>5, <2>4, <2>6 DEF BatchFollows
<1>9. \A t \in Session \ {s} : BatchFollows(t)'
  BY <1>1, <1>3, <1>4 DEF BatchFollows, NumberingInv, Numbering
<1>10. CountedInReach(s)'
  BY <1>1, <1>3, <1>5 DEF CountedInReach, NextClaimNumber
<1>11. \A t \in Session \ {s} : CountedInReach(t)'
  BY <1>1, <1>3, <1>4
  DEF CountedInReach, NextClaimNumber, NumberingInv, Numbering
<1>. QED
  BY <1>6, <1>7, <1>8, <1>9, <1>10, <1>11 DEF NumberingInv, Numbering
\* A batch that commits carries the numbers on from where the committed ones
\* end, and no other session has one.
LEMMA CommitCreatedNumbering ==
  ASSUME IInv, NumberingInv, BatchesFresh', NEW s \in Session,
         CommitCreated(s)
  PROVE  NumberingInv'
<1>. DEFINE n == Cardinality(Existing)
            m == Cardinality(Inserted(s))
<1>1. /\ Existing' = Existing \cup Inserted(s)
      /\ \A c \in Existing : claims'[c] = claims[c]
      /\ \A c \in Inserted(s) : /\ c \notin Existing
                                /\ claims'[c].number = batch[s][c]
  BY CommitCreatedEffect DEF IInv
<1>2. /\ EndSession(s)
      /\ Inserted(s)' = {} /\ counted'[s] = 0
      /\ \A t \in Session \ {s} : /\ Inserted(t)' = Inserted(t)
                                  /\ batch'[t] = batch[t]
                                  /\ counted'[t] = counted[t]
                                  /\ phase'[t] = phase[t]
  BY EndSessionType DEF CommitCreated, IInv, TypeOK, EndSession
<1>3. n \in Nat /\ m \in Nat
  BY NextNumberType
<1>4. Cardinality(Existing') = n + m
  <2>1. IsFiniteSet(Existing) /\ IsFiniteSet(Inserted(s))
    BY ClaimFinite, FS_Subset DEF Existing, Inserted
  <2>2. Existing \cap Inserted(s) = {}
    BY <1>1
  <2>3. Cardinality(Existing \cap Inserted(s)) = 0
    BY <2>2, FS_EmptySet
  <2>4. Cardinality(Existing \cup Inserted(s))
          = n + m - Cardinality(Existing \cap Inserted(s))
    BY <2>1, FS_Union
  <2>. QED
    BY <1>1, <1>3, <2>3, <2>4
<1>5. /\ {batch[s][c] : c \in Inserted(s)} = n + 1 .. n + m
      /\ \A c, d \in Inserted(s) : batch[s][c] = batch[s][d] => c = d
      /\ {claims[c].number : c \in Existing} = 1 .. n
      /\ \A c, d \in Existing : claims[c].number = claims[d].number => c = d
  BY DEF NumberingInv, Numbering, NumbersDense, BatchFollows
<1>6. NumbersDense'
  <2>1. {claims'[c].number : c \in Existing'} = (1 .. n) \cup (n + 1 .. n + m)
    BY <1>1, <1>5
  <2>2. (1 .. n) \cup (n + 1 .. n + m) = 1 .. n + m
    BY <1>3
  <2>3. \A c \in Existing, d \in Inserted(s) :
          claims'[c].number # claims'[d].number
    <3>. SUFFICES ASSUME NEW c \in Existing, NEW d \in Inserted(s)
                  PROVE  claims'[c].number # claims'[d].number
      OBVIOUS
    <3>1. claims'[c].number \in 1 .. n
      BY <1>1, <1>5
    <3>2. claims'[d].number \in n + 1 .. n + m
      BY <1>1, <1>5
    <3>. QED
      BY <1>3, <3>1, <3>2
  <2>4. \A c, d \in Existing' : claims'[c].number = claims'[d].number => c = d
    BY <1>1, <1>5, <2>3
  <2>. QED
    BY <1>4, <2>1, <2>2, <2>4 DEF NumbersDense
<1>7. OneBatch'
  BY <1>2 DEF OneBatch, NumberingInv, Numbering
<1>8. ASSUME NEW t \in Session
      PROVE  BatchFollows(t)' /\ CountedInReach(t)'
  <2>1. CASE t = s
    <3>1. Cardinality(Inserted(t)') = 0
      BY <1>2, <2>1, FS_EmptySet
    <3>. QED
      BY <1>2, <1>3, <1>4, <2>1, <3>1
      DEF BatchFollows, CountedInReach, NextClaimNumber
  <2>2. CASE t # s /\ Inserted(s) = {}
    <3>1. Existing' = Existing
      BY <1>1, <2>2
    <3>. QED
      BY <1>2, <2>2, <3>1
      DEF BatchFollows, CountedInReach, NextClaimNumber, NumberingInv, Numbering
  <2>3. CASE t # s /\ Inserted(s) # {}
    <3>1. Inserted(t) = {} /\ Inserted(t)' = {}
      BY <1>2, <2>3 DEF NumberingInv, Numbering, OneBatch
    <3>2. Cardinality(Inserted(t)) = 0 /\ Cardinality(Inserted(t)') = 0
      BY <3>1, FS_EmptySet
    <3>3. counted[t] \in Nat /\ counted[t] <= n + 1
      BY <1>3, <3>2
      DEF CountedInReach, NextClaimNumber, NumberingInv, Numbering, IInv, TypeOK
    <3>. QED
      BY <1>2, <1>3, <1>4, <2>3, <3>1, <3>2, <3>3
      DEF BatchFollows, CountedInReach, NextClaimNumber
  <2>. QED
    BY <2>1, <2>2, <2>3
<1>. QED
  BY <1>6, <1>7, <1>8 DEF NumberingInv, Numbering

\* Nothing is numbered at first.
LEMMA InitNumbering == Init => NumberingInv
<1>. SUFFICES ASSUME Init PROVE NumberingInv
  OBVIOUS
<1>1. Existing = {} /\ \A s \in Session : Inserted(s) = {} /\ counted[s] = 0
  BY DEF Init, Existing, Inserted, NoBatch
<1>2. Cardinality({}) = 0
  BY FS_EmptySet
<1>. QED
  BY <1>1, <1>2
  DEF NumberingInv, Numbering, NumbersDense, BatchesFresh, OneBatch,
      BatchFollows, CountedInReach, NextClaimNumber

\* Every step keeps claim numbers and the numbers of uncommitted rows in order.
LEMMA NextNumbering ==
  ASSUME IInv, IInv', NumberingInv, [Next]_vars
  PROVE  NumberingInv'
<1>1. BatchesFresh' /\ TypeOK
  BY DEF IInv
<1>2. CASE UNCHANGED claims /\ \A t \in Session : Quiet(t)
  <2>1. Existing' = Existing
    BY <1>2 DEF Existing
  <2>. QED
    BY <1>2, <2>1, QuietNumbering
<1>3. ASSUME NEW s \in Session, EndSession(s), UNCHANGED tables
      PROVE  NumberingInv'
  BY <1>1, <1>2, <1>3, EndIsQuiet DEF tables
<1>4. ASSUME NEW s \in Session, NEW c \in Claim, NEW new, NEW by,
             LoadClaim(s, c, new, by)
      PROVE  NumberingInv'
  BY <1>1, <1>2, <1>4, LoadIsQuiet
<1>5. ASSUME NEW s \in Session, CommitEdit(s)
      PROVE  NumberingInv'
  <2>1. \A t \in Session : Quiet(t)
    BY <1>1, <1>5, EndIsQuiet DEF CommitEdit
  <2>. DEFINE e == edit[s]
  <2>2. /\ e \in Edit /\ claims[e.claim] \in Row
        /\ claims'[e.claim] = UpdatedRow(e, claims[e.claim])
        /\ \A d \in Claim \ {e.claim} : claims'[d] = claims[d]
        /\ Existing' = Existing
    BY <1>5, CommitEditEffect
  <2>. HIDE DEF e
  <2>3. \A d \in Existing : claims'[d].number = claims[d].number
    BY <2>2, UpdatedRowType DEF Existing
  <2>. QED
    BY <2>1, <2>2, <2>3, QuietNumbering
<1>6. ASSUME NEW s \in Session, SessionStep(s)
      PROVE  NumberingInv'
  <2>1. CASE FlushEdit(s)
    BY <1>1, <1>2, <2>1, FlushIsQuiet
  <2>2. CASE CommitEdit(s)
    BY <1>5, <2>2
  <2>3. CASE \E c \in Claim : InsertClaim(s, c)
    BY <1>1, <2>3, InsertNumbering
  <2>4. CASE InsertConflict(s)
    BY <1>3, <2>4 DEF InsertConflict
  <2>5. CASE CommitCreated(s)
    BY <1>1, <2>5, CommitCreatedNumbering
  <2>. QED
    BY <1>6, <2>1, <2>2, <2>3, <2>4, <2>5 DEF SessionStep
<1>7. CASE Next
  <2>. SUFFICES ASSUME NEW s \in Session, NumberClaim(s) PROVE NumberingInv'
    BY <1>3, <1>4, <1>6, <1>7, OverrideTargetsAreStatuses
    DEF Next, VerifyClaim, UpdateClaimStatus, HumanOverrideClaim, Rollback
  <2>. QED
    BY <1>1, <1>2, NumberIsQuiet
<1>8. CASE UNCHANGED vars
  BY <1>2, <1>8 DEF vars, Quiet
<1>. QED
  BY <1>7, <1>8

\* Claim numbers are CLM000001, CLM000002, ... without a gap or a double, for
\* any number of sessions that count, insert, conflict and roll back.
THEOREM NumbersSafe == Spec => []NumbersDense
<1>1. NumberingInv => NumbersDense
  BY DEF NumberingInv
<1>. QED
  BY <1>1, InitNumbering, NextNumbering, Inductive, PTL DEF Spec
=============================================================================
