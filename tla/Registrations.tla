---------------------------- MODULE Registrations ----------------------------
(***************************************************************************)
(* Operations that look for a row and insert it if there is none: sources  *)
(* by hash, standards and academy nodes by name, reviewer keys by          *)
(* fingerprint, concepts by name, and relationships by their two concepts. *)
(* All but relationships have a unique key in the schema.  An INSERT under *)
(* a unique key waits for another open transaction that holds the key, and *)
(* fails once that has committed; transactions that wait for each other in *)
(* a ring are a deadlock, of which the database aborts one.  Nothing keeps *)
(* relationships apart but _find_relationship, which raises when it finds  *)
(* two.                                                                    *)
(***************************************************************************)
EXTENDS Integers, Sequences, FiniteSets, SequencesExt

CONSTANTS
  Concept,      \* the normalised names of concepts
  Triple,       \* the pairs of concepts that relationships are asked for; a
                \* concept may be related to itself
  Document,     \* the hashes of source documents
  StandardName,
  NodeName,
  Fingerprint,  \* of reviewer keys
  Session,      \* the concurrent database sessions
  MaxRows,      \* no request starts when this many rows are committed
  NoWork        \* the request of a session that has none

ASSUME TriplesAreOfConcepts == Triple \subseteq Concept \X Concept

VARIABLES
  rows,   \* the unique keys of committed rows, over all tables
  edges,  \* the number of committed rows of concept_relationships, per triple
  work    \* what each session has still to do and has inserted, or NoWork

registrationVars == <<rows, edges, work>>

\* Each row is its unique key.
ConceptKey == [table : {"concepts"}, name : Concept]
SourceKey == [table : {"sources"}, name : Document]
StandardKey == [table : {"standards"}, name : StandardName]
NodeKey == [table : {"academy_nodes", "node_governance_policies"}, name : NodeName]
ReviewerKey == [table : {"reviewer_keys"}, name : Fingerprint]
Key == ConceptKey \cup SourceKey \cup StandardKey \cup NodeKey \cup ReviewerKey

RowOf(table, name) == [table |-> table, name |-> name]
EdgeOf(t) == RowOf("concept_relationships", t)
Edge == [table : {"concept_relationships"}, name : Triple]

\* The concepts that an edge joins.
Ends(t) == {RowOf("concepts", t[1]), RowOf("concepts", t[2])}

\* todo are the rows and edges to look for, in order; missed says that the
\* first of them was not found and will be inserted; rows and edges are
\* inserted and not committed; ingests marks a run of the cartographer.
Work == [todo : Seq(Key \cup Edge), missed : BOOLEAN, ingests : BOOLEAN,
         rows : SUBSET Key, edges : SUBSET Triple]

\* Tables and sessions keep their types; a key is held by one row only,
\* committed or not, and an edge joins concepts that exist for its session.
RegistrationTypeOK ==
  /\ rows \subseteq Key
  /\ edges \in [Triple -> Nat]
  /\ work \in [Session -> Work \cup {NoWork}]
  /\ \A s \in Session : work[s] # NoWork =>
       /\ work[s].missed => work[s].todo # <<>>
       /\ work[s].rows \cap rows = {}
       /\ \A t \in Session \ {s} : work[t] # NoWork => work[s].rows \cap work[t].rows = {}
       /\ \A e \in work[s].edges : Ends(e) \subseteq rows \cup work[s].rows

RegistrationInit ==
  /\ rows = {}
  /\ edges = [t \in Triple |-> 0]
  /\ work = [s \in Session |-> NoWork]

-----------------------------------------------------------------------------
(***************************************************************************)
(* What requests look for, in order.                                       *)
(***************************************************************************)

RegisterSource(h) == <<RowOf("sources", h)>>
CreateStandard(n) == <<RowOf("standards", n)>>
RegisterReviewerKey(f) == <<RowOf("reviewer_keys", f)>>

\* The policy is inserted with the node, without a look: it is new because
\* the node is.
RegisterNode(n) ==
  <<RowOf("academy_nodes", n), RowOf("node_governance_policies", n)>>

GetOrCreateConcept(n) == <<RowOf("concepts", n)>>

\* Mutated form: the edge is looked for before its concepts.
AddRelationshipEdgeFirst(t) ==
  <<EdgeOf(t)>> \o GetOrCreateConcept(t[1]) \o GetOrCreateConcept(t[2])

AddRelationship(t) == GetOrCreateConcept(t[1]) \o GetOrCreateConcept(t[2]) \o <<EdgeOf(t)>>

\* The cartographer's run over a source relates concept after concept in one
\* session.
IngestSource(t, u) == AddRelationship(t) \o AddRelationship(u)

Scripts ==
  {RegisterSource(h) : h \in Document} \cup {CreateStandard(n) : n \in StandardName}
  \cup {RegisterReviewerKey(f) : f \in Fingerprint}
  \cup {RegisterNode(n) : n \in NodeName}
  \cup {GetOrCreateConcept(n) : n \in Concept} \cup {AddRelationship(t) : t \in Triple}

CommittedEdges == {t \in Triple : edges[t] > 0}
CommittedRows == Cardinality(rows) + FoldFunctionOnSet(+, 0, edges, Triple)

StartWork(s, script, ingests) ==
  /\ work[s] = NoWork /\ CommittedRows < MaxRows
  /\ work' = [work EXCEPT ![s] =
                [todo |-> script, missed |-> FALSE, ingests |-> ingests,
                 rows |-> {}, edges |-> {}]]
  /\ UNCHANGED <<rows, edges>>

Request(s) == \E script \in Scripts : StartWork(s, script, FALSE)

\* Two runs of the cartographer do not meet on concepts: each first creates a
\* claim, and the second waits for the claim number the first one holds (see
\* ClaimLedger).
Ingest(s) ==
  /\ \A t \in Session : work[t] # NoWork => ~work[t].ingests
  /\ \E t, u \in Triple : t # u /\ StartWork(s, IngestSource(t, u), TRUE)

-----------------------------------------------------------------------------
(***************************************************************************)
(* A session at work.                                                      *)
(***************************************************************************)

Busy(s) == work[s] # NoWork /\ work[s].todo # <<>>
Wanted(s) == Head(work[s].todo)
WantsEdge(s) == Wanted(s).table = "concept_relationships"

\* The number of rows the SELECT of a session returns: committed ones and its
\* own.
Visible(s) ==
  IF WantsEdge(s)
    THEN edges[Wanted(s).name] + Cardinality({Wanted(s).name} \cap work[s].edges)
    ELSE Cardinality({Wanted(s)} \cap (rows \cup work[s].rows))

\* What a look may not find: an academy node of that name, two edges.
Refuses(s) ==
  \/ Visible(s) > 1
  \/ Visible(s) = 1 /\ Wanted(s).table = "academy_nodes"

LookFound(s) ==
  /\ Visible(s) > 0 /\ ~Refuses(s)
  /\ work' = [work EXCEPT ![s].todo = Tail(@)]

LookMissed(s) ==
  /\ Visible(s) = 0
  /\ work' = [work EXCEPT ![s].missed = TRUE]

Look(s) ==
  /\ Busy(s) /\ ~work[s].missed
  /\ LookFound(s) \/ LookMissed(s)
  /\ UNCHANGED <<rows, edges>>

\* The key a session is about to insert, if any, is held by t.
WaitsFor(s, t) ==
  /\ Busy(s) /\ work[s].missed /\ work[t] # NoWork
  /\ Wanted(s) \in work[t].rows

\* Mutated form: the schema without its unique keys.
InsertRowAnyway(s) ==
  /\ Busy(s) /\ work[s].missed /\ ~WantsEdge(s)
  /\ work' = [work EXCEPT ![s].todo = Tail(@), ![s].missed = FALSE,
                          ![s].rows = @ \cup {Wanted(s)}]
  /\ UNCHANGED <<rows, edges>>

InsertRow(s) ==
  /\ Busy(s) /\ work[s].missed /\ ~WantsEdge(s) /\ Wanted(s) \notin rows
  /\ \A t \in Session \ {s} : ~WaitsFor(s, t)
  /\ work' = [work EXCEPT ![s].todo = Tail(@), ![s].missed = FALSE,
                          ![s].rows = @ \cup {Wanted(s)}]
  /\ UNCHANGED <<rows, edges>>

InsertEdge(s) ==
  /\ Busy(s) /\ work[s].missed /\ WantsEdge(s)
  /\ work' = [work EXCEPT ![s].todo = Tail(@), ![s].missed = FALSE,
                          ![s].edges = @ \cup {Wanted(s).name}]
  /\ UNCHANGED <<rows, edges>>

Rollback(s) ==
  /\ work' = [work EXCEPT ![s] = NoWork]
  /\ UNCHANGED <<rows, edges>>

\* Mutated form: the insert is tried again in the same transaction.
UniqueViolationRetried(s) ==
  /\ Busy(s) /\ work[s].missed /\ Wanted(s) \in rows
  /\ UNCHANGED registrationVars

\* The row has been committed since the look: IntegrityError.
UniqueViolation(s) ==
  /\ Busy(s) /\ work[s].missed /\ Wanted(s) \in rows
  /\ Rollback(s)

\* s waits in a ring, and the database makes it the victim.
Deadlock(s) ==
  /\ \E ring \in SUBSET Session :
       /\ s \in ring
       /\ \A t \in ring : \E u \in ring : WaitsFor(t, u)
       /\ \A u \in ring : \E t \in ring : WaitsFor(t, u)
  /\ Rollback(s)

\* NodeManagerError or MultipleResultsFound.
Refuse(s) ==
  /\ Busy(s) /\ ~work[s].missed /\ Refuses(s)
  /\ Rollback(s)

Commit(s) ==
  /\ work[s] # NoWork /\ work[s].todo = <<>>
  /\ rows' = rows \cup work[s].rows
  /\ edges' = [t \in Triple |->
                 IF t \in work[s].edges THEN edges[t] + 1 ELSE edges[t]]
  /\ work' = [work EXCEPT ![s] = NoWork]

\* Any other exception.
Abort(s) == work[s] # NoWork /\ Rollback(s)

Progress(s) ==
  \/ Look(s)
  \/ InsertRow(s)
  \/ InsertEdge(s)
  \/ UniqueViolation(s)
  \/ Deadlock(s)
  \/ Refuse(s)
  \/ Commit(s)

RegistrationNext == \E s \in Session : Request(s) \/ Ingest(s) \/ Progress(s) \/ Abort(s)

\* A session whose next step is possible again and again takes it: the event
\* loop runs every ready handler, and the database hands a key to those who
\* wait for it.
RegistrationSpec == RegistrationInit /\ [][RegistrationNext]_registrationVars /\ \A s \in Session : SF_registrationVars(Progress(s))

-----------------------------------------------------------------------------
(***************************************************************************)
(* Properties.                                                             *)
(***************************************************************************)

\* Two requests can add the same relationship twice, as _find_relationship
\* and the insert are not one step.  But not if one of them also made one of
\* its concepts: the unique name of the concept keeps the other out.
NewConceptsKeepEdgesUnique ==
  \A s \in Session : work[s] # NoWork =>
    \A e \in work[s].edges :
      Ends(e) \cap work[s].rows # {} =>
        /\ edges[e] = 0
        /\ \A t \in Session \ {s} : work[t] # NoWork => e \notin work[t].edges

\* Every request ends, although sessions wait for each other's keys, also in
\* a ring.
RequestsEnd == \A s \in Session : work[s] # NoWork ~> work[s] = NoWork

-----------------------------------------------------------------------------
(***************************************************************************)
(* The inductive invariant behind the safety properties.                   *)
(***************************************************************************)

\* Before it comes to an edge in what it has to do, a session finds or inserts
\* its concepts, if they are not there already.
EndsFirst(todo, there) ==
  \A i \in DOMAIN todo, t \in Triple :
    todo[i] = EdgeOf(t) => Ends(t) \subseteq there \cup {todo[k] : k \in 1 .. i - 1}

TodosSound ==
  \A s \in Session : work[s] # NoWork => EndsFirst(work[s].todo, rows \cup work[s].rows)

\* Committed edges join committed concepts.
EdgesJoinRows == \A t \in Triple : edges[t] > 0 => Ends(t) \subseteq rows

RegistrationInv == RegistrationTypeOK /\ TodosSound /\ EdgesJoinRows
=============================================================================
