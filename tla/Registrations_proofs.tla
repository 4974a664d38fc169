------------------------ MODULE Registrations_proofs ------------------------
(***************************************************************************)
(* Theorems about what grows in the shared graphs.  Registrations: no key  *)
(* is held by two rows, edges join rows that are there, and edges of new   *)
(* concepts are unique.  Subgraph and Impact: what the two walks find,     *)
(* while the graph under them changes.  All for every value of the         *)
(* constants.                                                              *)
(***************************************************************************)
EXTENDS Registrations, Subgraph, Impact, FiniteSetTheorems,
        WellFoundedInduction, TLAPS

-----------------------------------------------------------------------------
(***************************************************************************)
(* What requests look for.                                                 *)
(***************************************************************************)

\* Edges are no keys; the ends of an edge are keys of concepts.
LEMMA KeysAndEdges ==
  /\ \A t \in Triple : EdgeOf(t) \in Edge /\ EdgeOf(t) \notin Key
  /\ \A t \in Triple : Ends(t) \subseteq ConceptKey /\ Ends(t) \cap Edge = {}
  /\ ConceptKey \subseteq Key
  /\ \A e \in Edge : e.name \in Triple /\ e = EdgeOf(e.name)
  /\ \A e \in Edge : e.table = "concept_relationships"
  /\ \A k \in Key : k.table # "concept_relationships"
<1>1. \A t \in Triple : t[1] \in Concept /\ t[2] \in Concept
  BY TriplesAreOfConcepts
<1>2. \A k \in Key : k.table # "concept_relationships"
  BY DEF Key, ConceptKey, SourceKey, StandardKey, NodeKey, ReviewerKey
<1>3. \A t \in Triple : EdgeOf(t) \in Edge /\ EdgeOf(t).table = "concept_relationships"
  BY DEF EdgeOf, RowOf, Edge
<1>4. \A e \in Edge : e.name \in Triple /\ e = EdgeOf(e.name)
                      /\ e.table = "concept_relationships"
  BY DEF Edge, EdgeOf, RowOf
<1>5. \A t \in Triple : Ends(t) \subseteq ConceptKey
  BY <1>1 DEF Ends, RowOf, ConceptKey
<1>6. ConceptKey \subseteq Key
  BY DEF Key
<1>7. \A t \in Triple : Ends(t) \cap Edge = {}
  BY <1>2, <1>4, <1>5, <1>6
<1>. QED
  BY <1>2, <1>3, <1>4, <1>5, <1>6, <1>7

\* A script is a list of keys and edges, with the ends of an edge before it.
Sound(script) == script \in Seq(Key \cup Edge) /\ EndsFirst(script, {})

\* One key to look for.
LEMMA OneKey ==
  ASSUME NEW k \in Key
  PROVE  Sound(<<k>>)
<1>1. <<k>> \in Seq(Key \cup Edge)
  OBVIOUS
<1>2. \A i \in DOMAIN <<k>>, t \in Triple : <<k>>[i] # EdgeOf(t)
  BY KeysAndEdges
<1>. QED
  BY <1>1, <1>2 DEF Sound, EndsFirst

\* What concatenation gives.
LEMMA Concatenated ==
  ASSUME NEW S, NEW q \in Seq(S), NEW r \in Seq(S)
  PROVE  /\ q \o r \in Seq(S)
         /\ Len(q) \in Nat /\ Len(r) \in Nat /\ Len(q \o r) = Len(q) + Len(r)
         /\ \A i \in 1 .. Len(q) : (q \o r)[i] = q[i]
         /\ \A i \in 1 .. Len(r) : (q \o r)[Len(q) + i] = r[i]
OBVIOUS

\* One script after another.
LEMMA TwoScripts ==
  ASSUME NEW q, NEW r, Sound(q), Sound(r)
  PROVE  Sound(q \o r)
<1>1. q \in Seq(Key \cup Edge) /\ r \in Seq(Key \cup Edge)
  BY DEF Sound
<1>2. /\ q \o r \in Seq(Key \cup Edge)
      /\ Len(q) \in Nat /\ Len(r) \in Nat
      /\ DOMAIN q = 1 .. Len(q) /\ DOMAIN r = 1 .. Len(r)
      /\ DOMAIN (q \o r) = 1 .. Len(q) + Len(r)
      /\ \A i \in 1 .. Len(q) : (q \o r)[i] = q[i]
      /\ \A i \in 1 .. Len(r) : (q \o r)[Len(q) + i] = r[i]
  BY <1>1
<1>. DEFINE m == Len(q)
            n == Len(r)
            b == q \o r
<1>3. ASSUME NEW i \in DOMAIN b, NEW t \in Triple, b[i] = EdgeOf(t)
      PROVE  Ends(t) \subseteq {b[k] : k \in 1 .. i - 1}
  <2>1. CASE i \in 1 .. m
    <3>1. q[i] = EdgeOf(t) /\ i \in DOMAIN q
      BY <1>2, <1>3, <2>1
    <3>2. Ends(t) \subseteq {q[k] : k \in 1 .. i - 1}
      BY <3>1 DEF Sound, EndsFirst
    <3>3. \A k \in 1 .. i - 1 : b[k] = q[k]
      BY <1>2, <2>1
    <3>. HIDE DEF b
    <3>. QED
      BY <3>2, <3>3
  <2>2. CASE i \notin 1 .. m
    <3>. DEFINE j == i - m
    <3>1. j \in 1 .. n /\ b[m + j] = r[j] /\ m + j = i
      BY <1>2, <2>2
    <3>2. r[j] = EdgeOf(t) /\ j \in DOMAIN r
      BY <1>2, <1>3, <3>1
    <3>. HIDE DEF j
    <3>3. Ends(t) \subseteq {r[k] : k \in 1 .. j - 1}
      BY <3>2 DEF Sound, EndsFirst
    <3>4. \A k \in 1 .. j - 1 : b[m + k] = r[k] /\ m + k \in 1 .. i - 1
      BY <1>2, <3>1
    <3>. HIDE DEF b, m
    <3>. QED
      BY <3>3, <3>4
  <2>. QED
    BY <2>1, <2>2
<1>. QED
  BY <1>2, <1>3 DEF Sound, EndsFirst

\* The relationship of two concepts comes after them.
LEMMA RelationshipSound ==
  ASSUME NEW t \in Triple
  PROVE  Sound(AddRelationship(t))
<1>. DEFINE k == RowOf("concepts", t[1])
            l == RowOf("concepts", t[2])
            e == EdgeOf(t)
            q == <<k>> \o <<l>>
            script == q \o <<e>>
<1>1. k \in Key /\ l \in Key /\ e \in Edge /\ Ends(t) = {k, l}
  BY KeysAndEdges DEF Ends
<1>2. AddRelationship(t) = script
  BY DEF AddRelationship, GetOrCreateConcept
<1>3. /\ script \in Seq(Key \cup Edge) /\ DOMAIN script = 1 .. 3
      /\ script[1] = k /\ script[2] = l /\ script[3] = e
  <2>. DEFINE S == Key \cup Edge
              x == <<k>>
              y == <<l>>
              z == <<e>>
  <2>1. /\ x \in Seq(S) /\ Len(x) = 1 /\ x[1] = k
        /\ y \in Seq(S) /\ Len(y) = 1 /\ y[1] = l
        /\ z \in Seq(S) /\ Len(z) = 1 /\ z[1] = e
    BY <1>1
  <2>. HIDE DEF S, k, l, e, x, y, z
  <2>2. x \o y \in Seq(S) /\ Len(x \o y) = 2 /\ (x \o y)[1] = k /\ (x \o y)[2] = l
    BY <2>1, Concatenated
  <2>3. q = x \o y /\ script = q \o z
    BY DEF x, y, z
  <2>. HIDE DEF q, script
  <2>4. /\ script \in Seq(S) /\ Len(script) = 3
        /\ script[1] = k /\ script[2] = l /\ script[3] = e
    BY <2>1, <2>2, <2>3, Concatenated
  <2>. QED
    BY <2>4 DEF S
<1>. HIDE DEF q, script
<1>4. ASSUME NEW i \in DOMAIN script, NEW u \in Triple, script[i] = EdgeOf(u)
      PROVE  Ends(u) \subseteq {script[j] : j \in 1 .. i - 1}
  <2>1. i = 3
    BY <1>1, <1>3, <1>4, KeysAndEdges
  <2>2. Ends(u) = Ends(t)
    BY <1>3, <1>4, <2>1, KeysAndEdges DEF EdgeOf, RowOf
  <2>3. 1 \in 1 .. i - 1 /\ 2 \in 1 .. i - 1
    BY <2>1
  <2>. QED
    BY <1>1, <1>3, <2>2, <2>3
<1>. QED
  BY <1>2, <1>3, <1>4 DEF Sound, EndsFirst

\* Every script is sound.
LEMMA ScriptsSound ==
  /\ \A script \in Scripts : Sound(script)
  /\ \A t, u \in Triple : Sound(IngestSource(t, u))
<1>1. \A h \in Document : Sound(RegisterSource(h))
  <2>1. \A h \in Document : RowOf("sources", h) \in Key
    BY DEF RowOf, Key, SourceKey
  <2>. QED
    BY <2>1, OneKey DEF RegisterSource
<1>2. \A n \in StandardName : Sound(CreateStandard(n))
  <2>1. \A n \in StandardName : RowOf("standards", n) \in Key
    BY DEF RowOf, Key, StandardKey
  <2>. QED
    BY <2>1, OneKey DEF CreateStandard
<1>3. \A f \in Fingerprint : Sound(RegisterReviewerKey(f))
  <2>1. \A f \in Fingerprint : RowOf("reviewer_keys", f) \in Key
    BY DEF RowOf, Key, ReviewerKey
  <2>. QED
    BY <2>1, OneKey DEF RegisterReviewerKey
<1>4. ASSUME NEW n \in NodeName PROVE Sound(RegisterNode(n))
  <2>1. /\ RowOf("academy_nodes", n) \in Key
        /\ RowOf("node_governance_policies", n) \in Key
    BY DEF RowOf, Key, NodeKey
  <2>2. RegisterNode(n) =
          <<RowOf("academy_nodes", n)>> \o <<RowOf("node_governance_policies", n)>>
    BY DEF RegisterNode
  <2>. QED
    BY <2>1, <2>2, OneKey, TwoScripts
<1>5. \A n \in Concept : Sound(GetOrCreateConcept(n))
  <2>1. \A n \in Concept : RowOf("concepts", n) \in Key
    BY DEF RowOf, Key, ConceptKey
  <2>. QED
    BY <2>1, OneKey DEF GetOrCreateConcept
<1>6. \A t, u \in Triple : Sound(IngestSource(t, u))
  BY RelationshipSound, TwoScripts DEF IngestSource
<1>. QED
  BY <1>1, <1>2, <1>3, <1>4, <1>5, <1>6, RelationshipSound DEF Scripts

\* What is there may grow.
LEMMA MoreIsThere ==
  ASSUME NEW todo, NEW there, NEW more, there \subseteq more, EndsFirst(todo, there)
  PROVE  EndsFirst(todo, more)
BY DEF EndsFirst

\* The first key or edge is done: a key is there now.
LEMMA FirstDone ==
  ASSUME NEW todo \in Seq(Key \cup Edge), todo # <<>>, NEW there, NEW more,
         there \subseteq more, Head(todo) \in Key => Head(todo) \in more,
         EndsFirst(todo, there)
  PROVE  Tail(todo) \in Seq(Key \cup Edge) /\ EndsFirst(Tail(todo), more)
<1>. DEFINE rest == Tail(todo)
<1>1. /\ rest \in Seq(Key \cup Edge) /\ Len(todo) \in Nat /\ Len(todo) > 0
      /\ DOMAIN todo = 1 .. Len(todo) /\ DOMAIN rest = 1 .. Len(todo) - 1
      /\ \A i \in 1 .. Len(todo) - 1 : rest[i] = todo[i + 1]
      /\ Head(todo) = todo[1] /\ todo[1] \in Key \cup Edge
  OBVIOUS
<1>. HIDE DEF rest
<1>2. ASSUME NEW i \in DOMAIN rest, NEW t \in Triple, rest[i] = EdgeOf(t),
             NEW end \in Ends(t)
      PROVE  end \in more \cup {rest[k] : k \in 1 .. i - 1}
  <2>1. i + 1 \in DOMAIN todo /\ todo[i + 1] = EdgeOf(t)
    BY <1>1, <1>2
  <2>2. end \in there \cup {todo[k] : k \in 1 .. (i + 1) - 1}
    BY <1>2, <2>1 DEF EndsFirst
  <2>3. CASE end \in there
    BY <2>3
  <2>4. ASSUME NEW k \in 1 .. i, end = todo[k]
        PROVE  end \in more \cup {rest[j] : j \in 1 .. i - 1}
    <3>1. CASE k = 1
      BY <1>1, <1>2, <2>4, <3>1, KeysAndEdges
    <3>2. CASE k # 1
      <4>1. k - 1 \in 1 .. i - 1 /\ k - 1 \in 1 .. Len(todo) - 1
        BY <1>1, <3>2
      <4>2. rest[k - 1] = end
        BY <1>1, <2>4, <4>1
      <4>. QED
        BY <4>1, <4>2
    <3>. QED
      BY <3>1, <3>2
  <2>5. (i + 1) - 1 = i
    BY <1>1
  <2>. QED
    BY <2>2, <2>3, <2>4, <2>5
<1>. QED
  BY <1>1, <1>2 DEF EndsFirst, rest

-----------------------------------------------------------------------------
(***************************************************************************)
(* Steps of one session.                                                   *)
(***************************************************************************)

\* What a session may go on with.
WorkSound(s, w) ==
  /\ w \in Work /\ w # NoWork
  /\ w.missed => w.todo # <<>>
  /\ w.rows \cap rows = {}
  /\ \A t \in Session \ {s} : work[t] # NoWork => w.rows \cap work[t].rows = {}
  /\ \A e \in w.edges : Ends(e) \subseteq rows \cup w.rows
  /\ EndsFirst(w.todo, rows \cup w.rows)

\* What the invariant says of a session at work.
LEMMA InvHasSound ==
  ASSUME RegistrationInv, NEW s \in Session, work[s] # NoWork
  PROVE  WorkSound(s, work[s])
BY DEF RegistrationInv, RegistrationTypeOK, TodosSound, WorkSound

\* A step of one session that leaves it sound keeps the invariant, if no row is
\* committed by it.
LEMMA SessionGoesOn ==
  ASSUME RegistrationInv, NEW s \in Session, NEW w, WorkSound(s, w) \/ w = NoWork,
         work' = [work EXCEPT ![s] = w], rows' = rows, edges' = edges
  PROVE  RegistrationInv'
<1>1. /\ work \in [Session -> Work \cup {NoWork}]
      /\ rows \subseteq Key /\ edges \in [Triple -> Nat]
  BY DEF RegistrationInv, RegistrationTypeOK
<1>2. /\ work' \in [Session -> Work \cup {NoWork}]
      /\ work'[s] = w /\ \A t \in Session \ {s} : work'[t] = work[t]
  BY <1>1 DEF WorkSound
<1>3. ASSUME NEW t \in Session, work'[t] # NoWork
      PROVE  /\ work'[t].missed => work'[t].todo # <<>>
             /\ work'[t].rows \cap rows = {}
             /\ \A e \in work'[t].edges : Ends(e) \subseteq rows \cup work'[t].rows
             /\ EndsFirst(work'[t].todo, rows \cup work'[t].rows)
  <2>1. CASE t = s
    BY <1>2, <1>3, <2>1 DEF WorkSound
  <2>2. CASE t # s
    BY <1>2, <1>3, <2>2, InvHasSound DEF WorkSound
  <2>. QED
    BY <2>1, <2>2
<1>4. ASSUME NEW t \in Session, work'[t] # NoWork, NEW u \in Session \ {t}, work'[u] # NoWork
      PROVE  work'[t].rows \cap work'[u].rows = {}
  <2>1. CASE t = s
    BY <1>2, <1>4, <2>1 DEF WorkSound
  <2>2. CASE u = s
    BY <1>2, <1>4, <2>2 DEF WorkSound
  <2>3. CASE t # s /\ u # s
    BY <1>2, <1>4, <2>3, InvHasSound DEF WorkSound
  <2>. QED
    BY <2>1, <2>2, <2>3
<1>5. RegistrationTypeOK'
  BY <1>1, <1>2, <1>3, <1>4 DEF RegistrationTypeOK
<1>6. TodosSound'
  BY <1>3 DEF TodosSound, EndsFirst
<1>. QED
  BY <1>5, <1>6 DEF RegistrationInv, EdgesJoinRows

\* A request starts with nothing inserted.
LEMMA StartKeeps ==
  ASSUME RegistrationInv, NEW s \in Session, NEW script, NEW ingests \in BOOLEAN, Sound(script),
         StartWork(s, script, ingests)
  PROVE  RegistrationInv'
<1>. DEFINE w == [todo |-> script, missed |-> FALSE, ingests |-> ingests,
                  rows |-> {}, edges |-> {}]
<1>1. w \in Work
  BY DEF Work, Sound
<1>2. EndsFirst(w.todo, rows \cup w.rows)
  BY MoreIsThere DEF Sound
<1>3. WorkSound(s, w) \/ w = NoWork
  BY <1>1, <1>2 DEF WorkSound
<1>4. work' = [work EXCEPT ![s] = w] /\ rows' = rows /\ edges' = edges
  BY DEF StartWork
<1>. HIDE DEF w
<1>. QED
  BY <1>3, <1>4, SessionGoesOn

\* What a busy session wants.
LEMMA WantedKnown ==
  ASSUME RegistrationInv, NEW s \in Session, Busy(s)
  PROVE  /\ work[s] \in Work /\ work[s] # NoWork
         /\ work[s].todo \in Seq(Key \cup Edge) /\ work[s].todo # <<>>
         /\ Wanted(s) = Head(work[s].todo) /\ Wanted(s) = work[s].todo[1]
         /\ WantsEdge(s) => /\ Wanted(s) \in Edge
                            /\ Wanted(s).name \in Triple
                            /\ Wanted(s) = EdgeOf(Wanted(s).name)
         /\ ~WantsEdge(s) => Wanted(s) \in Key
<1>1. work[s] \in Work /\ work[s] # NoWork /\ work[s].todo # <<>>
  BY DEF RegistrationInv, RegistrationTypeOK, Busy
<1>2. work[s].todo \in Seq(Key \cup Edge)
  BY <1>1 DEF Work
<1>3. Wanted(s) = Head(work[s].todo) /\ Wanted(s) = work[s].todo[1]
      /\ Wanted(s) \in Key \cup Edge
  BY <1>1, <1>2 DEF Wanted
<1>. QED
  BY <1>1, <1>2, <1>3, KeysAndEdges DEF WantsEdge

\* The empty set has no members.
LEMMA NoneIsZero == Cardinality({}) = 0
BY FS_EmptySet

\* A look changes nothing but what is left to do.
LEMMA LookKeeps ==
  ASSUME RegistrationInv, NEW s \in Session, Look(s)
  PROVE  RegistrationInv'
<1>1. /\ work[s] \in Work /\ work[s] # NoWork
      /\ work[s].todo \in Seq(Key \cup Edge) /\ work[s].todo # <<>>
      /\ Wanted(s) = Head(work[s].todo)
      /\ WorkSound(s, work[s]) /\ ~work[s].missed
      /\ work \in [Session -> Work \cup {NoWork}]
  BY WantedKnown, InvHasSound DEF Look, RegistrationInv, RegistrationTypeOK
<1>2. rows' = rows /\ edges' = edges
  BY DEF Look
<1>3. CASE LookFound(s)
  <2>. DEFINE w == [work[s] EXCEPT !.todo = Tail(@)]
  <2>1. /\ Tail(work[s].todo) \in Seq(Key \cup Edge)
        /\ EndsFirst(Tail(work[s].todo), rows \cup work[s].rows)
    <3>1. Wanted(s) \in Key => Wanted(s) \in rows \cup work[s].rows
      <4>. SUFFICES ASSUME Wanted(s) \in Key, Wanted(s) \notin rows \cup work[s].rows
                    PROVE  FALSE
        OBVIOUS
      <4>1. ~WantsEdge(s)
        BY KeysAndEdges DEF WantsEdge
      <4>2. Visible(s) = Cardinality({})
        BY <4>1 DEF Visible
      <4>. QED
        BY <1>3, <4>2, NoneIsZero DEF LookFound
    <3>. QED
      BY <1>1, <3>1, FirstDone DEF WorkSound
  <2>2. /\ w \in Work /\ w.todo = Tail(work[s].todo) /\ w.missed = work[s].missed
        /\ w.rows = work[s].rows /\ w.edges = work[s].edges
    BY <1>1, <2>1 DEF Work
  <2>3. work' = [work EXCEPT ![s] = w]
    BY <1>1, <1>3 DEF LookFound
  <2>. HIDE DEF w
  <2>4. WorkSound(s, w) \/ w = NoWork
    BY <1>1, <2>1, <2>2 DEF WorkSound
  <2>. QED
    BY <1>2, <2>3, <2>4, SessionGoesOn
<1>4. CASE LookMissed(s)
  <2>. DEFINE w == [work[s] EXCEPT !.missed = TRUE]
  <2>1. /\ w \in Work /\ w.todo = work[s].todo
        /\ w.rows = work[s].rows /\ w.edges = work[s].edges
    BY <1>1 DEF Work
  <2>2. work' = [work EXCEPT ![s] = w]
    BY <1>1, <1>4 DEF LookMissed
  <2>. HIDE DEF w
  <2>3. WorkSound(s, w) \/ w = NoWork
    BY <1>1, <2>1 DEF WorkSound
  <2>. QED
    BY <1>2, <2>2, <2>3, SessionGoesOn
<1>. QED
  BY <1>3, <1>4 DEF Look

\* A row is only inserted when no other has its key.
LEMMA InsertRowKeeps ==
  ASSUME RegistrationInv, NEW s \in Session, InsertRow(s)
  PROVE  RegistrationInv'
<1>. DEFINE k == Wanted(s)
            w == [work[s] EXCEPT !.todo = Tail(@), !.missed = FALSE,
                                 !.rows = @ \cup {k}]
<1>1. /\ work[s] \in Work /\ work[s] # NoWork
      /\ work[s].todo \in Seq(Key \cup Edge) /\ work[s].todo # <<>>
      /\ k = Head(work[s].todo) /\ k \in Key
      /\ WorkSound(s, work[s])
      /\ work \in [Session -> Work \cup {NoWork}]
  BY WantedKnown, InvHasSound DEF InsertRow, RegistrationInv, RegistrationTypeOK
<1>2. /\ k \notin rows
      /\ \A t \in Session \ {s} : work[t] # NoWork => k \notin work[t].rows
  BY DEF InsertRow, WaitsFor
<1>3. rows' = rows /\ edges' = edges /\ work' = [work EXCEPT ![s] = w]
  BY <1>1 DEF InsertRow
<1>. HIDE DEF k
<1>4. /\ Tail(work[s].todo) \in Seq(Key \cup Edge)
      /\ EndsFirst(Tail(work[s].todo), rows \cup (work[s].rows \cup {k}))
  <2>. DEFINE more == rows \cup (work[s].rows \cup {k})
  <2>1. rows \cup work[s].rows \subseteq more /\ k \in more
    OBVIOUS
  <2>. HIDE DEF more
  <2>2. /\ Tail(work[s].todo) \in Seq(Key \cup Edge)
        /\ EndsFirst(Tail(work[s].todo), more)
    BY <1>1, <2>1, FirstDone DEF WorkSound
  <2>. QED
    BY <2>2 DEF more
<1>5. /\ w \in Work /\ w.todo = Tail(work[s].todo) /\ w.missed = FALSE
      /\ w.rows = work[s].rows \cup {k} /\ w.edges = work[s].edges
  BY <1>1, <1>4 DEF Work
<1>. HIDE DEF w
<1>6. WorkSound(s, w) \/ w = NoWork
  BY <1>1, <1>2, <1>4, <1>5 DEF WorkSound
<1>. QED
  BY <1>3, <1>6, SessionGoesOn

\* The concepts of an edge are there when it is inserted.
LEMMA InsertEdgeKeeps ==
  ASSUME RegistrationInv, NEW s \in Session, InsertEdge(s)
  PROVE  RegistrationInv'
<1>. DEFINE e == Wanted(s).name
            w == [work[s] EXCEPT !.todo = Tail(@), !.missed = FALSE,
                                 !.edges = @ \cup {e}]
<1>1. /\ work[s] \in Work /\ work[s] # NoWork
      /\ work[s].todo \in Seq(Key \cup Edge) /\ work[s].todo # <<>>
      /\ Wanted(s) = Head(work[s].todo) /\ Wanted(s) = work[s].todo[1]
      /\ e \in Triple /\ Wanted(s) = EdgeOf(e) /\ Wanted(s) \in Edge
      /\ WorkSound(s, work[s])
      /\ work \in [Session -> Work \cup {NoWork}]
  BY WantedKnown, InvHasSound DEF InsertEdge, RegistrationInv, RegistrationTypeOK
<1>2. Ends(e) \subseteq rows \cup work[s].rows
  <2>1. 1 \in DOMAIN work[s].todo
    BY <1>1
  <2>2. \A t \in Triple :
          work[s].todo[1] = EdgeOf(t) =>
            Ends(t) \subseteq
              (rows \cup work[s].rows) \cup {work[s].todo[k] : k \in 1 .. 1 - 1}
    BY <1>1, <2>1 DEF WorkSound, EndsFirst
  <2>3. 1 .. 1 - 1 = {}
    OBVIOUS
  <2>. QED
    BY <1>1, <2>2, <2>3
<1>3. rows' = rows /\ edges' = edges /\ work' = [work EXCEPT ![s] = w]
  BY <1>1 DEF InsertEdge
<1>4. Wanted(s) \notin Key
  BY <1>1, KeysAndEdges
<1>. HIDE DEF e
<1>5. /\ Tail(work[s].todo) \in Seq(Key \cup Edge)
      /\ EndsFirst(Tail(work[s].todo), rows \cup work[s].rows)
  BY <1>1, <1>4, FirstDone DEF WorkSound
<1>6. /\ w \in Work /\ w.todo = Tail(work[s].todo) /\ w.missed = FALSE
      /\ w.rows = work[s].rows /\ w.edges = work[s].edges \cup {e}
  BY <1>1, <1>5 DEF Work
<1>. HIDE DEF w
<1>7. WorkSound(s, w) \/ w = NoWork
  BY <1>1, <1>2, <1>5, <1>6 DEF WorkSound
<1>. QED
  BY <1>3, <1>7, SessionGoesOn

\* A rollback takes back what was not committed.
LEMMA RollbackKeeps ==
  ASSUME RegistrationInv, NEW s \in Session, Rollback(s)
  PROVE  RegistrationInv'
BY SessionGoesOn DEF Rollback

\* A commit leaves what the other sessions hold.
LEMMA CommitKeeps ==
  ASSUME RegistrationInv, NEW s \in Session, Commit(s)
  PROVE  RegistrationInv'
<1>1. /\ work \in [Session -> Work \cup {NoWork}] /\ work[s] \in Work
      /\ rows \subseteq Key /\ edges \in [Triple -> Nat]
      /\ work[s].rows \subseteq Key /\ work[s].edges \subseteq Triple
  BY DEF RegistrationInv, RegistrationTypeOK, Commit, Work
<1>2. /\ rows' = rows \cup work[s].rows
      /\ work' \in [Session -> Work \cup {NoWork}] /\ work'[s] = NoWork
      /\ \A t \in Session \ {s} : work'[t] = work[t]
      /\ \A t \in Triple :
           edges'[t] = IF t \in work[s].edges THEN edges[t] + 1 ELSE edges[t]
  BY <1>1 DEF Commit
<1>3. edges' \in [Triple -> Nat]
  BY <1>1 DEF Commit
<1>4. WorkSound(s, work[s])
  BY InvHasSound DEF Commit
<1>5. ASSUME NEW t \in Session, work'[t] # NoWork
      PROVE  /\ t # s /\ work'[t] = work[t] /\ WorkSound(t, work[t])
             /\ work'[t].rows \cap rows' = {}
             /\ rows \cup work[t].rows \subseteq rows' \cup work'[t].rows
  <2>1. t # s /\ work'[t] = work[t] /\ work[t] # NoWork
    BY <1>2, <1>5
  <2>2. WorkSound(t, work[t])
    BY <2>1, InvHasSound
  <2>3. work[t].rows \cap work[s].rows = {}
    BY <2>1, <1>4 DEF WorkSound
  <2>. QED
    BY <1>2, <2>1, <2>2, <2>3 DEF WorkSound
<1>6. RegistrationTypeOK'
  <2>1. ASSUME NEW t \in Session, work'[t] # NoWork
        PROVE  /\ work'[t].missed => work'[t].todo # <<>>
               /\ work'[t].rows \cap rows' = {}
               /\ \A u \in Session \ {t} : work'[u] # NoWork =>
                    work'[t].rows \cap work'[u].rows = {}
               /\ \A e \in work'[t].edges : Ends(e) \subseteq rows' \cup work'[t].rows
    <3>1. /\ work'[t].missed => work'[t].todo # <<>>
          /\ \A e \in work'[t].edges : Ends(e) \subseteq rows' \cup work'[t].rows
      BY <2>1, <1>5 DEF WorkSound
    <3>2. \A u \in Session \ {t} : work'[u] # NoWork =>
            work'[t].rows \cap work'[u].rows = {}
      BY <2>1, <1>2, <1>5 DEF WorkSound
    <3>. QED
      BY <2>1, <1>5, <3>1, <3>2
  <2>2. rows' \subseteq Key
    BY <1>1, <1>2
  <2>. QED
    BY <1>2, <1>3, <2>1, <2>2 DEF RegistrationTypeOK
<1>7. TodosSound'
  <2>1. ASSUME NEW t \in Session, work'[t] # NoWork
        PROVE  EndsFirst(work'[t].todo, rows' \cup work'[t].rows)
    <3>. DEFINE there == rows \cup work[t].rows
                more == rows' \cup work'[t].rows
    <3>1. there \subseteq more /\ EndsFirst(work[t].todo, there)
      BY <2>1, <1>5 DEF WorkSound
    <3>. HIDE DEF there, more
    <3>2. EndsFirst(work[t].todo, more)
      BY <3>1, MoreIsThere
    <3>. QED
      BY <2>1, <1>5, <3>2 DEF more
  <2>. QED
    BY <2>1 DEF TodosSound, EndsFirst
<1>8. EdgesJoinRows'
  <2>1. \A t \in Triple : edges'[t] > 0 => edges[t] > 0 \/ t \in work[s].edges
    BY <1>2
  <2>2. \A t \in work[s].edges : Ends(t) \subseteq rows \cup work[s].rows
    BY <1>4 DEF WorkSound
  <2>. QED
    BY <1>2, <2>1, <2>2 DEF RegistrationInv, EdgesJoinRows
<1>. QED
  BY <1>6, <1>7, <1>8 DEF RegistrationInv

-----------------------------------------------------------------------------
(***************************************************************************)
(* Theorems.                                                               *)
(***************************************************************************)

\* No rows, no edges, no requests at first.
THEOREM InitIInv == RegistrationInit => RegistrationInv
BY DEF RegistrationInit, RegistrationInv, RegistrationTypeOK, TodosSound, EdgesJoinRows

\* Every step keeps the invariant.
THEOREM NextIInv == RegistrationInv /\ [RegistrationNext]_registrationVars => RegistrationInv'
<1>. SUFFICES ASSUME RegistrationInv, [RegistrationNext]_registrationVars PROVE RegistrationInv'
  OBVIOUS
<1>1. CASE UNCHANGED registrationVars
  BY <1>1 DEF registrationVars, RegistrationInv, RegistrationTypeOK, TodosSound, EdgesJoinRows
<1>2. ASSUME NEW s \in Session, Request(s)
      PROVE  RegistrationInv'
  BY <1>2, StartKeeps, ScriptsSound DEF Request
<1>3. ASSUME NEW s \in Session, Ingest(s)
      PROVE  RegistrationInv'
  BY <1>3, StartKeeps, ScriptsSound DEF Ingest
<1>4. ASSUME NEW s \in Session, Progress(s)
      PROVE  RegistrationInv'
  BY <1>4, LookKeeps, InsertRowKeeps, InsertEdgeKeeps, RollbackKeeps, CommitKeeps
    DEF Progress, UniqueViolation, Deadlock, Refuse
<1>5. ASSUME NEW s \in Session, Abort(s)
      PROVE  RegistrationInv'
  BY <1>5, RollbackKeeps DEF Abort
<1>. QED
  BY <1>1, <1>2, <1>3, <1>4, <1>5 DEF RegistrationNext

\* For any number of sessions and keys: tables keep their types, what sessions
\* have still to do names the concepts of an edge before it, and committed
\* edges join committed concepts.
THEOREM Inductive == RegistrationSpec => []RegistrationInv
BY InitIInv, NextIInv, PTL DEF RegistrationSpec

\* RegistrationTypeOK: no key is ever held by two rows, committed or not, and edges join
\* concepts that exist for their session.
THEOREM KeysUnique == RegistrationSpec => []RegistrationTypeOK
<1>1. RegistrationInv => RegistrationTypeOK
  BY DEF RegistrationInv
<1>. QED
  BY <1>1, Inductive, PTL

\* NewConceptsKeepEdgesUnique: an edge of a concept that is not committed is
\* in no other session, and not committed.
THEOREM NewEdgesUnique == RegistrationSpec => []NewConceptsKeepEdgesUnique
<1>1. RegistrationInv => NewConceptsKeepEdgesUnique
  <2>. SUFFICES ASSUME RegistrationInv, NEW s \in Session, work[s] # NoWork, NEW e \in work[s].edges,
                       NEW k \in Ends(e) \cap work[s].rows
                PROVE  /\ edges[e] = 0
                       /\ \A t \in Session \ {s} : work[t] # NoWork => e \notin work[t].edges
    BY DEF NewConceptsKeepEdgesUnique
  <2>1. WorkSound(s, work[s]) /\ e \in Triple /\ edges[e] \in Nat
    BY InvHasSound DEF WorkSound, Work, RegistrationInv, RegistrationTypeOK
  <2>2. k \notin rows
    BY <2>1 DEF WorkSound
  <2>3. edges[e] = 0
    BY <2>1, <2>2 DEF RegistrationInv, EdgesJoinRows
  <2>4. ASSUME NEW t \in Session \ {s}, work[t] # NoWork, e \in work[t].edges
        PROVE  FALSE
    <3>1. WorkSound(t, work[t])
      BY <2>4, InvHasSound
    <3>2. k \in work[t].rows
      BY <2>2, <2>4, <3>1 DEF WorkSound
    <3>3. work[s].rows \cap work[t].rows = {}
      BY <2>1, <2>4 DEF WorkSound
    <3>. QED
      BY <3>2, <3>3
  <2>. QED
    BY <2>3, <2>4
<1>. QED
  BY <1>1, Inductive, PTL

-----------------------------------------------------------------------------
(***************************************************************************)
(* Paths.                                                                  *)
(***************************************************************************)

\* A non-empty set of numbers has a least one.
LEMMA HasFirst ==
  ASSUME NEW T \in SUBSET Nat, T # {}
  PROVE  \E x \in T : \A y \in T : x <= y
<1>. DEFINE R == OpToRel(<, Nat)
<1>1. IsWellFoundedOn(R, Nat)
  BY NatLessThanWellFounded
<1>2. PICK x \in T : \A y \in T : ~ (<<y, x>> \in R)
  <2>. HIDE DEF R
  <2>. QED BY <1>1, WFMin
<1>3. ASSUME NEW y \in T PROVE x <= y
  <2>1. x \in Nat /\ y \in Nat
    OBVIOUS
  <2>2. ~ (y < x)
    BY <1>2, <2>1 DEF OpToRel
  <2>. QED
    BY <2>1, <2>2
<1>. QED
  BY <1>3

\* No step leads from a vertex to itself.
LEMMA WithinSelf ==
  ASSUME NEW V, NEW E, NEW v \in V, NEW k \in Nat
  PROVE  Within(V, E, v, v, k)
<1>. DEFINE p == [i \in 0 .. 0 |-> v]
<1>1. p \in [0 .. 0 -> V] /\ p[0] = v /\ 1 .. 0 = {} /\ 0 \in 0 .. k
  OBVIOUS
<1>2. IsPath(p, 0, V, E, v, v)
  BY <1>1 DEF IsPath
<1>. QED
  BY <1>1, <1>2 DEF Within

\* A path goes on by an edge.
LEMMA WithinStep ==
  ASSUME NEW V, NEW E, NEW v \in V, NEW u \in V, NEW w \in V, NEW k \in Nat,
         Within(V, E, v, u, k), <<u, w>> \in E
  PROVE  Within(V, E, v, w, k + 1)
<1>0. PICK n \in 0 .. k : \E p \in [0 .. n -> V] : IsPath(p, n, V, E, v, u)
  BY DEF Within
<1>1. PICK p \in [0 .. n -> V] : IsPath(p, n, V, E, v, u)
  BY <1>0
<1>. DEFINE q == [i \in 0 .. n + 1 |-> IF i = n + 1 THEN w ELSE p[i]]
<1>2. n \in Nat /\ n + 1 \in 0 .. k + 1
  OBVIOUS
<1>3. q \in [0 .. n + 1 -> V]
  BY <1>1, <1>2
<1>4. q[0] = v /\ q[n + 1] = w
  BY <1>1, <1>2 DEF IsPath
<1>5. ASSUME NEW i \in 1 .. n + 1 PROVE <<q[i - 1], q[i]>> \in E
  <2>1. CASE i = n + 1
    <3>1. q[i - 1] = p[n] /\ q[i] = w
      BY <1>2, <2>1
    <3>. QED BY <3>1, <1>1 DEF IsPath
  <2>2. CASE i # n + 1
    <3>1. i \in 1 .. n /\ q[i - 1] = p[i - 1] /\ q[i] = p[i]
      BY <1>2, <2>2
    <3>. QED BY <3>1, <1>1 DEF IsPath
  <2>. QED BY <2>1, <2>2
<1>6. IsPath(q, n + 1, V, E, v, w)
  BY <1>3, <1>4, <1>5 DEF IsPath
<1>. QED
  BY <1>2, <1>3, <1>6 DEF Within

\* D[i] has all that an edge of E leads to from D[i - 1].
Spreads(D, n, V, E) ==
  \A i \in 1 .. n : \A e \in E : e[1] \in D[i - 1] /\ e[2] \in V => e[2] \in D[i]

\* A path from a vertex of D[0] is in D[n] after n edges.
LEMMA AlongPath ==
  ASSUME NEW V, NEW E, NEW v, NEW w, NEW n \in Nat, NEW p \in [0 .. n -> V],
         IsPath(p, n, V, E, v, w), NEW D, v \in D[0], Spreads(D, n, V, E)
  PROVE  w \in D[n]
<1>. DEFINE T == {i \in 0 .. n : p[i] \notin D[i]}
<1>1. CASE T = {}
  <2>1. n \in 0 .. n /\ p[n] = w
    BY DEF IsPath
  <2>. QED BY <1>1, <2>1
<1>2. CASE T # {}
  <2>1. T \in SUBSET Nat
    OBVIOUS
  <2>2. PICK x \in T : \A y \in T : x <= y
    <3>. HIDE DEF T
    <3>. QED BY <1>2, <2>1, HasFirst
  <2>3. x # 0
    BY DEF IsPath
  <2>4. x \in 1 .. n /\ x - 1 \in 0 .. n /\ ~ (x <= x - 1)
    BY <2>3
  <2>5. p[x - 1] \in D[x - 1]
    BY <2>2, <2>4
  <2>6. <<p[x - 1], p[x]>> \in E /\ p[x] \in V
    BY <2>4 DEF IsPath
  <2>7. p[x] \in D[x]
    BY <2>4, <2>5, <2>6 DEF Spreads
  <2>. QED BY <2>7
<1>. QED BY <1>1, <1>2

-----------------------------------------------------------------------------
(***************************************************************************)
(* Subgraph: the parts of the queue.                                       *)
(***************************************************************************)

\* A queue without its front.
LEMMA FrontAndTail ==
  ASSUME NEW q \in Seq(Visit), q # <<>>
  PROVE  /\ Head(q) \in Visit /\ Head(q) = q[1] /\ 1 \in DOMAIN q
         /\ Tail(q) \in Seq(Visit) /\ Len(q) \in Nat \ {0} /\ Len(Tail(q)) = Len(q) - 1
         /\ DOMAIN q = 1 .. Len(q) /\ DOMAIN Tail(q) = 1 .. Len(q) - 1
         /\ \A i \in 1 .. Len(q) - 1 : Tail(q)[i] = q[i + 1]
         /\ \A i \in DOMAIN q : q[i] \in Visit
OBVIOUS

\* The entries that are added for an answer.
LEMMA AnswerEntries ==
  ASSUME NEW v \in Vertex, NEW f \in Answers(v), NEW d \in Nat, graph \subseteq Link,
         NEW tail \in Seq(Visit)
  PROVE  LET new == Entries(f, d) IN
         /\ new \in Seq(Visit) /\ DOMAIN new = DOMAIN f
         /\ \A i \in DOMAIN new : <<v, new[i].concept_id>> \in graph /\ new[i].depth = d
         /\ \A e \in LinksFrom(v) : e[2] \in Visited \cup {v} \/
              \E i \in DOMAIN new : new[i].concept_id = e[2]
         /\ Push(tail, new) \in Seq(Visit)
         /\ DOMAIN Push(tail, new) = 1 .. Len(tail) + Len(new)
         /\ Len(tail) \in Nat /\ Len(new) \in Nat /\ DOMAIN new = 1 .. Len(new)
         /\ DOMAIN tail = 1 .. Len(tail)
         /\ \A i \in 1 .. Len(tail) : Push(tail, new)[i] = tail[i]
         /\ \A i \in 1 .. Len(new) : Push(tail, new)[Len(tail) + i] = new[i]
<1>. DEFINE new == Entries(f, d)
            unseen == {e[2] : e \in LinksFrom(v)} \ (Visited \cup {v})
<1>1. PICK n \in 0 .. MaxAnswer :
        f \in [1 .. n -> unseen] /\ \A u \in unseen : \E i \in 1 .. n : f[i] = u
  BY DEF Answers
<1>2. n \in Nat /\ DOMAIN f = 1 .. n
  BY <1>1, SubgraphBounds
<1>3. \A u \in unseen : u \in Vertex /\ <<v, u>> \in graph
  <2>. SUFFICES ASSUME NEW e \in LinksFrom(v) PROVE e[2] \in Vertex /\ <<v, e[2]>> \in graph
    OBVIOUS
  <2>1. e \in graph /\ e[1] = v /\ e \in Vertex \X Vertex
    BY LinksJoinVertices DEF LinksFrom
  <2>2. e = <<e[1], e[2]>> /\ e[2] \in Vertex
    BY <2>1
  <2>. QED BY <2>1, <2>2
<1>. HIDE DEF unseen
<1>4. \A i \in 1 .. n : new[i] = [concept_id |-> f[i], depth |-> d] /\ f[i] \in unseen
  BY <1>1, <1>2 DEF Entries
<1>5. \A i \in 1 .. n : new[i] \in Visit /\ new[i].concept_id = f[i] /\ new[i].depth = d
  <2>. SUFFICES ASSUME NEW i \in 1 .. n
                PROVE  new[i] \in Visit /\ new[i].concept_id = f[i] /\ new[i].depth = d
    OBVIOUS
  <2>1. f[i] \in Vertex /\ new[i] = [concept_id |-> f[i], depth |-> d]
    BY <1>3, <1>4
  <2>. HIDE DEF new
  <2>. QED BY <2>1 DEF Visit
<1>6. new \in [1 .. n -> Visit]
  BY <1>2, <1>5 DEF Entries
<1>. HIDE DEF new
<1>7. new \in Seq(Visit) /\ Len(new) = n /\ DOMAIN new = 1 .. n
  BY <1>2, <1>6
<1>8. \A e \in LinksFrom(v) : e[2] \in Visited \cup {v} \/
        \E i \in DOMAIN new : new[i].concept_id = e[2]
  <2>. SUFFICES ASSUME NEW e \in LinksFrom(v), e[2] \notin Visited \cup {v}
                PROVE  \E i \in 1 .. n : new[i].concept_id = e[2]
    BY <1>7
  <2>1. e[2] \in unseen
    BY DEF unseen
  <2>. QED BY <1>1, <1>5, <2>1
<1>9. \A i \in DOMAIN new : <<v, new[i].concept_id>> \in graph /\ new[i].depth = d
  BY <1>3, <1>4, <1>5, <1>7
<1>10. /\ Push(tail, new) \in Seq(Visit)
       /\ DOMAIN Push(tail, new) = 1 .. Len(tail) + Len(new)
       /\ Len(tail) \in Nat /\ DOMAIN tail = 1 .. Len(tail)
       /\ \A i \in 1 .. Len(tail) : Push(tail, new)[i] = tail[i]
       /\ \A i \in 1 .. Len(new) : Push(tail, new)[Len(tail) + i] = new[i]
  BY <1>7 DEF Push
<1>11. DOMAIN new = DOMAIN f /\ Len(new) \in Nat /\ DOMAIN new = 1 .. Len(new)
  BY <1>2, <1>7
<1>. QED
  BY <1>7, <1>8, <1>9, <1>10, <1>11 DEF new

-----------------------------------------------------------------------------
(***************************************************************************)
(* Subgraph: the steps.                                                    *)
(***************************************************************************)

\* The fields of a walk and their types.
LEMMA WalkIsWalk ==
  ASSUME SubgraphTypeOK, subgraph # NoSubgraph
  PROVE  /\ subgraph \in Walk
         /\ subgraph.queue \in Seq(Visit) /\ subgraph.nodes \subseteq Visit
         /\ subgraph.edges \subseteq Link /\ subgraph.root \in Vertex
         /\ subgraph.max_depth \in Nat /\ subgraph.before \subseteq graph
         /\ graph \subseteq Link
         /\ subgraph = [root |-> subgraph.root, max_depth |-> subgraph.max_depth,
                        before |-> subgraph.before, queue |-> subgraph.queue,
                        nodes |-> subgraph.nodes, edges |-> subgraph.edges]
<1>1. subgraph \in Walk
  BY DEF SubgraphTypeOK
<1>2. 0 .. MaxDepth \subseteq Nat
  BY SubgraphBounds
<1>. QED
  BY <1>1, <1>2 DEF SubgraphTypeOK, Walk

\* Relationships are committed while a walk goes on.
LEMMA LinksCommitted ==
  ASSUME SubgraphInv, NEW added \in SUBSET Link, CommitLinks(added)
  PROVE  SubgraphInv'
<1>1. graph \subseteq graph' /\ graph' \subseteq Link /\ subgraph' = subgraph
  BY DEF CommitLinks, SubgraphInv, SubgraphTypeOK
<1>2. SubgraphTypeOK'
  BY <1>1 DEF SubgraphInv, SubgraphTypeOK
<1>3. ASSUME subgraph # NoSubgraph PROVE WalkSound'
  <2>1. WalkSound
    BY DEF SubgraphInv
  <2>2. \A m : FoundThrough(m) => FoundThrough(m)'
    BY <1>1 DEF FoundThrough
  <2>3. QueueSorted => QueueSorted'
    BY <1>1 DEF QueueSorted
  <2>4. \A v, d : Due(v, d) => Due(v, d)'
    BY <1>1 DEF Due
  <2>. QED
    BY <1>1, <1>3, <2>1, <2>2, <2>3, <2>4 DEF WalkSound
<1>. QED
  BY <1>1, <1>2, <1>3 DEF SubgraphInv, WalkSound

\* A walk begins with its root in the queue.
LEMMA WalkBegins ==
  ASSUME SubgraphInv, NEW root \in Vertex, NEW depth \in 0 .. MaxDepth,
         GetSubgraph(root, depth)
  PROVE  SubgraphInv'
<1>. DEFINE first == [concept_id |-> root, depth |-> 0]
<1>1. first \in Visit /\ first.concept_id = root /\ first.depth = 0
  BY DEF Visit
<1>. HIDE DEF first
<1>2. /\ <<first>> \in Seq(Visit) /\ DOMAIN <<first>> = {1} /\ <<first>>[1] = first
  BY <1>1
<1>3. /\ subgraph' = [root |-> root, max_depth |-> depth, before |-> graph,
                      queue |-> <<first>>, nodes |-> {}, edges |-> {}]
      /\ graph' = graph
  BY DEF GetSubgraph, first
<1>4. SubgraphTypeOK'
  BY <1>2, <1>3 DEF SubgraphInv, SubgraphTypeOK, Walk
<1>5. WalkSound'
  <2>1. QueueSorted'
    BY <1>1, <1>2, <1>3 DEF QueueSorted
  <2>2. FoundThrough(first)'
    BY <1>1, <1>3 DEF FoundThrough
  <2>3. Due(root, 0)'
    BY <1>1, <1>2, <1>3 DEF Due
  <2>. QED
    BY <1>2, <1>3, <2>1, <2>2, <2>3 DEF WalkSound
<1>. QED
  BY <1>4, <1>5 DEF SubgraphInv

\* Nothing is lost with an entry that is skipped: its concept was visited on a
\* way that is not longer, or the walk may not go that far.
LEMMA ConceptSkipped ==
  ASSUME SubgraphInv, SkipConcept
  PROVE  SubgraphInv'
<1>. DEFINE q == subgraph.queue
            N == Len(q) - 1
<1>1. /\ subgraph # NoSubgraph /\ q # <<>> /\ graph' = graph /\ Skips
      /\ subgraph' = [subgraph EXCEPT !.queue = Tail(q)]
  BY DEF SkipConcept, Walking
<1>2. SubgraphTypeOK /\ WalkSound
  BY DEF SubgraphInv
<1>3. /\ subgraph \in Walk /\ q \in Seq(Visit) /\ subgraph.nodes \subseteq Visit
      /\ subgraph.max_depth \in Nat
  BY <1>1, <1>2, WalkIsWalk
<1>4. /\ AtFront \in Visit /\ AtFront = q[1] /\ 1 \in DOMAIN q
      /\ Tail(q) \in Seq(Visit) /\ Len(q) \in Nat \ {0}
      /\ DOMAIN q = 1 .. Len(q) /\ DOMAIN Tail(q) = 1 .. Len(q) - 1
      /\ \A i \in 1 .. Len(q) - 1 : Tail(q)[i] = q[i + 1]
      /\ \A i \in DOMAIN q : q[i] \in Visit
  BY <1>1, <1>3, FrontAndTail DEF AtFront
<1>5. /\ subgraph'.queue = Tail(q) /\ subgraph'.nodes = subgraph.nodes
      /\ subgraph'.edges = subgraph.edges /\ subgraph'.root = subgraph.root
      /\ subgraph'.max_depth = subgraph.max_depth /\ subgraph'.before = subgraph.before
      /\ subgraph' \in Walk
  BY <1>1, <1>3, <1>4 DEF Walk
<1>6. SubgraphTypeOK'
  BY <1>1, <1>2, <1>5 DEF SubgraphTypeOK
<1>. HIDE DEF q
<1>7. QueueSorted'
  <2>1. QueueSorted
    BY <1>1, <1>2 DEF WalkSound
  <2>2. ASSUME NEW i \in 1 .. N, NEW j \in 1 .. N, i <= j
        PROVE  Tail(q)[i].depth <= Tail(q)[j].depth /\ Tail(q)[j].depth <= Tail(q)[1].depth + 1
    <3>1. /\ i + 1 \in DOMAIN q /\ j + 1 \in DOMAIN q /\ 2 \in DOMAIN q /\ 1 \in 1 .. N
          /\ i + 1 <= j + 1 /\ 1 <= 2
      BY <1>4, <2>2
    <3>2. /\ q[i + 1].depth <= q[j + 1].depth /\ q[j + 1].depth <= q[1].depth + 1
          /\ q[1].depth <= q[2].depth
      BY <1>4, <2>1, <3>1 DEF QueueSorted, q
    <3>3. Tail(q)[i] = q[i + 1] /\ Tail(q)[j] = q[j + 1] /\ Tail(q)[1] = q[2]
      BY <1>4, <3>1
    <3>4. q[1].depth \in Nat /\ q[2].depth \in Nat /\ q[j + 1].depth \in Nat
      BY <1>4, <3>1 DEF Visit
    <3>. QED BY <3>2, <3>3, <3>4
  <2>3. ASSUME NEW i \in 1 .. N, NEW m \in subgraph.nodes PROVE m.depth <= Tail(q)[i].depth
    <3>1. i + 1 \in DOMAIN q /\ Tail(q)[i] = q[i + 1]
      BY <1>4
    <3>. QED BY <2>1, <3>1 DEF QueueSorted, q
  <2>. QED
    BY <1>4, <1>5, <2>2, <2>3 DEF QueueSorted
<1>8. \A m : FoundThrough(m) => FoundThrough(m)'
  BY <1>1, <1>5 DEF FoundThrough
<1>9. ASSUME NEW v, NEW d \in Nat, d <= subgraph.max_depth, Due(v, d)
      PROVE  Due(v, d)'
  <2>1. CASE \E m \in subgraph.nodes : m.concept_id = v /\ m.depth <= d
    BY <1>5, <2>1 DEF Due
  <2>2. ASSUME NEW i \in DOMAIN q, q[i].concept_id = v, q[i].depth <= d, i # 1
        PROVE  Due(v, d)'
    <3>1. i - 1 \in 1 .. N /\ Tail(q)[i - 1] = q[i]
      BY <1>4, <2>2
    <3>. QED BY <1>4, <1>5, <2>2, <3>1 DEF Due
  <2>3. CASE q[1].concept_id = v /\ q[1].depth <= d
    <3>1. AtFront.concept_id \in Visited
      <4>1. AtFront.depth \in Nat
        BY <1>4 DEF Visit
      <4>. QED BY <1>1, <1>3, <1>4, <1>9, <2>3, <4>1 DEF Skips
    <3>2. PICK m \in subgraph.nodes : m.concept_id = v
      BY <1>4, <2>3, <3>1 DEF Visited
    <3>3. m.depth <= q[1].depth
      BY <1>1, <1>2, <1>4 DEF WalkSound, QueueSorted, q
    <3>4. m.depth \in Nat /\ q[1].depth \in Nat
      BY <1>3, <1>4 DEF Visit
    <3>. QED BY <1>5, <1>9, <2>3, <3>2, <3>3, <3>4 DEF Due
  <2>. QED BY <1>9, <2>1, <2>2, <2>3 DEF Due, q
<1>10. \A e \in subgraph.edges : \E m \in subgraph.nodes :
         /\ m.concept_id = e[1]
         /\ m.depth < subgraph.max_depth => Due(e[2], m.depth + 1)'
  <2>. SUFFICES ASSUME NEW e \in subgraph.edges
                PROVE  \E m \in subgraph.nodes :
                         /\ m.concept_id = e[1]
                         /\ m.depth < subgraph.max_depth => Due(e[2], m.depth + 1)'
    OBVIOUS
  <2>1. PICK m \in subgraph.nodes :
          m.concept_id = e[1] /\ (m.depth < subgraph.max_depth => Due(e[2], m.depth + 1))
    BY <1>1, <1>2 DEF WalkSound
  <2>2. m.depth \in Nat
    BY <1>3 DEF Visit
  <2>3. m.depth < subgraph.max_depth =>
          m.depth + 1 \in Nat /\ m.depth + 1 <= subgraph.max_depth
    BY <1>3, <2>2
  <2>. QED BY <1>9, <2>1, <2>3
<1>11. ASSUME NEW i \in DOMAIN subgraph'.queue
       PROVE  FoundThrough(subgraph.queue[i])'
  <2>1. i \in 1 .. N /\ i + 1 \in DOMAIN q /\ subgraph'.queue[i] = q[i + 1]
    BY <1>4, <1>5
  <2>2. PICK m : m = q[i + 1]
    OBVIOUS
  <2>3. FoundThrough(m)
    BY <1>1, <1>2, <2>1, <2>2 DEF WalkSound, q
  <2>4. FoundThrough(m)'
    BY <1>8, <2>3
  <2>. QED BY <2>1, <2>2, <2>4
<1>12. Due(subgraph.root, 0)'
  BY <1>1, <1>2, <1>3, <1>9 DEF WalkSound
<1>13. WalkSound'
  <2>1. \A m \in subgraph.nodes :
          /\ FoundThrough(m)' /\ m.depth <= subgraph.max_depth
          /\ \A n \in subgraph.nodes : m.concept_id = n.concept_id => m = n
          /\ \A e \in subgraph.before : e[1] = m.concept_id => e \in subgraph.edges
    BY <1>1, <1>2, <1>8 DEF WalkSound
  <2>. QED
    BY <1>5, <1>7, <1>10, <1>11, <1>12, <2>1 DEF WalkSound
<1>. QED
  BY <1>6, <1>13 DEF SubgraphInv

\* A concept that is taken is in the answer, and all that its relationships
\* lead to is in the answer or in the queue, one step further.
LEMMA ConceptTaken ==
  ASSUME SubgraphInv, TakeConcept
  PROVE  SubgraphInv'
<1>0. PICK h : h = AtFront
  OBVIOUS
<1>. DEFINE q == subgraph.queue
            v == h.concept_id
            d == h.depth + 1
            N == Len(q) - 1
            T == Tail(q)
            links == LinksFrom(v)
<1>1. subgraph # NoSubgraph /\ q # <<>> /\ graph' = graph /\ ~Skips
  BY DEF TakeConcept, Walking
<1>2. SubgraphTypeOK /\ WalkSound
  BY DEF SubgraphInv
<1>3. /\ subgraph \in Walk /\ q \in Seq(Visit) /\ subgraph.nodes \subseteq Visit
      /\ subgraph.max_depth \in Nat /\ subgraph.before \subseteq graph
      /\ graph \subseteq Link /\ subgraph.edges \subseteq Link
  BY <1>1, <1>2, WalkIsWalk
<1>4. /\ h \in Visit /\ h = q[1] /\ 1 \in DOMAIN q
      /\ T \in Seq(Visit) /\ Len(q) \in Nat \ {0} /\ N \in Nat /\ Len(T) = N
      /\ DOMAIN q = 1 .. Len(q) /\ DOMAIN T = 1 .. N
      /\ \A i \in 1 .. N : T[i] = q[i + 1] /\ i + 1 \in DOMAIN q
      /\ \A i \in DOMAIN q : q[i] \in Visit
  BY <1>0, <1>1, <1>3, FrontAndTail DEF AtFront
<1>5. v \in Vertex /\ h.depth \in Nat /\ d \in Nat
  BY <1>4 DEF Visit
<1>6. PICK f \in Answers(v) :
        subgraph' = [subgraph EXCEPT
          !.nodes = @ \cup {h}, !.edges = @ \cup links,
          !.queue = Push(T, Entries(f, d))]
  BY <1>0 DEF TakeConcept
<1>. DEFINE new == Entries(f, d)
            r == Push(T, new)
<1>. HIDE DEF T, q, v, d
<1>7. /\ new \in Seq(Visit)
      /\ \A i \in DOMAIN new : <<v, new[i].concept_id>> \in graph /\ new[i].depth = d
      /\ \A e \in links : e[2] \in Visited \cup {v} \/
           \E i \in DOMAIN new : new[i].concept_id = e[2]
      /\ r \in Seq(Visit) /\ DOMAIN r = 1 .. Len(T) + Len(new)
      /\ Len(T) \in Nat /\ Len(new) \in Nat /\ DOMAIN new = 1 .. Len(new)
      /\ DOMAIN T = 1 .. Len(T)
      /\ \A i \in 1 .. Len(T) : r[i] = T[i]
      /\ \A i \in 1 .. Len(new) : r[Len(T) + i] = new[i]
  <2>1. v \in Vertex /\ f \in Answers(v) /\ d \in Nat /\ graph \subseteq Link /\ T \in Seq(Visit)
    BY <1>3, <1>4, <1>5, <1>6
  <2>. QED BY <2>1, AnswerEntries
<1>. DEFINE nodes == subgraph.nodes \cup {h}
            crossed == subgraph.edges \cup links
            M == Len(new)
<1>8. subgraph' = [subgraph EXCEPT !.nodes = nodes, !.edges = crossed, !.queue = r]
  BY <1>6
<1>. HIDE DEF new, r
<1>10. \A i \in DOMAIN r :
         \/ i \in 1 .. N /\ r[i] = q[i + 1] /\ i + 1 \in DOMAIN q
         \/ i - N \in 1 .. M /\ r[i] = new[i - N] /\ r[i].depth = d
  <2>. SUFFICES ASSUME NEW i \in DOMAIN r
                PROVE \/ i \in 1 .. N /\ r[i] = q[i + 1] /\ i + 1 \in DOMAIN q
                      \/ i - N \in 1 .. M /\ r[i] = new[i - N] /\ r[i].depth = d
    OBVIOUS
  <2>1. CASE i \in 1 .. N
    BY <1>4, <1>7, <1>4, <2>1
  <2>2. CASE i \notin 1 .. N
    <3>1. i - N \in 1 .. M /\ i = N + (i - N) /\ i \in Nat
      BY <1>4, <1>7, <1>4, <2>2
    <3>2. r[i] = new[i - N]
      BY <1>7, <1>4, <3>1
    <3>. QED BY <1>7, <3>1, <3>2
  <2>. QED BY <2>1, <2>2
<1>11. crossed \subseteq Link /\ links \subseteq graph /\ \A e \in links : e[1] = v
  BY <1>3 DEF LinksFrom
<1>12. nodes \subseteq Visit
  BY <1>3, <1>4
<1>13. /\ subgraph'.queue = r /\ subgraph'.nodes = nodes
       /\ subgraph'.edges = crossed /\ subgraph'.root = subgraph.root
       /\ subgraph'.max_depth = subgraph.max_depth /\ subgraph'.before = subgraph.before
       /\ subgraph' \in Walk
  <2>. HIDE DEF nodes, crossed
  <2>. QED BY <1>3, <1>7, <1>8, <1>11, <1>12 DEF Walk
<1>14. SubgraphTypeOK'
  BY <1>1, <1>2, <1>13 DEF SubgraphTypeOK
<1>15. /\ v \notin Visited /\ h.depth <= subgraph.max_depth
  BY <1>0, <1>1, <1>3, <1>5 DEF Skips, v
<1>16. QueueSorted
  BY <1>1, <1>2 DEF WalkSound
<1>17. \A i \in DOMAIN r : r[i].depth \in Nat /\ h.depth <= r[i].depth /\ r[i].depth <= d
  <2>. SUFFICES ASSUME NEW i \in DOMAIN r
                PROVE  r[i].depth \in Nat /\ h.depth <= r[i].depth /\ r[i].depth <= d
    OBVIOUS
  <2>1. r[i].depth \in Nat
    <9>1. r[i] \in Visit
    BY <1>7
  <9>. QED BY <9>1 DEF Visit
  <2>2. CASE i \in 1 .. N /\ r[i] = q[i + 1] /\ i + 1 \in DOMAIN q
    <3>1. 1 <= i + 1
      BY <2>2
    <3>2. q[1].depth <= q[i + 1].depth /\ q[i + 1].depth <= q[1].depth + 1
      BY <1>4, <1>16, <2>2, <3>1 DEF QueueSorted, q
    <3>. QED BY <1>4, <2>1, <2>2, <3>2 DEF d
  <2>3. CASE r[i].depth = d
    BY <1>5, <2>1, <2>3 DEF d
  <2>. QED BY <1>10, <2>2, <2>3
<1>18. QueueSorted'
  <2>1. ASSUME NEW i \in DOMAIN r, NEW j \in DOMAIN r, i <= j
        PROVE  r[i].depth <= r[j].depth /\ r[j].depth <= r[1].depth + 1
    <3>1. 1 \in DOMAIN r /\ i \in Int /\ j \in Int
      BY <1>7
    <3>2. r[i].depth <= r[j].depth
      <4>1. CASE j \in 1 .. N /\ r[j] = q[j + 1] /\ j + 1 \in DOMAIN q
        <5>1. i \in 1 .. N /\ r[i] = q[i + 1] /\ i + 1 \in DOMAIN q /\ i + 1 <= j + 1
          BY <1>4, <1>7, <1>10, <2>1, <3>1, <4>1
        <5>. QED BY <1>16, <4>1, <5>1 DEF QueueSorted, q
      <4>2. CASE r[j].depth = d
        BY <1>17, <4>2
      <4>. QED BY <1>10, <4>1, <4>2
    <3>3. r[j].depth <= r[1].depth + 1
      <4>1. h.depth <= r[1].depth /\ r[j].depth <= h.depth + 1 /\ r[1].depth \in Nat
            /\ r[j].depth \in Nat
        BY <1>17, <3>1 DEF d
      <4>. QED BY <1>5, <4>1
    <3>. QED BY <3>2, <3>3
  <2>2. ASSUME NEW i \in DOMAIN r, NEW m \in nodes PROVE m.depth <= r[i].depth
    <3>1. m.depth <= h.depth
      <4>1. CASE m \in subgraph.nodes
        BY <1>4, <1>16, <4>1 DEF QueueSorted, q
      <4>2. CASE m = h
        BY <1>5, <4>2
      <4>. QED BY <4>1, <4>2
    <3>2. m.depth \in Nat
      BY <1>12 DEF Visit
    <3>. QED BY <1>5, <1>17, <3>1, <3>2
  <2>. QED BY <1>13, <2>1, <2>2 DEF QueueSorted
<1>19. \A m : FoundThrough(m) => FoundThrough(m)'
  BY <1>1, <1>13 DEF FoundThrough
<1>20. ASSUME NEW w, NEW k \in Nat, Due(w, k) PROVE Due(w, k)'
  <2>1. CASE \E m \in subgraph.nodes : m.concept_id = w /\ m.depth <= k
    BY <1>13, <2>1 DEF Due
  <2>2. ASSUME NEW i \in DOMAIN q, q[i].concept_id = w, q[i].depth <= k, i # 1
        PROVE  Due(w, k)'
    <3>1. i - 1 \in 1 .. N /\ (i - 1) + 1 = i
      BY <1>4, <2>2
    <3>2. i - 1 \in DOMAIN r /\ r[i - 1] = q[i]
      BY <1>4, <1>7, <1>4, <3>1
    <3>. QED BY <1>13, <2>2, <3>2 DEF Due
  <2>3. CASE q[1].concept_id = w /\ q[1].depth <= k
    BY <1>4, <1>13, <2>3 DEF Due
  <2>. QED BY <1>20, <2>1, <2>2, <2>3 DEF Due, q
<1>21. ASSUME NEW e \in links PROVE Due(e[2], d)'
  <2>1. CASE e[2] = v
    <3>1. h \in nodes /\ h.concept_id = e[2] /\ h.depth <= d
      BY <1>5, <2>1 DEF v, d
    <3>. QED BY <1>13, <3>1 DEF Due
  <2>2. CASE e[2] \in Visited
    <3>1. PICK m \in subgraph.nodes : m.concept_id = e[2]
      BY <2>2 DEF Visited
    <3>2. m.depth <= h.depth
      BY <1>4, <1>16 DEF QueueSorted, q
    <3>3. m.depth <= d
      BY <1>3, <1>5, <3>2 DEF Visit, d
    <3>. QED BY <1>13, <3>1, <3>3 DEF Due
  <2>3. ASSUME NEW i \in DOMAIN new, new[i].concept_id = e[2] PROVE Due(e[2], d)'
    <3>1. i \in 1 .. Len(new) /\ new[i].depth = d
      BY <1>7, <2>3
    <3>2. Len(T) + i \in DOMAIN r /\ r[Len(T) + i] = new[i]
      BY <1>7, <3>1
    <3>3. d <= d
      BY <1>5
    <3>. QED BY <1>13, <2>3, <3>1, <3>2, <3>3 DEF Due
  <2>. QED BY <1>7, <2>1, <2>2, <2>3
<1>22. ASSUME NEW e \in crossed
       PROVE  \E m \in nodes : /\ m.concept_id = e[1]
                               /\ m.depth < subgraph.max_depth => Due(e[2], m.depth + 1)'
  <2>1. CASE e \in links
    <3>1. h \in nodes /\ h.concept_id = e[1] /\ h.depth + 1 = d
      BY <1>11, <2>1 DEF v, d
    <3>2. Due(e[2], h.depth + 1)'
      BY <1>21, <2>1, <3>1
    <3>. QED BY <3>1, <3>2
  <2>2. CASE e \in subgraph.edges
    <3>1. PICK m \in subgraph.nodes :
            m.concept_id = e[1] /\ (m.depth < subgraph.max_depth => Due(e[2], m.depth + 1))
      BY <1>1, <1>2, <2>2 DEF WalkSound
    <3>2. m.depth + 1 \in Nat
      BY <1>3 DEF Visit
    <3>. QED BY <1>20, <3>1, <3>2
  <2>. QED BY <2>1, <2>2
<1>23. ASSUME NEW i \in DOMAIN r
       PROVE  FoundThrough(subgraph.queue[i])'
  <2>1. PICK m : m = r[i]
    OBVIOUS
  <2>2. CASE i + 1 \in DOMAIN q /\ r[i] = q[i + 1]
    <3>1. FoundThrough(m)
      BY <1>1, <1>2, <2>1, <2>2 DEF WalkSound, q
    <3>2. FoundThrough(m)'
      BY <1>19, <3>1
    <3>. QED BY <1>13, <2>1, <3>2
  <2>3. CASE i - N \in 1 .. M /\ r[i] = new[i - N] /\ r[i].depth = d
    <3>1. <<v, m.concept_id>> \in graph /\ m.depth = d
      BY <1>7, <2>1, <2>3
    <3>2. h \in nodes /\ h.depth = m.depth - 1 /\ h.concept_id = v /\ m.depth # 0
      BY <1>5, <3>1 DEF d, v
    <3>3. FoundThrough(m)'
      BY <1>1, <1>13, <3>1, <3>2 DEF FoundThrough
    <3>. QED BY <1>13, <2>1, <3>3
  <2>. QED BY <1>10, <2>2, <2>3
<1>24. ASSUME NEW m \in nodes
       PROVE  /\ FoundThrough(m)' /\ m.depth <= subgraph.max_depth
              /\ \A n \in nodes : m.concept_id = n.concept_id => m = n
              /\ \A e \in subgraph.before : e[1] = m.concept_id => e \in crossed
  <2>1. FoundThrough(m) /\ m.depth <= subgraph.max_depth
    <3>1. FoundThrough(h)
      <4>1. FoundThrough(q[1])
        BY <1>1, <1>2, <1>4 DEF WalkSound, q
      <4>. QED BY <1>4, <4>1
    <3>2. CASE m = h
      BY <1>15, <3>1, <3>2
    <3>3. CASE m \in subgraph.nodes
      BY <1>1, <1>2, <3>3 DEF WalkSound
    <3>. QED BY <3>2, <3>3
  <2>2. ASSUME NEW n \in nodes, m.concept_id = n.concept_id PROVE m = n
    <3>1. \A o \in subgraph.nodes : o.concept_id # v
      BY <1>15 DEF Visited
    <3>2. \A x, y \in subgraph.nodes : x.concept_id = y.concept_id => x = y
      BY <1>1, <1>2 DEF WalkSound
    <3>. QED BY <2>2, <3>1, <3>2 DEF v
  <2>3. ASSUME NEW e \in subgraph.before, e[1] = m.concept_id PROVE e \in crossed
    <3>1. CASE m = h
      BY <1>3, <2>3, <3>1 DEF LinksFrom, v
    <3>2. CASE m \in subgraph.nodes
      BY <1>1, <1>2, <2>3, <3>2 DEF WalkSound
    <3>. QED BY <3>1, <3>2
  <2>. QED BY <1>19, <2>1, <2>2, <2>3
<1>25. Due(subgraph.root, 0)'
  BY <1>1, <1>2, <1>13, <1>20 DEF WalkSound
<1>26. WalkSound'
  <2>. HIDE DEF nodes, crossed
  <2>. QED BY <1>13, <1>18, <1>22, <1>23, <1>24, <1>25 DEF WalkSound
<1>. QED
  BY <1>14, <1>26 DEF SubgraphInv

\* Every step keeps the invariant.
THEOREM SubgraphStep == SubgraphInv /\ [SubgraphNext]_subgraphVars => SubgraphInv'
<1>. SUFFICES ASSUME SubgraphInv, [SubgraphNext]_subgraphVars PROVE SubgraphInv'
  OBVIOUS
<1>1. CASE UNCHANGED subgraphVars
  BY <1>1 DEF subgraphVars, SubgraphInv, SubgraphTypeOK, WalkSound, QueueSorted,
              FoundThrough, Due
<1>2. ASSUME NEW added \in SUBSET Link, CommitLinks(added) PROVE SubgraphInv'
  BY <1>2, LinksCommitted
<1>3. ASSUME NEW root \in Vertex, NEW depth \in 0 .. MaxDepth, GetSubgraph(root, depth)
      PROVE  SubgraphInv'
  BY <1>3, WalkBegins
<1>4. CASE SkipConcept
  BY <1>4, ConceptSkipped
<1>5. CASE TakeConcept
  BY <1>5, ConceptTaken
<1>6. CASE ReturnSubgraph
  BY <1>6 DEF ReturnSubgraph, SubgraphInv, SubgraphTypeOK, WalkSound
<1>. QED
  BY <1>1, <1>2, <1>3, <1>4, <1>5, <1>6 DEF SubgraphNext

\* However the graph grows, for any concepts, depth and order of rows.
THEOREM SubgraphInductive == SubgraphSpec => []SubgraphInv
<1>1. SubgraphInit => SubgraphInv
  BY DEF SubgraphInit, SubgraphInv, SubgraphTypeOK, WalkSound
<1>. QED
  BY <1>1, SubgraphStep, PTL DEF SubgraphSpec

-----------------------------------------------------------------------------
(***************************************************************************)
(* Subgraph: what the answer holds.                                        *)
(***************************************************************************)

\* What is listed can be reached, in as many steps as it says.
LEMMA ListedIsReached ==
  ASSUME SubgraphInv, subgraph # NoSubgraph, NEW m \in subgraph.nodes
  PROVE  Within(Vertex, graph, subgraph.root, m.concept_id, m.depth)
<1>. DEFINE Reached(n) == Within(Vertex, graph, subgraph.root, n.concept_id, n.depth)
            Bad == {d \in Nat : \E n \in subgraph.nodes : n.depth = d /\ ~ Reached(n)}
<1>1. subgraph.nodes \subseteq Visit /\ subgraph.root \in Vertex
  BY WalkIsWalk DEF SubgraphInv
<1>2. CASE Bad = {}
  <2>1. m.depth \in Nat
    BY <1>1 DEF Visit
  <2>. QED BY <1>2, <2>1
<1>3. CASE Bad # {}
  <2>1. PICK d \in Bad : \A e \in Bad : d <= e
    <3>. HIDE DEF Bad
    <3>1. Bad \in SUBSET Nat
      BY DEF Bad
    <3>. QED BY <1>3, <3>1, HasFirst
  <2>2. PICK n \in subgraph.nodes : n.depth = d /\ ~ Reached(n)
    BY <2>1
  <2>3. n.concept_id \in Vertex /\ d \in Nat /\ FoundThrough(n)
    BY <1>1, <2>1, <2>2 DEF Visit, SubgraphInv, WalkSound
  <2>4. CASE d = 0
    <3>1. n.concept_id = subgraph.root
      BY <2>2, <2>3, <2>4 DEF FoundThrough
    <3>. QED BY <1>1, <2>2, <2>4, <3>1, WithinSelf
  <2>5. CASE d # 0
    <3>1. PICK o \in subgraph.nodes :
            o.depth = d - 1 /\ <<o.concept_id, n.concept_id>> \in graph
      BY <2>2, <2>3, <2>5 DEF FoundThrough
    <3>2. d - 1 \in Nat /\ ~ (d <= d - 1) /\ (d - 1) + 1 = d
      BY <2>3, <2>5
    <3>3. Reached(o)
      BY <2>1, <3>1, <3>2
    <3>4. o.concept_id \in Vertex
      BY <1>1 DEF Visit
    <3>5. Within(Vertex, graph, subgraph.root, n.concept_id, (d - 1) + 1)
      BY <1>1, <2>3, <3>1, <3>2, <3>3, <3>4, WithinStep
    <3>. QED BY <2>2, <3>2, <3>5
  <2>. QED BY <2>4, <2>5
<1>. QED BY <1>2, <1>3

\* A finished walk has what was near when it began.
LEMMA NearIsListed ==
  ASSUME SubgraphInv, Finished, NEW v \in Vertex, NEW k \in 0 .. subgraph.max_depth,
         Within(Vertex, subgraph.before, subgraph.root, v, k)
  PROVE  \E m \in subgraph.nodes : m.concept_id = v /\ m.depth <= k
<1>1. /\ subgraph # NoSubgraph /\ subgraph.queue = <<>> /\ SubgraphTypeOK /\ WalkSound
  BY DEF Finished, SubgraphInv
<1>2. /\ subgraph.nodes \subseteq Visit /\ subgraph.root \in Vertex
      /\ subgraph.max_depth \in Nat
  BY <1>1, WalkIsWalk
<1>3. \A w, d : Due(w, d) => \E m \in subgraph.nodes : m.concept_id = w /\ m.depth <= d
  BY <1>1 DEF Due
<1>4. PICK n \in 0 .. k : \E p \in [0 .. n -> Vertex] :
        IsPath(p, n, Vertex, subgraph.before, subgraph.root, v)
  BY DEF Within
<1>5. PICK p \in [0 .. n -> Vertex] :
        IsPath(p, n, Vertex, subgraph.before, subgraph.root, v)
  BY <1>4
<1>6. n \in Nat /\ n <= subgraph.max_depth /\ n <= k /\ k \in Nat
  BY <1>2
<1>. DEFINE Listed(i) == {w \in Vertex : \E m \in subgraph.nodes :
                                            m.concept_id = w /\ m.depth <= i}
            D == [i \in 0 .. n |-> Listed(i)]
<1>7. \A i \in 0 .. n : D[i] = Listed(i)
  OBVIOUS
<1>8. subgraph.root \in D[0]
  <2>1. Due(subgraph.root, 0)
    BY <1>1 DEF WalkSound
  <2>. QED BY <1>2, <1>3, <1>6, <1>7, <2>1
<1>9. ASSUME NEW i \in 1 .. n, NEW e \in subgraph.before, e[1] \in D[i - 1], e[2] \in Vertex
      PROVE  e[2] \in D[i]
  <2>1. i - 1 \in 0 .. n /\ i \in 0 .. n /\ i \in Nat
    BY <1>6
  <2>2. PICK m \in subgraph.nodes : m.concept_id = e[1] /\ m.depth <= i - 1
    BY <1>7, <1>9, <2>1
  <2>3. m.depth \in Nat
    BY <1>2 DEF Visit
  <2>4. e \in subgraph.edges /\ m.depth < subgraph.max_depth
    <3>1. e \in subgraph.edges
      BY <1>1, <2>2 DEF WalkSound
    <3>. QED BY <1>2, <1>6, <2>1, <2>2, <2>3, <3>1
  <2>5. PICK o \in subgraph.nodes :
          o.concept_id = e[1] /\ (o.depth < subgraph.max_depth => Due(e[2], o.depth + 1))
    BY <1>1, <2>4 DEF WalkSound
  <2>6. o = m
    BY <1>1, <2>2, <2>5 DEF WalkSound
  <2>7. PICK x \in subgraph.nodes : x.concept_id = e[2] /\ x.depth <= m.depth + 1
    BY <1>3, <2>4, <2>5, <2>6
  <2>8. x.depth <= i
    <3>1. x.depth \in Nat
      BY <1>2 DEF Visit
    <3>. QED BY <2>1, <2>2, <2>3, <2>7, <3>1
  <2>. QED BY <1>7, <1>9, <2>1, <2>7, <2>8
<1>10. v \in D[n]
  <2>. HIDE DEF D
  <2>1. Spreads(D, n, Vertex, subgraph.before)
    BY <1>9 DEF Spreads
  <2>. QED BY <1>5, <1>6, <1>8, <2>1, AlongPath
<1>11. PICK m \in subgraph.nodes : m.concept_id = v /\ m.depth <= n
  BY <1>6, <1>7, <1>10
<1>12. m.depth <= k
  <2>1. m.depth \in Nat
    BY <1>2 DEF Visit
  <2>. QED BY <1>6, <1>11, <2>1
<1>. QED BY <1>11, <1>12

\* SubgraphIsBall: get_subgraph, which asks node after node while
\* relationships are committed, returns all that was within the depth, nothing
\* that is not, and dangling edges only at the depth.
THEOREM SubgraphSafe == SubgraphSpec => []SubgraphIsBall
<1>1. SubgraphInv => SubgraphIsBall
  <2>. SUFFICES ASSUME SubgraphInv, Finished PROVE SubgraphIsBall
    BY DEF SubgraphIsBall
  <2>1. subgraph # NoSubgraph /\ subgraph.queue = <<>> /\ WalkSound
    BY DEF Finished, SubgraphInv
  <2>2. ASSUME NEW e \in subgraph.edges
        PROVE  \E m \in subgraph.nodes :
                 /\ m.concept_id = e[1]
                 /\ m.depth < subgraph.max_depth => e[2] \in Visited
    <3>1. PICK m \in subgraph.nodes :
            m.concept_id = e[1] /\ (m.depth < subgraph.max_depth => Due(e[2], m.depth + 1))
      BY <2>1 DEF WalkSound
    <3>2. Due(e[2], m.depth + 1) => e[2] \in Visited
      BY <2>1 DEF Due, Visited
    <3>. QED BY <3>1, <3>2
  <2>3. \A m \in subgraph.nodes :
          /\ m.depth <= subgraph.max_depth
          /\ \A n \in subgraph.nodes : m.concept_id = n.concept_id => m = n
    BY <2>1 DEF WalkSound
  <2>4. \A m \in subgraph.nodes :
          Within(Vertex, graph, subgraph.root, m.concept_id, m.depth)
    BY <2>1, ListedIsReached
  <2>5. \A v \in Vertex, k \in 0 .. subgraph.max_depth :
          Within(Vertex, subgraph.before, subgraph.root, v, k) =>
            \E m \in subgraph.nodes : m.concept_id = v /\ m.depth <= k
    BY NearIsListed
  <2>. QED
    BY <2>2, <2>3, <2>4, <2>5 DEF SubgraphIsBall
<1>. QED
  BY <1>1, SubgraphInductive, PTL

-----------------------------------------------------------------------------
(***************************************************************************)
(* Impact: calls.                                                          *)
(***************************************************************************)

\* The fields of a search and their types.
LEMMA SearchParts ==
  ASSUME NEW s \in Search
  PROVE  /\ s.subject \in Tenet /\ s.max_depth \in Nat /\ s.max_depth \in 0 .. MaxSearch
         /\ s.steady \subseteq Tenet
         /\ s.visited \subseteq Tenet /\ s.nodes \in Seq(Found) /\ s.calls \in Seq(Call)
         /\ Len(s.calls) \in Nat /\ DOMAIN s.calls = 1 .. Len(s.calls)
         /\ Len(s.nodes) \in Nat /\ DOMAIN s.nodes = 1 .. Len(s.nodes)
         /\ \A i \in DOMAIN s.nodes :
              s.nodes[i].node_id \in Tenet /\ s.nodes[i].depth \in Nat
         /\ \A i \in DOMAIN s.calls :
              /\ s.calls[i] \in Call /\ s.calls[i].cid \in Tenet /\ s.calls[i].depth \in Nat
              /\ s.calls[i].candidates \in Seq(Tenet)
<1>1. /\ s.subject \in Tenet /\ s.max_depth \in 0 .. MaxSearch /\ s.steady \subseteq Tenet
      /\ s.visited \subseteq Tenet /\ s.nodes \in Seq(Found) /\ s.calls \in Seq(Call)
  BY DEF Search
<1>2. 0 .. MaxSearch \subseteq Nat
  BY MaxSearchNat
<1>3. \A i \in DOMAIN s.nodes : s.nodes[i] \in Found
  BY <1>1
<1>4. \A i \in DOMAIN s.calls : s.calls[i] \in Call
  BY <1>1
<1>. QED
  BY <1>1, <1>2, <1>3, <1>4 DEF Found, Call

\* A claim that is not visited finds fewer calls open than there are claims.
LEMMA CallsAreFew ==
  ASSUME NEW s \in Search, CallsNested(s), NEW c \in Tenet \ s.visited
  PROVE  Cardinality(Tenet) \in Nat /\ Len(s.calls) < Cardinality(Tenet)
<1>. DEFINE n == Len(s.calls)
            f == [i \in 1 .. n + 1 |-> IF i = n + 1 THEN c ELSE s.calls[i].cid]
<1>1. /\ n \in Nat /\ DOMAIN s.calls = 1 .. n
      /\ \A i \in 1 .. n : s.calls[i].cid \in Tenet
  BY SearchParts
<1>2. \A i \in 1 .. n : s.calls[i].cid \in s.visited
  BY <1>1 DEF CallsNested, CallSound
<1>3. \A i, j \in 1 .. n : s.calls[i].cid = s.calls[j].cid => i = j
  BY <1>1 DEF CallsNested
<1>. HIDE DEF n
<1>4. f \in [1 .. n + 1 -> Tenet]
  BY <1>1
<1>5. ASSUME NEW i \in 1 .. n + 1, NEW j \in 1 .. n + 1, f[i] = f[j] PROVE i = j
  <2>1. \A k \in 1 .. n + 1 : k # n + 1 => k \in 1 .. n
    BY <1>1
  <2>2. \A k \in 1 .. n + 1 : f[k] = IF k = n + 1 THEN c ELSE s.calls[k].cid
    OBVIOUS
  <2>. HIDE DEF f
  <2>. QED BY <1>2, <1>3, <1>5, <2>1, <2>2
<1>6. f \in Injection(1 .. n + 1, Tenet)
  BY <1>4, <1>5 DEF Injection, IsInjective
<1>7. Cardinality(1 .. n + 1) <= Cardinality(Tenet)
  <2>. HIDE DEF f
  <2>. QED BY <1>6, TenetsFinite, FS_Injection
<1>8. Cardinality(1 .. n + 1) = n + 1
  BY <1>1, FS_Interval
<1>9. Cardinality(Tenet) \in Nat
  BY TenetsFinite, FS_CardinalityType
<1>. QED
  BY <1>1, <1>7, <1>8, <1>9 DEF n

\* The rows of a query are the live claims that depend on the one asked for.
LEMMA CandidatesDepend ==
  ASSUME NEW c \in Tenet, live \subseteq Tenet, NEW q \in Candidates(c)
  PROVE  /\ q \in Seq(Tenet)
         /\ \A k \in DOMAIN q : q[k] \in live /\ <<c, q[k]>> \in depends
         /\ \A d \in live : <<c, d>> \in depends => \E k \in DOMAIN q : q[k] = d
<1>. DEFINE asked == {d \in live : <<c, d>> \in depends}
<1>1. q \in [1 .. Cardinality(asked) -> asked] /\ \A d \in asked : \E i \in DOMAIN q : q[i] = d
  BY DEF Candidates
<1>2. asked \subseteq Tenet
  OBVIOUS
<1>3. Cardinality(asked) \in Nat
  <2>. HIDE DEF asked
  <2>. QED BY <1>2, TenetsFinite, FS_Subset, FS_CardinalityType
<1>4. q \in Seq(Tenet)
  <2>. HIDE DEF asked
  <2>. QED BY <1>1, <1>2, <1>3
<1>. QED
  BY <1>1, <1>4

\* r is s after it was called for c: cut off, or c is visited and has become the
\* innermost call, with the live claims that depend on it as candidates.
CalledFor(s, c, r) ==
  LET n == Len(s.calls) IN
  \/ CutOff(n, s.max_depth) /\ r = s
  \/ /\ ~ CutOff(n, s.max_depth)
     /\ r \in Search /\ CallsNested(r)
     /\ r.subject = s.subject /\ r.max_depth = s.max_depth /\ r.steady = s.steady
     /\ r.nodes = s.nodes /\ r.visited = s.visited \cup {c}
     /\ Len(r.calls) = n + 1
     /\ \A i \in 1 .. n : r.calls[i] = s.calls[i]
     /\ r.calls[n + 1].cid = c
     /\ \A d \in live : <<c, d>> \in depends => IsCandidate(r.calls[n + 1], d)

\* A call that is not cut off visits its claim and becomes the innermost.
LEMMA Called ==
  ASSUME NEW s \in Search, CallsNested(s), live \subseteq Tenet,
         NEW c \in Tenet \ s.visited, NEW r, r \in Traversed(s, c, Len(s.calls)),
         Within(Tenet, depends, s.subject, c, Len(s.calls))
  PROVE  CalledFor(s, c, r)
<1>. DEFINE n == Len(s.calls)
<1>0. /\ s.subject \in Tenet /\ s.max_depth \in Nat /\ s.visited \subseteq Tenet
      /\ s.calls \in Seq(Call) /\ n \in Nat /\ DOMAIN s.calls = 1 .. n
      /\ \A i \in DOMAIN s.calls : s.calls[i].cid \in Tenet
  BY SearchParts
<1>1. CASE CutOff(n, s.max_depth)
  BY <1>1 DEF Traversed, CalledFor
<1>2. CASE ~ CutOff(n, s.max_depth)
  <2>1. PICK q \in Candidates(c) :
          r = [s EXCEPT !.visited = @ \cup {c},
                        !.calls = Append(@, [cid |-> c, depth |-> n, candidates |-> q])]
    BY <1>2 DEF Traversed
  <2>. DEFINE call == [cid |-> c, depth |-> n, candidates |-> q]
              calls == Append(s.calls, call)
  <2>2. /\ q \in Seq(Tenet)
        /\ \A k \in DOMAIN q : q[k] \in live /\ <<c, q[k]>> \in depends
        /\ \A d \in live : <<c, d>> \in depends => \E k \in DOMAIN q : q[k] = d
    BY CandidatesDepend
  <2>3. call \in Call /\ call.cid = c /\ call.depth = n /\ call.candidates = q
    BY <1>0, <2>2 DEF Call
  <2>4. r = [s EXCEPT !.visited = s.visited \cup {c}, !.calls = calls]
    BY <2>1
  <2>. HIDE DEF call, n
  <2>5. /\ calls \in Seq(Call) /\ Len(calls) = n + 1 /\ DOMAIN calls = 1 .. n + 1
        /\ \A i \in 1 .. n : calls[i] = s.calls[i]
        /\ calls[n + 1] = call
    BY <1>0, <2>3 DEF n
  <2>. HIDE DEF calls
  <2>6. /\ r.subject = s.subject /\ r.max_depth = s.max_depth /\ r.steady = s.steady
        /\ r.nodes = s.nodes /\ r.visited = s.visited \cup {c} /\ r.calls = calls
        /\ r \in Search
    BY <1>0, <2>4, <2>5 DEF Search
  <2>7. \A d \in live : <<c, d>> \in depends => IsCandidate(call, d)
    BY <2>2, <2>3 DEF IsCandidate
  <2>8. ASSUME NEW i \in 1 .. n + 1 PROVE CallSound(r, i)
    <3>1. CASE i \in 1 .. n
      <4>1. CallSound(s, i)
        BY <1>0, <3>1 DEF CallsNested, n
      <4>. QED BY <2>5, <2>6, <3>1, <4>1 DEF CallSound
    <3>2. CASE i = n + 1
      <4>1. n + 1 <= s.max_depth /\ (n + 1) - 1 = n
        BY <1>0, <1>2 DEF CutOff, n
      <4>2. Within(Tenet, depends, s.subject, c, n)
        BY DEF n
      <4>3. \A d \in Tenet : IsCandidate(call, d) => <<c, d>> \in depends
        BY <2>2, <2>3 DEF IsCandidate
      <4>. QED BY <2>3, <2>5, <2>6, <3>2, <4>1, <4>2, <4>3 DEF CallSound
    <3>. QED BY <1>0, <3>1, <3>2 DEF n
  <2>9. ASSUME NEW i \in 1 .. n + 1, NEW j \in 1 .. n + 1, calls[i].cid = calls[j].cid
        PROVE  i = j
    <3>1. \A k \in 1 .. n + 1 : k # n + 1 => k \in 1 .. n
      BY <1>0 DEF n
    <3>2. \A k \in 1 .. n : s.calls[k].cid \in s.visited
      BY <1>0 DEF CallsNested, CallSound, n
    <3>3. \A k, l \in 1 .. n : s.calls[k].cid = s.calls[l].cid => k = l
      BY <1>0 DEF CallsNested, n
    <3>. QED BY <2>3, <2>5, <2>9, <3>1, <3>2, <3>3
  <2>10. CallsNested(r)
    BY <2>5, <2>6, <2>8, <2>9 DEF CallsNested
  <2>. QED
    BY <1>2, <2>3, <2>5, <2>6, <2>7, <2>10 DEF n, CalledFor
<1>. QED
  BY <1>1, <1>2

\* A candidate is taken from the innermost call, and nothing else changes.
LEMMA CandidateTaken ==
  ASSUME ImpactInv, Searching, Innermost.candidates # <<>>, NEW c,
         c = Head(Innermost.candidates), NEW t,
         t = [impact EXCEPT !.calls[Depth].candidates = Tail(@)]
  PROVE  /\ impact \in Search /\ Depth \in Nat \ {0}
         /\ t \in Search /\ CallsNested(t)
         /\ t.subject = impact.subject /\ t.max_depth = impact.max_depth
         /\ t.steady = impact.steady /\ t.nodes = impact.nodes
         /\ t.visited = impact.visited
         /\ Len(t.calls) = Depth
         /\ \A i \in 1 .. Depth : t.calls[i].cid = impact.calls[i].cid
         /\ \A i \in 1 .. Depth, d \in Tenet :
              IsCandidate(impact.calls[i], d) => d = c \/ IsCandidate(t.calls[i], d)
         /\ c \in Tenet /\ Innermost.depth + 1 = Depth
         /\ Within(Tenet, depends, impact.subject, c, Depth)
<1>. DEFINE n == Depth
            old == impact.calls
            inner == old[n]
            rest == Tail(inner.candidates)
            call == [inner EXCEPT !.candidates = rest]
            calls == [old EXCEPT ![n] = call]
<1>1. impact # NoImpact /\ old # <<>> /\ impact \in Search /\ CallsNested(impact)
  BY DEF Searching, ImpactInv, ImpactTypeOK, SearchSound
<1>2. /\ old \in Seq(Call) /\ n \in Nat \ {0} /\ DOMAIN old = 1 .. n /\ n \in DOMAIN old
      /\ \A i \in DOMAIN old :
           old[i] \in Call /\ old[i].cid \in Tenet /\ old[i].depth \in Nat
             /\ old[i].candidates \in Seq(Tenet)
      /\ impact.subject \in Tenet
  <2>1. old \in Seq(Call)
    BY <1>1, SearchParts
  <2>2. Len(old) \in Nat /\ Len(old) # 0
    BY <1>1, <2>1
  <2>. QED BY <1>1, <2>1, <2>2, SearchParts DEF Depth
<1>3. inner = Innermost
  BY DEF Innermost
<1>. HIDE DEF n, old
<1>4. /\ inner.candidates \in Seq(Tenet) /\ inner.candidates # <<>>
      /\ inner.cid \in Tenet /\ inner \in Call
  BY <1>2, <1>3
<1>. DEFINE q == inner.candidates
<1>5. /\ c = q[1] /\ c \in Tenet /\ 1 \in DOMAIN q
      /\ rest \in Seq(Tenet)
      /\ \A k \in DOMAIN rest : k + 1 \in DOMAIN q /\ rest[k] = q[k + 1]
      /\ \A k \in DOMAIN q : k # 1 => k - 1 \in DOMAIN rest /\ rest[k - 1] = q[k]
  <2>1. q \in Seq(Tenet) /\ q # <<>> /\ c = Head(q) /\ rest = Tail(q)
    BY <1>3, <1>4
  <2>. HIDE DEF q, rest
  <2>2. Len(q) \in Nat \ {0} /\ DOMAIN q = 1 .. Len(q)
    BY <2>1
  <2>3. rest \in Seq(Tenet) /\ DOMAIN rest = 1 .. Len(q) - 1
        /\ \A k \in 1 .. Len(q) - 1 : rest[k] = q[k + 1]
    BY <2>1, <2>2
  <2>4. ASSUME NEW k \in DOMAIN q, k # 1
        PROVE  k - 1 \in DOMAIN rest /\ rest[k - 1] = q[k]
    <3>1. k - 1 \in 1 .. Len(q) - 1 /\ (k - 1) + 1 = k
      BY <2>2, <2>4
    <3>. QED BY <2>3, <3>1
  <2>5. 1 \in DOMAIN q /\ \A k \in 1 .. Len(q) - 1 : k + 1 \in DOMAIN q
    BY <2>2
  <2>6. c = q[1] /\ c \in Tenet
    BY <2>1, <2>2
  <2>7. \A k \in DOMAIN rest : k + 1 \in DOMAIN q /\ rest[k] = q[k + 1]
    BY <2>3, <2>5
  <2>8. \A k \in DOMAIN q : k # 1 => k - 1 \in DOMAIN rest /\ rest[k - 1] = q[k]
    BY <2>4
  <2>. QED BY <2>3, <2>5, <2>6, <2>7, <2>8
<1>. HIDE DEF rest
<1>6. /\ call \in Call /\ call.cid = inner.cid /\ call.depth = inner.depth
      /\ call.candidates = rest
  BY <1>4, <1>5 DEF Call
<1>7. t = [impact EXCEPT !.calls = calls]
  <2>1. t = [impact EXCEPT !.calls[Depth].candidates = Tail(Innermost.candidates)]
    BY DEF Innermost
  <2>. QED BY <2>1, <1>3 DEF n, old, rest
<1>. HIDE DEF inner, call
<1>8. /\ calls \in Seq(Call) /\ Len(calls) = n /\ DOMAIN calls = 1 .. n
      /\ \A i \in 1 .. n : calls[i] = IF i = n THEN call ELSE old[i]
  <2>1. Len(old) = n
    BY DEF old, n, Depth
  <2>. QED BY <1>2, <1>6, <2>1
<1>. HIDE DEF calls
<1>9. /\ t.subject = impact.subject /\ t.max_depth = impact.max_depth
      /\ t.steady = impact.steady /\ t.nodes = impact.nodes
      /\ t.visited = impact.visited /\ t.calls = calls /\ t \in Search
  BY <1>1, <1>7, <1>8 DEF Search
<1>10. \A i \in 1 .. n : /\ calls[i].cid = old[i].cid /\ calls[i].depth = old[i].depth
                         /\ i # n => calls[i] = old[i]
  BY <1>6, <1>8 DEF inner
<1>11. \A d : IsCandidate(call, d) => IsCandidate(inner, d)
  BY <1>5, <1>6 DEF IsCandidate
<1>12. ASSUME NEW d, IsCandidate(inner, d), d # c PROVE IsCandidate(call, d)
  <2>1. PICK k \in DOMAIN q : q[k] = d
    BY <1>12 DEF IsCandidate
  <2>2. k - 1 \in DOMAIN rest /\ rest[k - 1] = d
    BY <1>5, <1>12, <2>1
  <2>. QED BY <1>6, <2>2 DEF IsCandidate
<1>13. \A i \in 1 .. n, d \in Tenet :
         /\ IsCandidate(calls[i], d) => IsCandidate(old[i], d)
         /\ IsCandidate(old[i], d) => d = c \/ IsCandidate(calls[i], d)
  BY <1>8, <1>11, <1>12 DEF inner
<1>14. \A i \in 1 .. n : CallSound(impact, i)
  BY <1>1, <1>2 DEF CallsNested, old
<1>15. ASSUME NEW i \in 1 .. n PROVE CallSound(t, i)
  BY <1>9, <1>10, <1>13, <1>14 DEF CallSound, old
<1>16. CallsNested(t)
  <2>1. \A i, j \in 1 .. n : old[i].cid = old[j].cid => i = j
    BY <1>1, <1>2 DEF CallsNested, old
  <2>2. ASSUME NEW i \in 1 .. n, NEW j \in 1 .. n, calls[i].cid = calls[j].cid PROVE i = j
    BY <1>10, <2>1, <2>2
  <2>3. DOMAIN t.calls = 1 .. n /\ \A i \in 1 .. n : t.calls[i] = calls[i]
    BY <1>8, <1>9
  <2>4. ASSUME NEW i \in DOMAIN t.calls, NEW j \in DOMAIN t.calls,
               t.calls[i].cid = t.calls[j].cid
        PROVE  i = j
    <3>1. i \in 1 .. n /\ j \in 1 .. n /\ calls[i].cid = calls[j].cid
      BY <1>9, <2>3, <2>4
    <3>. QED BY <2>2, <3>1
  <2>5. \A i \in DOMAIN t.calls : CallSound(t, i)
    BY <1>15, <2>3
  <2>. QED BY <2>4, <2>5 DEF CallsNested
<1>17. <<inner.cid, c>> \in depends /\ inner.depth = n - 1
       /\ Within(Tenet, depends, impact.subject, inner.cid, n - 1)
  <2>1. CallSound(impact, n)
    BY <1>2, <1>14
  <2>2. IsCandidate(inner, c)
    BY <1>5 DEF IsCandidate
  <2>. QED BY <1>5, <2>1, <2>2 DEF CallSound, inner, old
<1>18. Within(Tenet, depends, impact.subject, c, (n - 1) + 1)
  <2>1. n - 1 \in Nat
    BY <1>2
  <2>. QED BY <1>2, <1>4, <1>5, <1>17, <2>1, WithinStep
<1>19. (n - 1) + 1 = n /\ inner.depth + 1 = n
  BY <1>2, <1>17
<1>. QED
  BY <1>1, <1>2, <1>3, <1>5, <1>8, <1>9, <1>10, <1>13, <1>16, <1>18, <1>19 DEF n, old

-----------------------------------------------------------------------------
(***************************************************************************)
(* Impact: the steps.                                                      *)
(***************************************************************************)

\* What the invariant says of a search that goes on.
LEMMA InvHasSearch ==
  ASSUME ImpactInv, impact # NoImpact
  PROVE  /\ impact \in Search /\ SearchSound(impact) /\ impact.steady \subseteq live
         /\ live \subseteq Tenet /\ depends \subseteq Dependency
BY DEF ImpactInv, ImpactTypeOK

\* It is enough that the new search is sound.
LEMMA SearchGoesOn ==
  ASSUME ImpactInv, UNCHANGED <<depends, live>>, impact' \in Search,
         impact'.steady \subseteq live, SearchSound(impact)'
  PROVE  ImpactInv'
BY DEF ImpactInv, ImpactTypeOK

\* A claim is deprecated while a search goes on: it is steady no more.
LEMMA Deprecated ==
  ASSUME ImpactInv, NEW c \in Tenet, Deprecate(c)
  PROVE  ImpactInv'
<1>1. live' = live \ {c} /\ depends' = depends /\ live' \subseteq Tenet
      /\ depends \subseteq Dependency
  BY DEF Deprecate, ImpactInv, ImpactTypeOK
<1>2. CASE impact = NoImpact
  BY <1>1, <1>2 DEF Deprecate, ImpactInv, ImpactTypeOK
<1>3. CASE impact # NoImpact
  <2>1. impact \in Search /\ SearchSound(impact) /\ impact.steady \subseteq live
    BY <1>3, InvHasSearch
  <2>. DEFINE steady == impact.steady \ {c}
  <2>2. impact' = [impact EXCEPT !.steady = steady]
    BY <1>3 DEF Deprecate
  <2>3. steady \subseteq live' /\ steady \subseteq impact.steady /\ steady \subseteq Tenet
    BY <1>1, <2>1
  <2>. HIDE DEF steady
  <2>4. /\ impact'.subject = impact.subject /\ impact'.max_depth = impact.max_depth
        /\ impact'.steady = steady /\ impact'.visited = impact.visited
        /\ impact'.nodes = impact.nodes /\ impact'.calls = impact.calls
        /\ impact' \in Search
    BY <2>1, <2>2, <2>3 DEF Search
  <2>5. CallsNested(impact)' /\ ListedDepend(impact)'
    BY <1>1, <2>1, <2>4 DEF SearchSound, CallsNested, CallSound, ListedDepend
  <2>6. SearchComplete(impact) => SearchComplete(impact)'
    <3>1. SteadyDepends(impact)' \subseteq SteadyDepends(impact)
      BY <1>1, <2>3, <2>4 DEF SteadyDepends
    <3>2. DependentsSeen(impact) => DependentsSeen(impact)'
      BY <2>4, <3>1 DEF DependentsSeen
    <3>. QED BY <2>4, <3>2 DEF SearchComplete, ListedOnce, IsListed
  <2>7. SearchSound(impact)'
    BY <2>1, <2>4, <2>5, <2>6 DEF SearchSound
  <2>. QED BY <1>1, <2>3, <2>4, <2>7 DEF ImpactInv, ImpactTypeOK
<1>. QED BY <1>2, <1>3

\* A claim is revived while a search goes on: it was not steady.
LEMMA Revived ==
  ASSUME ImpactInv, NEW c \in Tenet, Revive(c)
  PROVE  ImpactInv'
<1>1. live \subseteq live' /\ live' \subseteq Tenet /\ depends' = depends /\ impact' = impact
  BY DEF Revive, ImpactInv, ImpactTypeOK
<1>2. ASSUME SearchSound(impact) PROVE SearchSound(impact)'
  <2>1. CallsNested(impact)' /\ ListedDepend(impact)'
    BY <1>1, <1>2 DEF SearchSound, CallsNested, CallSound, ListedDepend
  <2>2. SearchComplete(impact) => SearchComplete(impact)'
    BY <1>1 DEF SearchComplete, DependentsSeen, SteadyDepends, ListedOnce, IsListed
  <2>. QED BY <1>1, <1>2, <2>1, <2>2 DEF SearchSound
<1>. QED
  BY <1>1, <1>2 DEF ImpactInv, ImpactTypeOK

\* A search begins with a call for its subject.
LEMMA SearchBegins ==
  ASSUME ImpactInv, NEW c \in Tenet, NEW depth \in 0 .. MaxSearch, ImpactAnalysis(c, depth)
  PROVE  ImpactInv'
<1>. DEFINE s == [subject |-> c, max_depth |-> depth, steady |-> live,
                  visited |-> {}, nodes |-> <<>>, calls |-> <<>>]
<1>1. /\ live \subseteq Tenet /\ UNCHANGED <<depends, live>>
      /\ impact' \in Traversed(s, c, 0)
  BY DEF ImpactAnalysis, ImpactInv, ImpactTypeOK
<1>2. /\ s \in Search /\ s.subject = c /\ s.max_depth = depth /\ s.steady = live
      /\ s.visited = {} /\ s.nodes = <<>> /\ s.calls = <<>>
  BY <1>1 DEF Search
<1>. HIDE DEF s
<1>3. /\ Len(s.calls) = 0 /\ DOMAIN s.calls = {} /\ DOMAIN s.nodes = {}
      /\ c \in Tenet \ s.visited /\ depth \in Nat
  BY <1>2, MaxSearchNat
<1>4. CallsNested(s)
  BY <1>3 DEF CallsNested
<1>5. Within(Tenet, depends, s.subject, c, 0)
  BY <1>2, WithinSelf
<1>6. Cardinality(Tenet) \in Nat /\ 0 < Cardinality(Tenet)
  BY <1>2, <1>3, <1>4, CallsAreFew
<1>7. CASE CutOff(0, s.max_depth) /\ impact' = s
  <2>1. depth = 0
    BY <1>2, <1>3, <1>7 DEF CutOff
  <2>2. CallsNested(impact)' /\ ListedDepend(impact)'
    BY <1>2, <1>3, <1>7 DEF CallsNested, ListedDepend
  <2>3. SearchSound(impact)'
    BY <1>2, <1>6, <1>7, <2>1, <2>2 DEF SearchSound
  <2>. QED BY <1>1, <1>2, <1>7, <2>3, SearchGoesOn
<1>8. ASSUME /\ impact' \in Search /\ CallsNested(impact')
             /\ impact'.subject = s.subject /\ impact'.max_depth = s.max_depth
             /\ impact'.steady = s.steady
             /\ impact'.nodes = s.nodes /\ impact'.visited = s.visited \cup {c}
             /\ Len(impact'.calls) = 1
             /\ impact'.calls[1].cid = c
             /\ \A d \in live : <<c, d>> \in depends => IsCandidate(impact'.calls[1], d)
      PROVE  ImpactInv'
  <2>1. CallsNested(impact)'
    BY <1>1, <1>8 DEF CallsNested, CallSound
  <2>2. ListedDepend(impact)' /\ ListedOnce(impact)'
        /\ \A d : ~ IsListed(impact', d)
    BY <1>2, <1>3, <1>8 DEF ListedDepend, ListedOnce, IsListed
  <2>3. DependentsSeen(impact)'
    <3>. SUFFICES ASSUME NEW e \in SteadyDepends(impact)', e[1] \in impact'.visited
                  PROVE  \E i \in DOMAIN impact'.calls :
                           impact'.calls[i].cid = e[1] /\ IsCandidate(impact'.calls[i], e[2])
      BY DEF DependentsSeen
    <3>1. e[1] = c /\ e \in depends /\ e[2] \in live
      BY <1>1, <1>2, <1>8 DEF SteadyDepends
    <3>2. e = <<c, e[2]>>
      BY <3>1, <1>1, DependenciesJoinTenets DEF ImpactInv, ImpactTypeOK
    <3>3. 1 \in DOMAIN impact'.calls
      BY <1>8, SearchParts
    <3>. QED BY <1>8, <3>1, <3>2, <3>3
  <2>4. SearchComplete(impact)'
    BY <1>2, <1>8, <2>2, <2>3 DEF SearchComplete, IsListed
  <2>5. SearchSound(impact)'
    BY <2>1, <2>2, <2>4 DEF SearchSound
  <2>. QED BY <1>1, <1>2, <1>8, <2>5, SearchGoesOn
<1>9. /\ impact' \in Traversed(s, c, Len(s.calls))
      /\ Within(Tenet, depends, s.subject, c, Len(s.calls))
  BY <1>1, <1>3, <1>5
<1>10. PICK r : r = impact' /\ CalledFor(s, c, r)
  <2>1. PICK r : r = impact'
    OBVIOUS
  <2>2. s \in Search /\ CallsNested(s) /\ live \subseteq Tenet /\ c \in Tenet \ s.visited
    BY <1>1, <1>2, <1>3, <1>4
  <2>3. r \in Traversed(s, c, Len(s.calls))
    BY <1>9, <2>1
  <2>4. CalledFor(s, c, r)
    BY <1>9, <2>2, <2>3, Called, Zenon
  <2>. QED BY <2>1, <2>4
<1>11. Len(s.calls) + 1 = 1
  BY <1>3
<1>. QED
  BY <1>3, <1>7, <1>8, <1>10, <1>11 DEF CalledFor

\* A search that is sound now is sound after a step that only replaces it.
LEMMA SoundGoesOn ==
  ASSUME ImpactInv, UNCHANGED <<depends, live>>, NEW r \in Search, impact' = r,
         r.steady \subseteq live, SearchSound(r)
  PROVE  ImpactInv'
<1>1. depends' = depends /\ live' = live
  OBVIOUS
<1>2. SearchSound(impact)'
  BY <1>1 DEF SearchSound, CallsNested, CallSound, ListedDepend, SearchComplete,
              DependentsSeen, SteadyDepends, ListedOnce, IsListed
<1>. QED BY <1>1, <1>2, SearchGoesOn

\* A candidate that was visited is passed over.
LEMMA KnownSkipped ==
  ASSUME ImpactInv, Searching, Innermost.candidates # <<>>,
         NEW c, c = Head(Innermost.candidates), c \in impact.visited,
         UNCHANGED <<depends, live>>,
         impact' = [impact EXCEPT !.calls[Depth].candidates = Tail(@)]
  PROVE  ImpactInv'
<1>1. PICK t : t = [impact EXCEPT !.calls[Depth].candidates = Tail(@)]
  OBVIOUS
<1>2. impact # NoImpact /\ SearchSound(impact) /\ impact.steady \subseteq live
      /\ impact \in Search
  BY InvHasSearch DEF Searching
<1>3. /\ Depth \in Nat \ {0} /\ t \in Search /\ CallsNested(t)
      /\ t.subject = impact.subject /\ t.max_depth = impact.max_depth
      /\ t.steady = impact.steady /\ t.nodes = impact.nodes
      /\ t.visited = impact.visited /\ Len(t.calls) = Depth
      /\ \A i \in 1 .. Depth : t.calls[i].cid = impact.calls[i].cid
      /\ \A i \in 1 .. Depth, d \in Tenet :
           IsCandidate(impact.calls[i], d) => d = c \/ IsCandidate(t.calls[i], d)
  BY <1>1, CandidateTaken
<1>4. DOMAIN impact.calls = 1 .. Depth /\ DOMAIN t.calls = 1 .. Depth
  BY <1>2, <1>3, SearchParts DEF Depth
<1>5. ListedDepend(t)
  BY <1>2, <1>3 DEF SearchSound, ListedDepend
<1>6. DependentsSeen(impact) => DependentsSeen(t)
  <2>. SUFFICES ASSUME DependentsSeen(impact), NEW e \in SteadyDepends(t),
                       e[1] \in t.visited, e[2] \notin t.visited
                PROVE  \E i \in DOMAIN t.calls :
                         t.calls[i].cid = e[1] /\ IsCandidate(t.calls[i], e[2])
    BY DEF DependentsSeen
  <2>1. e \in SteadyDepends(impact) /\ e[1] \in impact.visited /\ e[2] # c
    BY <1>3 DEF SteadyDepends
  <2>2. e[2] \in Tenet
    BY <1>2, <2>1, SearchParts DEF SteadyDepends
  <2>3. PICK i \in DOMAIN impact.calls :
          impact.calls[i].cid = e[1] /\ IsCandidate(impact.calls[i], e[2])
    BY <1>3, <2>1 DEF DependentsSeen
  <2>. QED BY <1>3, <1>4, <2>1, <2>2, <2>3
<1>7. SearchComplete(impact) => SearchComplete(t)
  BY <1>3, <1>6 DEF SearchComplete, ListedOnce, IsListed
<1>8. SearchSound(t)
  BY <1>2, <1>3, <1>5, <1>7 DEF SearchSound
<1>9. t.steady \subseteq live /\ impact' = t
  BY <1>1, <1>2, <1>3
<1>. QED BY <1>3, <1>8, <1>9, SoundGoesOn

\* A candidate that was not visited is listed.
LEMMA CandidateListed ==
  ASSUME ImpactInv, Searching,
         NEW t \in Search, CallsNested(t), t.subject = impact.subject,
         t.max_depth = impact.max_depth, t.nodes = impact.nodes,
         NEW c \in Tenet, Depth \in Nat \ {0},
         Within(Tenet, depends, impact.subject, c, Depth),
         NEW s, s = [t EXCEPT !.nodes = Append(@, [node_id |-> c, depth |-> Depth])]
  PROVE  /\ s \in Search /\ CallsNested(s) /\ ListedDepend(s)
         /\ s.subject = t.subject /\ s.max_depth = t.max_depth /\ s.steady = t.steady
         /\ s.visited = t.visited /\ s.calls = t.calls
         /\ \A d : IsListed(s, d) <=> (IsListed(impact, d) \/ d = c)
         /\ ListedOnce(impact) /\ ~ IsListed(impact, c) => ListedOnce(s)
<1>1. impact # NoImpact /\ SearchSound(impact) /\ impact \in Search
  BY InvHasSearch DEF Searching
<1>. DEFINE n == Len(impact.nodes)
            found == [node_id |-> c, depth |-> Depth]
            nodes == Append(t.nodes, found)
<1>2. found \in Found /\ found.node_id = c /\ found.depth = Depth
  BY DEF Found
<1>. HIDE DEF found
<1>3. n \in Nat /\ DOMAIN impact.nodes = 1 .. n /\ impact.nodes \in Seq(Found)
  BY <1>1, SearchParts
<1>4. /\ nodes \in Seq(Found) /\ DOMAIN nodes = 1 .. n + 1
      /\ \A i \in 1 .. n : nodes[i] = impact.nodes[i]
      /\ nodes[n + 1] = found
  BY <1>2, <1>3
<1>5. s = [t EXCEPT !.nodes = nodes]
  BY DEF found
<1>. HIDE DEF n, nodes
<1>6. /\ s.subject = t.subject /\ s.max_depth = t.max_depth /\ s.steady = t.steady
      /\ s.visited = t.visited /\ s.calls = t.calls /\ s.nodes = nodes /\ s \in Search
  BY <1>4, <1>5 DEF Search
<1>7. CallsNested(s)
  BY <1>6 DEF CallsNested, CallSound
<1>8. Depth \in 1 .. impact.max_depth
  <2>1. Depth \in DOMAIN impact.calls
    BY <1>1, SearchParts DEF Depth
  <2>2. Depth <= impact.max_depth /\ impact.max_depth \in Nat
    BY <1>1, <2>1, SearchParts DEF SearchSound, CallsNested, CallSound
  <2>. QED BY <2>2
<1>9. \A i \in 1 .. n + 1 : i \in 1 .. n \/ i = n + 1
  BY <1>3
<1>10. ListedDepend(s)
  <2>1. \A i \in 1 .. n :
          /\ impact.nodes[i].depth \in 1 .. impact.max_depth
          /\ Within(Tenet, depends, impact.subject, impact.nodes[i].node_id,
                    impact.nodes[i].depth)
    BY <1>1, <1>3 DEF SearchSound, ListedDepend
  <2>2. ASSUME NEW i \in 1 .. n + 1
        PROVE  /\ nodes[i].depth \in 1 .. impact.max_depth
               /\ Within(Tenet, depends, impact.subject, nodes[i].node_id, nodes[i].depth)
    <3>1. CASE i \in 1 .. n
      BY <1>4, <2>1, <3>1
    <3>2. CASE i = n + 1
      BY <1>2, <1>4, <1>8, <3>2
    <3>. QED BY <1>9, <3>1, <3>2
  <2>. QED BY <1>4, <1>6, <2>2 DEF ListedDepend
<1>11. \A d : IsListed(s, d) <=> (IsListed(impact, d) \/ d = c)
  <2>1. n + 1 \in 1 .. n + 1 /\ \A i \in 1 .. n : i \in 1 .. n + 1
    BY <1>3
  <2>. QED BY <1>2, <1>3, <1>4, <1>6, <1>9, <2>1 DEF IsListed
<1>12. ListedOnce(impact) /\ ~ IsListed(impact, c) => ListedOnce(s)
  BY <1>2, <1>3, <1>4, <1>6, <1>9 DEF ListedOnce, IsListed
<1>. QED BY <1>6, <1>7, <1>10, <1>11, <1>12

\* s is the search before c was called: t with c listed.
ListedFor(t, c, s) ==
  /\ CallsNested(s) /\ ListedDepend(s)
  /\ s.subject = t.subject /\ s.max_depth = t.max_depth /\ s.steady = t.steady
  /\ s.visited = t.visited /\ s.calls = t.calls
  /\ \A d : IsListed(s, d) <=> (IsListed(impact, d) \/ d = c)
  /\ ListedOnce(impact) /\ ~ IsListed(impact, c) => ListedOnce(s)

\* It is then called, unless the search is cut off there.
LEMMA CandidateCalled ==
  ASSUME ImpactInv, Searching,
         NEW t \in Search, CallsNested(t), t.subject = impact.subject,
         t.max_depth = impact.max_depth, t.nodes = impact.nodes,
         NEW c \in Tenet \ t.visited, Depth \in Nat \ {0}, Len(t.calls) = Depth,
         Within(Tenet, depends, impact.subject, c, Depth),
         NEW r, r \in Traversed([t EXCEPT !.nodes =
                                   Append(@, [node_id |-> c, depth |-> Depth])], c, Depth)
  PROVE  \E s \in Search : ListedFor(t, c, s) /\ CalledFor(s, c, r)
<1>1. PICK s : s = [t EXCEPT !.nodes = Append(@, [node_id |-> c, depth |-> Depth])]
  OBVIOUS
<1>2. s \in Search /\ ListedFor(t, c, s)
  BY <1>1, CandidateListed DEF ListedFor
<1>3. /\ c \in Tenet \ s.visited /\ Len(s.calls) = Depth
      /\ r \in Traversed(s, c, Len(s.calls))
      /\ Within(Tenet, depends, s.subject, c, Len(s.calls))
  BY <1>1, <1>2 DEF ListedFor
<1>4. CallsNested(s) /\ live \subseteq Tenet
  BY <1>2 DEF ListedFor, ImpactInv, ImpactTypeOK
<1>5. CalledFor(s, c, r)
  BY <1>2, <1>3, <1>4, Called, Zenon
<1>. QED BY <1>2, <1>5

\* A candidate that was not visited is listed and traversed.
LEMMA CandidateTraversed ==
  ASSUME ImpactInv, Searching, NEW t \in Search, CallsNested(t), t.subject = impact.subject,
         t.max_depth = impact.max_depth, t.steady = impact.steady,
         t.nodes = impact.nodes, t.visited = impact.visited, Len(t.calls) = Depth,
         \A i \in 1 .. Depth : t.calls[i].cid = impact.calls[i].cid,
         NEW c \in Tenet \ t.visited, Depth \in Nat \ {0},
         \A i \in 1 .. Depth, d \in Tenet :
           IsCandidate(impact.calls[i], d) => d = c \/ IsCandidate(t.calls[i], d),
         Within(Tenet, depends, impact.subject, c, Depth),
         NEW r, r \in Traversed([t EXCEPT !.nodes =
                                   Append(@, [node_id |-> c, depth |-> Depth])], c, Depth)
  PROVE  r \in Search /\ r.steady \subseteq live /\ SearchSound(r)
<1>1. impact # NoImpact /\ SearchSound(impact) /\ impact.steady \subseteq live
      /\ impact \in Search /\ live \subseteq Tenet
  BY InvHasSearch DEF Searching
<1>2. PICK s \in Search : ListedFor(t, c, s) /\ CalledFor(s, c, r)
  BY CandidateCalled, Zenon
<1>3. c \in Tenet \ s.visited /\ Len(s.calls) = Depth
  BY <1>2 DEF ListedFor
<1>4. /\ r \in Search /\ CallsNested(r) /\ r.subject = impact.subject
      /\ r.max_depth = impact.max_depth /\ r.steady = impact.steady /\ r.nodes = s.nodes
  BY <1>2 DEF ListedFor, CalledFor
<1>5. ListedDepend(r)
  BY <1>2, <1>4 DEF ListedFor, ListedDepend
<1>6. ASSUME r.max_depth >= Cardinality(Tenet), SearchComplete(impact)
      PROVE  SearchComplete(r)
  <2>1. ~ CutOff(Len(s.calls), s.max_depth)
    <3>1. Cardinality(Tenet) \in Nat /\ Len(s.calls) < Cardinality(Tenet)
      BY <1>2, <1>3, CallsAreFew DEF ListedFor
    <3>2. s.max_depth \in Nat /\ s.max_depth >= Cardinality(Tenet)
      BY <1>2, <1>4, <1>6, SearchParts DEF ListedFor
    <3>. QED BY <1>3, <3>1, <3>2 DEF CutOff
  <2>2. /\ r.visited = impact.visited \cup {c} /\ Len(r.calls) = Depth + 1
        /\ \A i \in 1 .. Depth : r.calls[i] = t.calls[i]
        /\ r.calls[Depth + 1].cid = c
        /\ \A d \in live : <<c, d>> \in depends => IsCandidate(r.calls[Depth + 1], d)
    BY <1>2, <1>3, <2>1 DEF ListedFor, CalledFor
  <2>3. /\ DOMAIN r.calls = 1 .. Depth + 1 /\ Depth + 1 \in DOMAIN r.calls
        /\ DOMAIN impact.calls = 1 .. Depth
        /\ \A i \in 1 .. Depth : i \in DOMAIN r.calls
    <3>1. DOMAIN r.calls = 1 .. Depth + 1 /\ DOMAIN impact.calls = 1 .. Depth
      BY <1>1, <1>4, <2>2, SearchParts DEF Depth
    <3>. QED BY <3>1
  <2>4. DependentsSeen(r)
    <3>. SUFFICES ASSUME NEW e \in SteadyDepends(r), e[1] \in r.visited,
                         e[2] \notin r.visited
                  PROVE  \E i \in DOMAIN r.calls :
                           r.calls[i].cid = e[1] /\ IsCandidate(r.calls[i], e[2])
      BY DEF DependentsSeen
    <3>1. /\ e \in SteadyDepends(impact) /\ e \in depends
          /\ e[2] \in live /\ e[2] \in Tenet /\ e[2] # c
      BY <1>1, <1>4, <2>2 DEF SteadyDepends
    <3>2. CASE e[1] = c
      <4>1. e = <<c, e[2]>>
        BY <3>1, <3>2, DependenciesJoinTenets DEF ImpactInv, ImpactTypeOK
      <4>. QED BY <2>2, <2>3, <3>1, <3>2, <4>1
    <3>3. CASE e[1] # c
      <4>1. e[1] \in impact.visited /\ e[2] \notin impact.visited
        BY <2>2, <3>3
      <4>2. PICK i \in DOMAIN impact.calls :
              impact.calls[i].cid = e[1] /\ IsCandidate(impact.calls[i], e[2])
        BY <1>6, <3>1, <4>1 DEF SearchComplete, DependentsSeen
      <4>3. i \in 1 .. Depth /\ i \in DOMAIN r.calls /\ r.calls[i] = t.calls[i]
        BY <2>2, <2>3, <4>2
      <4>4. t.calls[i].cid = e[1] /\ IsCandidate(t.calls[i], e[2])
        BY <3>1, <4>2, <4>3
      <4>. QED BY <4>3, <4>4
    <3>. QED BY <3>2, <3>3
  <2>5. ~ IsListed(impact, c)
    BY <1>6 DEF SearchComplete
  <2>6. ListedOnce(r) /\ \A d : IsListed(r, d) <=> (IsListed(impact, d) \/ d = c)
    <3>1. ListedOnce(s)
      BY <1>2, <1>6, <2>5 DEF ListedFor, SearchComplete
    <3>. QED BY <1>2, <1>4, <3>1 DEF ListedFor, ListedOnce, IsListed
  <2>. QED BY <1>4, <1>6, <2>2, <2>4, <2>6 DEF SearchComplete
<1>7. SearchSound(r)
  BY <1>1, <1>4, <1>5, <1>6 DEF SearchSound
<1>. QED BY <1>1, <1>4, <1>7

\* The innermost call returns when it has no candidates left.
LEMMA CallReturned ==
  ASSUME ImpactInv, EndOfCandidates
  PROVE  ImpactInv'
<1>1. impact # NoImpact /\ SearchSound(impact) /\ impact.steady \subseteq live
      /\ impact \in Search /\ impact.calls # <<>> /\ Innermost.candidates = <<>>
  BY InvHasSearch DEF Searching, EndOfCandidates
<1>2. PICK r : r = [impact EXCEPT !.calls = SubSeq(@, 1, Depth - 1)]
  OBVIOUS
<1>3. impact' = r /\ UNCHANGED <<depends, live>>
  BY <1>2 DEF EndOfCandidates
<1>. DEFINE calls == SubSeq(impact.calls, 1, Depth - 1)
<1>4. /\ impact.calls \in Seq(Call) /\ Depth \in Nat \ {0}
      /\ DOMAIN impact.calls = 1 .. Depth
  <2>1. impact.calls \in Seq(Call)
    BY <1>1, SearchParts
  <2>. QED BY <1>1, <2>1 DEF Depth
<1>5. /\ calls \in Seq(Call) /\ DOMAIN calls = 1 .. Depth - 1
      /\ \A i \in 1 .. Depth - 1 : calls[i] = impact.calls[i] /\ i \in DOMAIN impact.calls
  BY <1>4 DEF Depth
<1>6. r = [impact EXCEPT !.calls = calls]
  BY <1>2
<1>. HIDE DEF calls
<1>7. /\ r.subject = impact.subject /\ r.max_depth = impact.max_depth
      /\ r.steady = impact.steady /\ r.nodes = impact.nodes
      /\ r.visited = impact.visited /\ r.calls = calls /\ r \in Search
  BY <1>1, <1>5, <1>6 DEF Search
<1>8. CallsNested(r)
  BY <1>1, <1>5, <1>7 DEF SearchSound, CallsNested, CallSound
<1>9. ListedDepend(r)
  BY <1>1, <1>7 DEF SearchSound, ListedDepend
<1>10. DependentsSeen(impact) => DependentsSeen(r)
  <2>1. \A i \in DOMAIN impact.calls : \A d : IsCandidate(impact.calls[i], d) => i # Depth
    BY <1>1 DEF IsCandidate, Innermost
  <2>2. \A i \in DOMAIN impact.calls : i # Depth => i \in DOMAIN r.calls
                                        /\ r.calls[i] = impact.calls[i]
    BY <1>4, <1>5, <1>7
  <2>3. SteadyDepends(r) = SteadyDepends(impact)
    BY <1>7 DEF SteadyDepends
  <2>. QED BY <1>7, <2>1, <2>2, <2>3 DEF DependentsSeen
<1>11. SearchComplete(impact) => SearchComplete(r)
  BY <1>7, <1>10 DEF SearchComplete, ListedOnce, IsListed
<1>12. SearchSound(r)
  BY <1>1, <1>7, <1>8, <1>9, <1>11 DEF SearchSound
<1>. QED BY <1>1, <1>3, <1>7, <1>12, SoundGoesOn

\* ImpactInv is inductive.
THEOREM ImpactStep == ImpactInv /\ [ImpactNext]_impactVars => ImpactInv'
<1>. SUFFICES ASSUME ImpactInv, [ImpactNext]_impactVars PROVE ImpactInv'
  OBVIOUS
<1>1. CASE \E c \in Tenet : Deprecate(c)
  BY <1>1, Deprecated
<1>2. CASE \E c \in Tenet : Revive(c)
  BY <1>2, Revived
<1>3. CASE \E c \in Tenet, depth \in 0 .. MaxSearch : ImpactAnalysis(c, depth)
  BY <1>3, SearchBegins
<1>4. CASE NextCandidate
  <2>1. Searching /\ Innermost.candidates # <<>> /\ UNCHANGED <<depends, live>>
    BY <1>4 DEF NextCandidate
  <2>2. PICK c, t : /\ c = Head(Innermost.candidates)
                    /\ t = [impact EXCEPT !.calls[Depth].candidates = Tail(@)]
    OBVIOUS
  <2>3. CASE c \in impact.visited
    BY <1>4, <2>1, <2>2, <2>3, KnownSkipped DEF NextCandidate
  <2>4. CASE c \notin impact.visited
    <3>1. PICK r : r = impact'
      OBVIOUS
    <3>2. r \in Traversed([t EXCEPT !.nodes =
                             Append(@, [node_id |-> c, depth |-> Innermost.depth + 1])],
                          c, Innermost.depth + 1)
      BY <1>4, <2>2, <2>4, <3>1 DEF NextCandidate
    <3>3. /\ Depth \in Nat \ {0} /\ t \in Search /\ CallsNested(t)
          /\ t.subject = impact.subject /\ t.max_depth = impact.max_depth
          /\ t.steady = impact.steady /\ t.nodes = impact.nodes
          /\ t.visited = impact.visited /\ Len(t.calls) = Depth
          /\ \A i \in 1 .. Depth : t.calls[i].cid = impact.calls[i].cid
          /\ \A i \in 1 .. Depth, d \in Tenet :
               IsCandidate(impact.calls[i], d) => d = c \/ IsCandidate(t.calls[i], d)
          /\ c \in Tenet /\ Innermost.depth + 1 = Depth
          /\ Within(Tenet, depends, impact.subject, c, Depth)
      BY <2>1, <2>2, CandidateTaken
    <3>4. /\ c \in Tenet \ t.visited
          /\ r \in Traversed([t EXCEPT !.nodes =
                                Append(@, [node_id |-> c, depth |-> Depth])], c, Depth)
      BY <2>4, <3>2, <3>3
    <3>5. r \in Search /\ r.steady \subseteq live /\ SearchSound(r)
      BY <2>1, <3>3, <3>4, CandidateTraversed
    <3>. QED BY <2>1, <3>1, <3>5, SoundGoesOn
  <2>. QED BY <2>3, <2>4
<1>5. CASE EndOfCandidates
  BY <1>5, CallReturned
<1>6. CASE ReportImpact
  BY <1>6 DEF ReportImpact, ImpactInv, ImpactTypeOK
<1>7. CASE UNCHANGED impactVars
  <2>1. depends' = depends /\ live' = live /\ impact' = impact
    BY <1>7 DEF impactVars
  <2>2. CASE impact = NoImpact
    BY <2>1, <2>2 DEF ImpactInv, ImpactTypeOK
  <2>3. CASE impact # NoImpact
    <3>1. PICK r : r = impact
      OBVIOUS
    <3>2. SearchSound(impact) /\ impact \in Search /\ impact.steady \subseteq live
      BY <2>3, InvHasSearch
    <3>3. impact' = r /\ SearchSound(r) /\ r \in Search /\ r.steady \subseteq live
      BY <2>1, <3>1, <3>2
    <3>. QED BY <2>1, <3>3, SoundGoesOn
  <2>. QED BY <2>2, <2>3
<1>. QED
  BY <1>1, <1>2, <1>3, <1>4, <1>5, <1>6, <1>7 DEF ImpactNext

\* The inductive invariant of the search: nested calls, and every claim that
\* depends on a visited one visited or still a candidate.
THEOREM ImpactInductive == ImpactSpec => []ImpactInv
<1>1. ImpactInit => ImpactInv
  BY DEF ImpactInit, ImpactInv, ImpactTypeOK
<1>. QED
  BY <1>1, ImpactStep, PTL DEF ImpactSpec

\* When no call is left, what is visited has all that depends on it.
LEMMA DependentsVisited ==
  ASSUME ImpactInv, Reported, impact.max_depth >= Cardinality(Tenet),
         NEW c \in Tenet, NEW k \in Nat,
         Within(Tenet, SteadyDepends(impact), impact.subject, c, k)
  PROVE  c \in impact.visited
<1>1. impact # NoImpact /\ impact.calls = <<>> /\ SearchComplete(impact)
  BY InvHasSearch DEF Reported, SearchSound
<1>2. \A e \in SteadyDepends(impact) : e[1] \in impact.visited => e[2] \in impact.visited
  BY <1>1 DEF SearchComplete, DependentsSeen
<1>3. PICK n \in 0 .. k : \E p \in [0 .. n -> Tenet] :
        IsPath(p, n, Tenet, SteadyDepends(impact), impact.subject, c)
  BY DEF Within
<1>4. PICK p \in [0 .. n -> Tenet] :
        IsPath(p, n, Tenet, SteadyDepends(impact), impact.subject, c)
  BY <1>3
<1>. DEFINE D == [i \in 0 .. n |-> impact.visited]
<1>5. n \in Nat /\ \A i \in 0 .. n : D[i] = impact.visited
  OBVIOUS
<1>6. Spreads(D, n, Tenet, SteadyDepends(impact))
  <2>1. \A i \in 1 .. n : i \in 0 .. n /\ i - 1 \in 0 .. n
    BY <1>5
  <2>. HIDE DEF D
  <2>. QED BY <1>2, <1>5, <2>1 DEF Spreads
<1>7. impact.subject \in D[0] /\ n \in 0 .. n
  BY <1>1, <1>5 DEF SearchComplete
<1>8. c \in D[n]
  <2>. HIDE DEF D
  <2>. QED BY <1>4, <1>5, <1>6, <1>7, AlongPath
<1>. QED BY <1>5, <1>7, <1>8

\* DependentsFound: an impact analysis lists nothing that does not depend on the
\* claim, and all that does when its depth is not below the number of claims.
THEOREM DependentsSafe == ImpactSpec => []DependentsFound
<1>1. ImpactInv => DependentsFound
  <2>. SUFFICES ASSUME ImpactInv, Reported PROVE DependentsFound
    BY DEF DependentsFound
  <2>1. impact # NoImpact /\ SearchSound(impact)
    BY InvHasSearch DEF Reported
  <2>2. ASSUME impact.max_depth >= Cardinality(Tenet), NEW c \in Tenet \ {impact.subject},
               Within(Tenet, SteadyDepends(impact), impact.subject, c, Cardinality(Tenet))
        PROVE  IsListed(impact, c)
    <3>1. Cardinality(Tenet) \in Nat
      BY TenetsFinite, FS_CardinalityType
    <3>2. c \in impact.visited
      BY <2>2, <3>1, DependentsVisited
    <3>. QED BY <2>1, <2>2, <3>2 DEF SearchSound, SearchComplete
  <2>. QED BY <2>1, <2>2 DEF DependentsFound, SearchSound, SearchComplete
<1>. QED
  BY <1>1, ImpactInductive, PTL
=============================================================================
