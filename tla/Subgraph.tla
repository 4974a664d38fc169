------------------------------ MODULE Subgraph -------------------------------
(***************************************************************************)
(* KnowledgeGraphManager.get_subgraph: a breadth-first search from a       *)
(* concept that asks the database for the relationships of one concept at  *)
(* a time.  Between two of its queries other sessions commit more          *)
(* relationships (Registrations); none is ever deleted.                    *)
(***************************************************************************)
EXTENDS Sequences, Paths

CONSTANTS
  Vertex,     \* the ids of concepts
  Link,       \* the pairs of concepts that relationships may be committed for
  MaxAnswer,  \* bound on the rows that one query returns
  MaxDepth,   \* bound on the max_depth of a request
  NoSubgraph  \* the walk while there is none

ASSUME LinksJoinVertices == Link \subseteq Vertex \X Vertex
ASSUME SubgraphBounds == MaxAnswer \in Nat /\ MaxDepth \in Nat

VARIABLES
  graph,    \* the pairs of concepts with a committed relationship
  subgraph  \* the variables of the running get_subgraph

subgraphVars == <<graph, subgraph>>

Visit == [concept_id : Vertex, depth : Nat]

\* queue, nodes and edges are the lists of the method; a concept is visited
\* if it is in nodes.  before is the graph as it was when the walk began.
Walk == [root : Vertex, max_depth : 0 .. MaxDepth, before : SUBSET Link,
         queue : Seq(Visit), nodes : SUBSET Visit, edges : SUBSET Link]

\* Graph and walk keep their types; the graph has only grown since the walk
\* began.
SubgraphTypeOK ==
  /\ graph \subseteq Link
  /\ subgraph \in Walk \cup {NoSubgraph}
  /\ subgraph # NoSubgraph => subgraph.before \subseteq graph

SubgraphInit == graph = {} /\ subgraph = NoSubgraph

-----------------------------------------------------------------------------
\* A session that added relationships commits.
CommitLinks(added) ==
  /\ graph' = graph \cup added
  /\ UNCHANGED subgraph

GetSubgraph(root, depth) ==
  /\ subgraph = NoSubgraph
  /\ subgraph' = [root |-> root, max_depth |-> depth, before |-> graph,
                  queue |-> <<[concept_id |-> root, depth |-> 0]>>,
                  nodes |-> {}, edges |-> {}]
  /\ UNCHANGED graph

Walking == subgraph # NoSubgraph /\ subgraph.queue # <<>>
AtFront == Head(subgraph.queue)
Visited == {m.concept_id : m \in subgraph.nodes}
Skips == AtFront.concept_id \in Visited \/ AtFront.depth > subgraph.max_depth

\* A concept that was visited in the meantime, or is too far away.
SkipConcept ==
  /\ Walking /\ Skips
  /\ subgraph' = [subgraph EXCEPT !.queue = Tail(@)]
  /\ UNCHANGED graph

\* Mutated form: what was found last is looked at first.
PushFirst(queue, found) == found \o queue

Push(queue, found) == queue \o found

LinksFrom(v) == {e \in graph : e[1] = v}

\* Those of the rows returned that are not visited, in the order in which
\* they were returned; a concept comes more than once if relationships of
\* several types lead to it.
Answers(v) ==
  LET unseen == {e[2] : e \in LinksFrom(v)} \ (Visited \cup {v})
  IN UNION {{q \in [1 .. n -> unseen] : \A u \in unseen : \E i \in 1 .. n : q[i] = u} :
              n \in 0 .. MaxAnswer}

Entries(found, depth) ==
  [i \in DOMAIN found |-> [concept_id |-> found[i], depth |-> depth]]

TakeConcept ==
  /\ Walking /\ ~Skips
  /\ \E q \in Answers(AtFront.concept_id) :
       subgraph' = [subgraph EXCEPT
         !.nodes = @ \cup {AtFront},
         !.edges = @ \cup LinksFrom(AtFront.concept_id),
         !.queue = Push(Tail(@), Entries(q, AtFront.depth + 1))]
  /\ UNCHANGED graph

\* The answer goes out.
Finished == subgraph # NoSubgraph /\ subgraph.queue = <<>>

ReturnSubgraph ==
  /\ Finished
  /\ subgraph' = NoSubgraph
  /\ UNCHANGED graph

SubgraphNext ==
  \/ \E added \in SUBSET Link : CommitLinks(added)
  \/ \E root \in Vertex, depth \in 0 .. MaxDepth : GetSubgraph(root, depth)
  \/ SkipConcept
  \/ TakeConcept
  \/ ReturnSubgraph

SubgraphSpec == SubgraphInit /\ [][SubgraphNext]_subgraphVars

-----------------------------------------------------------------------------
(***************************************************************************)
(* Properties.                                                             *)
(***************************************************************************)

\* The answer, though read while the graph grew, is between two balls around
\* the root: whatever was within the depth when the walk began is in it, no
\* further away than it was; whatever is in it, once, is as near as it says by
\* now.  Where the graph stood still these are the least distances.  An edge
\* leads out of the answer only where the depth ended.
SubgraphIsBall ==
  Finished =>
    LET nodes == subgraph.nodes IN
    /\ \A v \in Vertex, k \in 0 .. subgraph.max_depth :
         Within(Vertex, subgraph.before, subgraph.root, v, k) =>
           \E m \in nodes : m.concept_id = v /\ m.depth <= k
    /\ \A m \in nodes :
         /\ m.depth <= subgraph.max_depth
         /\ Within(Vertex, graph, subgraph.root, m.concept_id, m.depth)
    /\ \A m, n \in nodes : m.concept_id = n.concept_id => m = n
    /\ \A e \in subgraph.edges : \E m \in nodes :
         /\ m.concept_id = e[1]
         /\ m.depth < subgraph.max_depth => e[2] \in Visited

-----------------------------------------------------------------------------
(***************************************************************************)
(* The inductive invariant behind it.                                      *)
(***************************************************************************)

\* Concepts are taken in the order of their depth.
QueueSorted ==
  LET q == subgraph.queue IN
  /\ \A i, j \in DOMAIN q : i <= j => q[i].depth <= q[j].depth /\ q[j].depth <= q[1].depth + 1
  /\ \A i \in DOMAIN q : \A m \in subgraph.nodes : m.depth <= q[i].depth

\* Each but the root was found through one that is one step nearer.
FoundThrough(m) ==
  IF m.depth = 0 THEN m.concept_id = subgraph.root
  ELSE \E n \in subgraph.nodes :
         n.depth = m.depth - 1 /\ <<n.concept_id, m.concept_id>> \in graph

\* v is in the answer at that depth at most, or will be.
Due(v, depth) ==
  \/ \E m \in subgraph.nodes : m.concept_id = v /\ m.depth <= depth
  \/ \E i \in DOMAIN subgraph.queue :
       subgraph.queue[i].concept_id = v /\ subgraph.queue[i].depth <= depth

WalkSound ==
  subgraph # NoSubgraph =>
    /\ QueueSorted
    /\ \A m \in subgraph.nodes :
         /\ FoundThrough(m) /\ m.depth <= subgraph.max_depth
         /\ \A n \in subgraph.nodes : m.concept_id = n.concept_id => m = n
         /\ \A e \in subgraph.before : e[1] = m.concept_id => e \in subgraph.edges
    /\ \A i \in DOMAIN subgraph.queue : FoundThrough(subgraph.queue[i])
    /\ \A e \in subgraph.edges : \E m \in subgraph.nodes :
         /\ m.concept_id = e[1]
         /\ m.depth < subgraph.max_depth => Due(e[2], m.depth + 1)
    /\ Due(subgraph.root, 0)

SubgraphInv == SubgraphTypeOK /\ WalkSound
=============================================================================
