------------------------------- MODULE Impact --------------------------------
(***************************************************************************)
(* DoctrineDependencyGraph._find_dependent_claims: a depth-first search    *)
(* from a claim through the claims that depend on it, with one query per   *)
(* claim.  Claims may be deprecated and revived between the queries, which *)
(* see only those that are not deprecated.  No code writes                 *)
(* doctrine_dependency, so the dependencies are what they are.             *)
(***************************************************************************)
EXTENDS Sequences, FiniteSets, Paths

CONSTANTS
  Tenet,       \* the claims of doctrine
  Dependency,  \* pairs of a claim and one that may depend on it
  MaxSearch,   \* bound on max_depth
  NoImpact     \* the search while there is none

ASSUME DependenciesJoinTenets == Dependency \subseteq Tenet \X Tenet
ASSUME TenetsFinite == IsFiniteSet(Tenet)
ASSUME MaxSearchNat == MaxSearch \in Nat

VARIABLES
  depends,  \* the pairs of which the second names the first
  live,     \* the claims that are not deprecated
  impact    \* the variables of the running _find_dependent_claims

impactVars == <<depends, live, impact>>

Found == [node_id : Tenet, depth : Nat]

\* A call of _traverse: its claim, its depth, and the candidates left.
Call == [cid : Tenet, depth : Nat, candidates : Seq(Tenet)]

\* visited and nodes as in the method, and its nested calls, the outermost
\* first; steady are the claims that have not been deprecated meanwhile.
Search == [subject : Tenet, max_depth : 0 .. MaxSearch, steady : SUBSET Tenet,
           visited : SUBSET Tenet, nodes : Seq(Found), calls : Seq(Call)]

\* Dependencies, claims and the search keep their types.
ImpactTypeOK ==
  /\ depends \subseteq Dependency
  /\ live \subseteq Tenet
  /\ impact \in Search \cup {NoImpact}
  /\ impact # NoImpact => impact.steady \subseteq live

ImpactInit ==
  /\ depends \in SUBSET Dependency
  /\ live \in SUBSET Tenet
  /\ impact = NoImpact

-----------------------------------------------------------------------------
\* An update or an override takes a claim to "deprecated", or from there.
Deprecate(c) ==
  /\ live' = live \ {c}
  /\ impact' = IF impact = NoImpact THEN NoImpact
               ELSE [impact EXCEPT !.steady = @ \ {c}]
  /\ UNCHANGED depends

Revive(c) ==
  /\ live' = live \cup {c}
  /\ UNCHANGED <<depends, impact>>

\* Mutated form: the search goes one step too far.
CutOffLate(depth, maxDepth) == depth > maxDepth

CutOff(depth, maxDepth) == depth >= maxDepth

\* The rows of the query, in the order in which they are returned: the claims
\* that depend on c.
Candidates(c) ==
  LET rows == {d \in live : <<c, d>> \in depends}
  IN {q \in [1 .. Cardinality(rows) -> rows] : \A d \in rows : \E i \in DOMAIN q : q[i] = d}

\* _traverse(c, depth): the search after it was called and asked its query.
Traversed(search, c, depth) ==
  IF CutOff(depth, search.max_depth) \/ c \in search.visited THEN {search}
  ELSE {[search EXCEPT
           !.visited = @ \cup {c},
           !.calls = Append(@, [cid |-> c, depth |-> depth, candidates |-> q])] :
          q \in Candidates(c)}

ImpactAnalysis(c, depth) ==
  /\ impact = NoImpact
  /\ impact' \in Traversed([subject |-> c, max_depth |-> depth, steady |-> live,
                            visited |-> {}, nodes |-> <<>>, calls |-> <<>>], c, 0)
  /\ UNCHANGED <<depends, live>>

Searching == impact # NoImpact /\ impact.calls # <<>>
Depth == Len(impact.calls)
Innermost == impact.calls[Depth]

\* The next candidate of the innermost call: listed and traversed, unless it
\* has been visited.
NextCandidate ==
  /\ Searching /\ Innermost.candidates # <<>>
  /\ LET c == Head(Innermost.candidates)
         taken == [impact EXCEPT !.calls[Depth].candidates = Tail(@)]
     IN \/ /\ c \in impact.visited
           /\ impact' = taken
        \/ /\ c \notin impact.visited
           /\ impact' \in Traversed(
                [taken EXCEPT !.nodes = Append(@, [node_id |-> c, depth |-> Innermost.depth + 1])],
                c, Innermost.depth + 1)
  /\ UNCHANGED <<depends, live>>

\* The innermost call returns.
EndOfCandidates ==
  /\ Searching /\ Innermost.candidates = <<>>
  /\ impact' = [impact EXCEPT !.calls = SubSeq(@, 1, Depth - 1)]
  /\ UNCHANGED <<depends, live>>

\* The report goes out.
Reported == impact # NoImpact /\ impact.calls = <<>>

ReportImpact ==
  /\ Reported
  /\ impact' = NoImpact
  /\ UNCHANGED <<depends, live>>

ImpactNext ==
  \/ \E c \in Tenet :
       \/ Deprecate(c)
       \/ Revive(c)
       \/ \E depth \in 0 .. MaxSearch : ImpactAnalysis(c, depth)
  \/ NextCandidate
  \/ EndOfCandidates
  \/ ReportImpact

ImpactSpec == ImpactInit /\ [][ImpactNext]_impactVars

-----------------------------------------------------------------------------
(***************************************************************************)
(* Properties.                                                             *)
(***************************************************************************)

\* The dependencies on claims that were live throughout a search.
SteadyDepends(search) == {e \in depends : e[2] \in search.steady}

\* Whatever is listed depends on the subject, within the depth, in as many
\* steps as it says.  If the depth is not below the number of claims, all
\* claims are listed, each once, that depend on the subject through claims
\* that were not deprecated while the search went on.  (For smaller depths
\* the search can miss claims that are near, because it has visited something
\* on a longer way before, and list claims at the bound twice.)
ListedDepend(search) ==
  \A i \in DOMAIN search.nodes :
    /\ search.nodes[i].depth \in 1 .. search.max_depth
    /\ Within(Tenet, depends, search.subject, search.nodes[i].node_id,
              search.nodes[i].depth)

ListedOnce(search) ==
  \A i, j \in DOMAIN search.nodes :
    search.nodes[i].node_id = search.nodes[j].node_id => i = j

IsListed(search, c) == \E i \in DOMAIN search.nodes : search.nodes[i].node_id = c

DependentsFound ==
  Reported =>
    /\ ListedDepend(impact)
    /\ impact.max_depth >= Cardinality(Tenet) =>
         /\ ListedOnce(impact)
         /\ \A c \in Tenet \ {impact.subject} :
              Within(Tenet, SteadyDepends(impact), impact.subject, c, Cardinality(Tenet))
                => IsListed(impact, c)

-----------------------------------------------------------------------------
(***************************************************************************)
(* The inductive invariant behind it.                                      *)
(***************************************************************************)

IsCandidate(call, c) == \E k \in DOMAIN call.candidates : call.candidates[k] = c

\* Calls are nested: each is one deeper than the one before, of a claim of its
\* own that depends on the subject, and its candidates depend on that.
CallSound(search, i) ==
  LET call == search.calls[i] IN
  /\ call.depth = i - 1 /\ i <= search.max_depth
  /\ call.cid \in search.visited
  /\ Within(Tenet, depends, search.subject, call.cid, call.depth)
  /\ \A c \in Tenet : IsCandidate(call, c) => <<call.cid, c>> \in depends

CallsNested(search) ==
  /\ \A i \in DOMAIN search.calls : CallSound(search, i)
  /\ \A i, j \in DOMAIN search.calls :
       search.calls[i].cid = search.calls[j].cid => i = j

\* The claims that depend on a visited one are visited, or candidates of its
\* call.
DependentsSeen(search) ==
  \A e \in SteadyDepends(search) :
    e[1] \in search.visited =>
      \/ e[2] \in search.visited
      \/ \E i \in DOMAIN search.calls :
           search.calls[i].cid = e[1] /\ IsCandidate(search.calls[i], e[2])

\* What holds if the depth is not below the number of claims: all that is
\* visited is listed, once, and nothing else.
SearchComplete(search) ==
  /\ DependentsSeen(search)
  /\ search.subject \in search.visited
  /\ ListedOnce(search)
  /\ \A c \in Tenet \ {search.subject} : c \in search.visited => IsListed(search, c)
  /\ \A c \in Tenet : IsListed(search, c) => c \in search.visited

SearchSound(search) ==
  /\ CallsNested(search)
  /\ ListedDepend(search)
  /\ search.max_depth >= Cardinality(Tenet) => SearchComplete(search)

ImpactInv == ImpactTypeOK /\ (impact # NoImpact => SearchSound(impact))
=============================================================================
