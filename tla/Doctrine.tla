------------------------------ MODULE Doctrine ------------------------------
(***************************************************************************)
(* The precedence of sources and the conflicts it raises: the checks that  *)
(* PrecedenceEngine and ConflictDetector compute, without state.  Each     *)
(* check returns a level, a reason and a review flag; the levels and the   *)
(* flag are kept, the reasons and severities are not.                      *)
(***************************************************************************)
EXTENDS Integers, Sequences

\* Highest authority first.
PrecedenceOrder ==
  << "immutable_core", "constitutional_doctrine", "governance_spec",
     "technical_spec", "implementation_spec", "commentary", "curriculum",
     "external_reference" >>

SourceType == {PrecedenceOrder[i] : i \in DOMAIN PrecedenceOrder}

Classification == {"reinforces", "clarifies", "operationalizes", "extends",
                   "conflicts_with", "supersedes", "deprecated_by"}

\* No classification, or no incumbent.
None == "none"

\* 0 is the highest authority; a missing incumbent is below everything.
PrecedenceLevel(type) ==
  IF type = None THEN Len(PrecedenceOrder)
  ELSE (CHOOSE i \in DOMAIN PrecedenceOrder : PrecedenceOrder[i] = type) - 1

AltersDoctrine == {"supersedes", "conflicts_with", "deprecated_by"}

\* The review flag of PrecedenceEngine.check: the branches of its elif chain
\* all raise the flag and differ in the reason they give.
RequiresReview(type, classification, incumbent) ==
  \/ classification = "conflicts_with"
  \/ /\ classification \in {"conflicts_with", "supersedes"} /\ incumbent # None
     /\ PrecedenceLevel(type) > PrecedenceLevel(incumbent)
  \/ incumbent = "immutable_core" /\ classification \in AltersDoctrine

\* The types of the conflicts ConflictDetector.detect finds.  core says
\* whether there is a verified claim of an immutable source, incumbents are
\* the source types of the claims named by the caller.
DetectConflicts(type, classification, core, incumbents) ==
  LET challenges ==
        IF /\ type # "immutable_core" /\ classification \in AltersDoctrine
           /\ core /\ RequiresReview(type, classification, "immutable_core")
        THEN {"immutable_core"} ELSE {}
      violations ==
        IF \E t \in incumbents : RequiresReview(type, classification, t)
        THEN {"precedence_violation"} ELSE {}
      semantic ==
        IF classification = "conflicts_with" /\ challenges \cup violations = {}
        THEN {"semantic_conflict"} ELSE {}
  IN  challenges \cup violations \cup semantic

\* An import names no incumbents and adds the check across nodes.  Every
\* conflict asks for constitutional review.
ImportConflicts(type, classification, core) ==
  DetectConflicts(type, classification, core, {})
    \cup (IF classification \in {"supersedes", "conflicts_with"}
          THEN {"cross_node"} ELSE {})

-----------------------------------------------------------------------------
(***************************************************************************)
(* The doctrine safeguard of agent workers, which looks at a proposal by   *)
(* itself: its classification and the type of its source.                  *)
(***************************************************************************)
RestrictedClassifications == {"conflicts_with", "supersedes"}

ProtectedSourceTypes ==
  {"immutable_core", "constitutional_doctrine", "governance_spec"}

\* The flag that a proposal of a worker gets, without the one it may carry.
CheckDoctrineSafeguards(type, classification) ==
  \/ classification \in RestrictedClassifications
  \/ type \in ProtectedSourceTypes

-----------------------------------------------------------------------------
\* Authority is respected by every classification: if a source may act on a
\* claim without a review, so may every source of higher authority.
AuthorityIsMonotone ==
  \A a, b \in SourceType, cl \in Classification \cup {None},
     i \in SourceType \cup {None} :
    PrecedenceLevel(a) <= PrecedenceLevel(b) =>
      (RequiresReview(a, cl, i) => RequiresReview(b, cl, i))

\* What the precedence of sources sends to a review, whatever the incumbent,
\* the safeguard of the workers has flagged before, except one kind: a
\* proposal from outside the protected sources to deprecate a claim of the
\* immutable core.
SafeguardCoversPrecedence ==
  \A t \in SourceType, cl \in Classification \cup {None},
     i \in SourceType \cup {None} :
    RequiresReview(t, cl, i) =>
      \/ CheckDoctrineSafeguards(t, cl)
      \/ cl = "deprecated_by" /\ i = "immutable_core"
=============================================================================
