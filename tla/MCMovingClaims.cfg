\* Curriculum: two sessions edit a course (and may name it its own successor),
\* write a lesson about two claims and award a credential.  Federation: two
\* sessions of two nodes on one claim with or without an origin, of each
\* classification that matters.
CONSTANTS
  Claim = {c1, c2}
  Session = {s1, s2}
  ClaimTargets = {"verified", "deprecated"}
  Nil = Nil
  Course = {k1}
  Lesson = {l1}
  Credential = {d1}
  Node = {n1, n2}
  Origins = {n1, Nil}
  Types = {"immutable_core", "curriculum"}
  Classifications = {"none", "conflicts_with", "supersedes", "deprecated_by"}
  MaxRecords = 3
SPECIFICATION ReadersSpec
SYMMETRY Symmetry
INVARIANTS
  StateHasEvidence
  CredentialsFollowPublication
  CitationsWereVerified
  CategoryIsRecorded
  ImportsNameAPublisher
  PublishedWasVerified
  ImportsAreFlagged
PROPERTIES
  FreshEditsKeepLive
