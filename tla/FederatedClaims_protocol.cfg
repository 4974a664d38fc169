\* Do imports and contests move the category of a claim as documented?
CONSTANTS
  Claim = {c1}
  Node = {n1, n2}
  Session = {s1, s2}
  Origins = {n1, Nil}
  Types = {"curriculum"}
  Classifications = {"none"}
  ClaimTargets = {"verified", "deprecated"}
  MaxRecords = 3
  Nil = Nil
SPECIFICATION FederationSpec
PROPERTIES CategoryFollowsProtocol
\* MaxRecords does not stop the system: policies and claims go on moving.
