\* Is every claim that a lesson cites verified when the lesson is written?
CONSTANTS
  Claim = {c1}
  Course = {k1}
  Lesson = {l1}
  Credential = {d1}
  Session = {s1, s2}
  ClaimTargets = {"draft", "verified", "deprecated"}
  Nil = Nil
SPECIFICATION Spec
PROPERTIES CitesVerifiedWhenWritten
