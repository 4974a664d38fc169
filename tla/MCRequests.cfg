\* Queue: one message, two processing loops (started twice, or stopped and
\* started), retries at both levels, lost and late posts, a restart of the
\* receiver.  Registrations: two sessions, three concepts, a document, a node.
CONSTANTS
  Item = {m1}
  Loop = {l1, l2}
  MaxAttempts = 2
  MaxRetries = 2
  MaxRestarts = 1
  Nil = Nil
  a = a
  b = b
  c = c
  Concept = {a, b, c}
  Triple <- MCTriple
  Document = {d1}
  StandardName = {}
  NodeName = {n2}
  Fingerprint = {}
  Session = {s1, s2}
  MaxRows = 5
  NoWork = NoWork
SPECIFICATION RequestsSpec
INVARIANTS
  OnePlace
  OncePerMessage
  RegistrationTypeOK
  NewConceptsKeepEdgesUnique
PROPERTIES
  ImplementsOutbox
  EverySettles
  RequestsEnd
