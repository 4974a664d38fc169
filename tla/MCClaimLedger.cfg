\* One claim under three edits, overrides to any status; or two claims, with
\* overrides to verified, where the numbers of revisions collide.
CONSTANTS
  c1 = c1
  Claim = {c1, c2}
  Session = {s1, s2}
  OverrideTargets <- AllStatuses
  FewTargets = {"verified"}
  MaxEdits = 3
  Nil = Nil
SPECIFICATION LedgerSpec
INVARIANTS
  VersionNotAhead
  StatusExplained
  NumbersDense
PROPERTIES
  FreshEditsObeyGraph
  NoSilentTransition
  RequestsFinish
\* MaxEdits stops the system.
CHECK_DEADLOCK FALSE
