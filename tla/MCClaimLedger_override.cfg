\* Does a human override always win, as the architecture says?
CONSTANTS
  c1 = c1
  Claim = {c1}
  Session = {s1, s2}
  OverrideTargets = {"verified"}
  FewTargets = {"verified"}
  MaxEdits = 2
  Nil = Nil
SPECIFICATION LedgerSpec
PROPERTIES HumanOverrideWins
CHECK_DEADLOCK FALSE
