\* Are messages delivered in order, as the queue promises?
CONSTANTS
  Item = {m1, m2}
  Loop = {l1}
  MaxAttempts = 2
  MaxRetries = 1
  MaxRestarts = 0
  Nil = Nil
SPECIFICATION Spec
INVARIANTS InOrder
