\* Is the id of a message kept as long as its copies are acceptable?
CONSTANTS
  Message = {m1, m2}
  Window = 2
  MaxCache = 2
  MaxTime = 5
SPECIFICATION ReplaySpec
INVARIANTS NeverTwice
\* The clock stops at MaxTime.
CHECK_DEADLOCK FALSE
