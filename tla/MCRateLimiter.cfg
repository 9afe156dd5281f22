\* The clock stops at the horizon with every call waiting.
CHECK_DEADLOCK FALSE
SPECIFICATION Spec
CONSTANTS
  Callers = {c1, c2}
  Capacity = 7
  Rate = 2
  Cost = 5
  MaxLag = 1
  LimiterFails = TRUE
  Horizon = 7
INVARIANTS
  NoWindowIsExceeded
  WaitIsLongEnough
SYMMETRY Symmetry
