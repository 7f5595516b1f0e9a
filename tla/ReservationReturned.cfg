SPECIFICATION Spec
CONSTANTS
  Calls = {c1, c2, c3}
  Kinds = {"execute", "fixer", "chat", "notools", "conv", "stream", "liststream"}
  MaxConcurrency = 1
  MaxQueueDepth = 2
  MaxRestarts = 1
SYMMETRY CallSymmetry
INVARIANTS ReservationReturned
CHECK_DEADLOCK FALSE
