SPECIFICATION FairSpec
CONSTANTS
  Calls = {c1, c2, c3, c4}
  Kinds = {"notools", "stream"}
  MaxConcurrency = 2
  MaxQueueDepth = 4
  MaxRestarts = 0
INVARIANTS CountersAgree NoLostWakeup
PROPERTIES AdmissionSpec AdmittedFinishes
CHECK_DEADLOCK FALSE
