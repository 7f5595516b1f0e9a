SPECIFICATION Spec
CONSTANTS
  FixForwardMaxAttempts = 1
  FixForwardMaxSeconds = 2
  MaxRedispatchAttempts = 1
  CloseDeferMaxSeconds = 1
  CiVerdictMaxSeconds = 1
  Issues = {1}
  Paused = {}
  Delivered = {}
  MaxJobs = 2
  Mishaps = {"touch"}
  MaxMishaps = 1
INVARIANTS ClosedOnOwnCommit
CHECK_DEADLOCK FALSE
