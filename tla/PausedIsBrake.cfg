SPECIFICATION Spec
CONSTANTS
  FixForwardMaxAttempts = 1
  FixForwardMaxSeconds = 2
  MaxRedispatchAttempts = 1
  CloseDeferMaxSeconds = 1
  CiVerdictMaxSeconds = 1
  Issues = {1}
  Paused = {1}
  Delivered = {1}
  MaxJobs = 2
  Mishaps = {}
  MaxMishaps = 0
INVARIANTS PausedIsBrake
CHECK_DEADLOCK FALSE
