SPECIFICATION Spec
CONSTANTS
  FixForwardMaxAttempts = 1
  FixForwardMaxSeconds = 2
  MaxRedispatchAttempts = 1
  CloseDeferMaxSeconds = 1
  CiVerdictMaxSeconds = 1
  Issues = {1, 2}
  Paused = {}
  Delivered = {2}
  MaxJobs = 2
  Mishaps = {"fault", "loss", "touch"}
  MaxMishaps = 1
INVARIANTS SecondRunExplained LockHasRun
  ClosesSettledRun FooterCountsJobs HandedOverStaysOut
CHECK_DEADLOCK FALSE
