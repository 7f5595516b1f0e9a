SPECIFICATION FairSpec
CONSTANTS
  FixForwardMaxAttempts = 1
  FixForwardMaxSeconds = 2
  MaxRedispatchAttempts = 0
  CloseDeferMaxSeconds = 1
  CiVerdictMaxSeconds = 1
  Issues = {1, 2}
  Paused = {}
  Delivered = {}
  MaxJobs = 4
  Mishaps = {"loss"}
  MaxMishaps = 1
PROPERTIES LockReleased NothingLost
CHECK_DEADLOCK FALSE
