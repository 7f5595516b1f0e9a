SPECIFICATION FairSpec
CONSTANTS
  Commit = mine
  Others = {other}
  PerPage = 2
  Window = 4
  BuildObserved = TRUE
  Armed = TRUE
  Statuses = {"pending", "skipped", "killed"}
  Conclusions = {"success", "timed_out"}
  MaxPipelines = 5
  MaxOwn = 2
  MaxChecks = 2
  MaxMishaps = 2
INVARIANTS GreenEarned RedEarned NothingMissed ForcedOnce
PROPERTY GreenComes
CHECK_DEADLOCK FALSE
