SPECIFICATION FairSpec
CONSTANTS
  Jobs = {j1, j2, j3}
  Reports = {r1, r2}
  NoJob = NoJob
  MaxRestarts = 1
INVARIANTS NoChildOutlives RecordsFit RetryIsSafe
PROPERTIES JobsEnd
CHECK_DEADLOCK FALSE
