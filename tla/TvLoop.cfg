SPECIFICATION FairSpec
CONSTANTS
  FixForwardMaxAttempts = 1
  FixForwardMaxSeconds = 2
  MaxRedispatchAttempts = 1
  CloseDeferMaxSeconds = 1
  CiVerdictMaxSeconds = 1
  Owner = Owner
  Guest = Guest
  Bot = Bot
  FeedbackBot = FeedbackBot
  Collaborators = {Owner, Guest, Bot}
  Allowlist = {"tv"}
  KillSwitch = FALSE
  Issues = {1, 2}
  Approved = {1}
  Blocked = {}
  MaxJobs = 2
  MaxMishaps = 1
INVARIANTS TypeOK RunsAreAsked HandoverTruthful
PROPERTIES NoSelfRestart LockReleased ReplyAnswered
CHECK_DEADLOCK FALSE
