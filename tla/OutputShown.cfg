SPECIFICATION Spec
CONSTANTS
  Clients = {a}
  Stops = {x}
  MaxSessions = 2
  MaxTurns = 2
  MaxOutput = 1
  MaxMishaps = 1
INVARIANTS OutputShown
CHECK_DEADLOCK FALSE
