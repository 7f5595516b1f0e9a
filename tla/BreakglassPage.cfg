SPECIFICATION FairSpec
CONSTANTS
  Clients = {a}
  Stops = {x}
  MaxSessions = 2
  MaxTurns = 2
  MaxOutput = 1
  MaxMishaps = 1
INVARIANTS TypeOK ShownInOrder AgentHasTurn TurnsReported BusyTracksTurn
PROPERTIES StopStops TurnEnds
CHECK_DEADLOCK FALSE
