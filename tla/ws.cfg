CONSTANTS
  MaxQueueSize = 3
  MaxMessages = 3
  MaxSessions = 4
SPECIFICATION FairSessionSpec
CHECK_DEADLOCK FALSE
INVARIANTS PolledIsLive LeftBehind
PROPERTY ClosingEnds
