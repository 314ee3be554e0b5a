CONSTANTS
  MaxQueueSize = 3
  MaxMessages = 3
  MaxSessions = 4
SPECIFICATION SessionSpec
CHECK_DEADLOCK FALSE
INVARIANT NoParseAfterClose
