CONSTANTS
  MaxTries = 5
  ProbeEvery = 3
  RpcSlots = 2
  MaxAttempts = 2
  MaxPackets = 3
SPECIFICATION FairSpec
CHECK_DEADLOCK FALSE
INVARIANTS ReleasedAfterStop SpeaksOneProtocol
PROPERTY CheckEnds
