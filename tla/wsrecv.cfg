CONSTANTS
  Streams <- MCStreams
  MaxRx = 4
  Slack = 6
  ReadMax = 6
  RecordSizes = {1, 5, 12}
SPECIFICATION FairSpec
CHECK_DEADLOCK FALSE
INVARIANTS ReceiveInv InStepUnlessStraddled DeliveredExactly LongAreDiscarded
PROPERTY AllHandled
