CONSTANTS
  Capacity = 64
  VoiceFrames <- MCVoiceFrames
  JlFrames <- MCJlFrames
  MaxFrames = 5
SPECIFICATION FairSpec
CHECK_DEADLOCK FALSE
INVARIANTS RxInv AtMostOneSwallowed PacketsInOrder
PROPERTY PacketsMoveUnlessWedged
