CONSTANTS
  MaxVoiceData = 3
  MaxJlData = 2
  VoiceFrames <- MCVoiceFrames
  JlPackets <- MCJlPackets
  Noise <- MCNoise
  MaxFrames = 3
  MaxErrors = 1
SPECIFICATION Spec
CHECK_DEADLOCK FALSE
INVARIANTS FsmInv FramesDelivered PhantomOnlyFromCut
