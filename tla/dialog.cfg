CONSTANTS
  Chunks = 1
  Part = 2
  MaxSounds = 3
  MaxWakes = 2
  MaxSpeeches = 2
  MaxAudio = 2
SPECIFICATION FairSpec
CHECK_DEADLOCK FALSE
INVARIANTS DialogInv EarlyOnlyByLeftover LateByOne
PROPERTIES SoundsArePlayed WakeWordAnswered SpeechHeardToTail
