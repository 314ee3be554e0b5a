CONSTANTS
  MaxTries = 2
  Chunks = 1
  MaxPackets = 1
  MaxWakes = 2
SPECIFICATION FairSpec
CHECK_DEADLOCK FALSE
INVARIANTS BootInv FewStrayFrames
PROPERTY BootCompletes
