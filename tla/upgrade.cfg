CONSTANTS
  MaxTries = 2
  ProbeEvery = 3
  RpcSlots = 2
  MaxAttempts = 4
  MaxPackets = 1
  Script <- MCScript
  MaxFaults = 3
  MaxResets = 1
SPECIFICATION UpgradeSpec
CHECK_DEADLOCK FALSE
INVARIANTS UpgradeInv OutcomeIsTheChips InStepUnlessUpgraded
PROPERTIES UpgradeEnds
