CONSTANTS
  jl_ota = jl_ota
  Tasks <- MCTasks
  OtaTasks <- MCTasks
  Sender = jl_ota
  MaxSends = 4
  GdmaMayRunOut = FALSE
SPECIFICATION FairSpec
CHECK_DEADLOCK FALSE
PROPERTIES ImplementsLink EverySendReturns ReturnMeansSent
