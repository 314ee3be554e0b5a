CONSTANTS
  main = main
  player = player
  jl_ota = jl_ota
  Tasks <- MCTasks
  OtaTasks <- MCOtaTasks
  MaxSends = 1
  GdmaMayRunOut = TRUE
SPECIFICATION Spec
SYMMETRY Symmetry
CHECK_DEADLOCK FALSE
INVARIANTS TokenAccounting NoStaleToken
PROPERTY ImplementsShared
