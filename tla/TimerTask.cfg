CONSTANTS
  main = main
  cline = cline
  MainTask = main
  SubTasks <- MCSubTasks
  SetReq <- MCSetReq
  CancelReq <- MCCancelReq
  Durations = {2}
  MAX_TIMER = 3
  TickMod = 2
  SubPool = 2
  Burst = 1
  MaxDelay = 2
SPECIFICATION Spec
INVARIANTS TypeOK NeverDropped
PROPERTIES NotEarly Implements
CHECK_DEADLOCK TRUE
