CONSTANTS
  main = main
  cline = cline
  MainTask = main
  SubTasks <- MCSubTasks
  SetReq <- MCSetReq2
  CancelReq <- MCCancelReq
  Durations = {2}
  MAX_TIMER = 2
  TickMod = 3
  SubPool = 2
  Burst = 1
  MaxDelay = 2
SPECIFICATION FairSpec
PROPERTIES Expires
CHECK_DEADLOCK TRUE
