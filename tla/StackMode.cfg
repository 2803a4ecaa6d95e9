CONSTANTS
  Ways = {"parallel", "single", "security"}
  Icb = {FALSE, TRUE}
  MailBlocks = 3
  PushRetries = 1
  HomeRetries = 1
  MaxPauses = 2
SPECIFICATION Spec
CHECK_DEADLOCK FALSE
INVARIANTS TypeOK Recoverable LeavesRecovery HandsOver
PROPERTIES ResetEndsNote PulledClean Implements Finishes
