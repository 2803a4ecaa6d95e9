CONSTANTS
  Ways = {"parallel"}
  Icb = {FALSE}
  MailBlocks = 2
  PushRetries = 1
  HomeRetries = 1
  MaxPauses = 0
SPECIFICATION Safety
CHECK_DEADLOCK FALSE
INVARIANT StackLock
