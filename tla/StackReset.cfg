CONSTANTS
  Ways = {"parallel"}
  Icb = {FALSE}
  MailBlocks = 2
  PushRetries = 1
  HomeRetries = 1
  MaxPauses = 0
SPECIFICATION Spec
CHECK_DEADLOCK FALSE
PROPERTY StackReset
