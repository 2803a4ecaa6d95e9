CONSTANTS
  Icb = {FALSE, TRUE}
  Vends = {TRUE}
  MailBlocks = 2
  ForceStacks = 1
  MaxEvents = 2
SPECIFICATION Spec
CHECK_DEADLOCK FALSE
INVARIANTS TypeOK CountedOnce
PROPERTIES Implements ResetGoesFirst Recovers Settles
