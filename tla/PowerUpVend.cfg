CONSTANTS
  Icb = {FALSE, TRUE}
  Vends = {TRUE}
  MailBlocks = 2
  ForceStacks = 1
  MaxEvents = 2
SPECIFICATION Safety
CHECK_DEADLOCK FALSE
INVARIANTS VendBoxed
