CONSTANTS
  NoDenomi = NoDenomi
  Denomis = {d1, d2}
  Accepted = {d1}
  MailBlocks = 2
SPECIFICATION Safety
PROPERTIES CreditTold
CHECK_DEADLOCK FALSE
