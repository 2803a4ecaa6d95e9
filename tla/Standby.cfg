CONSTANTS
  Options = {FALSE, TRUE}
  Lost <- LostOnes
  MailBlocks = 2
  MaxEvents = 2
SPECIFICATION Spec
CHECK_DEADLOCK FALSE
INVARIANTS TypeOK RejectAwaited TakenWithLeave OneMoves Ready Agree
PROPERTIES ResetGoesFirst Settles BoxRecovers ResetEnds
