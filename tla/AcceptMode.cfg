CONSTANTS
  NoDenomi = NoDenomi
  Denomis = {d1, d2}
  Accepted = {d1}
  MailBlocks = 3
SPECIFICATION Spec
INVARIANTS TypeOK Answered FirstNoteSettled
PROPERTIES OfferedClean PathClear Implements Settles
CHECK_DEADLOCK FALSE
