CONSTANTS
  Mailbox <- MCMailbox
  Message <- MCMessage
  Date <- MCDate
  Initial <- MCInitial
  Access <- MCAccess
  View <- MCView
  Query <- MCQuery
  Matches <- MCMatches
  Request = {p, q}
  PageSize = 1
  MaxReads = 3
  MaxChanges = 1
  None = None
CONSTRAINT MCReads
SYMMETRY MCSymmetry
SPECIFICATION Spec
INVARIANTS OfferedStands CursorContinues QuietReadingIsExact RemovedIsGone
CHECK_DEADLOCK FALSE
