CONSTANTS
  Mailbox <- MCMailbox
  Message <- MCMessage
  Date <- MCDate
  Initial <- MCInitial
  Access <- MCAccess
  View <- MCView
  Query <- MCQuery
  Matches <- MCMatches
  Request = {p, q}
  PageSize = 1
  MaxReads = 3
  MaxChanges = 1
  None = None
SPECIFICATION Spec
INVARIANTS NothingWhileListReads
CHECK_DEADLOCK FALSE
