CONSTANTS
  Field = {category, priority}
  Value = {x, y}
  Subject = {s1, s2}
  Request = {r1, r2}
  MaxMounts = 2
  MaxCalls = 2
  MaxLosses = 1
  MaxMoves = 1
  None = None
  Copy = {1, 2, 3}
  Decided <- MCDecided
  Placed <- MCPlaced
  Choice <- MCChoice
  WorkRequest = {"w1", "w2"}
  Handler = {h1, h2}
  CopiesPerPage = 1
  ScanSize = 1
  ScanPages = 2
  MaxChecks = 2
  MaxDecisions = 4
  MaxWorkChanges = 1
  Nothing = Nothing
SYMMETRY MCSymmetry
SPECIFICATION DeskSpec
INVARIANTS SavedIsStored DecisionsAnswered LoadedIsWhole QuietListIsTrue
PROPERTIES ReviewTakesEffect
CHECK_DEADLOCK FALSE
