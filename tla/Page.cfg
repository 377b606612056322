CONSTANTS
  Message = {1, 2}
  Thread <- MCThread
  Initially = 1
  PageSize = 1
  MaxReads = 3
  MaxProposals = 1
  Nothing = Nothing
  Effort = 3
  Size = 3
  BatchSize = 2
  Fate = {"classified", "unread", "other"}
  Allowed = {3}
  MaxStarts = 3
  MaxWire = 2
  MaxFaults = 1
  Nil = Nil
SPECIFICATION PageSpec
CONSTRAINT MCBounds
INVARIANTS ProofIsOfThisReading DecisionTrue CampaignTrue NoBatchTwice
PROPERTIES SettledStays NewestShown
CHECK_DEADLOCK FALSE
