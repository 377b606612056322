CONSTANTS
  Size = 3
  BatchSize = 2
  Fate = {"classified", "unread", "other"}
  Allowed = {3}
  MaxStarts = 3
  MaxWire = 2
  MaxFaults = 1
  Nil = Nil
SPECIFICATION ClientSpec
INVARIANT CountedOnce
CHECK_DEADLOCK FALSE
