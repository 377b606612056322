SPECIFICATION Spec
CONSTANTS
  Pid = {a}
  Request = {r1}
  Item = {i1}
  StoreFails = FALSE
  ReuseAs = {}
INVARIANT FinishedLeavesNoItemQueued
CHECK_DEADLOCK FALSE
