SPECIFICATION Spec
CONSTANTS
  Pid = {a, b}
  Request = {r1, r2}
  Item = {i1, i2}
  StoreFails = TRUE
  ReuseAs = {"server", "foreign"}
SYMMETRY MCSymmetry
INVARIANTS OneActive JobOwnsRun EndingAccounts
PROPERTIES FinalIsFinal StopRespected
