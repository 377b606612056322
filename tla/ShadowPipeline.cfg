SPECIFICATION Spec
CONSTANTS
  Pid = {a, b}
  Run = {r1, r2}
  Thread = {t1, t2}
  MaxVersion = 2
  Budget = {1, 2}
  Groups = {1, 2}
  PoolSize = 2
  StoreFails = FALSE
CONSTRAINT MCBounds
SYMMETRY MCSymmetry
INVARIANTS WorkIsOwned CompletedCovers BudgetKept
PROPERTIES NoDoubleCall StopHeard
