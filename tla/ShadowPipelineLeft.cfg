SPECIFICATION Spec
CONSTANTS
  Pid = {a}
  Run = {r1, r2}
  Thread = {t1}
  MaxVersion = 1
  Budget = {1}
  Groups = {1}
  PoolSize = 1
  StoreFails = TRUE
INVARIANTS NeverLeftRunning
