SPECIFICATION ProgressSpec
CONSTANTS
  Proc = {s1, s2}
  Mail = {m1}
  Proposal = {p1}
  Key = {k1}
  TargetOf <- MCTargetOf
  ProposedAt <- MCProposedAt
  SeenVersion <- MCSeenVersion
  Time <- MCTime
  Lifetime = 0
  MaxVersion = 0
  Pid = {a, b}
  Request = {r1}
  Item = {i1}
  StoreFails = FALSE
  ReuseAs = {}
  Worker = {w}
  ShadowRun = {u1}
  Thread = {t1, t2}
  Budget = {1, 2}
  Groups = {2}
  PoolSize = 2
  MaxStops = 2
INVARIANTS OneRequest TimerWhenDue
PROPERTIES DoneAnswered RunEnds JobEnds KeepsChecking
CHECK_DEADLOCK FALSE
