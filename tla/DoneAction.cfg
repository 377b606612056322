SPECIFICATION Spec
CONSTANTS
  s1 = s1
  s2 = s2
  m1 = m1
  p1 = p1
  p2 = p2
  k1 = k1
  k2 = k2
  Proc = {s1, s2}
  Message = {m1}
  Proposal = {p1, p2}
  Key = {k1, k2}
  TargetOf <- MCTargetOf
  ProposedAt <- MCProposedAt
  SeenVersion <- MCSeenVersion
  Time <- MCTime
  Lifetime = 0
  MaxVersion = 1
SYMMETRY MCSymmetry
INVARIANTS TypeOK OneUnresolved ApprovedAttempt ConfirmedWasArchived HonestAnswer
PROPERTIES NoBlindRetry JournalFinal LockSpec
