CONSTANTS
  o = o
  a = a
  m1 = m1
  m2 = m2
  m3 = m3
  User = {o, a}
  Owner = o
  Reader = a
  Reported = {}
  Blocks <- MCBlocks
  Message = {m1, m2}
  SenderOf <- MCSender
  Rank <- MCRank
  Request = {r1, r2}
  Conv = Conv
  Barrier = Barrier
  PageSize = 1
SPECIFICATION Spec
CHECK_DEADLOCK FALSE
INVARIANTS NoLockCycle
