SPECIFICATION ClaimerSpec
CONSTANTS
  t1 = t1
  t2 = t2
  t3 = t3
  t4 = t4
  t5 = t5
  t6 = t6
  l1 = l1
  l2a = l2a
  l2b = l2b
  l2c = l2c
  l2d = l2d
  k1 = k1
  k2 = k2
  k3 = k3
  NoKey = NoKey
  Transfers = {t1, t2, t3, t4, t5, t6}
  Chains = {l1, l2a, l2b, l2c, l2d}
  PoolChain = l1
  Origin <- FourOrigins
  Stack <- AllStacks
  Keys = {k1, k2, k3}
  Key <- SharedKeys
  LastOf <- OneTransaction
  MAX_PENDING = 2
  Unfetched = {t1, t6}
  Indirect = {k3}
  OutsideExits = {t1, t2, t3, t6}
CONSTRAINT
  OnePair
INVARIANTS
  IndexerTypeOK
  StatusMatchesEvidence
  EvidenceIsReal
  EvidenceReachesTheRow
  HandledRowsAreComplete
  RequestsAreComplete
PROPERTIES
  ImplementsProgress
CHECK_DEADLOCK FALSE
