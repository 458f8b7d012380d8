SPECIFICATION FairClaimerSpec
CONSTANTS
  t1 = t1
  t2 = t2
  t3 = t3
  t4 = t4
  t5 = t5
  t6 = t6
  l1 = l1
  l2a = l2a
  l2b = l2b
  l2c = l2c
  l2d = l2d
  k1 = k1
  k2 = k2
  k3 = k3
  NoKey = NoKey
  Transfers = {t1, t2}
  Chains = {l1, l2a, l2b}
  PoolChain = l1
  Origin <- TwoOrigins
  Stack <- OpAndOrbit
  Keys = {k1, k2}
  Key <- OneKey
  LastOf <- OwnTransaction
  MAX_PENDING = 2
  Unfetched = {}
  Indirect = {}
  OutsideExits = {}
PROPERTIES
  EveryLoanIsFinalized
CHECK_DEADLOCK FALSE
