SPECIFICATION Spec
CONSTANTS
  p1 = p1  p2 = p2  a1 = a1  a2 = a2  zero = zero
  Pools = {p1, p2}
  Curated = {p1}
  Accounts = {a1, a2}
  Timelock = a1
  ZeroAddress = zero
  Amounts = {0, 1}
  Batching = TRUE
  MAX_TX = 2
  MAX_PENDING = 4
INVARIANTS ShareIndexerTypeOK TotalsAddUp HoldersHaveRows TransactionsAreRecorded
PROPERTY SharesImplementMirror
CHECK_DEADLOCK FALSE
