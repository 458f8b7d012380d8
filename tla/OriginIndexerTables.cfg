SPECIFICATION IndexSpec
CONSTANTS
  o1 = o1  o2 = o2  p1 = p1  p2 = p2  m1 = m1  m2 = m2  m3 = m3
  Origins = {o1, o2}
  Proxies = {p1}
  Destination <- OneProxy
  Configured <- Correct
  Limits = {3}
  Fees = {3}
  Messages = {m1, m3}
  From <- Senders
  Amount <- Amounts
  FRACTIONAL_BPS_DENOMINATOR = 4
  BPS_DIVISOR = 2
  MAX_PENDING = 3
INVARIANTS OriginIndexerTypeOK NoHandlerThrows FeesAreNotOverstated DebtCheckReportsDisabled
PROPERTY ImplementsMirror
