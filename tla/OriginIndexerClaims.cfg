SPECIFICATION FairSpec
CONSTANTS
  o1 = o1  o2 = o2  p1 = p1  p2 = p2  m1 = m1  m2 = m2  m3 = m3
  Origins = {o1}
  Proxies = {p1, p2}
  Destination <- OneProxy
  Configured <- AnyProxy
  Limits = {3}
  Fees = {3}
  Messages = {m1, m2}
  From <- Senders
  Amount <- Amounts
  FRACTIONAL_BPS_DENOMINATOR = 4
  BPS_DIVISOR = 2
  MAX_PENDING = 2
PROPERTY EveryBalanceIsClaimed
