SPECIFICATION Spec
CONSTANTS
  o1 = o1
  o2 = o2
  p1 = p1
  p2 = p2
  curator1 = curator1
  yp1 = yp1
  yp2 = yp2
  ts1 = ts1
  NoAddress = NoAddress
  Origins = {o1, o2}
  Proxies = {p1, p2}
  Curators = {curator1}
  YieldPools = {yp1, yp2}
  TokenSwaps = {ts1}
  Messages <- DebtMessages
  OriginParams <- DebtParams
  StreamingPeriods = {}
  FRACTIONAL_BPS_DENOMINATOR = 2
  DEPLOY_TIME = 1
  INITIAL_PERIOD = 1
  INITIAL_DEPOSIT = 4
  YieldSharePrice <- UnitPrices
  SharePriceBounds = {1, 2}
  LPAmounts = {}
  Donations = {1}
  SwapOutputs = {1}
  Arrivals = {1, 3}
  YieldChanges = {}
  MAX_TIME = 2
  MAX_ASSETS = 4
  MAX_ARRIVED = 4
INVARIANTS
  TypeOK
  DebtIsSumOfOrigins
  PaidAtMostOnce
  FeeShortfallIsRounding
PROPERTIES
  DebtRisesWithinLimit
