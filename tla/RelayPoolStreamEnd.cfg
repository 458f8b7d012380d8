SPECIFICATION Spec
CONSTANTS
  o1 = o1
  o2 = o2
  p1 = p1
  p2 = p2
  curator1 = curator1
  yp1 = yp1
  yp2 = yp2
  ts1 = ts1
  NoAddress = NoAddress
  Origins = {o1}
  Proxies = {p1}
  Curators = {curator1}
  YieldPools = {yp1}
  TokenSwaps = {}
  Messages <- AssetMessages
  OriginParams <- AssetParams
  StreamingPeriods = {}
  FRACTIONAL_BPS_DENOMINATOR = 2
  DEPLOY_TIME = 1
  INITIAL_PERIOD = 2
  INITIAL_DEPOSIT = 4
  YieldSharePrice <- UnitPrices
  SharePriceBounds = {}
  LPAmounts = {}
  Donations = {1}
  SwapOutputs = {}
  Arrivals = {}
  YieldChanges = {}
  MAX_TIME = 4
  MAX_ASSETS = 8
  MAX_ARRIVED = 4
INVARIANTS
  EndedStreamReturnsZero
