SPECIFICATION VaultsSpec
CONSTANTS
  o1 = o1
  o2 = o2
  p1 = p1
  p2 = p2
  curator1 = curator1
  yp1 = yp1
  NoAddress = NoAddress
  Origins = {o1}
  Proxies = {p1}
  Curators = {curator1}
  YieldPools = {yp1}
  TokenSwaps = {}
  Messages <- DepositMessages
  OriginParams <- DepositParams
  StreamingPeriods = {}
  FRACTIONAL_BPS_DENOMINATOR = 2
  DEPLOY_TIME = 1
  INITIAL_PERIOD = 1
  INITIAL_DEPOSIT = 3
  YieldSharePrice <- UnitPrices
  SharePriceBounds = {}
  LPAmounts = {}
  Donations = {}
  SwapOutputs = {}
  Arrivals = {1, 2}
  YieldChanges = {}
  MAX_TIME = 2
  MAX_ASSETS = 8
  MAX_ARRIVED = 6
  L1Proxy <- SharedProxy
  Native = {o1}
  DepositFee <- SomeDepositFee
  HYPERLANE_FEE = 1
  Values = {2, 4}
  MAX_SKEW = 1
INVARIANTS
  VolumeIsReplenished
