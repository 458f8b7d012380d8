SPECIFICATION GatewaySpec
CONSTANTS
  o1 = o1
  o2 = o2
  p1 = p1
  p2 = p2
  curator1 = curator1
  yp1 = yp1
  yp2 = yp2
  ts1 = ts1
  NoAddress = NoAddress
  Origins = {o1}
  Proxies = {p1}
  Curators = {curator1}
  YieldPools = {yp1}
  TokenSwaps = {}
  Messages <- AssetMessages
  OriginParams <- AssetParams
  StreamingPeriods = {2}
  FRACTIONAL_BPS_DENOMINATOR = 2
  DEPLOY_TIME = 1
  INITIAL_PERIOD = 1
  INITIAL_DEPOSIT = 2
  YieldSharePrice <- UnitPrices
  SharePriceBounds = {}
  LPAmounts = {1}
  Donations = {1}
  SwapOutputs = {}
  Arrivals = {4}
  YieldChanges = {1}
  MAX_TIME = 4
  MAX_ASSETS = 4
  MAX_ARRIVED = 4
  CallValues = {3}
  SlippageBounds = {0, 2}
  MAX_WETH = 1
INVARIANTS
  TotalAssetsNeverUnderflows
  StreamEndIsBounded
PROPERTIES
  RemaindersAreLessThanAShare
  SharePriceNeverFalls
  OperationsAreNeutral
