SPECIFICATION FairVaultsSpec
CONSTANTS
  o1 = o1
  o2 = o2
  p1 = p1
  p2 = p2
  curator1 = curator1
  yp1 = yp1
  NoAddress = NoAddress
  Origins = {o1, o2}
  Proxies = {p1}
  Curators = {curator1}
  YieldPools = {yp1}
  TokenSwaps = {}
  Messages <- SharedMessages
  OriginParams <- SharedParams
  StreamingPeriods = {}
  FRACTIONAL_BPS_DENOMINATOR = 2
  DEPLOY_TIME = 1
  INITIAL_PERIOD = 10
  INITIAL_DEPOSIT = 4
  YieldSharePrice <- UnitPrices
  SharePriceBounds = {}
  LPAmounts = {}
  Donations = {}
  SwapOutputs = {}
  Arrivals = {2, 3, 4}
  YieldChanges = {}
  MAX_TIME = 3
  MAX_ASSETS = 12
  MAX_ARRIVED = 8
  L1Proxy <- SharedProxy
  Native = {o1}
  DepositFee <- NoDepositFee
  HYPERLANE_FEE = 1
  Values = {3, 5}
  MAX_SKEW = 1
INVARIANTS
  LoansAreBacked
PROPERTIES
  ImplementsLedger
  EveryTransferIsPaid
  EveryLoanIsRepaid
