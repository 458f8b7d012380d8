---------------------------- MODULE NativeGateway ----------------------------
(***************************************************************************)
(* src/smart-contracts/contracts/RelayPoolNativeGateway.sol in front of a  *)
(* pool whose asset is the wrapped native currency. A call wraps what the  *)
(* caller sends and enters the pool with it, or leaves the pool and sends  *)
(* the caller what it unwraps. Other providers use the pool directly.      *)
(*                                                                         *)
(* The gateway has no fields. What outlives a call is its balance of WETH; *)
(* its allowance to the pool is always as large, since a call raises both  *)
(* by msg.value and the pool lowers both by what it takes.                 *)
(***************************************************************************)
EXTENDS RelayPool

CONSTANTS
  CallValues,     \* msg.value of a call, or the assets or shares it asks for
  SlippageBounds, \* minSharesOut, maxSharesIn and minAssetsOut of the callers
  MAX_WETH        \* bound: what may stay in the gateway

ASSUME GatewayAssumption == CallValues \subseteq Nat

VARIABLE weth     \* WETH balance of the gateway

gatewayVars == <<vars, weth>>

GatewayDeposit(value, minSharesOut) ==
  /\ Deposit(value)
  /\ PreviewDeposit(value) >= minSharesOut
  /\ UNCHANGED weth

\* Mistake: the pool mints as many shares as the caller insists on.
MintLeast(value, minSharesOut) ==
  /\ SharesEvaluate
  /\ PreviewDeposit(value) >= minSharesOut
  /\ PreviewMint(minSharesOut) <= weth + value
  /\ Mint(minSharesOut)
  /\ weth' = weth + value - PreviewMint(minSharesOut)

\* convertToShares rounds down, and so may leave value that buys no share; the
\* pool takes what the shares cost, which it rounds up.
GatewayMint(value, minSharesOut) ==
  LET shares == PreviewDeposit(value)
  IN  /\ SharesEvaluate
      /\ shares >= minSharesOut
      /\ PreviewMint(shares) <= weth + value
      /\ Mint(shares)
      /\ weth' = weth + value - PreviewMint(shares)

\* The caller's shares are burned and the assets pass through: the comparison of
\* the balance before and after sees no remainder.
GatewayWithdraw(assets, maxSharesIn) ==
  /\ Withdraw(assets)
  /\ PreviewWithdraw(assets) <= maxSharesIn
  /\ UNCHANGED weth

GatewayRedeem(shares, minAssetsOut) ==
  /\ Redeem(shares)
  /\ PreviewRedeem(shares) >= minAssetsOut
  /\ UNCHANGED weth

-----------------------------------------------------------------------------
GatewayInit == Init /\ weth = 0

GatewayNext ==
  \/ Next /\ UNCHANGED weth
  \/ \E v \in CallValues, bound \in SlippageBounds :
       \/ GatewayDeposit(v, bound)
       \/ GatewayMint(v, bound) /\ weth' <= MAX_WETH
       \/ GatewayWithdraw(v, bound)
       \/ GatewayRedeem(v, bound)

GatewaySpec == GatewayInit /\ [][GatewayNext]_gatewayVars

\* A mint spends nothing of what earlier callers left in the gateway, although
\* its allowance covers that too, and leaves there less than one share is worth:
\* the two roundings of convertToShares and previewMint never add up to more.
RemaindersAreLessThanAShare ==
  [][weth' # weth =>
       /\ weth' > weth
       /\ (weth' - weth) * totalSupply < TotalAssets]_gatewayVars
=============================================================================
