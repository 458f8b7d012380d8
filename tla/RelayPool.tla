------------------------------ MODULE RelayPool ------------------------------
(***************************************************************************)
(* The vault of src/smart-contracts/contracts/RelayPool.sol: liquidity     *)
(* providers deposit one asset, which the pool keeps in a yield pool; a    *)
(* Hyperlane message from an authorised origin makes it lend that asset to *)
(* a user at once (handle); the bridged funds arrive much later at the     *)
(* origin's BridgeProxy and anybody may collect them (claim).              *)
(*                                                                         *)
(* One action is one transaction: it happens completely or, when the code  *)
(* reverts, not at all, so a revert is an action that is not enabled.      *)
(* Amounts are natural numbers. Checked uint256 subtractions that would    *)
(* underflow are guards.                                                   *)
(***************************************************************************)
EXTENDS OriginSums

CONSTANTS
  Origins,        \* the [chainId][bridge] keys of authorizedOrigins
  Proxies,        \* BridgeProxy contracts on the pool's chain
  Curators,       \* accounts that may be an origin's curator
  YieldPools,     \* ERC4626 vaults that can be the base yield pool
  TokenSwaps,     \* TokenSwap contracts the owner may choose
  NoAddress,      \* address(0)
  Messages,       \* Hyperlane messages the origins' RelayBridges dispatched
  OriginParams,   \* arguments addOrigin is called with
  StreamingPeriods,             \* arguments of updateStreamingPeriod
  FRACTIONAL_BPS_DENOMINATOR,   \* what bridgeFee is a fraction of
  DEPLOY_TIME,    \* block timestamp of the deployment
  INITIAL_PERIOD, \* streamingPeriod at deployment (7 days)
  INITIAL_DEPOSIT,\* what RelayPoolFactory deposits for the timelock
  YieldSharePrice,\* convertToAssets(one share) of each yield pool
  SharePriceBounds,             \* slippage bounds the owner passes
  LPAmounts,      \* assets or shares of one deposit, mint, withdraw, redeem
  Donations,      \* assets that reach the pool without being deposited
  SwapOutputs,    \* assets that one swap returns
  Arrivals,       \* assets that one native bridge transfer delivers
  YieldChanges,   \* changes of the yield pool's value between two steps
  MAX_TIME,       \* bound: the last block timestamp
  MAX_ASSETS,     \* bound: what the pool may hold when assets come in
  MAX_ARRIVED     \* bound: what may wait at one proxy

Settings == [curator: Curators \cup {NoAddress}, proxyBridge: Proxies \cup {NoAddress},
             maxDebt: Nat, bridgeFee: Nat, coolDown: Nat]

Message == [origin: Origins, nonce: Nat, amount: Nat, timestamp: Nat]

ASSUME OriginsAssumption == IsFiniteSet(Origins)
ASSUME AddressAssumption == NoAddress \notin Curators \cup Proxies \cup TokenSwaps
ASSUME MessagesAssumption == Messages \subseteq Message
ASSUME ParamsAssumption ==
  /\ OriginParams \subseteq [origin: Origins, settings: Settings]
  /\ StreamingPeriods \subseteq Nat
  /\ YieldSharePrice \in [YieldPools -> Nat]
  /\ SharePriceBounds \subseteq Nat
ASSUME AmountsAssumption ==
  /\ LPAmounts \subseteq Nat
  /\ Donations \subseteq Nat
  /\ SwapOutputs \subseteq Nat
  /\ Arrivals \subseteq Nat
  /\ YieldChanges \subseteq Int
ASSUME NumbersAssumption ==
  /\ FRACTIONAL_BPS_DENOMINATOR \in Nat \ {0}
  /\ DEPLOY_TIME \in Nat \ {0}
  /\ INITIAL_PERIOD \in Nat
  /\ INITIAL_DEPOSIT \in Nat \ {0}
  /\ MAX_TIME \in Nat
  /\ MAX_ASSETS \in Nat
  /\ MAX_ARRIVED \in Nat

VARIABLES
  now,                   \* block.timestamp
  yieldPool,             \* the current base yield pool
  yieldBalance,          \* previewRedeem of the pool's shares in it
  idle,                  \* the asset (or WETH) the pool itself holds
  totalSupply,           \* shares of the pool
  tokenSwapAddress,
  authorizedOrigins,     \* the settings of each origin ...
  originDebt,            \* ... and its outstandingDebt field
  outstandingDebt,
  messages,              \* <<origin, nonce>> with a stored message
  pendingBridgeFees,
  totalAssetsToStream,
  lastAssetsCollectedAt,
  endOfStream,
  streamingPeriod,
  proxyBalance,          \* what waits at each BridgeProxy
  payouts                \* history: how often each message was paid

originVars == <<authorizedOrigins, originDebt, outstandingDebt>>
streamVars == <<totalAssetsToStream, lastAssetsCollectedAt, endOfStream>>
ownerVars  == <<yieldPool, tokenSwapAddress, streamingPeriod>>
loanVars   == <<messages, pendingBridgeFees, payouts>>
vars == <<now, yieldBalance, idle, totalSupply, proxyBalance,
          originVars, streamVars, ownerVars, loanVars>>

MessageIds == {<<m.origin, m.nonce>> : m \in Messages}

TypeOK ==
  /\ now \in Nat
  /\ yieldPool \in YieldPools
  /\ yieldBalance \in Nat
  /\ idle \in Nat
  /\ totalSupply \in Nat
  /\ tokenSwapAddress \in TokenSwaps \cup {NoAddress}
  /\ authorizedOrigins \in [Origins -> Settings]
  /\ originDebt \in [Origins -> Nat]
  /\ outstandingDebt \in Nat
  /\ messages \subseteq MessageIds
  /\ pendingBridgeFees \in Nat
  /\ totalAssetsToStream \in Nat
  /\ lastAssetsCollectedAt \in Nat
  /\ endOfStream \in Nat
  /\ streamingPeriod \in Nat
  /\ proxyBalance \in [Proxies -> Nat]
  /\ payouts \in [MessageIds -> Nat]

-----------------------------------------------------------------------------
(* Arithmetic *)

MinOf(a, b) == IF a <= b THEN a ELSE b
MaxOf(a, b) == IF a >= b THEN a ELSE b

\* Division of a product, rounded up (mulDivUp of the ERC4626 base contract).
CeilDiv(a, b) == (a + b - 1) \div b

\* The bridge fee on an amount, rounded down.
Fee(amount, bridgeFee) == (amount * bridgeFee) \div FRACTIONAL_BPS_DENOMINATOR

\* remainsToStream divides by endOfStream - lastAssetsCollectedAt unless the
\* stream is over: it reverts when that is zero.
StreamEvaluates == now > endOfStream \/ endOfStream # lastAssetsCollectedAt

RemainsToStream ==
  IF now > endOfStream THEN 0
  ELSE totalAssetsToStream
       - (totalAssetsToStream * (now - lastAssetsCollectedAt))
            \div (endOfStream - lastAssetsCollectedAt)

TotalAssets ==
  yieldBalance + outstandingDebt - pendingBridgeFees - RemainsToStream

\* totalAssets() returns: no division by zero and no underflow.
TotalAssetsEvaluates == StreamEvaluates /\ TotalAssets >= 0

-----------------------------------------------------------------------------
(* Streaming of collected assets *)

\* updateStreamedAssets: what has streamed is dropped, the clock restarts.
SettleStream ==
  /\ StreamEvaluates
  /\ totalAssetsToStream' = RemainsToStream
  /\ lastAssetsCollectedAt' = now

\* Mistake: the stream is prolonged instead of averaged.
ProlongStream(amount) ==
  \/ amount = 0 /\ UNCHANGED streamVars
  \/ /\ amount > 0
     /\ now # endOfStream
     /\ endOfStream' = MaxOf(endOfStream, now) + streamingPeriod
     /\ totalAssetsToStream' = RemainsToStream + amount
     /\ lastAssetsCollectedAt' = now

\* Mistake: what has streamed already is not dropped first, and streams again.
StreamAgain(amount) ==
  \/ amount = 0 /\ UNCHANGED streamVars
  \/ /\ amount > 0
     /\ now # endOfStream
     /\ endOfStream' = now + streamingPeriod
     /\ totalAssetsToStream' = totalAssetsToStream + amount
     /\ lastAssetsCollectedAt' = now

\* addToStreamingAssets(amount). remainsToStream is called again after the
\* clock restarted at now, and then divides by endOfStream - now.
AddToStreamingAssets(amount) ==
  \/ amount = 0 /\ UNCHANGED streamVars
  \/ /\ amount > 0
     /\ now # endOfStream
     /\ LET amountLeft == RemainsToStream
            timeLeft   == MaxOf(endOfStream, now) - now
        IN  /\ endOfStream' = now + (amountLeft * timeLeft + amount * streamingPeriod)
                                       \div (amountLeft + amount)
            /\ totalAssetsToStream' = amountLeft + amount
     /\ lastAssetsCollectedAt' = now

\* updateStreamedAssets() is public.
UpdateStreamedAssets ==
  /\ SettleStream
  /\ UNCHANGED <<now, yieldBalance, idle, totalSupply, proxyBalance, endOfStream,
                 originVars, ownerVars, loanVars>>

UpdateStreamingPeriod(newPeriod) ==
  /\ SettleStream
  /\ streamingPeriod' = newPeriod
  /\ UNCHANGED <<now, yieldBalance, idle, totalSupply, proxyBalance, endOfStream,
                 yieldPool, tokenSwapAddress, originVars, loanVars>>

\* Mistake: collected assets count at once.
CollectAtOnce(extra) ==
  /\ yieldBalance' = yieldBalance + idle + extra
  /\ idle' = 0
  /\ UNCHANGED streamVars

\* Mistake: collected assets are streamed but not put in the yield pool.
CollectWithoutDeposit(extra) ==
  /\ idle' = 0
  /\ AddToStreamingAssets(idle + extra)
  /\ UNCHANGED yieldBalance

\* Everything the pool itself holds, plus extra, is deposited and streamed.
CollectBalance(extra) ==
  /\ yieldBalance' = yieldBalance + idle + extra
  /\ idle' = 0
  /\ AddToStreamingAssets(idle + extra)

CollectNonDepositedAssets ==
  /\ idle > 0
  /\ CollectBalance(0)
  /\ UNCHANGED <<now, totalSupply, proxyBalance, originVars, ownerVars, loanVars>>

\* swapAndDeposit of a token that is not the asset: the swap sends `out` of
\* the asset to the pool, which then collects its whole balance.
SwapAndDeposit(out) ==
  /\ tokenSwapAddress # NoAddress
  /\ out > 0
  /\ CollectBalance(out)
  /\ UNCHANGED <<now, totalSupply, proxyBalance, originVars, ownerVars, loanVars>>

SetTokenSwap(newTokenSwap) ==
  /\ tokenSwapAddress' = newTokenSwap
  /\ UNCHANGED <<now, yieldBalance, idle, totalSupply, proxyBalance, yieldPool,
                 streamingPeriod, originVars, streamVars, loanVars>>

-----------------------------------------------------------------------------
(* Origins *)

\* Mistake: the origin is rewritten with a new fee while it has debt.
AddOriginWithAnyFee(o, settings) ==
  /\ authorizedOrigins' = [authorizedOrigins EXCEPT ![o] = settings]
  /\ UNCHANGED <<now, yieldBalance, idle, totalSupply, proxyBalance,
                 originDebt, outstandingDebt, streamVars, ownerVars, loanVars>>

\* Mistake: the origin is rewritten without its debt.
AddOriginWithoutDebt(o, settings) ==
  /\ originDebt[o] > 0 => settings.bridgeFee = authorizedOrigins[o].bridgeFee
  /\ authorizedOrigins' = [authorizedOrigins EXCEPT ![o] = settings]
  /\ originDebt' = [originDebt EXCEPT ![o] = 0]
  /\ UNCHANGED <<now, yieldBalance, idle, totalSupply, proxyBalance,
                 outstandingDebt, streamVars, ownerVars, loanVars>>

\* addOrigin(origin), also for an origin that is already there: its debt is
\* kept, and its fee may only change when it has none.
AddOrigin(o, settings) ==
  /\ originDebt[o] > 0 => settings.bridgeFee = authorizedOrigins[o].bridgeFee
  /\ authorizedOrigins' = [authorizedOrigins EXCEPT ![o] = settings]
  /\ UNCHANGED <<now, yieldBalance, idle, totalSupply, proxyBalance,
                 originDebt, outstandingDebt, streamVars, ownerVars, loanVars>>

\* disableOrigin called by `caller`; the curator of an unknown origin is
\* address(0), which calls nothing.
DisableOrigin(o, caller) ==
  /\ caller = authorizedOrigins[o].curator
  /\ authorizedOrigins' = [authorizedOrigins EXCEPT ![o].maxDebt = 0]
  /\ UNCHANGED <<now, yieldBalance, idle, totalSupply, proxyBalance,
                 originDebt, outstandingDebt, streamVars, ownerVars, loanVars>>

-----------------------------------------------------------------------------
(* Loans *)

\* Mistake: the proxy transfers everything it has.
WholeBalance(proxy, amount) == proxyBalance[proxy]

\* Mistake: nothing is claimed unless the proxy holds more than is asked for.
NothingUnlessMore(proxy, amount) ==
  IF proxyBalance[proxy] > amount THEN amount ELSE 0

\* What BridgeProxy.claim(amount) transfers.
Claimable(proxy, amount) == MinOf(proxyBalance[proxy], amount)

\* increaseOutstandingDebt and decreaseOutstandingDebt of one call together.
ChangeDebt(o, delta) ==
  /\ originDebt' = [originDebt EXCEPT ![o] = @ + delta]
  /\ outstandingDebt' = outstandingDebt + delta

\* Mistake: the message is marked, but not checked.
PayAgain(m) ==
  /\ messages' = messages \cup {<<m.origin, m.nonce>>}
  /\ payouts' = [payouts EXCEPT ![<<m.origin, m.nonce>>] = @ + 1]

\* Marks a message as processed and pays its recipient.
MarkAndPay(m) ==
  /\ <<m.origin, m.nonce>> \notin messages
  /\ messages' = messages \cup {<<m.origin, m.nonce>>}
  /\ payouts' = [payouts EXCEPT ![<<m.origin, m.nonce>>] = @ + 1]

\* Mistake: the limit is compared with the debt before the loan.
HandleBeyondLimit(m) ==
  LET o   == m.origin
      s   == authorizedOrigins[o]
      fee == Fee(m.amount, s.bridgeFee)
  IN  /\ m.timestamp <= now
      /\ now - m.timestamp >= s.coolDown
      /\ originDebt[o] < s.maxDebt
      /\ fee <= m.amount
      /\ m.amount - fee <= yieldBalance
      /\ MarkAndPay(m)
      /\ pendingBridgeFees' = pendingBridgeFees + fee
      /\ ChangeDebt(o, m.amount)
      /\ yieldBalance' = yieldBalance - (m.amount - fee)
      /\ UNCHANGED <<now, idle, totalSupply, proxyBalance, authorizedOrigins,
                     streamVars, ownerVars>>

\* Mistake: a loan that reaches the limit exactly is refused.
HandleBelowLimit(m) ==
  LET o   == m.origin
      s   == authorizedOrigins[o]
      fee == Fee(m.amount, s.bridgeFee)
  IN  /\ m.timestamp <= now
      /\ now - m.timestamp >= s.coolDown
      /\ originDebt[o] + m.amount < s.maxDebt
      /\ fee <= m.amount
      /\ m.amount - fee <= yieldBalance
      /\ MarkAndPay(m)
      /\ pendingBridgeFees' = pendingBridgeFees + fee
      /\ ChangeDebt(o, m.amount)
      /\ yieldBalance' = yieldBalance - (m.amount - fee)
      /\ UNCHANGED <<now, idle, totalSupply, proxyBalance, authorizedOrigins,
                     streamVars, ownerVars>>

\* handle(m), called by the Hyperlane mailbox.
Handle(m) ==
  LET o   == m.origin
      s   == authorizedOrigins[o]
      fee == Fee(m.amount, s.bridgeFee)
  IN  /\ s.maxDebt # 0
      /\ m.timestamp <= now
      /\ now - m.timestamp >= s.coolDown
      /\ originDebt[o] + m.amount <= s.maxDebt
      /\ fee <= m.amount
      /\ m.amount - fee <= yieldBalance
      /\ MarkAndPay(m)
      /\ pendingBridgeFees' = pendingBridgeFees + fee
      /\ ChangeDebt(o, m.amount)
      /\ yieldBalance' = yieldBalance - (m.amount - fee)
      /\ UNCHANGED <<now, idle, totalSupply, proxyBalance, authorizedOrigins,
                     streamVars, ownerVars>>

\* claim(o): anybody may call it.
Claim(o) ==
  LET s      == authorizedOrigins[o]
      amount == Claimable(s.proxyBridge, originDebt[o])
      fee    == Fee(amount, s.bridgeFee)
  IN  /\ s.proxyBridge # NoAddress
      /\ fee <= pendingBridgeFees
      /\ proxyBalance' = [proxyBalance EXCEPT ![s.proxyBridge] = @ - amount]
      /\ ChangeDebt(o, 0 - amount)
      /\ yieldBalance' = yieldBalance + amount
      /\ pendingBridgeFees' = pendingBridgeFees - fee
      /\ AddToStreamingAssets(fee)
      /\ UNCHANGED <<now, idle, totalSupply, authorizedOrigins, messages, payouts,
                     ownerVars>>

\* processFailedHandler(m): the owner pays a message that Hyperlane did not
\* deliver, once its funds have arrived, in full and whatever maxDebt and
\* coolDown say. The claim it makes is for the whole debt of the origin and
\* leaves the fees alone.
ProcessFailedHandler(m) ==
  LET o      == m.origin
      proxy  == authorizedOrigins[o].proxyBridge
      amount == Claimable(proxy, originDebt[o] + m.amount)
  IN  /\ proxy # NoAddress
      /\ amount >= m.amount
      /\ MarkAndPay(m)
      /\ proxyBalance' = [proxyBalance EXCEPT ![proxy] = @ - amount]
      /\ ChangeDebt(o, m.amount - amount)
      /\ yieldBalance' = yieldBalance + amount - m.amount
      /\ UNCHANGED <<now, idle, totalSupply, pendingBridgeFees, authorizedOrigins,
                     streamVars, ownerVars>>

-----------------------------------------------------------------------------
(* Shares (the ERC4626 base contract and the pool's hooks) *)

\* convertToShares and convertToAssets divide by the assets or the supply.
SharesEvaluate == totalSupply > 0 => TotalAssetsEvaluates /\ TotalAssets > 0

PreviewDeposit(assets) ==
  IF totalSupply = 0 THEN assets ELSE (assets * totalSupply) \div TotalAssets
PreviewMint(shares) ==
  IF totalSupply = 0 THEN shares ELSE CeilDiv(shares * TotalAssets, totalSupply)
PreviewWithdraw(assets) ==
  IF totalSupply = 0 THEN assets ELSE CeilDiv(assets * totalSupply, TotalAssets)
PreviewRedeem(shares) ==
  IF totalSupply = 0 THEN shares ELSE (shares * TotalAssets) \div totalSupply

\* The asset comes in, afterDeposit puts it in the yield pool, shares are minted.
MintShares(assets, shares) ==
  /\ yieldBalance + assets <= MAX_ASSETS
  /\ yieldBalance' = yieldBalance + assets
  /\ totalSupply' = totalSupply + shares
  /\ UNCHANGED <<now, idle, proxyBalance, originVars, streamVars, ownerVars, loanVars>>

\* beforeWithdraw takes the assets out of the yield pool, shares are burned.
BurnShares(assets, shares) ==
  /\ shares <= totalSupply
  /\ assets <= yieldBalance
  /\ yieldBalance' = yieldBalance - assets
  /\ totalSupply' = totalSupply - shares
  /\ UNCHANGED <<now, idle, proxyBalance, originVars, streamVars, ownerVars, loanVars>>

Deposit(assets) ==
  /\ SharesEvaluate
  /\ PreviewDeposit(assets) > 0
  /\ MintShares(assets, PreviewDeposit(assets))

Mint(shares) ==
  /\ totalSupply > 0 => TotalAssetsEvaluates
  /\ MintShares(PreviewMint(shares), shares)

Withdraw(assets) ==
  /\ SharesEvaluate
  /\ BurnShares(assets, PreviewWithdraw(assets))

Redeem(shares) ==
  /\ totalSupply > 0 => TotalAssetsEvaluates
  /\ PreviewRedeem(shares) > 0
  /\ BurnShares(PreviewRedeem(shares), shares)

-----------------------------------------------------------------------------
(* The yield pool and the rest of the world *)

\* updateYieldPool: everything is redeemed from the old pool and deposited in
\* the new one, when the share prices are within the owner's bounds.
UpdateYieldPool(newPool, minOld, maxNew) ==
  /\ YieldSharePrice[yieldPool] >= minOld
  /\ YieldSharePrice[newPool] <= maxNew
  /\ yieldPool' = newPool
  /\ UNCHANGED <<now, yieldBalance, idle, totalSupply, proxyBalance, tokenSwapAddress,
                 streamingPeriod, originVars, streamVars, loanVars>>

\* The yield pool gains or loses value (interest, a loss, its own rounding).
YieldChange(delta) ==
  /\ yieldBalance + delta \in 0 .. MAX_ASSETS
  /\ yieldBalance' = yieldBalance + delta
  /\ UNCHANGED <<now, idle, totalSupply, proxyBalance, originVars, streamVars,
                 ownerVars, loanVars>>

\* The asset is transferred to the pool, or native currency that it wraps.
Donate(amount) ==
  /\ yieldBalance + idle + amount <= MAX_ASSETS
  /\ idle' = idle + amount
  /\ UNCHANGED <<now, yieldBalance, totalSupply, proxyBalance, originVars, streamVars,
                 ownerVars, loanVars>>

\* A native bridge transfer is finalised and its funds reach a proxy.
Arrive(proxy, amount) ==
  /\ proxyBalance[proxy] + amount <= MAX_ARRIVED
  /\ proxyBalance' = [proxyBalance EXCEPT ![proxy] = @ + amount]
  /\ UNCHANGED <<now, yieldBalance, idle, totalSupply, originVars, streamVars,
                 ownerVars, loanVars>>

Tick ==
  /\ now < MAX_TIME
  /\ now' = now + 1
  /\ UNCHANGED <<yieldBalance, idle, totalSupply, proxyBalance, originVars, streamVars,
                 ownerVars, loanVars>>

-----------------------------------------------------------------------------
(* The pool just after RelayPoolFactory.deployPool: no origin, and the     *)
(* initial deposit made for the timelock.                                  *)
Init ==
  /\ now = DEPLOY_TIME
  /\ yieldPool \in YieldPools
  /\ yieldBalance = INITIAL_DEPOSIT
  /\ idle = 0
  /\ totalSupply = INITIAL_DEPOSIT
  /\ tokenSwapAddress = NoAddress
  /\ authorizedOrigins = [o \in Origins |->
       [curator |-> NoAddress, proxyBridge |-> NoAddress,
        maxDebt |-> 0, bridgeFee |-> 0, coolDown |-> 0]]
  /\ originDebt = [o \in Origins |-> 0]
  /\ outstandingDebt = 0
  /\ messages = {}
  /\ pendingBridgeFees = 0
  /\ totalAssetsToStream = 0
  /\ lastAssetsCollectedAt = 0
  /\ endOfStream = DEPLOY_TIME
  /\ streamingPeriod = INITIAL_PERIOD
  /\ proxyBalance = [p \in Proxies |-> 0]
  /\ payouts = [i \in MessageIds |-> 0]

OwnerNext ==
  \/ \E p \in OriginParams : AddOrigin(p.origin, p.settings)
  \/ \E period \in StreamingPeriods : UpdateStreamingPeriod(period)
  \/ \E t \in TokenSwaps : SetTokenSwap(t)
  \/ \E out \in SwapOutputs : yieldBalance + idle + out <= MAX_ASSETS /\ SwapAndDeposit(out)
  \/ \E p \in YieldPools, lo, hi \in SharePriceBounds : UpdateYieldPool(p, lo, hi)

LPNext ==
  \/ \E a \in LPAmounts : Deposit(a)
  \/ \E s \in LPAmounts : Mint(s)
  \/ \E a \in LPAmounts : Withdraw(a)
  \/ \E s \in LPAmounts : Redeem(s)

\* What needs neither a message nor a delivery of the native bridge.
PoolNext ==
  \/ OwnerNext
  \/ LPNext
  \/ \E o \in Origins, c \in Curators : DisableOrigin(o, c)
  \/ \E o \in Origins : Claim(o)
  \/ CollectNonDepositedAssets
  \/ UpdateStreamedAssets
  \/ \E d \in YieldChanges : YieldChange(d)
  \/ \E a \in Donations : Donate(a)
  \/ Tick

Next ==
  \/ PoolNext
  \/ \E m \in Messages : Handle(m)
  \/ \E m \in Messages : ProcessFailedHandler(m)
  \/ \E p \in Proxies, a \in Arrivals : Arrive(p, a)

Spec == Init /\ [][Next]_vars

-----------------------------------------------------------------------------
(* Safety *)

\* The pool's outstandingDebt is the sum of the debts of its origins: every
\* path that changes one (handle, claim, processFailedHandler, and addOrigin
\* which rewrites an origin) keeps the two counters together.
DebtIsSumOfOrigins == outstandingDebt = SumOver(originDebt, Origins)

\* A message is paid once, whether Hyperlane delivers it first, the owner
\* rescues it first, or Hyperlane delivers it after the rescue.
PaidAtMostOnce == \A i \in MessageIds : payouts[i] <= 1

\* What is still to be streamed is part of what was put in the stream.
StreamWithinBounds == StreamEvaluates => RemainsToStream \in 0 .. totalAssetsToStream

\* The fees that are set aside for loans and the assets that have not streamed
\* yet are always covered: totalAssets() never underflows, so deposits and
\* withdrawals never revert because of the pool's own accounting.
TotalAssetsNeverUnderflows == StreamEvaluates => TotalAssets >= 0

\* The fees due on the outstanding debt, times FRACTIONAL_BPS_DENOMINATOR.
FeesDue ==
  SumOver([o \in Origins |-> originDebt[o] * authorizedOrigins[o].bridgeFee], Origins)

\* pendingBridgeFees falls short of the fees that claims will take out of it by
\* less than one unit per processed message, what handle's rounding loses:
\* nothing else (a fee that changes under a debt, a rescue) makes it short.
FeeShortfallIsRounding ==
  FeesDue <= FRACTIONAL_BPS_DENOMINATOR * pendingBridgeFees
             + (FRACTIONAL_BPS_DENOMINATOR - 1) * Cardinality(messages)

\* However often assets are added, the weighted average never moves the end of
\* the stream further than the longest streaming period from now.
StreamEndIsBounded ==
  \E period \in StreamingPeriods \cup {INITIAL_PERIOD} : endOfStream <= now + period

\* The debt of an origin rises only up to its maxDebt, so not at all while it is
\* disabled: a rescue, which checks neither, repays what it borrows.
DebtRisesWithinLimit ==
  [][\A o \in Origins :
       originDebt'[o] > originDebt[o] => originDebt'[o] <= authorizedOrigins[o].maxDebt]_vars

\* Loans, claims, rescues, collections and every other operation but those of
\* liquidity providers leave totalAssets as it was: fees and collected assets
\* reach the providers only by streaming, and cannot be caught by a deposit
\* made just before them.
OperationsAreNeutral ==
  [][\/ UNCHANGED <<idle, proxyBalance, originVars, streamVars, ownerVars, loanVars>>
     \/ StreamEvaluates /\ StreamEvaluates' => TotalAssets' = TotalAssets]_vars

\* Unless the yield pool loses value, no step makes a share worth less.
SharePriceNeverFalls ==
  [][StreamEvaluates /\ StreamEvaluates' /\ totalSupply > 0 =>
       TotalAssets' * totalSupply >= TotalAssets * totalSupply']_vars

-----------------------------------------------------------------------------
(* What the documentation says and the code does not do *)

\* "Pending bridge fees are still in the yield pool! So we need to extract them
\* from this pool's asset until the bridge is claimed": none is pending once
\* every debt is claimed. (Stated for amounts whose fees need no rounding.)
\* processFailedHandler also claims the funds of earlier loans, and never
\* releases the fees of those.
FeesReleasedOnceClaimed == outstandingDebt = 0 => pendingBridgeFees = 0

\* claim "collects funds from a bridge after they arrive": funds that have
\* arrived for a debt can be claimed. The fee of the claim is rounded down
\* once, those of the loans were rounded down one by one, so the claim may
\* need more than pendingBridgeFees holds, and reverts.
ArrivedFundsAreClaimable ==
  \A o \in Origins :
    LET s      == authorizedOrigins[o]
        amount == Claimable(s.proxyBridge, originDebt[o])
    IN  s.proxyBridge # NoAddress => Fee(amount, s.bridgeFee) <= pendingBridgeFees

\* remainsToStream "returns zero if streaming period has ended". In the block
\* whose timestamp is endOfStream it divides by zero, and totalAssets() with
\* it, once the stream has been settled in that block.
EndedStreamReturnsZero ==
  now >= endOfStream => StreamEvaluates /\ RemainsToStream = 0
=============================================================================
