-------------------------- MODULE RelayPoolProofs --------------------------
(***************************************************************************)
(* Theorems about RelayPool, for every value of its constants.             *)
(***************************************************************************)
EXTENDS RelayPool, OriginSumsProofs

-----------------------------------------------------------------------------
(* Arithmetic *)

\* The share d of n of a total T is between 0 and T.
LEMMA ShareOfTotal ==
  ASSUME NEW T \in Nat, NEW d \in Nat, NEW n \in Nat \ {0}, d <= n
  PROVE  (T * d) \div n \in 0 .. T
<1> DEFINE q == (T * d) \div n
<1>1. T * d \in Nat /\ T * n \in Nat /\ T * d <= T * n
  BY ProductMonotone
<1>2. q \in Nat /\ n * q <= T * d
  BY <1>1, QuotientType
<1>3. n * q <= n * T
  BY <1>1, <1>2
<1>4. ASSUME q > T PROVE FALSE
  <2>1. n * (T + 1) <= n * q
    BY <1>2, <1>4, ProductMonotone
  <2>2. n * (T + 1) = n * T + n
    OBVIOUS
  <2>3. QED
    BY <1>3, <2>1, <2>2
<1>5. QED
  BY <1>2, <1>4

-----------------------------------------------------------------------------
(* Type correctness *)

\* The clock of the stream never runs ahead of the block timestamp.
StreamClock == lastAssetsCollectedAt <= now

LEMMA FeeType ==
  ASSUME NEW amount \in Nat, NEW bridgeFee \in Nat
  PROVE  Fee(amount, bridgeFee) \in Nat
BY NumbersAssumption, QuotientType DEF Fee

\* When remainsToStream returns, it returns a part of totalAssetsToStream.
LEMMA RemainsType ==
  ASSUME TypeOK, StreamClock, StreamEvaluates
  PROVE  RemainsToStream \in 0 .. totalAssetsToStream
<1>1. CASE now > endOfStream
  BY <1>1 DEF RemainsToStream, TypeOK
<1>2. CASE ~(now > endOfStream)
  <2> DEFINE d == now - lastAssetsCollectedAt
             n == endOfStream - lastAssetsCollectedAt
  <2>1. d \in Nat /\ n \in Nat \ {0} /\ d <= n
    BY <1>2 DEF TypeOK, StreamClock, StreamEvaluates
  <2>2. (totalAssetsToStream * d) \div n \in 0 .. totalAssetsToStream
    BY <2>1, ShareOfTotal DEF TypeOK
  <2>3. QED
    BY <1>2, <2>2 DEF RemainsToStream, TypeOK
<1>3. QED
  BY <1>1, <1>2

LEMMA SettleStreamType ==
  ASSUME TypeOK, StreamClock, SettleStream, now' = now
  PROVE  /\ totalAssetsToStream' \in Nat
         /\ lastAssetsCollectedAt' \in Nat
         /\ StreamClock'
BY RemainsType DEF SettleStream, TypeOK, StreamClock

LEMMA AddToStreamType ==
  ASSUME TypeOK, StreamClock, NEW amount \in Nat, AddToStreamingAssets(amount), now' = now
  PROVE  /\ totalAssetsToStream' \in Nat
         /\ lastAssetsCollectedAt' \in Nat
         /\ endOfStream' \in Nat
         /\ StreamClock'
<1>1. CASE UNCHANGED streamVars
  BY <1>1 DEF streamVars, TypeOK, StreamClock
<1>2. CASE amount > 0 /\ now # endOfStream
  <2> DEFINE left == RemainsToStream
             time == MaxOf(endOfStream, now) - now
             sum == left * time + amount * streamingPeriod
  <2>1. StreamEvaluates
    BY <1>2 DEF TypeOK, StreamClock, StreamEvaluates
  <2>2. left \in Nat
    BY <2>1, RemainsType DEF TypeOK
  <2>3. time \in Nat
    BY DEF MaxOf, TypeOK
  <2>4. sum \in Nat
    BY <2>2, <2>3 DEF TypeOK
  <2>5. left + amount \in Nat \ {0}
    BY <1>2, <2>2
  <2>6. sum \div (left + amount) \in Nat
    BY <2>4, <2>5, QuotientType
  <2>7. /\ endOfStream' = now + sum \div (left + amount)
        /\ totalAssetsToStream' = left + amount
        /\ lastAssetsCollectedAt' = now
    BY <1>2 DEF AddToStreamingAssets
  <2>8. QED
    BY <2>5, <2>6, <2>7 DEF TypeOK, StreamClock
<1>3. QED
  BY <1>1, <1>2 DEF AddToStreamingAssets

LEMMA ClaimableType ==
  ASSUME TypeOK, NEW p \in Proxies, NEW amount \in Nat
  PROVE  /\ Claimable(p, amount) \in Nat
         /\ Claimable(p, amount) <= amount
         /\ Claimable(p, amount) <= proxyBalance[p]
BY DEF Claimable, MinOf, TypeOK

LEMMA MarkAndPayType ==
  ASSUME TypeOK, NEW m \in Messages, MarkAndPay(m)
  PROVE  messages' \subseteq MessageIds /\ payouts' \in [MessageIds -> Nat]
<1>1. <<m.origin, m.nonce>> \in MessageIds
  BY DEF MessageIds
<1>2. messages' \subseteq MessageIds
  BY <1>1 DEF MarkAndPay, TypeOK
<1>3. payouts' \in [MessageIds -> Nat]
  BY <1>1 DEF MarkAndPay, TypeOK
<1>4. QED
  BY <1>2, <1>3

LEMMA ChangeDebtType ==
  ASSUME TypeOK, NEW o \in Origins, NEW d \in Int, ChangeDebt(o, d),
         originDebt[o] + d >= 0, outstandingDebt + d >= 0
  PROVE  originDebt' \in [Origins -> Nat] /\ outstandingDebt' \in Nat
BY DEF ChangeDebt, TypeOK

\* What the pool's own debt counter needs: it is at least each origin's.
LEMMA DebtAtLeastEachOrigin ==
  ASSUME TypeOK, DebtIsSumOfOrigins, NEW o \in Origins
  PROVE  originDebt[o] <= outstandingDebt
<1>1. \A x \in Origins : originDebt[x] \in Nat
  BY DEF TypeOK
<1>2. SumOver(originDebt, Origins) = SumOver(originDebt, Origins \ {o}) + originDebt[o]
  BY <1>1, OriginsAssumption, SumOverSplit
<1>3. SumOver(originDebt, Origins \ {o}) \in Nat
  BY <1>1, OriginsAssumption, FS_RemoveElement, SumOverType
<1>4. QED
  BY <1>1, <1>2, <1>3 DEF DebtIsSumOfOrigins, TypeOK

\* The inductive invariant behind the type invariant: a debt that is claimed
\* is subtracted from two counters, so that neither becomes negative takes
\* the sum.
TypeInv == TypeOK /\ StreamClock /\ DebtIsSumOfOrigins

LEMMA ChangeDebtSum ==
  ASSUME TypeInv, NEW o \in Origins, NEW d \in Int, ChangeDebt(o, d), originDebt[o] + d >= 0
  PROVE  /\ originDebt' \in [Origins -> Nat]
         /\ outstandingDebt' \in Nat
         /\ DebtIsSumOfOrigins'
<1>1. originDebt[o] <= outstandingDebt
  BY DebtAtLeastEachOrigin DEF TypeInv
<1>2. originDebt' \in [Origins -> Nat] /\ outstandingDebt' \in Nat
  BY <1>1, ChangeDebtType DEF TypeInv, TypeOK
<1>3. /\ \A x \in Origins : originDebt[x] \in Nat /\ originDebt'[x] \in Nat
      /\ \A x \in Origins \ {o} : originDebt'[x] = originDebt[x]
      /\ originDebt'[o] = originDebt[o] + d
  BY <1>2 DEF TypeInv, TypeOK, ChangeDebt
<1>4. SumOver(originDebt', Origins)
        = SumOver(originDebt, Origins) - originDebt[o] + originDebt'[o]
  BY <1>3, OriginsAssumption, SumOverChange
<1>5. outstandingDebt' = outstandingDebt + d
  BY DEF ChangeDebt
<1>6. SumOver(originDebt, Origins) \in Nat
  BY <1>3, OriginsAssumption, SumOverType
<1>7. DebtIsSumOfOrigins'
  BY <1>3, <1>4, <1>5, <1>6 DEF TypeInv, DebtIsSumOfOrigins
<1>8. QED
  BY <1>2, <1>7

LEMMA InitTypeInv == Init => TypeInv
<1> SUFFICES ASSUME Init PROVE TypeInv
  OBVIOUS
<1>1. TypeOK
  BY NumbersAssumption DEF Init, TypeOK, Settings
<1>2. DebtIsSumOfOrigins
  BY SumOverZero DEF Init, DebtIsSumOfOrigins
<1>3. StreamClock
  BY NumbersAssumption DEF Init, StreamClock
<1>4. QED
  BY <1>1, <1>2, <1>3 DEF TypeInv

LEMMA HandleTypeInv ==
  ASSUME TypeInv, NEW m \in Messages, Handle(m)
  PROVE  TypeInv'
<1> DEFINE o == m.origin
           s == authorizedOrigins[o]
           fee == Fee(m.amount, s.bridgeFee)
<1>1. m \in Message
  BY MessagesAssumption
<1>2. o \in Origins /\ m.amount \in Nat /\ s \in Settings
  BY <1>1 DEF Message, TypeInv, TypeOK
<1>3. s.bridgeFee \in Nat
  BY <1>2 DEF Settings
<1>4. fee \in Nat
  BY <1>2, <1>3, FeeType
<1>5. MarkAndPay(m) /\ ChangeDebt(o, m.amount)
  BY DEF Handle
<1>6. messages' \subseteq MessageIds /\ payouts' \in [MessageIds -> Nat]
  BY <1>5, MarkAndPayType DEF TypeInv
<1>7. originDebt' \in [Origins -> Nat] /\ outstandingDebt' \in Nat /\ DebtIsSumOfOrigins'
  <2>1. originDebt[o] + m.amount >= 0
    BY <1>2 DEF TypeInv, TypeOK
  <2>2. QED
    BY <1>2, <1>5, <2>1, ChangeDebtSum
<1>8. pendingBridgeFees' \in Nat /\ yieldBalance' \in Nat
  BY <1>2, <1>4 DEF Handle, TypeInv, TypeOK
<1>9. UNCHANGED <<now, idle, totalSupply, proxyBalance, authorizedOrigins, streamVars, ownerVars>>
  BY DEF Handle
<1>10. TypeOK'
  BY <1>6, <1>7, <1>8, <1>9 DEF TypeInv, TypeOK, streamVars, ownerVars
<1>11. StreamClock'
  BY <1>9 DEF TypeInv, StreamClock, streamVars
<1>12. QED
  BY <1>7, <1>10, <1>11 DEF TypeInv

LEMMA ClaimTypeInv ==
  ASSUME TypeInv, NEW o \in Origins, Claim(o)
  PROVE  TypeInv'
<1> DEFINE s == authorizedOrigins[o]
           amount == Claimable(s.proxyBridge, originDebt[o])
           fee == Fee(amount, s.bridgeFee)
<1>1. s.proxyBridge \in Proxies /\ s.bridgeFee \in Nat /\ originDebt[o] \in Nat
  BY DEF Claim, TypeInv, TypeOK, Settings
<1>2. amount \in Nat /\ amount <= originDebt[o] /\ amount <= proxyBalance[s.proxyBridge]
  BY <1>1, ClaimableType DEF TypeInv
<1>3. fee \in Nat
  BY <1>1, <1>2, FeeType
<1>4. ChangeDebt(o, 0 - amount) /\ AddToStreamingAssets(fee)
  BY DEF Claim
<1>5. originDebt' \in [Origins -> Nat] /\ outstandingDebt' \in Nat /\ DebtIsSumOfOrigins'
  <2>1. 0 - amount \in Int /\ originDebt[o] + (0 - amount) >= 0
    BY <1>1, <1>2
  <2>2. QED
    BY <1>4, <2>1, ChangeDebtSum
<1>6. UNCHANGED <<now, idle, totalSupply, authorizedOrigins, messages, payouts, ownerVars>>
  BY DEF Claim
<1>7. /\ totalAssetsToStream' \in Nat
      /\ lastAssetsCollectedAt' \in Nat
      /\ endOfStream' \in Nat
      /\ StreamClock'
  BY <1>3, <1>4, <1>6, AddToStreamType DEF TypeInv
<1>8. pendingBridgeFees' \in Nat /\ yieldBalance' \in Nat
  BY <1>2, <1>3 DEF Claim, TypeInv, TypeOK
<1>9. proxyBalance' \in [Proxies -> Nat]
  BY <1>1, <1>2 DEF Claim, TypeInv, TypeOK
<1>10. TypeOK'
  BY <1>5, <1>6, <1>7, <1>8, <1>9 DEF TypeInv, TypeOK, ownerVars
<1>11. QED
  BY <1>5, <1>7, <1>10 DEF TypeInv

LEMMA ProcessFailedHandlerTypeInv ==
  ASSUME TypeInv, NEW m \in Messages, ProcessFailedHandler(m)
  PROVE  TypeInv'
<1> DEFINE o == m.origin
           proxy == authorizedOrigins[o].proxyBridge
           amount == Claimable(proxy, originDebt[o] + m.amount)
<1>1. m \in Message
  BY MessagesAssumption
<1>2. o \in Origins /\ m.amount \in Nat
  BY <1>1 DEF Message
<1>3. proxy \in Proxies /\ originDebt[o] \in Nat
  BY <1>2 DEF ProcessFailedHandler, TypeInv, TypeOK, Settings
<1>4. amount \in Nat /\ amount <= originDebt[o] + m.amount /\ amount <= proxyBalance[proxy]
  BY <1>2, <1>3, ClaimableType DEF TypeInv
<1>5. MarkAndPay(m) /\ ChangeDebt(o, m.amount - amount) /\ amount >= m.amount
  BY DEF ProcessFailedHandler
<1>6. messages' \subseteq MessageIds /\ payouts' \in [MessageIds -> Nat]
  BY <1>5, MarkAndPayType DEF TypeInv
<1>7. originDebt' \in [Origins -> Nat] /\ outstandingDebt' \in Nat /\ DebtIsSumOfOrigins'
  <2>1. m.amount - amount \in Int /\ originDebt[o] + (m.amount - amount) >= 0
    BY <1>2, <1>3, <1>4
  <2>2. QED
    BY <1>2, <1>5, <2>1, ChangeDebtSum
<1>8. yieldBalance' \in Nat
  BY <1>2, <1>4, <1>5 DEF ProcessFailedHandler, TypeInv, TypeOK
<1>9. proxyBalance' \in [Proxies -> Nat]
  BY <1>3, <1>4 DEF ProcessFailedHandler, TypeInv, TypeOK
<1>10. UNCHANGED <<now, idle, totalSupply, pendingBridgeFees, authorizedOrigins, streamVars, ownerVars>>
  BY DEF ProcessFailedHandler
<1>11. TypeOK'
  BY <1>6, <1>7, <1>8, <1>9, <1>10 DEF TypeInv, TypeOK, streamVars, ownerVars
<1>12. StreamClock'
  BY <1>10 DEF TypeInv, StreamClock, streamVars
<1>13. QED
  BY <1>7, <1>11, <1>12 DEF TypeInv

LEMMA AddOriginTypeInv ==
  ASSUME TypeInv, NEW p \in OriginParams, AddOrigin(p.origin, p.settings)
  PROVE  TypeInv'
<1>1. p.origin \in Origins /\ p.settings \in Settings
  BY ParamsAssumption
<1>2. authorizedOrigins' \in [Origins -> Settings]
  BY <1>1 DEF AddOrigin, TypeInv, TypeOK
<1>3. QED
  BY <1>2 DEF AddOrigin, TypeInv, TypeOK, StreamClock, DebtIsSumOfOrigins,
              streamVars, ownerVars, loanVars

LEMMA DisableOriginTypeInv ==
  ASSUME TypeInv, NEW o \in Origins, NEW c \in Curators, DisableOrigin(o, c)
  PROVE  TypeInv'
<1>1. authorizedOrigins' \in [Origins -> Settings]
  BY DEF DisableOrigin, TypeInv, TypeOK, Settings
<1>2. QED
  BY <1>1 DEF DisableOrigin, TypeInv, TypeOK, StreamClock, DebtIsSumOfOrigins,
              streamVars, ownerVars, loanVars

LEMMA SettleTypeInv ==
  ASSUME TypeInv,
         UpdateStreamedAssets \/ \E period \in StreamingPeriods : UpdateStreamingPeriod(period)
  PROVE  TypeInv'
<1>1. /\ SettleStream
      /\ UNCHANGED <<now, yieldBalance, idle, totalSupply, proxyBalance, endOfStream,
                     yieldPool, tokenSwapAddress, originVars, loanVars>>
  BY DEF UpdateStreamedAssets, UpdateStreamingPeriod, ownerVars
<1>2. totalAssetsToStream' \in Nat /\ lastAssetsCollectedAt' \in Nat /\ StreamClock'
  BY <1>1, SettleStreamType DEF TypeInv
<1>3. streamingPeriod' \in Nat
  BY ParamsAssumption DEF UpdateStreamedAssets, UpdateStreamingPeriod, ownerVars, TypeInv, TypeOK
<1>4. QED
  BY <1>1, <1>2, <1>3 DEF TypeInv, TypeOK, DebtIsSumOfOrigins, originVars, loanVars

LEMMA CollectTypeInv ==
  ASSUME TypeInv,
         CollectNonDepositedAssets \/ \E out \in SwapOutputs : SwapAndDeposit(out)
  PROVE  TypeInv'
<1>1. PICK extra \in Nat :
        /\ CollectBalance(extra)
        /\ UNCHANGED <<now, totalSupply, proxyBalance, originVars, ownerVars, loanVars>>
  BY AmountsAssumption DEF CollectNonDepositedAssets, SwapAndDeposit
<1>2. idle + extra \in Nat /\ AddToStreamingAssets(idle + extra)
  BY <1>1 DEF CollectBalance, TypeInv, TypeOK
<1>3. /\ totalAssetsToStream' \in Nat
      /\ lastAssetsCollectedAt' \in Nat
      /\ endOfStream' \in Nat
      /\ StreamClock'
  BY <1>1, <1>2, AddToStreamType DEF TypeInv
<1>4. yieldBalance' \in Nat /\ idle' \in Nat
  BY <1>1 DEF CollectBalance, TypeInv, TypeOK
<1>5. QED
  BY <1>1, <1>3, <1>4 DEF TypeInv, TypeOK, DebtIsSumOfOrigins, originVars, ownerVars, loanVars

LEMMA TotalAssetsType ==
  ASSUME TypeOK, StreamClock, StreamEvaluates
  PROVE  TotalAssets \in Int
BY RemainsType DEF TotalAssets, TypeOK

\* Where the shares can be priced, the previews are natural numbers.
LEMMA PreviewType ==
  ASSUME TypeOK, StreamClock, NEW n \in Nat, totalSupply > 0 => TotalAssetsEvaluates
  PROVE  /\ PreviewMint(n) \in Nat
         /\ PreviewRedeem(n) \in Nat
         /\ SharesEvaluate => PreviewDeposit(n) \in Nat /\ PreviewWithdraw(n) \in Nat
<1>1. CASE totalSupply = 0
  BY <1>1 DEF PreviewMint, PreviewRedeem, PreviewDeposit, PreviewWithdraw
<1>2. CASE totalSupply # 0
  <2>1. totalSupply \in Nat \ {0} /\ totalSupply > 0
    BY <1>2 DEF TypeOK
  <2>2. TotalAssets \in Nat
    BY <2>1, TotalAssetsType DEF TotalAssetsEvaluates
  <2>3. n * TotalAssets \in Nat /\ n * totalSupply \in Nat
    BY <2>1, <2>2
  <2>4. PreviewRedeem(n) \in Nat
    BY <1>2, <2>1, <2>3, QuotientType DEF PreviewRedeem
  <2>5. PreviewMint(n) \in Nat
    <3>1. n * TotalAssets + totalSupply - 1 \in Nat
      BY <2>1, <2>3
    <3>2. QED
      BY <1>2, <2>1, <3>1, QuotientType DEF PreviewMint, CeilDiv
  <2>6. ASSUME SharesEvaluate
        PROVE  PreviewDeposit(n) \in Nat /\ PreviewWithdraw(n) \in Nat
    <3>1. TotalAssets \in Nat \ {0}
      BY <2>1, <2>2, <2>6 DEF SharesEvaluate
    <3>2. PreviewDeposit(n) \in Nat
      BY <1>2, <2>3, <3>1, QuotientType DEF PreviewDeposit
    <3>3. n * totalSupply + TotalAssets - 1 \in Nat
      BY <2>3, <3>1
    <3>4. PreviewWithdraw(n) \in Nat
      BY <1>2, <3>1, <3>3, QuotientType DEF PreviewWithdraw, CeilDiv
    <3>5. QED
      BY <3>2, <3>4
  <2>7. QED
    BY <2>4, <2>5, <2>6
<1>3. QED
  BY <1>1, <1>2

\* Whoever calls the operations of ERC4626, and with whatever amount.
LEMMA SharesTypeInv ==
  ASSUME TypeInv, NEW n \in Nat, Deposit(n) \/ Mint(n) \/ Withdraw(n) \/ Redeem(n)
  PROVE  TypeInv'
<1>1. PICK assets \in Nat, shares \in Nat :
        MintShares(assets, shares) \/ BurnShares(assets, shares)
  <2>1. totalSupply > 0 => TotalAssetsEvaluates
    BY DEF Deposit, Mint, Withdraw, Redeem, SharesEvaluate
  <2>2. /\ PreviewMint(n) \in Nat
        /\ PreviewRedeem(n) \in Nat
        /\ SharesEvaluate => PreviewDeposit(n) \in Nat /\ PreviewWithdraw(n) \in Nat
    BY <2>1, PreviewType DEF TypeInv
  <2>3. QED
    BY <2>2 DEF Deposit, Mint, Withdraw, Redeem
<1>2. /\ yieldBalance' \in Nat
      /\ totalSupply' \in Nat
      /\ UNCHANGED <<now, idle, proxyBalance, originVars, streamVars, ownerVars, loanVars>>
  BY <1>1 DEF MintShares, BurnShares, TypeInv, TypeOK
<1>3. QED
  BY <1>2 DEF TypeInv, TypeOK, StreamClock, DebtIsSumOfOrigins,
              originVars, streamVars, ownerVars, loanVars

LEMMA LPTypeInv ==
  ASSUME TypeInv, LPNext
  PROVE  TypeInv'
BY SharesTypeInv, AmountsAssumption DEF LPNext

\* The owner's remaining actions and the environment's.
LEMMA OtherTypeInv ==
  ASSUME TypeInv,
         \/ \E t \in TokenSwaps : SetTokenSwap(t)
         \/ \E p \in YieldPools, lo, hi \in SharePriceBounds : UpdateYieldPool(p, lo, hi)
         \/ \E d \in YieldChanges : YieldChange(d)
         \/ \E a \in Donations : Donate(a)
         \/ \E p \in Proxies, a \in Arrivals : Arrive(p, a)
         \/ Tick
  PROVE  TypeInv'
<1> USE DEF TypeInv, TypeOK, StreamClock, DebtIsSumOfOrigins,
            originVars, streamVars, ownerVars, loanVars
<1>1. CASE \E t \in TokenSwaps : SetTokenSwap(t)
  BY <1>1 DEF SetTokenSwap
<1>2. CASE \E p \in YieldPools, lo, hi \in SharePriceBounds : UpdateYieldPool(p, lo, hi)
  BY <1>2 DEF UpdateYieldPool
<1>3. CASE \E d \in YieldChanges : YieldChange(d)
  BY <1>3, AmountsAssumption, NumbersAssumption DEF YieldChange
<1>4. CASE \E a \in Donations : Donate(a)
  BY <1>4, AmountsAssumption DEF Donate
<1>5. CASE \E p \in Proxies, a \in Arrivals : Arrive(p, a)
  BY <1>5, AmountsAssumption DEF Arrive
<1>6. CASE Tick
  BY <1>6 DEF Tick
<1>7. QED
  BY <1>1, <1>2, <1>3, <1>4, <1>5, <1>6

LEMMA NextTypeInv == TypeInv /\ [Next]_vars => TypeInv'
<1> SUFFICES ASSUME TypeInv, [Next]_vars PROVE TypeInv'
  OBVIOUS
<1>1. CASE UNCHANGED vars
  BY <1>1 DEF vars, TypeInv, TypeOK, StreamClock, DebtIsSumOfOrigins,
              originVars, streamVars, ownerVars, loanVars
<1>2. CASE OwnerNext
  BY <1>2, AddOriginTypeInv, SettleTypeInv, CollectTypeInv,
     OtherTypeInv DEF OwnerNext
<1>3. CASE LPNext
  BY <1>3, LPTypeInv
<1>4. CASE \E o \in Origins, c \in Curators : DisableOrigin(o, c)
  BY <1>4, DisableOriginTypeInv
<1>5. CASE \E m \in Messages : Handle(m)
  BY <1>5, HandleTypeInv
<1>6. CASE \E o \in Origins : Claim(o)
  BY <1>6, ClaimTypeInv
<1>7. CASE CollectNonDepositedAssets
  BY <1>7, CollectTypeInv
<1>8. CASE UpdateStreamedAssets
  BY <1>8, SettleTypeInv
<1>9. CASE \/ \E d \in YieldChanges : YieldChange(d)
           \/ \E a \in Donations : Donate(a)
           \/ \E p \in Proxies, a \in Arrivals : Arrive(p, a)
           \/ Tick
  BY <1>9, OtherTypeInv
<1>10. CASE \E m \in Messages : ProcessFailedHandler(m)
  BY <1>10, ProcessFailedHandlerTypeInv
<1>11. QED
  BY <1>1, <1>2, <1>3, <1>4, <1>5, <1>6, <1>7, <1>8, <1>9, <1>10 DEF Next, PoolNext

\* TypeInv holds in every reachable state.
THEOREM TypeInvariant == Spec => []TypeInv
BY InitTypeInv, NextTypeInv, PTL DEF Spec

\* Every variable has its type; above all no counter that the contract
\* decreases becomes negative.
THEOREM TypeCorrect == Spec => []TypeOK
<1>1. TypeInv => TypeOK
  BY DEF TypeInv
<1>2. QED
  BY <1>1, TypeInvariant, PTL

\* outstandingDebt is always the sum of the origins' debts.
THEOREM DebtsAddUp == Spec => []DebtIsSumOfOrigins
<1>1. TypeInv => DebtIsSumOfOrigins
  BY DEF TypeInv
<1>2. QED
  BY <1>1, TypeInvariant, PTL

\* remainsToStream is always between zero and totalAssetsToStream.
THEOREM StreamIsBounded == Spec => []StreamWithinBounds
<1>1. TypeInv => StreamWithinBounds
  BY RemainsType DEF TypeInv, StreamWithinBounds
<1>2. QED
  BY <1>1, TypeInvariant, PTL
=============================================================================
