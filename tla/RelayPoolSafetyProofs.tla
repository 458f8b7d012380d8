----------------------- MODULE RelayPoolSafetyProofs -----------------------
(***************************************************************************)
(* The safety theorems of RelayPool and of the gateway: no message is paid *)
(* twice, totalAssets never underflows, no operation of the pool changes   *)
(* totalAssets, a share never loses value, the stream ends in time, fees   *)
(* are short by no more than their rounding, debts rise only within their  *)
(* limits, and a remainder in the gateway is worth less than a share. The  *)
(* three about totalAssets rest on how each step changes its two terms,    *)
(* Slack and RemainsToStream.                                              *)
(***************************************************************************)
EXTENDS RelayPoolProofs, NativeGateway

-----------------------------------------------------------------------------
(* Payments *)

\* Inductive: a message was paid exactly when it is marked as processed.
PaidInv == \A i \in MessageIds : payouts[i] = IF i \in messages THEN 1 ELSE 0

LEMMA MarkAndPayOnce ==
  ASSUME TypeOK, PaidInv, NEW m \in Messages, MarkAndPay(m)
  PROVE  PaidInv'
<1> DEFINE id == <<m.origin, m.nonce>>
<1>1. id \in MessageIds /\ id \notin messages /\ messages' = messages \cup {id}
  BY DEF MessageIds, MarkAndPay
<1>2. payouts' = [payouts EXCEPT ![id] = @ + 1]
  BY DEF MarkAndPay
<1>3. ASSUME NEW i \in MessageIds
      PROVE  payouts'[i] = IF i \in messages' THEN 1 ELSE 0
  <2>1. CASE i = id
    BY <1>1, <1>2, <2>1 DEF PaidInv, TypeOK
  <2>2. CASE i # id
    BY <1>1, <1>2, <2>2 DEF PaidInv, TypeOK
  <2>3. QED
    BY <2>1, <2>2
<1>4. QED
  BY <1>3 DEF PaidInv

\* Every step but handle and processFailedHandler leaves the messages alone.
LEMMA OnlyLoansPay ==
  ASSUME [Next]_vars, ~\E m \in Messages : Handle(m) \/ ProcessFailedHandler(m)
  PROVE  UNCHANGED <<messages, payouts>>
BY DEF Next, PoolNext, vars, OwnerNext, LPNext, AddOrigin, DisableOrigin, UpdateStreamingPeriod,
       UpdateStreamedAssets, SetTokenSwap, SwapAndDeposit, CollectNonDepositedAssets,
       UpdateYieldPool, Deposit, Mint, Withdraw, Redeem, MintShares, BurnShares, Claim,
       YieldChange, Donate, Arrive, Tick, loanVars

LEMMA NextPaidInv == TypeInv /\ PaidInv /\ [Next]_vars => PaidInv'
<1> SUFFICES ASSUME TypeInv, PaidInv, [Next]_vars PROVE PaidInv'
  OBVIOUS
<1>1. ASSUME NEW m \in Messages, Handle(m) \/ ProcessFailedHandler(m)
      PROVE  PaidInv'
  <2>1. MarkAndPay(m)
    BY <1>1 DEF Handle, ProcessFailedHandler
  <2>2. QED
    BY <2>1, MarkAndPayOnce DEF TypeInv
<1>2. CASE ~\E m \in Messages : Handle(m) \/ ProcessFailedHandler(m)
  BY <1>2, OnlyLoansPay DEF PaidInv
<1>3. QED
  BY <1>1, <1>2

\* No message is paid twice, in whatever order Hyperlane's deliveries and the
\* owner's rescues come.
THEOREM NoMessagePaidTwice == Spec => []PaidAtMostOnce
<1>1. Init => PaidInv
  BY DEF Init, PaidInv
<1>2. PaidInv => PaidAtMostOnce
  BY DEF PaidInv, PaidAtMostOnce
<1>3. QED
  BY <1>1, <1>2, NextPaidInv, TypeInvariant, PTL DEF Spec

-----------------------------------------------------------------------------
(* What each step does to the assets *)

\* TotalAssets before what is still streaming is taken out.
Slack == yieldBalance + outstandingDebt - pendingBridgeFees

LEMMA SlackType ==
  ASSUME TypeInv
  PROVE  /\ Slack \in Int
         /\ StreamEvaluates => /\ RemainsToStream \in Nat
                               /\ TotalAssets = Slack - RemainsToStream
BY RemainsType DEF TotalAssets, Slack, TypeInv, TypeOK

LEMMA SettleStreamNeutral ==
  ASSUME TypeInv, SettleStream, UNCHANGED <<now, endOfStream>>, StreamEvaluates'
  PROVE  RemainsToStream' = RemainsToStream
<1>1. totalAssetsToStream' = RemainsToStream /\ lastAssetsCollectedAt' = now /\ StreamEvaluates
  BY DEF SettleStream
<1>2. RemainsToStream \in Nat
  BY <1>1, RemainsType DEF TypeInv, TypeOK
<1>3. CASE now > endOfStream
  BY <1>3 DEF RemainsToStream
<1>4. CASE ~(now > endOfStream)
  <2> DEFINE n == endOfStream - now
  <2>1. n \in Nat \ {0}
    BY <1>1, <1>4 DEF StreamEvaluates, TypeInv, TypeOK
  <2>2. RemainsToStream' = RemainsToStream - (RemainsToStream * 0) \div n
    BY <1>1, <1>4 DEF RemainsToStream, TypeInv, TypeOK
  <2>3. (RemainsToStream * 0) \div n = 0
    BY <1>2, <2>1
  <2>4. QED
    BY <1>2, <2>2, <2>3
<1>5. QED
  BY <1>3, <1>4

\* Added assets add to what remains to be streamed, and to nothing else.
LEMMA AddToStreamEffect ==
  ASSUME TypeInv, NEW amount \in Nat, AddToStreamingAssets(amount), now' = now
  PROVE  /\ StreamEvaluates' => StreamEvaluates
         /\ StreamEvaluates' => RemainsToStream' = RemainsToStream + amount
<1>1. CASE amount = 0 /\ UNCHANGED streamVars
  <2>1. StreamEvaluates' = StreamEvaluates /\ RemainsToStream' = RemainsToStream
    BY <1>1 DEF streamVars, StreamEvaluates, RemainsToStream
  <2>2. StreamEvaluates => RemainsToStream \in Nat
    BY RemainsType DEF TypeInv, TypeOK
  <2>3. QED
    BY <1>1, <2>1, <2>2
<1>2. CASE amount > 0 /\ now # endOfStream
  <2> DEFINE left == RemainsToStream
             time == MaxOf(endOfStream, now) - now
             sum == left * time + amount * streamingPeriod
             period == sum \div (left + amount)
  <2>1. StreamEvaluates
    BY <1>2 DEF TypeInv, TypeOK, StreamClock, StreamEvaluates
  <2>2. left \in Nat
    BY <2>1, RemainsType DEF TypeInv, TypeOK
  <2>3. time \in Nat
    BY DEF MaxOf, TypeInv, TypeOK
  <2>4. sum \in Nat /\ left + amount \in Nat \ {0}
    BY <1>2, <2>2, <2>3 DEF TypeInv, TypeOK
  <2>5. period \in Nat
    BY <2>4, QuotientType
  <2>6. /\ endOfStream' = now + period
        /\ totalAssetsToStream' = left + amount
        /\ lastAssetsCollectedAt' = now
    BY <1>2 DEF AddToStreamingAssets
  <2>7. ASSUME StreamEvaluates'
        PROVE  RemainsToStream' = left + amount
    <3>1. period # 0
      BY <2>5, <2>6, <2>7 DEF StreamEvaluates, TypeInv, TypeOK
    <3>2. ~(now' > endOfStream')
      BY <2>5, <2>6 DEF TypeInv, TypeOK
    <3>3. endOfStream' - lastAssetsCollectedAt' = period /\ now' - lastAssetsCollectedAt' = 0
      BY <2>5, <2>6 DEF TypeInv, TypeOK
    <3>4. RemainsToStream' = (left + amount) - ((left + amount) * 0) \div period
      BY <2>6, <3>2, <3>3 DEF RemainsToStream
    <3>5. ((left + amount) * 0) \div period = 0
      BY <2>4, <2>5, <3>1
    <3>6. QED
      BY <2>4, <3>4, <3>5
  <2>8. QED
    BY <2>1, <2>7
<1>3. QED
  BY <1>1, <1>2 DEF AddToStreamingAssets

\* As time goes by less remains to be streamed.
LEMMA TickEffect ==
  ASSUME TypeInv, Tick, StreamEvaluates'
  PROVE  /\ RemainsToStream' \in Nat
         /\ StreamEvaluates => RemainsToStream' <= RemainsToStream
         /\ ~StreamEvaluates => RemainsToStream' = 0
<1>1. now' = now + 1 /\ UNCHANGED streamVars
  BY DEF Tick
<1>2. CASE now' > endOfStream
  <2>1. RemainsToStream' = 0
    BY <1>1, <1>2 DEF RemainsToStream, streamVars
  <2>2. QED
    BY <2>1, RemainsType DEF TypeInv, TypeOK
<1>3. CASE ~(now' > endOfStream)
  <2> DEFINE T == totalAssetsToStream
             d == now - lastAssetsCollectedAt
             n == endOfStream - lastAssetsCollectedAt
  <2>1. d \in Nat /\ n \in Nat \ {0} /\ T \in Nat /\ d + 1 <= n
    BY <1>1, <1>3 DEF TypeInv, TypeOK, StreamClock
  <2>2. RemainsToStream = T - (T * d) \div n
    BY <1>1, <1>3 DEF RemainsToStream, TypeInv, TypeOK
  <2>3. RemainsToStream' = T - (T * (d + 1)) \div n
    BY <1>1, <1>3 DEF RemainsToStream, TypeInv, TypeOK, streamVars
  <2>4. T * d \in Nat /\ T * (d + 1) \in Nat /\ T * d <= T * (d + 1)
    BY <2>1, ProductMonotone
  <2>5. (T * d) \div n <= (T * (d + 1)) \div n
    BY <2>1, <2>4, QuotientMonotone
  <2>6. StreamEvaluates
    BY <2>1 DEF StreamEvaluates, TypeInv, TypeOK
  <2>7. (T * d) \div n \in Nat /\ (T * (d + 1)) \div n \in Nat
    BY <2>1, <2>4, QuotientType
  <2>8. (T * (d + 1)) \div n <= T
    BY <2>1, ShareOfTotal
  <2>9. QED
    BY <2>1, <2>2, <2>3, <2>5, <2>6, <2>7, <2>8
<1>4. QED
  BY <1>2, <1>3

\* Handle and processFailedHandler move assets between the yield pool, the
\* debt and the pending fees.
LEMMA LoanEffect ==
  ASSUME TypeInv, NEW m \in Messages, Handle(m) \/ ProcessFailedHandler(m)
  PROVE  /\ Slack' = Slack
         /\ UNCHANGED <<now, totalSupply, streamVars>>
<1>1. m.origin \in Origins /\ m.amount \in Nat
  BY MessagesAssumption DEF Message
<1>2. CASE Handle(m)
  <2>1. Fee(m.amount, authorizedOrigins[m.origin].bridgeFee) \in Nat
    BY <1>1, FeeType DEF TypeInv, TypeOK, Settings
  <2>2. QED
    BY <1>1, <1>2, <2>1 DEF Handle, ChangeDebt, Slack, TypeInv, TypeOK
<1>3. CASE ProcessFailedHandler(m)
  <2> DEFINE proxy == authorizedOrigins[m.origin].proxyBridge
             amount == Claimable(proxy, originDebt[m.origin] + m.amount)
  <2>1. proxy \in Proxies /\ originDebt[m.origin] \in Nat
    BY <1>1, <1>3 DEF ProcessFailedHandler, TypeInv, TypeOK, Settings
  <2>2. amount \in Nat
    BY <1>1, <2>1, ClaimableType DEF TypeInv
  <2>3. QED
    BY <1>1, <1>3, <2>2 DEF ProcessFailedHandler, ChangeDebt, Slack, TypeInv, TypeOK
<1>4. QED
  BY <1>2, <1>3

\* claim, collectNonDepositedAssets and swapAndDeposit add as much to the slack
\* as to the stream.
LEMMA CollectEffect ==
  ASSUME TypeInv,
         \/ \E o \in Origins : Claim(o)
         \/ CollectNonDepositedAssets
         \/ \E out \in SwapOutputs : SwapAndDeposit(out)
  PROVE  \E amount \in Nat :
           /\ Slack' = Slack + amount
           /\ AddToStreamingAssets(amount)
           /\ UNCHANGED <<now, totalSupply>>
<1>1. ASSUME NEW o \in Origins, Claim(o)
      PROVE  \E amount \in Nat :
               /\ Slack' = Slack + amount
               /\ AddToStreamingAssets(amount)
               /\ UNCHANGED <<now, totalSupply>>
  <2> DEFINE s == authorizedOrigins[o]
             amount == Claimable(s.proxyBridge, originDebt[o])
             fee == Fee(amount, s.bridgeFee)
  <2>1. s.proxyBridge \in Proxies /\ s.bridgeFee \in Nat /\ originDebt[o] \in Nat
    BY <1>1 DEF Claim, TypeInv, TypeOK, Settings
  <2>2. amount \in Nat
    BY <2>1, ClaimableType DEF TypeInv
  <2>3. fee \in Nat
    BY <2>1, <2>2, FeeType
  <2>4. /\ yieldBalance' = yieldBalance + amount
        /\ outstandingDebt' = outstandingDebt + (0 - amount)
        /\ pendingBridgeFees' = pendingBridgeFees - fee
        /\ AddToStreamingAssets(fee)
        /\ UNCHANGED <<now, totalSupply>>
    BY <1>1 DEF Claim, ChangeDebt
  <2>5. Slack' = Slack + fee
    BY <2>2, <2>3, <2>4 DEF Slack, TypeInv, TypeOK
  <2>6. QED
    BY <2>3, <2>4, <2>5
<1>2. ASSUME NEW extra \in Nat, CollectBalance(extra),
             UNCHANGED <<now, totalSupply, originVars, loanVars>>
      PROVE  \E amount \in Nat :
               /\ Slack' = Slack + amount
               /\ AddToStreamingAssets(amount)
               /\ UNCHANGED <<now, totalSupply>>
  <2>1. idle + extra \in Nat /\ AddToStreamingAssets(idle + extra)
    BY <1>2 DEF CollectBalance, TypeInv, TypeOK
  <2>2. Slack' = Slack + (idle + extra)
    BY <1>2 DEF CollectBalance, Slack, originVars, loanVars, TypeInv, TypeOK
  <2>3. QED
    BY <1>2, <2>1, <2>2
<1>3. CASE CollectNonDepositedAssets
  BY <1>2, <1>3 DEF CollectNonDepositedAssets
<1>4. ASSUME NEW out \in SwapOutputs, SwapAndDeposit(out)
      PROVE  \E amount \in Nat :
               /\ Slack' = Slack + amount
               /\ AddToStreamingAssets(amount)
               /\ UNCHANGED <<now, totalSupply>>
  BY <1>2, <1>4, AmountsAssumption DEF SwapAndDeposit
<1>5. QED
  BY <1>1, <1>3, <1>4

\* The steps that settle the stream, and those that touch neither slack nor
\* stream.
LEMMA QuietEffect ==
  ASSUME TypeInv,
         \/ UpdateStreamedAssets
         \/ \E period \in StreamingPeriods : UpdateStreamingPeriod(period)
         \/ \E p \in OriginParams : AddOrigin(p.origin, p.settings)
         \/ \E o \in Origins, c \in Curators : DisableOrigin(o, c)
         \/ \E t \in TokenSwaps : SetTokenSwap(t)
         \/ \E p \in YieldPools, lo, hi \in SharePriceBounds : UpdateYieldPool(p, lo, hi)
         \/ \E a \in Donations : Donate(a)
         \/ \E p \in Proxies, a \in Arrivals : Arrive(p, a)
         \/ UNCHANGED vars
  PROVE  /\ Slack' = Slack
         /\ UNCHANGED <<now, totalSupply>>
         /\ StreamEvaluates' => StreamEvaluates
         /\ StreamEvaluates' => RemainsToStream' = RemainsToStream
<1>1. CASE UpdateStreamedAssets \/ \E period \in StreamingPeriods : UpdateStreamingPeriod(period)
  <2>1. /\ SettleStream
        /\ UNCHANGED <<now, totalSupply, endOfStream, yieldBalance, originVars, loanVars>>
    BY <1>1 DEF UpdateStreamedAssets, UpdateStreamingPeriod
  <2>2. StreamEvaluates
    BY <2>1 DEF SettleStream
  <2>3. StreamEvaluates' => RemainsToStream' = RemainsToStream
    BY <2>1, SettleStreamNeutral
  <2>4. QED
    BY <2>1, <2>2, <2>3 DEF Slack, originVars, loanVars
<1>2. CASE UNCHANGED <<now, totalSupply, yieldBalance, outstandingDebt, pendingBridgeFees, streamVars>>
  BY <1>2 DEF Slack, streamVars, StreamEvaluates, RemainsToStream
<1>3. CASE ~(UpdateStreamedAssets \/ \E period \in StreamingPeriods : UpdateStreamingPeriod(period))
  BY <1>2, <1>3 DEF AddOrigin, DisableOrigin, SetTokenSwap, UpdateYieldPool, Donate, Arrive,
                    vars, originVars, loanVars
<1>4. QED
  BY <1>1, <1>3

-----------------------------------------------------------------------------
(* Rounding of shares *)

LEMMA QuotientUp ==
  ASSUME NEW a \in Nat, NEW n \in Nat \ {0}
  PROVE  CeilDiv(a, n) \in Nat /\ a <= n * CeilDiv(a, n)
<1>1. a + n - 1 \in Nat
  OBVIOUS
<1>2. /\ (a + n - 1) \div n \in Nat
      /\ a + n - 1 < n * ((a + n - 1) \div n) + n
  BY <1>1, QuotientType
<1>3. QED
  BY <1>2 DEF CeilDiv

\* A provider who exchanges `assets` for `shares`, both ways, at the pool's
\* rounding: into the pool a share costs at least its value, out of the pool
\* it fetches at most its value.
LEMMA LPSteps ==
  ASSUME TypeInv, LPNext, totalSupply > 0
  PROVE  /\ TotalAssetsEvaluates
         /\ \E assets, shares \in Nat :
              \/ /\ MintShares(assets, shares)
                 /\ assets * totalSupply >= TotalAssets * shares
              \/ /\ BurnShares(assets, shares)
                 /\ assets * totalSupply <= TotalAssets * shares
<1> DEFINE S == totalSupply
           A == TotalAssets
<1>1. PICK n \in LPAmounts : Deposit(n) \/ Mint(n) \/ Withdraw(n) \/ Redeem(n)
  BY DEF LPNext
<1>2. TotalAssetsEvaluates
  BY <1>1 DEF Deposit, Mint, Withdraw, Redeem, SharesEvaluate
<1>3. n \in Nat /\ S \in Nat \ {0} /\ A \in Nat
  BY <1>2, AmountsAssumption, TotalAssetsType DEF TypeInv, TypeOK, TotalAssetsEvaluates
<1>4. n * S \in Nat /\ n * A \in Nat
  BY <1>3
<1>5. CASE Deposit(n)
  <2>1. A \in Nat \ {0}
    BY <1>3, <1>5 DEF Deposit, SharesEvaluate
  <2> DEFINE q == (n * S) \div A
  <2>2. q \in Nat /\ A * q <= n * S
    BY <1>4, <2>1, QuotientType
  <2>3. MintShares(n, q)
    BY <1>3, <1>5 DEF Deposit, PreviewDeposit
  <2>4. QED
    BY <1>2, <1>3, <2>2, <2>3
<1>6. CASE Mint(n)
  <2> DEFINE q == CeilDiv(n * A, S)
  <2>1. q \in Nat /\ n * A <= S * q
    BY <1>3, <1>4, QuotientUp
  <2>2. MintShares(q, n)
    BY <1>3, <1>6 DEF Mint, PreviewMint
  <2>3. q * S >= A * n
    BY <1>3, <2>1
  <2>4. QED
    BY <1>2, <1>3, <2>1, <2>2, <2>3
<1>7. CASE Withdraw(n)
  <2>1. A \in Nat \ {0}
    BY <1>3, <1>7 DEF Withdraw, SharesEvaluate
  <2> DEFINE q == CeilDiv(n * S, A)
  <2>2. q \in Nat /\ n * S <= A * q
    BY <1>4, <2>1, QuotientUp
  <2>3. BurnShares(n, q)
    BY <1>3, <1>7 DEF Withdraw, PreviewWithdraw
  <2>4. QED
    BY <1>2, <1>3, <2>2, <2>3
<1>8. CASE Redeem(n)
  <2> DEFINE q == (n * A) \div S
  <2>1. q \in Nat /\ S * q <= n * A
    BY <1>3, <1>4, QuotientType
  <2>2. BurnShares(q, n)
    BY <1>3, <1>8 DEF Redeem, PreviewRedeem
  <2>3. q * S <= A * n
    BY <1>3, <2>1
  <2>4. QED
    BY <1>2, <1>3, <2>1, <2>2, <2>3
<1>9. QED
  BY <1>1, <1>5, <1>6, <1>7, <1>8

\* What a provider's step does to the assets and to the price of a share; the
\* assets that leave are at most TotalAssets.
LEMMA LPEffect ==
  ASSUME TypeInv, LPNext
  PROVE  /\ StreamEvaluates' = StreamEvaluates
         /\ RemainsToStream' = RemainsToStream
         /\ Slack' \in Int
         /\ totalSupply = 0 => Slack' >= Slack
         /\ totalSupply > 0 =>
              /\ TotalAssetsEvaluates
              /\ Slack' >= RemainsToStream
              /\ TotalAssets' * totalSupply >= TotalAssets * totalSupply'
<1>1. UNCHANGED <<now, streamVars, originVars, loanVars>>
  BY DEF LPNext, Deposit, Mint, Withdraw, Redeem, MintShares, BurnShares
<1>2. StreamEvaluates' = StreamEvaluates /\ RemainsToStream' = RemainsToStream
  BY <1>1 DEF streamVars, StreamEvaluates, RemainsToStream
<1>3. yieldBalance' \in Nat /\ totalSupply' \in Nat
  BY LPTypeInv DEF TypeInv, TypeOK
<1>4. /\ yieldBalance \in Nat
      /\ Slack \in Int
      /\ Slack' \in Int
  BY <1>1, <1>3 DEF Slack, originVars, loanVars, TypeInv, TypeOK
<1>5. ASSUME NEW k \in Int, yieldBalance' = yieldBalance + k
      PROVE  Slack' = Slack + k
  BY <1>1, <1>5 DEF Slack, originVars, loanVars, TypeInv, TypeOK
<1>6. ASSUME totalSupply = 0
      PROVE  Slack' >= Slack
  <2>1. PICK n \in LPAmounts : Deposit(n) \/ Mint(n) \/ Withdraw(n) \/ Redeem(n)
    BY DEF LPNext
  <2>2. n \in Nat
    BY AmountsAssumption
  <2>3. /\ PreviewDeposit(n) = n /\ PreviewMint(n) = n
        /\ PreviewWithdraw(n) = n /\ PreviewRedeem(n) = n
    BY <1>6 DEF PreviewDeposit, PreviewMint, PreviewWithdraw, PreviewRedeem
  <2>4. yieldBalance' = yieldBalance + n \/ yieldBalance' = yieldBalance + 0
    BY <1>6, <2>1, <2>2, <2>3 DEF Deposit, Mint, Withdraw, Redeem, MintShares, BurnShares,
                                  TypeInv, TypeOK
  <2>5. Slack' = Slack + n \/ Slack' = Slack + 0
    BY <1>5, <2>2, <2>4
  <2>6. QED
    BY <1>4, <2>2, <2>5
<1>7. ASSUME totalSupply > 0
      PROVE  /\ TotalAssetsEvaluates
             /\ Slack' >= RemainsToStream
             /\ TotalAssets' * totalSupply >= TotalAssets * totalSupply'
  <2> DEFINE S == totalSupply
             A == TotalAssets
  <2>1. TotalAssetsEvaluates
    BY <1>7, LPSteps
  <2>2. PICK assets \in Nat, shares \in Nat :
          \/ MintShares(assets, shares) /\ assets * S >= A * shares
          \/ BurnShares(assets, shares) /\ assets * S <= A * shares
    BY <1>7, LPSteps
  <2>3. /\ A \in Nat /\ S \in Nat \ {0} /\ RemainsToStream \in Nat
        /\ A = Slack - RemainsToStream
    BY <1>7, <2>1, SlackType, TotalAssetsType DEF TypeInv, TypeOK, TotalAssetsEvaluates
  <2>4. TotalAssets' = Slack' - RemainsToStream
    <3>1. TypeInv'
      BY LPTypeInv
    <3>2. QED
      BY <1>1, <1>2, <1>3, <2>3 DEF TotalAssets, Slack, originVars, loanVars, TypeInv, TypeOK
  <2>5. CASE MintShares(assets, shares) /\ assets * S >= A * shares
    <3>1. Slack' = Slack + assets /\ totalSupply' = S + shares
      <4>1. yieldBalance' = yieldBalance + assets /\ totalSupply' = S + shares
        BY <2>5 DEF MintShares
      <4>2. QED
        BY <1>4, <1>5, <4>1
    <3>2. TotalAssets' = A + assets
      BY <1>4, <2>3, <2>4, <3>1
    <3>3. (A + assets) * S = A * S + assets * S /\ A * (S + shares) = A * S + A * shares
      BY <2>3
    <3>4. /\ A * S \in Nat /\ assets * S \in Nat /\ A * shares \in Nat
      BY <2>3
    <3>5. (A + assets) * S >= A * (S + shares)
      BY <2>5, <3>3, <3>4
    <3>6. QED
      BY <1>4, <2>1, <2>3, <3>1, <3>2, <3>5
  <2>6. CASE BurnShares(assets, shares) /\ assets * S <= A * shares
    <3>1. Slack' = Slack - assets /\ totalSupply' = S - shares /\ shares <= S
      <4>1. /\ yieldBalance' = yieldBalance + (0 - assets) /\ totalSupply' = S - shares
            /\ shares <= S
        BY <2>6 DEF BurnShares, TypeInv, TypeOK
      <4>2. QED
        BY <1>4, <1>5, <4>1
    <3>2. TotalAssets' = A - assets
      BY <1>4, <2>3, <2>4, <3>1
    <3>3. (A - assets) * S = A * S - assets * S /\ A * (S - shares) = A * S - A * shares
      BY <2>3
    <3>4. /\ A * S \in Nat /\ assets * S \in Nat /\ A * shares \in Nat
      BY <2>3
    <3>5. (A - assets) * S >= A * (S - shares)
      BY <2>6, <3>3, <3>4
    <3>6. assets <= A
      <4>1. A * shares <= A * S
        BY <2>3, <3>1, ProductMonotone
      <4>2. assets * S <= A * S
        BY <2>6, <3>4, <4>1
      <4>3. ASSUME assets > A PROVE FALSE
        <5>1. (A + 1) * S <= assets * S
          BY <2>3, <4>3, ProductMonotone
        <5>2. QED
          BY <2>3, <3>4, <4>2, <5>1
      <4>4. QED
        BY <2>3, <4>3
    <3>7. QED
      BY <1>4, <2>1, <2>3, <3>1, <3>2, <3>5, <3>6
  <2>7. QED
    BY <2>2, <2>5, <2>6
<1>8. QED
  BY <1>2, <1>4, <1>6, <1>7

-----------------------------------------------------------------------------
(* The accounting of the pool *)

\* Every step of Next is one of these.
LEMMA StepCases ==
  ASSUME [Next]_vars
  PROVE  \/ \E m \in Messages : Handle(m) \/ ProcessFailedHandler(m)
         \/ \/ \E o \in Origins : Claim(o)
            \/ CollectNonDepositedAssets
            \/ \E out \in SwapOutputs : SwapAndDeposit(out)
         \/ \/ UpdateStreamedAssets
            \/ \E period \in StreamingPeriods : UpdateStreamingPeriod(period)
            \/ \E p \in OriginParams : AddOrigin(p.origin, p.settings)
            \/ \E o \in Origins, c \in Curators : DisableOrigin(o, c)
            \/ \E t \in TokenSwaps : SetTokenSwap(t)
            \/ \E p \in YieldPools, lo, hi \in SharePriceBounds : UpdateYieldPool(p, lo, hi)
            \/ \E a \in Donations : Donate(a)
            \/ \E p \in Proxies, a \in Arrivals : Arrive(p, a)
            \/ UNCHANGED vars
         \/ LPNext
         \/ \E d \in YieldChanges : YieldChange(d)
         \/ Tick
BY DEF Next, PoolNext, OwnerNext

\* Inductive: the assets cover what still streams. Where remainsToStream
\* divides by zero nothing streams any more, but the fees must be covered.
Covered ==
  /\ Slack >= 0
  /\ StreamEvaluates => Slack >= RemainsToStream

LEMMA YieldEffect ==
  ASSUME TypeInv, NEW d \in YieldChanges, YieldChange(d)
  PROVE  /\ Slack' = Slack + d
         /\ UNCHANGED <<now, totalSupply, idle, proxyBalance, originVars, streamVars,
                        ownerVars, loanVars>>
         /\ StreamEvaluates' = StreamEvaluates
         /\ RemainsToStream' = RemainsToStream
<1>1. /\ yieldBalance' = yieldBalance + d
      /\ UNCHANGED <<now, totalSupply, idle, proxyBalance, originVars, streamVars,
                     ownerVars, loanVars>>
  BY DEF YieldChange
<1>2. Slack' = Slack + d
  BY <1>1, AmountsAssumption DEF Slack, originVars, loanVars, TypeInv, TypeOK
<1>3. StreamEvaluates' = StreamEvaluates /\ RemainsToStream' = RemainsToStream
  BY <1>1 DEF StreamEvaluates, RemainsToStream, streamVars
<1>4. QED
  BY <1>1, <1>2, <1>3

LEMMA NextCovered ==
  ASSUME YieldChanges \subseteq Nat, TypeInv, Covered, [Next]_vars
  PROVE  Covered'
<1>1. /\ Slack \in Nat
      /\ StreamEvaluates => RemainsToStream \in Nat /\ Slack >= RemainsToStream
  BY SlackType DEF Covered
<1>2. CASE \E m \in Messages : Handle(m) \/ ProcessFailedHandler(m)
  <2>1. Slack' = Slack /\ UNCHANGED <<now, streamVars>>
    BY <1>2, LoanEffect
  <2>2. StreamEvaluates' = StreamEvaluates /\ RemainsToStream' = RemainsToStream
    BY <2>1 DEF StreamEvaluates, RemainsToStream, streamVars
  <2>3. QED
    BY <1>1, <2>1, <2>2 DEF Covered
<1>3. CASE \/ \E o \in Origins : Claim(o)
           \/ CollectNonDepositedAssets
           \/ \E out \in SwapOutputs : SwapAndDeposit(out)
  <2>1. PICK amount \in Nat : /\ Slack' = Slack + amount
                              /\ AddToStreamingAssets(amount)
                              /\ UNCHANGED <<now, totalSupply>>
    BY <1>3, CollectEffect
  <2>2. StreamEvaluates' => StreamEvaluates /\ RemainsToStream' = RemainsToStream + amount
    BY <2>1, AddToStreamEffect
  <2>3. QED
    BY <1>1, <2>1, <2>2 DEF Covered
<1>4. CASE LPNext
  <2>1. /\ StreamEvaluates' = StreamEvaluates
        /\ RemainsToStream' = RemainsToStream
        /\ Slack' \in Int
        /\ totalSupply = 0 => Slack' >= Slack
        /\ totalSupply > 0 => TotalAssetsEvaluates /\ Slack' >= RemainsToStream
    BY <1>4, LPEffect
  <2>2. CASE totalSupply = 0
    BY <1>1, <2>1, <2>2 DEF Covered
  <2>3. CASE totalSupply > 0
    BY <1>1, <2>1, <2>3 DEF Covered, TotalAssetsEvaluates
  <2>4. QED
    BY <2>2, <2>3 DEF TypeInv, TypeOK
<1>5. CASE \E d \in YieldChanges : YieldChange(d)
  BY <1>1, <1>5, YieldEffect DEF Covered
<1>6. CASE Tick
  <2>1. Slack' = Slack
    BY <1>6 DEF Tick, Slack, originVars, loanVars
  <2>2. StreamEvaluates' => /\ RemainsToStream' \in Nat
                            /\ StreamEvaluates => RemainsToStream' <= RemainsToStream
                            /\ ~StreamEvaluates => RemainsToStream' = 0
    BY <1>6, TickEffect
  <2>3. QED
    BY <1>1, <2>1, <2>2 DEF Covered
<1>7. ASSUME \/ UpdateStreamedAssets
             \/ \E period \in StreamingPeriods : UpdateStreamingPeriod(period)
             \/ \E p \in OriginParams : AddOrigin(p.origin, p.settings)
             \/ \E o \in Origins, c \in Curators : DisableOrigin(o, c)
             \/ \E t \in TokenSwaps : SetTokenSwap(t)
             \/ \E p \in YieldPools, lo, hi \in SharePriceBounds : UpdateYieldPool(p, lo, hi)
             \/ \E a \in Donations : Donate(a)
             \/ \E p \in Proxies, a \in Arrivals : Arrive(p, a)
             \/ UNCHANGED vars
      PROVE  Covered'
  <2>1. Slack' = Slack /\ (StreamEvaluates' => StreamEvaluates /\ RemainsToStream' = RemainsToStream)
    BY <1>7, QuietEffect
  <2>2. QED
    BY <1>1, <2>1 DEF Covered
<1>8. QED
  BY StepCases, <1>2, <1>3, <1>4, <1>5, <1>6, <1>7

\* As long as the yield pool loses no value, totalAssets() never underflows:
\* what the pool set aside for fees and for the stream is there, whatever was
\* lent, claimed, rescued, streamed, deposited and withdrawn.
THEOREM AssetsCoverFees ==
  ASSUME YieldChanges \subseteq Nat
  PROVE  Spec => []TotalAssetsNeverUnderflows
<1>1. Init => Covered
  BY NumbersAssumption DEF Init, Covered, Slack, StreamEvaluates, RemainsToStream
<1>2. TypeInv /\ Covered /\ [Next]_vars => Covered'
  BY NextCovered
<1>3. TypeInv /\ Covered => TotalAssetsNeverUnderflows
  BY SlackType DEF Covered, TotalAssetsNeverUnderflows
<1>4. QED
  BY <1>1, <1>2, <1>3, TypeInvariant, PTL DEF Spec

\* No operation but those of liquidity providers changes totalAssets(), so no
\* deposit can be timed to catch a fee or a collection.
THEOREM OperationsNeutral == Spec => OperationsAreNeutral
<1> DEFINE Neutral ==
      \/ UNCHANGED <<idle, proxyBalance, originVars, streamVars, ownerVars, loanVars>>
      \/ StreamEvaluates /\ StreamEvaluates' => TotalAssets' = TotalAssets
<1>1. ASSUME TypeInv, TypeInv', [Next]_vars
      PROVE  Neutral
  <2>1. /\ Slack \in Int
        /\ StreamEvaluates => /\ RemainsToStream \in Nat
                              /\ TotalAssets = Slack - RemainsToStream
    BY <1>1, SlackType
  <2>2. ASSUME NEW r \in Int, RemainsToStream' = r
        PROVE  TotalAssets' = Slack' - r
    BY <1>1, <2>2 DEF TotalAssets, Slack, TypeInv, TypeOK
  <2>3. CASE \E m \in Messages : Handle(m) \/ ProcessFailedHandler(m)
    <3>1. Slack' = Slack /\ UNCHANGED <<now, streamVars>>
      BY <1>1, <2>3, LoanEffect
    <3>2. RemainsToStream' = RemainsToStream
      BY <3>1 DEF RemainsToStream, streamVars
    <3>3. QED
      BY <2>1, <2>2, <3>1, <3>2
  <2>4. CASE \/ \E o \in Origins : Claim(o)
             \/ CollectNonDepositedAssets
             \/ \E out \in SwapOutputs : SwapAndDeposit(out)
    <3>1. PICK amount \in Nat : /\ Slack' = Slack + amount
                                /\ AddToStreamingAssets(amount)
                                /\ UNCHANGED <<now, totalSupply>>
      BY <1>1, <2>4, CollectEffect
    <3>2. ASSUME StreamEvaluates, StreamEvaluates'
          PROVE  TotalAssets' = TotalAssets
      <4>1. RemainsToStream' = RemainsToStream + amount
        BY <1>1, <3>1, <3>2, AddToStreamEffect
      <4>2. RemainsToStream + amount \in Int
        BY <2>1, <3>2
      <4>3. TotalAssets' = Slack' - (RemainsToStream + amount)
        BY <2>2, <4>1, <4>2
      <4>4. QED
        BY <2>1, <3>1, <3>2, <4>3
    <3>3. QED
      BY <3>2
  <2>5. ASSUME \/ UpdateStreamedAssets
               \/ \E period \in StreamingPeriods : UpdateStreamingPeriod(period)
               \/ \E p \in OriginParams : AddOrigin(p.origin, p.settings)
               \/ \E o \in Origins, c \in Curators : DisableOrigin(o, c)
               \/ \E t \in TokenSwaps : SetTokenSwap(t)
               \/ \E p \in YieldPools, lo, hi \in SharePriceBounds : UpdateYieldPool(p, lo, hi)
               \/ \E a \in Donations : Donate(a)
               \/ \E p \in Proxies, a \in Arrivals : Arrive(p, a)
               \/ UNCHANGED vars
        PROVE  Neutral
    <3>1. Slack' = Slack /\ (StreamEvaluates' => RemainsToStream' = RemainsToStream)
      BY <1>1, <2>5, QuietEffect
    <3>2. QED
      BY <2>1, <2>2, <3>1
  <2>6. CASE LPNext \/ Tick \/ \E d \in YieldChanges : YieldChange(d)
    BY <2>6 DEF LPNext, Deposit, Mint, Withdraw, Redeem, MintShares, BurnShares, Tick, YieldChange
  <2>7. QED
    BY <1>1, StepCases, <2>3, <2>4, <2>5, <2>6
<1>2. QED
  BY <1>1, TypeInvariant, PTL DEF Spec, OperationsAreNeutral

\* A share never loses value as long as the yield pool does not: who enters
\* or leaves, a loan, a claim or a rescue costs the other providers nothing.
THEOREM ShareValueKept ==
  ASSUME YieldChanges \subseteq Nat
  PROVE  Spec => SharePriceNeverFalls
<1> DEFINE Kept == StreamEvaluates /\ StreamEvaluates' /\ totalSupply > 0 =>
                     TotalAssets' * totalSupply >= TotalAssets * totalSupply'
<1>1. ASSUME TypeInv, TypeInv', [Next]_vars
      PROVE  Kept
  <2> SUFFICES ASSUME StreamEvaluates, StreamEvaluates', totalSupply > 0
               PROVE  TotalAssets' * totalSupply >= TotalAssets * totalSupply'
    OBVIOUS
  <2>1. /\ Slack \in Int /\ RemainsToStream \in Nat
        /\ TotalAssets = Slack - RemainsToStream
    BY <1>1, SlackType
  <2>2. ASSUME NEW r \in Int, RemainsToStream' = r
        PROVE  TotalAssets' = Slack' - r
    BY <1>1, <2>2 DEF TotalAssets, Slack, TypeInv, TypeOK
  <2>3. totalSupply \in Nat
    BY <1>1 DEF TypeInv, TypeOK
  \* Nobody's shares change and the assets do not shrink.
  <2>4. ASSUME NEW k \in Nat, TotalAssets' = TotalAssets + k, totalSupply' = totalSupply
        PROVE  TotalAssets' * totalSupply >= TotalAssets * totalSupply'
    <3>1. (TotalAssets + k) * totalSupply = TotalAssets * totalSupply + k * totalSupply
      BY <2>1, <2>3
    <3>2. k * totalSupply \in Nat /\ TotalAssets * totalSupply \in Int
      BY <2>1, <2>3
    <3>3. QED
      BY <2>4, <3>1, <3>2
  <2>5. CASE \E m \in Messages : Handle(m) \/ ProcessFailedHandler(m)
    <3>1. Slack' = Slack /\ UNCHANGED <<now, totalSupply, streamVars>>
      BY <1>1, <2>5, LoanEffect
    <3>2. RemainsToStream' = RemainsToStream
      BY <3>1 DEF RemainsToStream, streamVars
    <3>3. TotalAssets' = TotalAssets + 0
      BY <2>1, <2>2, <3>1, <3>2
    <3>4. QED
      BY <2>4, <3>1, <3>3
  <2>6. CASE \/ \E o \in Origins : Claim(o)
             \/ CollectNonDepositedAssets
             \/ \E out \in SwapOutputs : SwapAndDeposit(out)
    <3>1. PICK amount \in Nat : /\ Slack' = Slack + amount
                                /\ AddToStreamingAssets(amount)
                                /\ UNCHANGED <<now, totalSupply>>
      BY <1>1, <2>6, CollectEffect
    <3>2. RemainsToStream' = RemainsToStream + amount
      BY <1>1, <3>1, AddToStreamEffect
    <3>3. RemainsToStream + amount \in Int
      BY <2>1
    <3>4. TotalAssets' = Slack' - (RemainsToStream + amount)
      BY <2>2, <3>2, <3>3
    <3>5. TotalAssets' = TotalAssets + 0
      BY <2>1, <3>1, <3>4
    <3>6. QED
      BY <2>4, <3>1, <3>5
  <2>7. ASSUME \/ UpdateStreamedAssets
               \/ \E period \in StreamingPeriods : UpdateStreamingPeriod(period)
               \/ \E p \in OriginParams : AddOrigin(p.origin, p.settings)
               \/ \E o \in Origins, c \in Curators : DisableOrigin(o, c)
               \/ \E t \in TokenSwaps : SetTokenSwap(t)
               \/ \E p \in YieldPools, lo, hi \in SharePriceBounds : UpdateYieldPool(p, lo, hi)
               \/ \E a \in Donations : Donate(a)
               \/ \E p \in Proxies, a \in Arrivals : Arrive(p, a)
               \/ UNCHANGED vars
        PROVE  TotalAssets' * totalSupply >= TotalAssets * totalSupply'
    <3>1. Slack' = Slack /\ RemainsToStream' = RemainsToStream /\ totalSupply' = totalSupply
      BY <1>1, <2>7, QuietEffect
    <3>2. TotalAssets' = TotalAssets + 0
      BY <2>1, <2>2, <3>1
    <3>3. QED
      BY <2>4, <3>1, <3>2
  <2>8. CASE LPNext
    BY <1>1, <2>8, LPEffect
  <2>9. CASE \E d \in YieldChanges : YieldChange(d)
    <3>1. PICK d \in Nat : /\ Slack' = Slack + d
                           /\ RemainsToStream' = RemainsToStream
                           /\ totalSupply' = totalSupply
      BY <1>1, <2>9, YieldEffect
    <3>2. TotalAssets' = TotalAssets + d
      BY <2>1, <2>2, <3>1
    <3>3. QED
      BY <2>4, <3>1, <3>2
  <2>10. CASE Tick
    <3>1. Slack' = Slack /\ totalSupply' = totalSupply
      BY <2>10 DEF Tick, Slack, originVars, loanVars
    <3>2. RemainsToStream' \in Nat /\ RemainsToStream' <= RemainsToStream
      BY <1>1, <2>10, TickEffect
    <3>3. PICK r \in Nat : RemainsToStream' = r /\ r <= RemainsToStream
      BY <3>2
    <3>4. TotalAssets' = TotalAssets + (RemainsToStream - r) /\ RemainsToStream - r \in Nat
      BY <2>1, <2>2, <3>1, <3>3
    <3>5. QED
      BY <2>4, <3>1, <3>4
  <2>11. QED
    BY <1>1, StepCases, <2>5, <2>6, <2>7, <2>8, <2>9, <2>10
<1>2. QED
  BY <1>1, TypeInvariant, PTL DEF Spec, SharePriceNeverFalls

-----------------------------------------------------------------------------
(* The end of the stream *)

\* A weighted average is at most what both values are at most.
LEMMA AverageBounded ==
  ASSUME NEW a \in Nat, NEW b \in Nat, a + b > 0,
         NEW x \in Nat, NEW y \in Nat, NEW M \in Nat, x <= M, y <= M
  PROVE  (a * x + b * y) \div (a + b) <= M
<1> DEFINE n == a + b
           q == (a * x + b * y) \div n
<1>1. a * x <= a * M /\ b * y <= b * M
  BY ProductMonotone
<1>2. a * x \in Nat /\ b * y \in Nat /\ a * M \in Nat /\ b * M \in Nat
  OBVIOUS
<1>3. q \in Nat /\ n * q <= a * x + b * y
  BY <1>2, QuotientType
<1>4. n * M = a * M + b * M
  OBVIOUS
<1>5. n * q <= n * M
  BY <1>1, <1>2, <1>3, <1>4
<1>6. ASSUME q > M PROVE FALSE
  <2>1. n * (M + 1) <= n * q
    BY <1>3, <1>6, ProductMonotone
  <2>2. n * (M + 1) = n * M + n
    OBVIOUS
  <2>3. QED
    BY <1>3, <1>5, <2>1, <2>2
<1>7. QED
  BY <1>3, <1>6

Periods == StreamingPeriods \cup {INITIAL_PERIOD}

\* Inductive: the period the owner chose last is one of the periods.
StreamEndInv == streamingPeriod \in Periods /\ StreamEndIsBounded

LEMMA AddToStreamEnd ==
  ASSUME TypeInv, StreamEndInv, NEW amount \in Nat, AddToStreamingAssets(amount), now' = now
  PROVE  StreamEndIsBounded'
<1>1. CASE UNCHANGED streamVars
  BY <1>1 DEF StreamEndInv, StreamEndIsBounded, streamVars
<1>2. CASE amount > 0 /\ now # endOfStream
  <2> DEFINE left == RemainsToStream
             time == MaxOf(endOfStream, now) - now
  <2>1. left \in Nat
    <3>1. StreamEvaluates
      BY <1>2 DEF TypeInv, TypeOK, StreamClock, StreamEvaluates
    <3>2. QED
      BY <3>1, RemainsType DEF TypeInv, TypeOK
  <2>2. now \in Nat /\ endOfStream \in Nat /\ streamingPeriod \in Nat
    BY DEF TypeInv, TypeOK
  <2>3. PICK period \in Periods : endOfStream <= now + period
    BY DEF StreamEndInv, StreamEndIsBounded, Periods
  <2>4. Periods \subseteq Nat
    BY ParamsAssumption, NumbersAssumption DEF Periods
  <2>5. time \in Nat /\ time <= period
    BY <2>2, <2>3, <2>4 DEF MaxOf
  <2>6. PICK M \in Periods : period <= M /\ streamingPeriod <= M
    BY <2>2, <2>4 DEF StreamEndInv
  <2>7. (left * time + amount * streamingPeriod) \div (left + amount) <= M
    <3> HIDE DEF left, time
    <3>1. time <= M /\ M \in Nat /\ left + amount > 0
      BY <1>2, <2>1, <2>4, <2>5, <2>6
    <3>2. QED
      BY <2>1, <2>2, <2>5, <2>6, <3>1, AverageBounded
  <2>8. endOfStream' = now + (left * time + amount * streamingPeriod) \div (left + amount)
    BY <1>2 DEF AddToStreamingAssets
  <2>9. (left * time + amount * streamingPeriod) \div (left + amount) \in Nat
    <3> HIDE DEF left, time
    <3>1. left * time \in Nat /\ amount * streamingPeriod \in Nat
      BY <2>1, <2>2, <2>5
    <3>2. QED
      BY <1>2, <2>1, <3>1, QuotientType
  <2>10. QED
    BY <2>2, <2>4, <2>7, <2>8, <2>9 DEF StreamEndIsBounded, Periods
<1>3. QED
  BY <1>1, <1>2 DEF AddToStreamingAssets

LEMMA NextStreamEnd == TypeInv /\ StreamEndInv /\ [Next]_vars => StreamEndInv'
<1> SUFFICES ASSUME TypeInv, StreamEndInv, [Next]_vars PROVE StreamEndInv'
  OBVIOUS
<1>1. CASE \/ \E o \in Origins : Claim(o)
           \/ CollectNonDepositedAssets
           \/ \E out \in SwapOutputs : SwapAndDeposit(out)
  <2>1. PICK amount \in Nat : AddToStreamingAssets(amount) /\ UNCHANGED now
    BY <1>1, CollectEffect
  <2>2. streamingPeriod' = streamingPeriod
    BY <1>1 DEF Claim, CollectNonDepositedAssets, SwapAndDeposit, ownerVars
  <2>3. QED
    BY <2>1, <2>2, AddToStreamEnd DEF StreamEndInv
<1>2. CASE Tick
  <2>1. now' = now + 1 /\ UNCHANGED <<endOfStream, streamingPeriod>>
    BY <1>2 DEF Tick, streamVars, ownerVars
  <2>2. PICK period \in Periods : endOfStream <= now + period
    BY DEF StreamEndInv, StreamEndIsBounded, Periods
  <2>3. endOfStream' <= now' + period
    BY <2>1, <2>2, ParamsAssumption, NumbersAssumption DEF Periods, TypeInv, TypeOK
  <2>4. QED
    BY <2>1, <2>3 DEF StreamEndInv, StreamEndIsBounded, Periods
<1>3. CASE \E period \in StreamingPeriods : UpdateStreamingPeriod(period)
  BY <1>3 DEF UpdateStreamingPeriod, StreamEndInv, StreamEndIsBounded, Periods
<1>4. CASE UNCHANGED <<now, endOfStream, streamingPeriod>>
  BY <1>4 DEF StreamEndInv, StreamEndIsBounded
<1>5. CASE \E m \in Messages : Handle(m) \/ ProcessFailedHandler(m)
  BY <1>4, <1>5 DEF Handle, ProcessFailedHandler, streamVars, ownerVars
<1>6. CASE LPNext
  BY <1>4, <1>6 DEF LPNext, Deposit, Mint, Withdraw, Redeem, MintShares, BurnShares,
                    streamVars, ownerVars
<1>7. CASE \/ UpdateStreamedAssets
           \/ \E p \in OriginParams : AddOrigin(p.origin, p.settings)
           \/ \E o \in Origins, c \in Curators : DisableOrigin(o, c)
           \/ \E t \in TokenSwaps : SetTokenSwap(t)
           \/ \E p \in YieldPools, lo, hi \in SharePriceBounds : UpdateYieldPool(p, lo, hi)
           \/ \E a \in Donations : Donate(a)
           \/ \E p \in Proxies, a \in Arrivals : Arrive(p, a)
           \/ \E d \in YieldChanges : YieldChange(d)
           \/ UNCHANGED vars
  BY <1>4, <1>7 DEF UpdateStreamedAssets, AddOrigin, DisableOrigin, SetTokenSwap,
                    UpdateYieldPool, Donate, Arrive, YieldChange, vars, streamVars, ownerVars
<1>8. QED
  BY StepCases, <1>1, <1>2, <1>3, <1>5, <1>6, <1>7

\* However often assets are collected, the stream ends within the longest
\* streaming period there ever was from now.
THEOREM StreamEnds == Spec => []StreamEndIsBounded
<1>1. Init => StreamEndInv
  BY NumbersAssumption DEF Init, StreamEndInv, StreamEndIsBounded, Periods
<1>2. StreamEndInv => StreamEndIsBounded
  BY DEF StreamEndInv
<1>3. QED
  BY <1>1, <1>2, NextStreamEnd, TypeInvariant, PTL DEF Spec

-----------------------------------------------------------------------------
(* Fees and debts *)

\* Only loans, claims and rescues change a debt, only addOrigin a fee.
LEMMA OtherDebts ==
  ASSUME [Next]_vars,
         ~\E m \in Messages : Handle(m) \/ ProcessFailedHandler(m),
         ~\E o \in Origins : Claim(o)
  PROVE  /\ UNCHANGED <<originDebt, pendingBridgeFees, messages>>
         /\ \/ UNCHANGED authorizedOrigins
            \/ \E p \in OriginParams : AddOrigin(p.origin, p.settings)
            \/ \E o \in Origins, c \in Curators : DisableOrigin(o, c)
BY DEF Next, PoolNext, vars, OwnerNext, LPNext, AddOrigin, DisableOrigin, UpdateStreamingPeriod,
       UpdateStreamedAssets, SetTokenSwap, SwapAndDeposit, CollectNonDepositedAssets,
       UpdateYieldPool, Deposit, Mint, Withdraw, Redeem, MintShares, BurnShares,
       YieldChange, Donate, Arrive, Tick, originVars, loanVars

\* FeesDue follows the debt that changes.
LEMMA FeesDueChange ==
  ASSUME TypeInv, NEW o \in Origins, NEW d \in Int, ChangeDebt(o, d),
         originDebt[o] + d >= 0, authorizedOrigins' = authorizedOrigins
  PROVE  /\ FeesDue \in Nat
         /\ FeesDue' = FeesDue + d * authorizedOrigins[o].bridgeFee
<1> DEFINE f == [x \in Origins |-> originDebt[x] * authorizedOrigins[x].bridgeFee]
           g == [x \in Origins |-> originDebt'[x] * authorizedOrigins[x].bridgeFee]
           fee == authorizedOrigins[o].bridgeFee
<1>1. /\ \A x \in Origins : originDebt[x] \in Nat /\ authorizedOrigins[x].bridgeFee \in Nat
      /\ \A x \in Origins : originDebt'[x] \in Nat
      /\ \A x \in Origins \ {o} : originDebt'[x] = originDebt[x]
      /\ originDebt'[o] = originDebt[o] + d
  BY DEF TypeInv, TypeOK, Settings, ChangeDebt
<1>2. /\ \A x \in Origins : f[x] \in Nat /\ g[x] \in Nat
      /\ \A x \in Origins \ {o} : g[x] = f[x]
      /\ f[o] = originDebt[o] * fee
      /\ g[o] = (originDebt[o] + d) * fee
  BY <1>1
<1>3. FeesDue = SumOver(f, Origins) /\ FeesDue' = SumOver(g, Origins)
  BY DEF FeesDue
<1> HIDE DEF f, g
<1>4. /\ SumOver(g, Origins) = SumOver(f, Origins) - f[o] + g[o]
      /\ SumOver(f, Origins) \in Nat
  BY <1>2, OriginsAssumption, SumOverChange, SumOverType
<1>5. (originDebt[o] + d) * fee = originDebt[o] * fee + d * fee
  BY <1>1
<1>6. originDebt[o] * fee \in Nat /\ d * fee \in Int
  BY <1>1
<1>7. QED
  BY <1>2, <1>3, <1>4, <1>5, <1>6

\* The origin that a fee may change for owes nothing.
LEMMA FeesDueKept ==
  ASSUME TypeInv, originDebt' = originDebt,
         \/ UNCHANGED authorizedOrigins
         \/ \E p \in OriginParams : AddOrigin(p.origin, p.settings)
         \/ \E o \in Origins, c \in Curators : DisableOrigin(o, c)
  PROVE  FeesDue' = FeesDue /\ FeesDue \in Nat
<1> DEFINE f == [x \in Origins |-> originDebt[x] * authorizedOrigins[x].bridgeFee]
           g == [x \in Origins |-> originDebt[x] * authorizedOrigins'[x].bridgeFee]
<1>1. \A x \in Origins : authorizedOrigins[x] \in Settings /\ originDebt[x] \in Nat
  BY DEF TypeInv, TypeOK
<1>2. ASSUME NEW x \in Origins PROVE f[x] \in Nat /\ g[x] = f[x]
  <2>1. f[x] \in Nat
    BY <1>1 DEF Settings
  <2>2. CASE UNCHANGED authorizedOrigins
    BY <2>1, <2>2
  <2>3. ASSUME NEW p \in OriginParams, AddOrigin(p.origin, p.settings) PROVE g[x] = f[x]
    <3>1. /\ authorizedOrigins' = [authorizedOrigins EXCEPT ![p.origin] = p.settings]
          /\ originDebt[p.origin] > 0 =>
               p.settings.bridgeFee = authorizedOrigins[p.origin].bridgeFee
          /\ p.settings \in Settings
      BY <2>3, ParamsAssumption DEF AddOrigin
    <3>2. CASE x # p.origin
      BY <3>1, <3>2 DEF TypeInv, TypeOK
    <3>3. CASE x = p.origin
      <4>1. authorizedOrigins'[x].bridgeFee = p.settings.bridgeFee
        BY <3>1, <3>3 DEF TypeInv, TypeOK
      <4>2. p.settings.bridgeFee \in Nat /\ authorizedOrigins[x].bridgeFee \in Nat
        BY <1>1, <3>1 DEF Settings
      <4>3. CASE originDebt[x] = 0
        BY <4>1, <4>2, <4>3
      <4>4. CASE originDebt[x] > 0
        BY <3>1, <3>3, <4>1, <4>4
      <4>5. QED
        BY <1>1, <4>3, <4>4
    <3>4. QED
      BY <3>2, <3>3
  <2>4. ASSUME NEW o \in Origins, NEW c \in Curators, DisableOrigin(o, c) PROVE g[x] = f[x]
    <3>1. authorizedOrigins'[x].bridgeFee = authorizedOrigins[x].bridgeFee
      BY <1>1, <2>4 DEF DisableOrigin, TypeInv, TypeOK, Settings
    <3>2. QED
      BY <3>1
  <2>5. QED
    BY <2>1, <2>2, <2>3, <2>4
<1>3. FeesDue = SumOver(f, Origins) /\ FeesDue' = SumOver(g, Origins)
  BY DEF FeesDue
<1> HIDE DEF f, g
<1>4. SumOver(f, Origins) = SumOver(g, Origins) /\ SumOver(f, Origins) \in Nat
  BY <1>2, OriginsAssumption, SumOverSame, SumOverType
<1>5. QED
  BY <1>3, <1>4

\* Inductive: finitely many messages were processed, and each lost less than
\* one unit to rounding.
FeesInv == IsFiniteSet(messages) /\ FeeShortfallIsRounding

LEMMA MarkAndPayCount ==
  ASSUME IsFiniteSet(messages), NEW m \in Messages, MarkAndPay(m)
  PROVE  /\ IsFiniteSet(messages')
         /\ Cardinality(messages) \in Nat
         /\ Cardinality(messages') = Cardinality(messages) + 1
BY FS_AddElement, FS_CardinalityType DEF MarkAndPay

\* A fee that is rounded down, times the denominator.
LEMMA FeeRounding ==
  ASSUME NEW amount \in Nat, NEW fee \in Nat
  PROVE  /\ Fee(amount, fee) \in Nat
         /\ FRACTIONAL_BPS_DENOMINATOR * Fee(amount, fee) <= amount * fee
         /\ amount * fee <= FRACTIONAL_BPS_DENOMINATOR * Fee(amount, fee)
                            + (FRACTIONAL_BPS_DENOMINATOR - 1)
<1>1. amount * fee \in Nat
  OBVIOUS
<1> DEFINE p == amount * fee
           D == FRACTIONAL_BPS_DENOMINATOR
<1>2. D \in Nat \ {0}
  BY NumbersAssumption
<1> HIDE DEF p, D
<1>3. p \div D \in Nat /\ D * (p \div D) <= p /\ p < D * (p \div D) + D
  BY <1>1, <1>2, QuotientType DEF p
<1>4. D * (p \div D) \in Nat
  BY <1>2, <1>3
<1>5. p <= D * (p \div D) + (D - 1)
  BY <1>1, <1>2, <1>3, <1>4 DEF p
<1>6. QED
  BY <1>3, <1>5 DEF Fee, p, D

\* The inequality of FeeShortfallIsRounding, for the numbers it is about.
LEMMA ShortfallStep ==
  ASSUME NEW D \in Nat \ {0}, NEW due \in Int, NEW pending \in Int, NEW count \in Nat,
         NEW dueChange \in Int, NEW pendingChange \in Int, NEW k \in Nat,
         due <= D * pending + (D - 1) * count,
         dueChange <= D * pendingChange + (D - 1) * k
  PROVE  due + dueChange <= D * (pending + pendingChange) + (D - 1) * (count + k)
<1>1. /\ D * (pending + pendingChange) = D * pending + D * pendingChange
      /\ (D - 1) * (count + k) = (D - 1) * count + (D - 1) * k
  OBVIOUS
<1>2. /\ D * pending \in Int /\ D * pendingChange \in Int
      /\ (D - 1) * count \in Int /\ (D - 1) * k \in Int
  OBVIOUS
<1>3. QED
  BY <1>1, <1>2

LEMMA NextFees == TypeInv /\ FeesInv /\ [Next]_vars => FeesInv'
<1> SUFFICES ASSUME TypeInv, FeesInv, [Next]_vars PROVE FeesInv'
  OBVIOUS
<1> DEFINE D == FRACTIONAL_BPS_DENOMINATOR
<1>1. /\ D \in Nat \ {0} /\ pendingBridgeFees \in Nat
      /\ IsFiniteSet(messages) /\ Cardinality(messages) \in Nat
      /\ FeesDue <= D * pendingBridgeFees + (D - 1) * Cardinality(messages)
  BY NumbersAssumption, FS_CardinalityType
     DEF TypeInv, TypeOK, FeesInv, FeeShortfallIsRounding
<1> HIDE DEF D
<1>2. ASSUME NEW dueChange \in Int, NEW pendingChange \in Int, NEW k \in Nat,
             FeesDue \in Nat, FeesDue' = FeesDue + dueChange,
             pendingBridgeFees' = pendingBridgeFees + pendingChange,
             IsFiniteSet(messages'),
             Cardinality(messages') = Cardinality(messages) + k,
             dueChange <= D * pendingChange + (D - 1) * k
      PROVE  FeesInv'
  <2>1. FeesDue' <= D * pendingBridgeFees' + (D - 1) * Cardinality(messages')
    BY <1>1, <1>2, ShortfallStep
  <2>2. QED
    BY <1>2, <2>1 DEF FeesInv, FeeShortfallIsRounding, D
<1>3. ASSUME NEW m \in Messages, Handle(m) PROVE FeesInv'
  <2> DEFINE o == m.origin
             rate == authorizedOrigins[o].bridgeFee
             fee == Fee(m.amount, rate)
  <2>1. /\ o \in Origins /\ m.amount \in Nat /\ rate \in Nat /\ originDebt[o] \in Nat
        /\ MarkAndPay(m) /\ ChangeDebt(o, m.amount)
        /\ pendingBridgeFees' = pendingBridgeFees + fee
        /\ authorizedOrigins' = authorizedOrigins
    BY <1>3, MessagesAssumption DEF Handle, Message, TypeInv, TypeOK, Settings
  <2>2. /\ fee \in Nat /\ m.amount * rate \in Nat
        /\ m.amount * rate <= D * fee + (D - 1)
    BY <2>1, FeeRounding DEF D
  <2>3. FeesDue \in Nat /\ FeesDue' = FeesDue + m.amount * rate
    <3>1. m.amount \in Int /\ originDebt[o] + m.amount >= 0
      BY <2>1
    <3>2. QED
      BY <2>1, <3>1, FeesDueChange
  <2> HIDE DEF fee, rate, o
  <2>4. /\ m.amount * rate \in Int /\ fee \in Int /\ 1 \in Nat
        /\ m.amount * rate <= D * fee + (D - 1) * 1
    BY <1>1, <2>2
  <2>5. IsFiniteSet(messages') /\ Cardinality(messages') = Cardinality(messages) + 1
    BY <1>1, <2>1, MarkAndPayCount
  <2>6. QED
    BY <1>2, <2>1, <2>3, <2>4, <2>5, Zenon
<1>4. ASSUME NEW o \in Origins, Claim(o) PROVE FeesInv'
  <2> DEFINE s == authorizedOrigins[o]
             amount == Claimable(s.proxyBridge, originDebt[o])
             rate == s.bridgeFee
             fee == Fee(amount, rate)
  <2>1. s.proxyBridge \in Proxies /\ rate \in Nat /\ originDebt[o] \in Nat
    BY <1>4 DEF Claim, TypeInv, TypeOK, Settings
  <2>2. amount \in Nat /\ amount <= originDebt[o]
    BY <2>1, ClaimableType DEF TypeInv
  <2>3. fee \in Nat /\ amount * rate \in Nat /\ D * fee <= amount * rate
    <3> HIDE DEF amount, rate, s
    <3>1. fee \in Nat /\ FRACTIONAL_BPS_DENOMINATOR * fee <= amount * rate
      BY <2>1, <2>2, FeeRounding, Zenon
    <3>2. amount * rate \in Nat
      BY <2>1, <2>2
    <3>3. QED
      BY <3>1, <3>2 DEF D
  <2>4. /\ ChangeDebt(o, 0 - amount)
        /\ pendingBridgeFees' = pendingBridgeFees - fee
        /\ UNCHANGED <<authorizedOrigins, messages>>
    BY <1>4 DEF Claim
  <2> HIDE DEF amount, fee, rate
  <2>5. FeesDue \in Nat /\ FeesDue' = FeesDue + (0 - amount) * rate
    <3>1. 0 - amount \in Int /\ originDebt[o] + (0 - amount) >= 0
      BY <2>1, <2>2
    <3>2. QED
      BY <2>4, <3>1, FeesDueChange DEF rate
  <2>6. /\ (0 - amount) * rate = 0 - amount * rate
        /\ D * (0 - fee) = 0 - D * fee
        /\ D * fee \in Nat
        /\ (D - 1) * 0 = 0
    BY <1>1, <2>1, <2>2, <2>3
  <2>7. (0 - amount) * rate <= D * (0 - fee) + (D - 1) * 0
    BY <2>3, <2>6
  <2>8. /\ (0 - amount) * rate \in Int /\ 0 - fee \in Int
        /\ pendingBridgeFees' = pendingBridgeFees + (0 - fee)
        /\ Cardinality(messages') = Cardinality(messages) + 0
    BY <1>1, <2>3, <2>4, <2>6
  <2>9. IsFiniteSet(messages')
    BY <1>1, <2>4
  <2>10. QED
    BY <1>2, <2>5, <2>7, <2>8, <2>9
<1>5. ASSUME NEW m \in Messages, ProcessFailedHandler(m) PROVE FeesInv'
  <2> DEFINE o == m.origin
             rate == authorizedOrigins[o].bridgeFee
             proxy == authorizedOrigins[o].proxyBridge
             amount == Claimable(proxy, originDebt[o] + m.amount)
             change == m.amount - amount
  <2>1. /\ o \in Origins /\ m.amount \in Nat /\ rate \in Nat /\ originDebt[o] \in Nat
        /\ proxy \in Proxies
    BY <1>5, MessagesAssumption DEF ProcessFailedHandler, Message, TypeInv, TypeOK, Settings
  <2>2. amount \in Nat /\ amount <= originDebt[o] + m.amount
    BY <2>1, ClaimableType DEF TypeInv
  <2>3. /\ MarkAndPay(m) /\ ChangeDebt(o, change) /\ amount >= m.amount
        /\ UNCHANGED <<authorizedOrigins, pendingBridgeFees>>
    BY <1>5 DEF ProcessFailedHandler
  <2> HIDE DEF amount
  <2>4. change \in Int /\ change <= 0 /\ originDebt[o] + change >= 0
    BY <2>1, <2>2, <2>3
  <2> HIDE DEF change, rate, o
  <2>5. FeesDue \in Nat /\ FeesDue' = FeesDue + change * rate
    BY <2>1, <2>3, <2>4, FeesDueChange DEF rate
  <2>6. change * rate \in Int /\ change * rate <= 0
    BY <2>1, <2>4
  <2>7. /\ change * rate \in Int /\ 0 \in Int /\ 1 \in Nat
        /\ change * rate <= D * 0 + (D - 1) * 1
    BY <1>1, <2>6
  <2>8. pendingBridgeFees' = pendingBridgeFees + 0
    BY <1>1, <2>3
  <2>9. IsFiniteSet(messages') /\ Cardinality(messages') = Cardinality(messages) + 1
    BY <1>1, <2>3, MarkAndPayCount
  <2>10. QED
    BY <1>2, <2>5, <2>7, <2>8, <2>9, Zenon
<1>6. CASE /\ ~\E m \in Messages : Handle(m) \/ ProcessFailedHandler(m)
           /\ ~\E o \in Origins : Claim(o)
  <2>1. UNCHANGED <<pendingBridgeFees, messages>> /\ FeesDue' = FeesDue
    BY <1>6, OtherDebts, FeesDueKept
  <2>2. QED
    BY <2>1 DEF FeesInv, FeeShortfallIsRounding
<1>7. QED
  BY <1>3, <1>4, <1>5, <1>6

\* The fees that claims will take out of pendingBridgeFees exceed it by less
\* than one unit for each message that was processed, whatever fees the owner
\* sets and whatever is rescued.
THEOREM FeeShortfallBounded == Spec => []FeeShortfallIsRounding
<1>1. Init => FeesInv
  <2> SUFFICES ASSUME Init PROVE FeesInv
    OBVIOUS
  <2>1. messages = {} /\ pendingBridgeFees = 0
    BY DEF Init
  <2>2. FeesDue = 0
    BY SumOverZero DEF Init, FeesDue
  <2>3. Cardinality(messages) = 0 /\ IsFiniteSet(messages)
    BY <2>1, FS_EmptySet
  <2>4. QED
    BY <2>1, <2>2, <2>3, NumbersAssumption DEF FeesInv, FeeShortfallIsRounding
<1>2. FeesInv => FeeShortfallIsRounding
  BY DEF FeesInv
<1>3. QED
  BY <1>1, <1>2, NextFees, TypeInvariant, PTL DEF Spec

\* No debt rises beyond the limit of its origin, which is zero once the origin
\* is disabled, although a rescue borrows without looking at it.
THEOREM DebtsRiseWithinLimits == Spec => DebtRisesWithinLimit
<1> DEFINE Within == \A o \in Origins :
      originDebt'[o] > originDebt[o] => originDebt'[o] <= authorizedOrigins[o].maxDebt
<1>1. TypeInv /\ [Next]_vars => [Within]_vars
  <2> SUFFICES ASSUME TypeInv, [Next]_vars PROVE Within
    OBVIOUS
  <2>1. originDebt \in [Origins -> Nat] /\ authorizedOrigins \in [Origins -> Settings]
    BY DEF TypeInv, TypeOK
  <2>2. ASSUME NEW o \in Origins, NEW d \in Int, ChangeDebt(o, d),
               d <= 0 \/ originDebt[o] + d <= authorizedOrigins[o].maxDebt
        PROVE  Within
    BY <2>1, <2>2 DEF ChangeDebt
  <2>3. ASSUME NEW m \in Messages, Handle(m) PROVE Within
    <3>1. /\ m.origin \in Origins /\ m.amount \in Int
          /\ ChangeDebt(m.origin, m.amount)
          /\ originDebt[m.origin] + m.amount <= authorizedOrigins[m.origin].maxDebt
      BY <2>3, MessagesAssumption DEF Handle, Message
    <3>2. QED
      BY <2>2, <3>1
  <2>4. ASSUME NEW o \in Origins, Claim(o) PROVE Within
    <3> DEFINE amount == Claimable(authorizedOrigins[o].proxyBridge, originDebt[o])
    <3>1. authorizedOrigins[o].proxyBridge \in Proxies /\ originDebt[o] \in Nat
      BY <2>4 DEF Claim, TypeInv, TypeOK, Settings
    <3>2. amount \in Nat
      BY <3>1, ClaimableType DEF TypeInv
    <3>3. ChangeDebt(o, 0 - amount)
      BY <2>4 DEF Claim
    <3> HIDE DEF amount
    <3>4. 0 - amount \in Int /\ 0 - amount <= 0
      BY <3>2
    <3>5. QED
      BY <2>2, <3>3, <3>4
  <2>5. ASSUME NEW m \in Messages, ProcessFailedHandler(m) PROVE Within
    <3> DEFINE proxy == authorizedOrigins[m.origin].proxyBridge
               amount == Claimable(proxy, originDebt[m.origin] + m.amount)
    <3>1. /\ m.origin \in Origins /\ m.amount \in Nat
          /\ proxy \in Proxies /\ originDebt[m.origin] \in Nat
      BY <2>5, MessagesAssumption DEF ProcessFailedHandler, Message, TypeInv, TypeOK, Settings
    <3>2. amount \in Nat
      BY <3>1, ClaimableType DEF TypeInv
    <3>3. ChangeDebt(m.origin, m.amount - amount) /\ amount >= m.amount
      BY <2>5 DEF ProcessFailedHandler
    <3> HIDE DEF amount
    <3>4. m.amount - amount \in Int /\ m.amount - amount <= 0
      BY <3>1, <3>2, <3>3
    <3>5. QED
      BY <2>2, <3>1, <3>3, <3>4
  <2>6. CASE /\ ~\E m \in Messages : Handle(m) \/ ProcessFailedHandler(m)
             /\ ~\E o \in Origins : Claim(o)
    BY <2>1, <2>6, OtherDebts
  <2>7. QED
    BY <2>3, <2>4, <2>5, <2>6
<1>2. QED
  BY <1>1, TypeInvariant, PTL DEF Spec, DebtRisesWithinLimit

-----------------------------------------------------------------------------
(* The gateway *)

\* What the shares that v buys cost is at most v, and the rest of v is less than
\* the value of a share.
LEMMA MintRemainder ==
  ASSUME NEW v \in Nat, NEW S \in Nat \ {0}, NEW A \in Nat \ {0}
  PROVE  LET cost == CeilDiv(((v * S) \div A) * A, S)
         IN  cost \in Nat /\ cost <= v /\ (v - cost) * S < A
<1> DEFINE q == (v * S) \div A
           cost == CeilDiv(q * A, S)
<1>1. v * S \in Nat
  OBVIOUS
<1>2. q \in Nat /\ A * q <= v * S /\ v * S < A * q + A
  BY <1>1, QuotientType
<1> HIDE DEF q
<1>3. q * A \in Nat /\ q * A = A * q
  BY <1>2
<1>4. q * A + S - 1 \in Nat
  BY <1>3
<1>5. cost \in Nat /\ S * cost <= q * A + S - 1 /\ q * A + S - 1 < S * cost + S
  BY <1>4, QuotientType DEF CeilDiv
<1> HIDE DEF cost
<1>6. cost <= v
  <2>1. SUFFICES ASSUME v + 1 <= cost PROVE FALSE
    BY <1>5
  <2>2. S * (v + 1) <= S * cost
    BY <1>5, <2>1, ProductMonotone
  <2>3. S * (v + 1) = v * S + S
    OBVIOUS
  <2>4. QED
    BY <1>1, <1>2, <1>3, <1>5, <2>2, <2>3
<1>7. (v - cost) * S = v * S - S * cost
  BY <1>5
<1>8. S * cost \in Nat
  BY <1>5
<1>9. (v - cost) * S < A
  BY <1>1, <1>2, <1>3, <1>5, <1>7, <1>8
<1>10. QED
  BY <1>5, <1>6, <1>9 DEF cost, q

GatewayInv == TypeInv /\ weth \in Nat

LEMMA GatewayMintEffect ==
  ASSUME GatewayInv, NEW value \in Nat, NEW bound, GatewayMint(value, bound)
  PROVE  /\ TypeInv'
         /\ weth' \in Nat
         /\ weth' # weth => weth' > weth /\ (weth' - weth) * totalSupply < TotalAssets
<1> DEFINE shares == PreviewDeposit(value)
<1>1. SharesEvaluate /\ Mint(shares) /\ weth' = weth + value - PreviewMint(shares)
  BY DEF GatewayMint
<1>2. totalSupply > 0 => TotalAssetsEvaluates
  BY <1>1 DEF Mint
<1>3. shares \in Nat
  BY <1>1, <1>2, PreviewType DEF GatewayInv, TypeInv
<1>4. TypeInv'
  BY <1>1, <1>3, SharesTypeInv DEF GatewayInv
<1>5. totalSupply \in Nat
  BY DEF GatewayInv, TypeInv, TypeOK
<1>6. CASE totalSupply = 0
  BY <1>1, <1>4, <1>6 DEF PreviewDeposit, PreviewMint, GatewayInv
<1>7. CASE totalSupply # 0
  <2>1. TotalAssets \in Nat \ {0}
    BY <1>1, <1>2, <1>5, <1>7, TotalAssetsType
       DEF SharesEvaluate, TotalAssetsEvaluates, GatewayInv, TypeInv
  <2>2. PreviewMint(shares)
          = CeilDiv(((value * totalSupply) \div TotalAssets) * TotalAssets, totalSupply)
    BY <1>7 DEF PreviewMint, PreviewDeposit
  <2> DEFINE cost == PreviewMint(shares)
  <2>3. cost \in Nat /\ cost <= value /\ (value - cost) * totalSupply < TotalAssets
    BY <1>5, <1>7, <2>1, <2>2, MintRemainder
  <2> HIDE DEF cost
  <2>4. weth' = weth + value - cost /\ weth \in Nat
    BY <1>1 DEF cost, GatewayInv
  <2>5. weth' - weth = value - cost
    BY <2>3, <2>4
  <2>6. QED
    BY <1>4, <2>3, <2>4, <2>5
<1>8. QED
  BY <1>6, <1>7

LEMMA GatewayStep ==
  ASSUME GatewayInv, [GatewayNext]_gatewayVars
  PROVE  /\ GatewayInv'
         /\ weth' # weth => weth' > weth /\ (weth' - weth) * totalSupply < TotalAssets
<1>1. CASE [Next]_vars /\ UNCHANGED weth
  BY <1>1, NextTypeInv DEF GatewayInv
<1>2. ASSUME NEW v \in CallValues, NEW bound \in SlippageBounds,
             GatewayDeposit(v, bound) \/ GatewayWithdraw(v, bound) \/ GatewayRedeem(v, bound)
      PROVE  GatewayInv' /\ UNCHANGED weth
  <2>1. v \in Nat /\ UNCHANGED weth /\ (Deposit(v) \/ Withdraw(v) \/ Redeem(v))
    BY <1>2, GatewayAssumption DEF GatewayDeposit, GatewayWithdraw, GatewayRedeem
  <2>2. QED
    BY <2>1, SharesTypeInv DEF GatewayInv
<1>3. ASSUME NEW v \in CallValues, NEW bound \in SlippageBounds, GatewayMint(v, bound)
      PROVE  /\ GatewayInv'
             /\ weth' # weth => weth' > weth /\ (weth' - weth) * totalSupply < TotalAssets
  BY <1>3, GatewayAssumption, GatewayMintEffect DEF GatewayInv
<1>4. QED
  BY <1>1, <1>2, <1>3 DEF GatewayNext, gatewayVars

\* No mint through the gateway spends what an earlier one left there, and each
\* leaves less than one share is worth, for any amounts and at any share price.
THEOREM RemaindersBounded == GatewaySpec => RemaindersAreLessThanAShare
<1>1. GatewayInit => GatewayInv
  BY InitTypeInv DEF GatewayInit, GatewayInv
<1>2. GatewayInv /\ [GatewayNext]_gatewayVars
        => [weth' # weth =>
              /\ weth' > weth
              /\ (weth' - weth) * totalSupply < TotalAssets]_gatewayVars
  BY GatewayStep
<1>3. GatewayInv /\ [GatewayNext]_gatewayVars => GatewayInv'
  BY GatewayStep
<1>4. QED
  BY <1>1, <1>2, <1>3, PTL DEF GatewaySpec, RemaindersAreLessThanAShare

=============================================================================
