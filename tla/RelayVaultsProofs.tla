------------------------- MODULE RelayVaultsProofs -------------------------
(***************************************************************************)
(* Theorems about the composed system, for every value of its constants:   *)
(* it implements the pool's specification and the ledger of loans, and     *)
(* every loan is backed by assets that are on their way or have arrived.   *)
(***************************************************************************)
EXTENDS RelayVaults, RelayPoolProofs

-----------------------------------------------------------------------------
(* The composition implements the pool *)

LEMMA MessageType ==
  ASSUME NEW m \in Messages
  PROVE  /\ m.origin \in Origins
         /\ m.nonce \in Nat
         /\ m.amount \in Nat
         /\ Amount[m] = m.amount
         /\ L1Proxy[m.origin] \in Proxies
BY MessagesAssumption, ProxyAssumption DEF Message, Amount

LEMMA VaultsStepIsPoolStep == [VaultsNext]_vaultVars => [Next]_vars
<1> SUFFICES ASSUME [VaultsNext]_vaultVars PROVE [Next]_vars
  OBVIOUS
<1>1. CASE UNCHANGED vaultVars
  BY <1>1 DEF vaultVars
<1>2. ASSUME NEW m \in Messages, Send(m) PROVE [Next]_vars
  BY <1>2 DEF Send
<1>3. ASSUME NEW m \in Messages, Deliver(m) PROVE [Next]_vars
  BY <1>3, MessageType, ArrivalsAssumption DEF Deliver, Next
<1>4. ASSUME NEW m \in Messages, Process(m) \/ Rescue(m) PROVE [Next]_vars
  BY <1>4 DEF Process, Rescue, Next
<1>5. CASE PoolStep
  BY <1>5 DEF PoolStep, Next
<1>6. QED
  BY <1>1, <1>2, <1>3, <1>4, <1>5 DEF VaultsNext

\* Every behaviour of the composed system is one of the pool on its own: what
\* is proved of RelayPool holds here too.
THEOREM VaultsImplementPool == VaultsSpec => Spec
<1>1. VaultsInit => Init
  BY DEF VaultsInit
<1>2. QED
  BY <1>1, VaultsStepIsPoolStep, PTL DEF VaultsSpec, Spec

-----------------------------------------------------------------------------
(* The channels *)

\* A nonce is used by one message, and only a dispatched message is paid.
ChannelInv ==
  /\ Origin!BridgeTypeOK
  /\ IsFiniteSet(dispatched)
  /\ \A m \in dispatched : m.nonce < transferNonce[m.origin]
  /\ \A m, n \in dispatched : Id(m) = Id(n) => m = n
  /\ \A i \in messages : \E m \in dispatched : Id(m) = i

\* An origin that is set up has the proxy its transfers go to.
SetupInv ==
  \A o \in Origins : authorizedOrigins[o].proxyBridge \in {NoAddress, L1Proxy[o]}

VaultInv == TypeInv /\ ChannelInv /\ SetupInv

\* The steps of the pool other than payments change no message, those other
\* than claims and payments neither debts nor proxies.
LEMMA PoolNextEffect ==
  ASSUME PoolNext
  PROVE  /\ messages' = messages
         /\ \/ \E o \in Origins : Claim(o)
            \/ UNCHANGED <<originDebt, proxyBalance>>
         /\ \/ UNCHANGED authorizedOrigins
            \/ \E p \in OriginParams : AddOrigin(p.origin, p.settings)
            \/ \E o \in Origins, c \in Curators : DisableOrigin(o, c)
BY DEF PoolNext, OwnerNext, LPNext, AddOrigin, DisableOrigin, UpdateStreamingPeriod,
       UpdateStreamedAssets, SetTokenSwap, SwapAndDeposit, CollectNonDepositedAssets,
       UpdateYieldPool, Deposit, Mint, Withdraw, Redeem, MintShares, BurnShares, Claim,
       YieldChange, Donate, Tick, originVars, loanVars

LEMMA SendChannel ==
  ASSUME VaultInv, NEW m \in Messages, Send(m)
  PROVE  /\ m \notin dispatched
         /\ Id(m) \notin messages
         /\ dispatched' = dispatched \cup {m}
         /\ inTransit' = inTransit \cup {m}
         /\ m \notin inTransit
         /\ UNCHANGED vars
         /\ ChannelInv'
<1>1. /\ m.nonce = transferNonce[m.origin]
      /\ transferNonce' = [transferNonce EXCEPT ![m.origin] = @ + 1]
      /\ dispatched' = dispatched \cup {m}
      /\ inTransit' = inTransit \cup {m}
      /\ UNCHANGED vars
  BY DEF Send, Origin!Bridge
<1>2. m.origin \in Origins /\ m.nonce \in Nat
  BY MessageType
<1>3. /\ transferNonce \in [Origins -> Nat]
      /\ dispatched \subseteq Messages
      /\ inTransit \subseteq dispatched
  BY DEF VaultInv, ChannelInv, Origin!BridgeTypeOK
<1>4. \A n \in dispatched : /\ n.origin \in Origins /\ n.nonce \in Nat
                            /\ n.nonce < transferNonce[n.origin]
  BY <1>3, MessageType DEF VaultInv, ChannelInv
<1>5. \A n \in dispatched : Id(n) # Id(m)
  BY <1>1, <1>2, <1>3, <1>4 DEF Id
<1>6. messages' = messages
  BY <1>1 DEF vars, loanVars
<1>7. m \notin dispatched /\ Id(m) \notin messages
  BY <1>5 DEF VaultInv, ChannelInv
<1>8. Origin!BridgeTypeOK'
  BY <1>1, <1>2, <1>3 DEF Origin!BridgeTypeOK
<1>9. IsFiniteSet(dispatched')
  BY <1>1, FS_AddElement DEF VaultInv, ChannelInv
<1>10. \A n \in dispatched' : n.nonce < transferNonce'[n.origin]
  BY <1>1, <1>2, <1>3, <1>4
<1>11. \A n, k \in dispatched' : Id(n) = Id(k) => n = k
  BY <1>1, <1>5 DEF VaultInv, ChannelInv
<1>12. \A i \in messages' : \E n \in dispatched' : Id(n) = i
  BY <1>1, <1>6 DEF VaultInv, ChannelInv
<1>13. ChannelInv'
  BY <1>8, <1>9, <1>10, <1>11, <1>12 DEF ChannelInv, Id
<1>14. QED
  BY <1>1, <1>3, <1>7, <1>13

\* What marks a message as processed and leaves the channels alone.
LEMMA PayChannel ==
  ASSUME VaultInv, NEW m \in dispatched, MarkAndPay(m), UNCHANGED bridgeVars
  PROVE  /\ m \notin Paid
         /\ Paid' = Paid \cup {m}
         /\ ChannelInv'
<1>1. /\ Id(m) \notin messages
      /\ messages' = messages \cup {Id(m)}
  BY DEF MarkAndPay, Id
<1>2. UNCHANGED <<transferNonce, dispatched, inTransit>>
  BY DEF bridgeVars
<1>3. \A n \in dispatched : Id(n) = Id(m) => n = m
  BY DEF VaultInv, ChannelInv
<1>4. Paid' = Paid \cup {m}
  BY <1>1, <1>2, <1>3 DEF Paid, Id
<1>5. ChannelInv'
  BY <1>1, <1>2 DEF VaultInv, ChannelInv, Origin!BridgeTypeOK, Id
<1>6. QED
  BY <1>1, <1>4, <1>5 DEF Paid

LEMMA InitVaultInv == VaultsInit => VaultInv
<1> SUFFICES ASSUME VaultsInit PROVE VaultInv
  OBVIOUS
<1>1. TypeInv
  BY InitTypeInv DEF VaultsInit
<1>2. transferNonce = [o \in Origins |-> 0] /\ dispatched = {} /\ inTransit = {}
  BY DEF VaultsInit, Origin!BridgeInit
<1>3. messages = {}
  BY DEF VaultsInit, Init
<1>4. ChannelInv
  BY <1>2, <1>3, FS_EmptySet DEF ChannelInv, Origin!BridgeTypeOK
<1>5. SetupInv
  BY DEF VaultsInit, Init, SetupInv
<1>6. QED
  BY <1>1, <1>4, <1>5 DEF VaultInv

LEMMA NextSetupInv ==
  ASSUME VaultInv, VaultsNext
  PROVE  SetupInv'
<1>1. CASE UNCHANGED authorizedOrigins
  BY <1>1 DEF VaultInv, SetupInv
<1>2. ASSUME NEW p \in OriginParams, AddOrigin(p.origin, p.settings)
      PROVE  SetupInv'
  <2>1. p.origin \in Origins /\ p.settings.proxyBridge = L1Proxy[p.origin]
    BY ParamsAssumption, SetupAssumption
  <2>2. authorizedOrigins' = [authorizedOrigins EXCEPT ![p.origin] = p.settings]
    BY <1>2 DEF AddOrigin
  <2>3. QED
    BY <2>1, <2>2 DEF VaultInv, SetupInv, TypeInv, TypeOK
<1>3. ASSUME NEW o \in Origins, NEW c \in Curators, DisableOrigin(o, c)
      PROVE  SetupInv'
  <2>1. authorizedOrigins' = [authorizedOrigins EXCEPT ![o].maxDebt = 0]
    BY <1>3 DEF DisableOrigin
  <2>2. \A x \in Origins : authorizedOrigins[x] \in Settings
    BY DEF VaultInv, TypeInv, TypeOK
  <2>3. \A x \in Origins :
          authorizedOrigins'[x].proxyBridge = authorizedOrigins[x].proxyBridge
    BY <2>1, <2>2 DEF VaultInv, TypeInv, TypeOK, Settings
  <2>4. QED
    BY <2>3 DEF VaultInv, SetupInv
<1>4. \/ UNCHANGED authorizedOrigins
      \/ PoolStep
  BY DEF VaultsNext, Send, Deliver, Process, Rescue, Arrive, Handle, ProcessFailedHandler,
         vars, originVars
<1>5. QED
  BY <1>1, <1>2, <1>3, <1>4, PoolNextEffect DEF PoolStep

LEMMA NextVaultInv == VaultInv /\ [VaultsNext]_vaultVars => VaultInv'
<1> SUFFICES ASSUME VaultInv, [VaultsNext]_vaultVars PROVE VaultInv'
  OBVIOUS
<1>1. TypeInv'
  BY NextTypeInv, VaultsStepIsPoolStep DEF VaultInv
<1>2. CASE UNCHANGED vaultVars
  <2>1. UNCHANGED <<messages, authorizedOrigins, transferNonce, dispatched, inTransit>>
    BY <1>2 DEF vaultVars, vars, bridgeVars, originVars, loanVars
  <2>2. QED
    BY <1>1, <2>1 DEF VaultInv, ChannelInv, SetupInv, Origin!BridgeTypeOK, Id
<1>3. CASE VaultsNext
  <2>1. ASSUME NEW m \in Messages, Send(m) PROVE ChannelInv'
    BY <2>1, SendChannel
  <2>2. ASSUME NEW m \in Messages, Deliver(m) PROVE ChannelInv'
    <3>1. inTransit' = inTransit \ {m} /\ UNCHANGED <<transferNonce, dispatched>>
      BY <2>2 DEF Deliver, Origin!Deliver
    <3>2. messages' = messages
      BY <2>2 DEF Deliver, Arrive, loanVars
    <3>3. QED
      BY <3>1, <3>2 DEF VaultInv, ChannelInv, Origin!BridgeTypeOK, Id
  <2>3. ASSUME NEW m \in Messages, Process(m) \/ Rescue(m) PROVE ChannelInv'
    <3>1. m \in dispatched /\ MarkAndPay(m) /\ UNCHANGED bridgeVars
      BY <2>3 DEF Process, Rescue, Handle, ProcessFailedHandler
    <3>2. QED
      BY <3>1, PayChannel
  <2>4. ASSUME PoolStep PROVE ChannelInv'
    <3>1. messages' = messages /\ UNCHANGED <<transferNonce, dispatched, inTransit>>
      BY <2>4, PoolNextEffect DEF PoolStep, bridgeVars
    <3>2. QED
      BY <3>1 DEF VaultInv, ChannelInv, Origin!BridgeTypeOK, Id
  <2>5. ChannelInv'
    BY <1>3, <2>1, <2>2, <2>3, <2>4 DEF VaultsNext
  <2>6. QED
    BY <1>1, <1>3, <2>5, NextSetupInv DEF VaultInv
<1>4. QED
  BY <1>2, <1>3

-----------------------------------------------------------------------------
(* What each step does to the ledger *)

\* The native bridges deliver all of an amount (no deposit has a cost).
FullDelivery == \A o \in Origins : DepositFee[o] = 0

Backing == [p \in Proxies |-> ComingTo(p) + proxyBalance[p]]

ToProxy(S, p) == {m \in S : L1Proxy[m.origin] = p}

\* A message that joins or leaves a finite set of messages changes the sum of
\* the amounts for its own proxy only.
LEMMA AmountsAdd ==
  ASSUME NEW S, S \subseteq Messages, IsFiniteSet(S), NEW m \in Messages, m \notin S,
         NEW p \in Proxies
  PROVE  /\ SumOver(Amount, ToProxy(S, p)) \in Nat
         /\ SumOver(Amount, ToProxy(S \cup {m}, p)) =
              SumOver(Amount, ToProxy(S, p)) + IF L1Proxy[m.origin] = p THEN m.amount ELSE 0
<1>1. ToProxy(S, p) \subseteq S
  BY DEF ToProxy
<1>2. IsFiniteSet(ToProxy(S, p))
  BY <1>1, FS_Subset
<1>3. \A y \in ToProxy(S, p) \cup {m} : Amount[y] \in Nat
  BY <1>1, MessageType
<1>4. SumOver(Amount, ToProxy(S, p)) \in Nat
  BY <1>2, <1>3, SumOverType
<1>5. CASE L1Proxy[m.origin] = p
  <2>1. ToProxy(S \cup {m}, p) = ToProxy(S, p) \cup {m} /\ m \notin ToProxy(S, p)
    BY <1>1, <1>5 DEF ToProxy
  <2>2. SumOver(Amount, ToProxy(S, p) \cup {m}) = SumOver(Amount, ToProxy(S, p)) + Amount[m]
    BY <1>2, <1>3, <2>1, SumOverAdd
  <2>3. QED
    BY <1>4, <1>5, <2>1, <2>2, MessageType
<1>6. CASE L1Proxy[m.origin] # p
  <2>1. ToProxy(S \cup {m}, p) = ToProxy(S, p)
    BY <1>6 DEF ToProxy
  <2>2. QED
    BY <1>4, <1>6, <2>1
<1>7. QED
  BY <1>5, <1>6

LEMMA AmountsType ==
  ASSUME NEW S, S \subseteq Messages, IsFiniteSet(S), NEW p \in Proxies
  PROVE  SumOver(Amount, ToProxy(S, p)) \in Nat
<1>1. ToProxy(S, p) \subseteq S
  BY DEF ToProxy
<1>2. IsFiniteSet(ToProxy(S, p))
  BY <1>1, FS_Subset
<1>3. \A y \in ToProxy(S, p) : Amount[y] \in Nat
  BY <1>1, MessageType
<1>4. QED
  BY <1>2, <1>3, SumOverType

LEMMA TransitFinite ==
  ASSUME VaultInv
  PROVE  /\ IsFiniteSet(inTransit) /\ inTransit \subseteq Messages
         /\ IsFiniteSet(dispatched \ Paid) /\ dispatched \ Paid \subseteq Messages
         /\ Backing \in [Proxies -> Nat]
<1>1. inTransit \subseteq dispatched /\ dispatched \subseteq Messages /\ IsFiniteSet(dispatched)
  BY DEF VaultInv, ChannelInv, Origin!BridgeTypeOK
<1>2. IsFiniteSet(inTransit) /\ IsFiniteSet(dispatched \ Paid)
  BY <1>1, FS_Subset
<1>3. \A p \in Proxies : ComingTo(p) \in Nat /\ proxyBalance[p] \in Nat
  BY <1>1, <1>2, AmountsType DEF ComingTo, ToProxy, VaultInv, TypeInv, TypeOK
<1>4. QED
  BY <1>1, <1>2, <1>3 DEF Backing

\* A transfer that is sent backs its proxy, whatever proxy that is.
LEMMA SendEffect ==
  ASSUME VaultInv, NEW m \in Messages, Send(m)
  PROVE  /\ m \notin dispatched /\ dispatched' = dispatched \cup {m}
         /\ UNCHANGED <<Paid, originDebt>>
         /\ Backing' = [Backing EXCEPT ![L1Proxy[m.origin]] = @ + m.amount]
<1>1. /\ m \notin dispatched /\ Id(m) \notin messages /\ dispatched' = dispatched \cup {m}
      /\ m \notin inTransit /\ inTransit' = inTransit \cup {m}
      /\ UNCHANGED <<messages, originDebt, proxyBalance>>
  BY SendChannel DEF vars, originVars, loanVars
<1>2. Paid' = Paid
  BY <1>1 DEF Paid, Id
<1>3. L1Proxy[m.origin] \in Proxies /\ m.amount \in Nat
  BY MessageType
<1>4. ASSUME NEW p \in Proxies
      PROVE  ComingTo(p)' = ComingTo(p) + IF L1Proxy[m.origin] = p THEN m.amount ELSE 0
  <2>1. ComingTo(p)' = SumOver(Amount, ToProxy(inTransit \cup {m}, p))
    BY <1>1 DEF ComingTo, ToProxy
  <2>2. ComingTo(p) = SumOver(Amount, ToProxy(inTransit, p))
    BY DEF ComingTo, ToProxy
  <2>3. IsFiniteSet(inTransit) /\ inTransit \subseteq Messages /\ m \notin inTransit
    BY <1>1, TransitFinite
  <2>4. SumOver(Amount, ToProxy(inTransit \cup {m}, p)) =
          SumOver(Amount, ToProxy(inTransit, p)) + IF L1Proxy[m.origin] = p THEN m.amount ELSE 0
    BY <2>3, AmountsAdd
  <2>5. QED
    BY <2>1, <2>2, <2>4
<1>5. ASSUME NEW p \in Proxies
      PROVE  Backing'[p] = [Backing EXCEPT ![L1Proxy[m.origin]] = @ + m.amount][p]
  <2>1. ComingTo(p) \in Nat /\ proxyBalance[p] \in Nat
    BY TransitFinite, AmountsType DEF ComingTo, ToProxy, VaultInv, TypeInv, TypeOK
  <2>2. Backing'[p] = ComingTo(p)' + proxyBalance[p]
    BY <1>1 DEF Backing
  <2>3. Backing[p] = ComingTo(p) + proxyBalance[p]
    BY DEF Backing
  <2>4. QED
    BY <1>3, <1>4, <2>1, <2>2, <2>3, TransitFinite
<1>6. Backing' = [Backing EXCEPT ![L1Proxy[m.origin]] = @ + m.amount]
  BY <1>5 DEF Backing
<1>7. QED
  BY <1>1, <1>2, <1>6

\* A delivery moves assets from the native bridge to the proxy.
LEMMA DeliverEffect ==
  ASSUME FullDelivery, VaultInv, NEW m \in Messages, Deliver(m)
  PROVE  UNCHANGED <<dispatched, Paid, originDebt, Backing>>
<1> DEFINE T == inTransit \ {m}
<1>1. m \in inTransit /\ inTransit' = T /\ dispatched' = dispatched
  BY DEF Deliver, Origin!Deliver
<1>2. /\ L1Proxy[m.origin] \in Proxies /\ m.amount \in Nat /\ m.origin \in Origins
  BY MessageType
<1>3. PICK received \in Origin!Receivable(m) : Arrive(L1Proxy[m.origin], received)
  BY DEF Deliver
<1>4. received = m.amount
  BY <1>2, <1>3 DEF Origin!Receivable, FullDelivery
<1>5. /\ UNCHANGED <<messages, originDebt>>
      /\ proxyBalance' = [proxyBalance EXCEPT ![L1Proxy[m.origin]] = @ + m.amount]
  BY <1>3, <1>4 DEF Arrive, originVars, loanVars
<1>6. Paid' = Paid
  BY <1>1, <1>5 DEF Paid, Id
<1>7. T \subseteq Messages /\ IsFiniteSet(T) /\ m \notin T /\ T \cup {m} = inTransit
  BY <1>1, TransitFinite, FS_RemoveElement
<1>8. ASSUME NEW p \in Proxies
      PROVE  Backing'[p] = Backing[p]
  <2>1. ComingTo(p)' = SumOver(Amount, ToProxy(T, p))
    BY <1>1 DEF ComingTo, ToProxy
  <2>2. ComingTo(p) = SumOver(Amount, ToProxy(T \cup {m}, p))
    BY <1>7 DEF ComingTo, ToProxy
  <2>3. /\ ComingTo(p)' \in Nat
        /\ ComingTo(p) = ComingTo(p)' + IF L1Proxy[m.origin] = p THEN m.amount ELSE 0
    <3>1. /\ SumOver(Amount, ToProxy(T, p)) \in Nat
          /\ SumOver(Amount, ToProxy(T \cup {m}, p)) =
               SumOver(Amount, ToProxy(T, p)) + IF L1Proxy[m.origin] = p THEN m.amount ELSE 0
      BY <1>7, AmountsAdd
    <3>2. QED
      BY <2>1, <2>2, <3>1
  <2>4. /\ proxyBalance[p] \in Nat
        /\ proxyBalance'[p] = proxyBalance[p] + IF L1Proxy[m.origin] = p THEN m.amount ELSE 0
    BY <1>2, <1>5 DEF VaultInv, TypeInv, TypeOK
  <2>5. Backing[p] = ComingTo(p) + proxyBalance[p] /\ Backing'[p] = ComingTo(p)' + proxyBalance'[p]
    BY DEF Backing
  <2>6. QED
    BY <1>2, <2>3, <2>4, <2>5
<1>9. Backing' = Backing
  BY <1>8 DEF Backing
<1>10. QED
  BY <1>1, <1>5, <1>6, <1>9

\* Assets that leave a proxy while nothing is sent or delivered back it no longer.
LEMMA ProxyEffect ==
  ASSUME VaultInv, NEW p \in Proxies, NEW k \in Nat, k <= proxyBalance[p],
         proxyBalance' = [proxyBalance EXCEPT ![p] = @ - k], inTransit' = inTransit
  PROVE  /\ Backing' = [Backing EXCEPT ![p] = @ - k]
         /\ k <= Backing[p]
<1>1. \A q \in Proxies : ComingTo(q) \in Nat /\ proxyBalance[q] \in Nat
  BY TransitFinite, AmountsType DEF ComingTo, ToProxy, VaultInv, TypeInv, TypeOK
<1>2. \A q \in Proxies : ComingTo(q)' = ComingTo(q)
  BY DEF ComingTo
<1>3. \A q \in Proxies : Backing[q] = ComingTo(q) + proxyBalance[q]
  BY DEF Backing
<1>4. \A q \in Proxies : Backing'[q] = ComingTo(q) + proxyBalance'[q]
  BY <1>2 DEF Backing
<1>5. proxyBalance \in [Proxies -> Nat]
  BY DEF VaultInv, TypeInv, TypeOK
<1>6. \A q \in Proxies : Backing'[q] = [Backing EXCEPT ![p] = @ - k][q]
  BY <1>1, <1>3, <1>4, <1>5, TransitFinite
<1>7. Backing' = [Backing EXCEPT ![p] = @ - k]
  BY <1>6 DEF Backing
<1>8. QED
  BY <1>1, <1>3, <1>7

\* A payment lends the transfer; a rescue repays k at once, a delivered message none.
LEMMA PayEffect ==
  ASSUME VaultInv, NEW m \in Messages, Process(m) \/ Rescue(m)
  PROVE  /\ m \in dispatched \ Paid /\ dispatched' = dispatched /\ Paid' = Paid \cup {m}
         /\ \E k \in Nat :
              /\ k <= Backing[L1Proxy[m.origin]]
              /\ k <= originDebt[m.origin] + m.amount
              /\ originDebt' = [originDebt EXCEPT ![m.origin] = @ + m.amount - k]
              /\ Backing' = [Backing EXCEPT ![L1Proxy[m.origin]] = @ - k]
<1> DEFINE o == m.origin
           q == L1Proxy[o]
<1>1. m \in dispatched /\ MarkAndPay(m) /\ UNCHANGED <<transferNonce, dispatched, inTransit>>
  BY DEF Process, Rescue, Handle, ProcessFailedHandler, bridgeVars
<1>2. m \notin Paid /\ Paid' = Paid \cup {m}
  BY <1>1, PayChannel DEF bridgeVars
<1>3. /\ o \in Origins /\ q \in Proxies /\ m.amount \in Nat
      /\ originDebt \in [Origins -> Nat] /\ proxyBalance \in [Proxies -> Nat]
  BY MessageType DEF VaultInv, TypeInv, TypeOK
<1>4. ASSUME Process(m)
      PROVE  \E k \in Nat : /\ k <= proxyBalance[q]
                            /\ k <= originDebt[o] + m.amount
                            /\ originDebt' = [originDebt EXCEPT ![o] = @ + m.amount - k]
                            /\ proxyBalance' = [proxyBalance EXCEPT ![q] = @ - k]
  <2>1. originDebt' = [originDebt EXCEPT ![o] = @ + m.amount] /\ proxyBalance' = proxyBalance
    BY <1>4 DEF Process, Handle, ChangeDebt
  <2> DEFINE k == 0
  <2>2. /\ originDebt[o] + m.amount - k = originDebt[o] + m.amount
        /\ proxyBalance[q] - k = proxyBalance[q]
        /\ k \in Nat /\ k <= proxyBalance[q] /\ k <= originDebt[o] + m.amount
    BY <1>3
  <2> HIDE DEF k
  <2>3. originDebt' = [originDebt EXCEPT ![o] = @ + m.amount - k]
    BY <1>3, <2>1, <2>2
  <2>4. proxyBalance = [proxyBalance EXCEPT ![q] = proxyBalance[q]]
    BY <1>3
  <2>5. proxyBalance' = [proxyBalance EXCEPT ![q] = @ - k]
    BY <2>1, <2>2, <2>4
  <2>6. QED
    BY <2>2, <2>3, <2>5
<1>5. ASSUME Rescue(m)
      PROVE  \E k \in Nat : /\ k <= proxyBalance[q]
                            /\ k <= originDebt[o] + m.amount
                            /\ originDebt' = [originDebt EXCEPT ![o] = @ + m.amount - k]
                            /\ proxyBalance' = [proxyBalance EXCEPT ![q] = @ - k]
  <2> DEFINE k == Claimable(q, originDebt[o] + m.amount)
  <2>1. authorizedOrigins[o].proxyBridge = q
    BY <1>3, <1>5 DEF Rescue, ProcessFailedHandler, VaultInv, SetupInv
  <2>2. /\ ChangeDebt(o, m.amount - k)
        /\ proxyBalance' = [proxyBalance EXCEPT ![q] = @ - k]
    BY <1>5, <2>1 DEF Rescue, ProcessFailedHandler
  <2>3. originDebt[o] + m.amount \in Nat
    BY <1>3
  <2>4. k \in Nat /\ k <= originDebt[o] + m.amount /\ k <= proxyBalance[q]
    BY <1>3, <2>3, ClaimableType DEF VaultInv, TypeInv
  <2>5. originDebt' = [originDebt EXCEPT ![o] = @ + m.amount - k]
    <3> HIDE DEF k
    <3>1. originDebt[o] + (m.amount - k) = originDebt[o] + m.amount - k
      BY <1>3, <2>4
    <3>2. originDebt' = [originDebt EXCEPT ![o] = @ + (m.amount - k)]
      BY <2>2 DEF ChangeDebt
    <3>3. QED
      BY <1>3, <3>1, <3>2
  <2>6. QED
    BY <2>2, <2>4, <2>5
<1>6. PICK k \in Nat : /\ k <= proxyBalance[q]
                       /\ k <= originDebt[o] + m.amount
                       /\ originDebt' = [originDebt EXCEPT ![o] = @ + m.amount - k]
                       /\ proxyBalance' = [proxyBalance EXCEPT ![q] = @ - k]
  BY <1>4, <1>5
<1>7. Backing' = [Backing EXCEPT ![q] = @ - k] /\ k <= Backing[q]
  BY <1>1, <1>3, <1>6, ProxyEffect
<1>8. QED
  BY <1>1, <1>2, <1>6, <1>7

\* A claim repays k out of what has arrived.
LEMMA ClaimEffect ==
  ASSUME VaultInv, NEW o \in Origins, Claim(o), UNCHANGED bridgeVars
  PROVE  /\ UNCHANGED <<dispatched, Paid>>
         /\ \E k \in Nat :
              /\ k <= Backing[L1Proxy[o]]
              /\ k <= originDebt[o]
              /\ originDebt' = [originDebt EXCEPT ![o] = @ - k]
              /\ Backing' = [Backing EXCEPT ![L1Proxy[o]] = @ - k]
<1> DEFINE q == L1Proxy[o]
           k == Claimable(q, originDebt[o])
<1>1. UNCHANGED <<dispatched, inTransit, messages>>
  BY DEF Claim, bridgeVars
<1>2. Paid' = Paid
  BY <1>1 DEF Paid, Id
<1>3. q \in Proxies /\ originDebt \in [Origins -> Nat] /\ originDebt[o] \in Nat
  BY ProxyAssumption DEF VaultInv, TypeInv, TypeOK
<1>4. authorizedOrigins[o].proxyBridge = q
  BY <1>3 DEF Claim, VaultInv, SetupInv
<1>5. /\ proxyBalance' = [proxyBalance EXCEPT ![q] = @ - k]
      /\ originDebt' = [originDebt EXCEPT ![o] = @ + (0 - k)]
  BY <1>4 DEF Claim, ChangeDebt
<1>6. k \in Nat /\ k <= originDebt[o] /\ k <= proxyBalance[q]
  BY <1>3, ClaimableType DEF VaultInv, TypeInv
<1> HIDE DEF k
<1>7. originDebt' = [originDebt EXCEPT ![o] = @ - k]
  <2>1. originDebt[o] + (0 - k) = originDebt[o] - k
    BY <1>3, <1>6
  <2>2. QED
    BY <1>3, <1>5, <2>1
<1>8. Backing' = [Backing EXCEPT ![q] = @ - k] /\ k <= Backing[q]
  BY <1>1, <1>3, <1>5, <1>6, ProxyEffect
<1>9. QED
  BY <1>1, <1>2, <1>6, <1>7, <1>8

\* The remaining steps of the pool do not touch the ledger.
LEMMA QuietVaultEffect ==
  ASSUME VaultInv, UNCHANGED <<messages, originDebt, proxyBalance>>, UNCHANGED bridgeVars
  PROVE  UNCHANGED <<dispatched, Paid, originDebt, Backing>>
BY DEF bridgeVars, Paid, Id, Backing, ComingTo

-----------------------------------------------------------------------------
(* The ledger of loans is implemented *)

LEMMA VaultsStepIsLedgerStep ==
  ASSUME FullDelivery, VaultInv, [VaultsNext]_vaultVars
  PROVE  [Ledger!LedgerNext]_(Ledger!ledgerVars)
<1>1. ASSUME UNCHANGED <<dispatched, Paid, originDebt, Backing>>
      PROVE  UNCHANGED Ledger!ledgerVars
  BY <1>1 DEF Ledger!ledgerVars, Backing
<1>2. CASE UNCHANGED vaultVars
  <2>1. UNCHANGED <<messages, originDebt, proxyBalance>> /\ UNCHANGED bridgeVars
    BY <1>2 DEF vaultVars, vars, originVars, loanVars
  <2>2. QED
    BY <1>1, <2>1, QuietVaultEffect
<1>3. ASSUME NEW m \in Messages, Send(m)
      PROVE  Ledger!LedgerNext
  <2>1. Ledger!Send(m)
    BY <1>3, SendEffect DEF Ledger!Send, Backing
  <2>2. QED
    BY <2>1 DEF Ledger!LedgerNext
<1>4. ASSUME NEW m \in Messages, Deliver(m)
      PROVE  UNCHANGED Ledger!ledgerVars
  BY <1>1, <1>4, DeliverEffect
<1>5. ASSUME NEW m \in Messages, Process(m) \/ Rescue(m)
      PROVE  Ledger!LedgerNext
  <2>1. PICK k \in Nat :
          /\ k <= Backing[L1Proxy[m.origin]]
          /\ k <= originDebt[m.origin] + m.amount
          /\ originDebt' = [originDebt EXCEPT ![m.origin] = @ + m.amount - k]
          /\ Backing' = [Backing EXCEPT ![L1Proxy[m.origin]] = @ - k]
    BY <1>5, PayEffect
  <2>2. m \in dispatched \ Paid /\ dispatched' = dispatched /\ Paid' = Paid \cup {m}
    BY <1>5, PayEffect
  <2>3. Ledger!Lend(m, k)
    BY <2>1, <2>2 DEF Ledger!Lend, Backing
  <2>4. k \in 0 .. originDebt[m.origin] + m.amount
    BY <2>1, MessageType DEF VaultInv, TypeInv, TypeOK
  <2>5. QED
    BY <2>3, <2>4 DEF Ledger!LedgerNext
<1>6. ASSUME NEW o \in Origins, Claim(o), UNCHANGED bridgeVars
      PROVE  [Ledger!LedgerNext]_(Ledger!ledgerVars)
  <2>1. PICK k \in Nat :
          /\ k <= Backing[L1Proxy[o]]
          /\ k <= originDebt[o]
          /\ originDebt' = [originDebt EXCEPT ![o] = @ - k]
          /\ Backing' = [Backing EXCEPT ![L1Proxy[o]] = @ - k]
    BY <1>6, ClaimEffect
  <2>2. UNCHANGED <<dispatched, Paid>>
    BY <1>6, ClaimEffect
  <2>3. originDebt \in [Origins -> Nat] /\ Backing \in [Proxies -> Nat] /\ L1Proxy[o] \in Proxies
    BY TransitFinite, ProxyAssumption DEF VaultInv, TypeInv, TypeOK
  <2>4. CASE k = 0
    <3>1. originDebt' = originDebt /\ Backing' = Backing
      BY <2>1, <2>3, <2>4
    <3>2. QED
      BY <1>1, <2>2, <3>1
  <2>5. CASE k # 0
    <3>1. Ledger!Repay(o, k)
      BY <2>1, <2>2 DEF Ledger!Repay, Backing
    <3>2. k \in 1 .. originDebt[o]
      BY <2>1, <2>3, <2>5
    <3>3. QED
      BY <3>1, <3>2 DEF Ledger!LedgerNext
  <2>6. QED
    BY <2>4, <2>5
<1>7. ASSUME PoolStep
      PROVE  [Ledger!LedgerNext]_(Ledger!ledgerVars)
  <2>1. UNCHANGED bridgeVars /\ messages' = messages
    BY <1>7, PoolNextEffect DEF PoolStep
  <2>2. CASE UNCHANGED <<originDebt, proxyBalance>>
    BY <1>1, <2>1, <2>2, QuietVaultEffect
  <2>3. QED
    BY <1>6, <1>7, <2>1, <2>2, PoolNextEffect DEF PoolStep
<1>8. QED
  BY <1>2, <1>3, <1>4, <1>5, <1>7 DEF VaultsNext

LEMMA InitLedger == VaultsInit => Ledger!LedgerInit
<1> SUFFICES ASSUME VaultsInit PROVE Ledger!LedgerInit
  OBVIOUS
<1>1. /\ dispatched = {} /\ inTransit = {}
      /\ originDebt = [o \in Origins |-> 0]
      /\ proxyBalance = [p \in Proxies |-> 0]
  BY DEF VaultsInit, Origin!BridgeInit, Init
<1>2. Paid = {}
  BY <1>1 DEF Paid
<1>3. \A p \in Proxies : ComingTo(p) = 0
  BY <1>1, SumOverZero DEF ComingTo
<1>4. QED
  BY <1>1, <1>2, <1>3 DEF Ledger!LedgerInit

THEOREM VaultInvariant == VaultsSpec => []VaultInv
BY InitVaultInv, NextVaultInv, PTL DEF VaultsSpec

\* Bridges, Hyperlane, native bridges and pool together implement the ledger of
\* loans: a transfer is lent once and only after it was sent, an origin owes
\* what was lent, and only assets sent to its proxy repay it.
THEOREM VaultsImplementLedger ==
  ASSUME FullDelivery
  PROVE  VaultsSpec => ImplementsLedger
<1>1. VaultInv /\ [VaultsNext]_vaultVars => [Ledger!LedgerNext]_(Ledger!ledgerVars)
  BY VaultsStepIsLedgerStep
<1>2. QED
  BY <1>1, InitLedger, VaultInvariant, PTL DEF VaultsSpec, ImplementsLedger, Ledger!LedgerSpec

-----------------------------------------------------------------------------
(* Every loan is backed *)

\* A debt that changes changes what is owed for the proxy of its origin only.
LEMMA OwedChange ==
  ASSUME VaultInv, NEW o \in Origins, NEW d \in Nat,
         originDebt' = [originDebt EXCEPT ![o] = d], NEW p \in Proxies
  PROVE  /\ OwedBy(p) \in Nat /\ OwedBy(p)' \in Nat
         /\ OwedBy(p)' + (IF L1Proxy[o] = p THEN originDebt[o] ELSE 0) =
              OwedBy(p) + (IF L1Proxy[o] = p THEN d ELSE 0)
<1> DEFINE S == {x \in Origins : L1Proxy[x] = p}
           new == originDebt'
<1>1. IsFiniteSet(S)
  BY OriginsAssumption, FS_Subset
<1>2. originDebt \in [Origins -> Nat] /\ new \in [Origins -> Nat]
  BY DEF VaultInv, TypeInv, TypeOK
<1>3. OwedBy(p) = SumOver(originDebt, S) /\ OwedBy(p)' = SumOver(new, S)
  BY DEF OwedBy
<1>4. (\A x \in S : originDebt[x] \in Nat) /\ (\A x \in S : new[x] \in Nat)
  BY <1>2
<1>5. SumOver(originDebt, S) \in Nat /\ SumOver(new, S) \in Nat
  BY <1>1, <1>4, SumOverType
<1>6. new[o] = d /\ \A x \in S \ {o} : new[x] = originDebt[x]
  BY <1>2
<1>7. originDebt[o] \in Nat
  BY <1>2
<1> HIDE DEF new
<1>8. CASE L1Proxy[o] = p
  <2>1. o \in S
    BY <1>8
  <2> HIDE DEF S
  <2>2. SumOver(new, S) = SumOver(originDebt, S) - originDebt[o] + new[o]
    BY <1>1, <1>4, <1>6, <2>1, SumOverChange
  <2>3. QED
    BY <1>3, <1>5, <1>6, <1>7, <1>8, <2>2
<1>9. CASE L1Proxy[o] # p
  <2>1. \A x \in S : new[x] = originDebt[x]
    BY <1>6, <1>9
  <2> HIDE DEF S
  <2>2. SumOver(new, S) = SumOver(originDebt, S)
    BY <2>1, SumOverSame
  <2>3. QED
    BY <1>3, <1>5, <1>9, <2>2
<1>10. QED
  BY <1>8, <1>9

LEMMA OwedType ==
  ASSUME VaultInv, NEW p \in Proxies
  PROVE  OwedBy(p) \in Nat
<1>1. IsFiniteSet({o \in Origins : L1Proxy[o] = p})
  BY OriginsAssumption, FS_Subset
<1>2. \A o \in Origins : originDebt[o] \in Nat
  BY DEF VaultInv, TypeInv, TypeOK
<1>3. QED
  BY <1>1, <1>2, SumOverType DEF OwedBy

\* A transfer that is sent is not paid yet.
LEMMA SendUnpaid ==
  ASSUME VaultInv, NEW m \in Messages, Send(m), NEW p \in Proxies
  PROVE  /\ UnpaidTo(p) \in Nat
         /\ UnpaidTo(p)' = UnpaidTo(p) + IF L1Proxy[m.origin] = p THEN m.amount ELSE 0
<1> DEFINE S == dispatched \ Paid
<1>1. m \notin dispatched /\ dispatched' = dispatched \cup {m} /\ Paid' = Paid
  BY SendEffect
<1>2. m \notin Paid
  BY <1>1 DEF Paid
<1>3. (dispatched \ Paid)' = S \cup {m} /\ m \notin S
  BY <1>1, <1>2
<1>4. UnpaidTo(p) = SumOver(Amount, ToProxy(S, p))
  BY DEF UnpaidTo, ToProxy
<1>5. UnpaidTo(p)' = SumOver(Amount, ToProxy(S \cup {m}, p))
  BY <1>3 DEF UnpaidTo, ToProxy
<1>6. S \subseteq Messages /\ IsFiniteSet(S)
  BY TransitFinite
<1> HIDE DEF S
<1>7. /\ SumOver(Amount, ToProxy(S, p)) \in Nat
      /\ SumOver(Amount, ToProxy(S \cup {m}, p)) =
           SumOver(Amount, ToProxy(S, p)) + IF L1Proxy[m.origin] = p THEN m.amount ELSE 0
  BY <1>3, <1>6, AmountsAdd
<1>8. QED
  BY <1>4, <1>5, <1>7

\* A transfer that is paid was unpaid before.
LEMMA PayUnpaid ==
  ASSUME VaultInv, NEW m \in Messages, m \in dispatched \ Paid,
         dispatched' = dispatched, Paid' = Paid \cup {m}, NEW p \in Proxies
  PROVE  /\ UnpaidTo(p)' \in Nat
         /\ UnpaidTo(p) = UnpaidTo(p)' + IF L1Proxy[m.origin] = p THEN m.amount ELSE 0
<1> DEFINE S == (dispatched \ Paid) \ {m}
<1>1. (dispatched \ Paid)' = S
  OBVIOUS
<1>2. S \cup {m} = dispatched \ Paid /\ m \notin S
  OBVIOUS
<1>3. S \subseteq Messages /\ IsFiniteSet(S)
  BY TransitFinite, FS_RemoveElement
<1>4. UnpaidTo(p) = SumOver(Amount, ToProxy(S \cup {m}, p))
  BY <1>2 DEF UnpaidTo, ToProxy
<1>5. UnpaidTo(p)' = SumOver(Amount, ToProxy(S, p))
  BY <1>1 DEF UnpaidTo, ToProxy
<1> HIDE DEF S
<1>6. /\ SumOver(Amount, ToProxy(S, p)) \in Nat
      /\ SumOver(Amount, ToProxy(S \cup {m}, p)) =
           SumOver(Amount, ToProxy(S, p)) + IF L1Proxy[m.origin] = p THEN m.amount ELSE 0
  BY <1>2, <1>3, AmountsAdd
<1>7. QED
  BY <1>4, <1>5, <1>6

Backed == \A p \in Proxies : Backing[p] = OwedBy(p) + UnpaidTo(p)

LEMMA VaultsStepBacked ==
  ASSUME FullDelivery, VaultInv, Backed, [VaultsNext]_vaultVars
  PROVE  Backed'
<1>1. ASSUME UNCHANGED <<dispatched, Paid, originDebt, Backing>>
      PROVE  Backed'
  BY <1>1 DEF Backed, OwedBy, UnpaidTo
<1>2. CASE UNCHANGED vaultVars
  <2>1. UNCHANGED <<messages, originDebt, proxyBalance>> /\ UNCHANGED bridgeVars
    BY <1>2 DEF vaultVars, vars, originVars, loanVars
  <2>2. QED
    BY <1>1, <2>1, QuietVaultEffect
<1>3. ASSUME NEW m \in Messages, Send(m)
      PROVE  Backed'
  <2>1. /\ UNCHANGED originDebt
        /\ Backing' = [Backing EXCEPT ![L1Proxy[m.origin]] = @ + m.amount]
    BY <1>3, SendEffect
  <2>2. Backing \in [Proxies -> Nat] /\ m.amount \in Nat
    BY TransitFinite, MessageType
  <2>3. ASSUME NEW p \in Proxies
        PROVE  Backing'[p] = OwedBy(p)' + UnpaidTo(p)'
    <3>1. OwedBy(p)' = OwedBy(p) /\ Backing[p] = OwedBy(p) + UnpaidTo(p)
      BY <2>1 DEF OwedBy, Backed
    <3>2. /\ UnpaidTo(p) \in Nat
          /\ UnpaidTo(p)' = UnpaidTo(p) + IF L1Proxy[m.origin] = p THEN m.amount ELSE 0
      BY <1>3, SendUnpaid
    <3>3. OwedBy(p) \in Nat
      BY OwedType
    <3>4. Backing'[p] = Backing[p] + IF L1Proxy[m.origin] = p THEN m.amount ELSE 0
      BY <2>1, <2>2
    <3>5. QED
      BY <2>2, <3>1, <3>2, <3>3, <3>4
  <2>4. QED
    BY <2>3 DEF Backed
<1>4. ASSUME NEW m \in Messages, Deliver(m)
      PROVE  Backed'
  BY <1>1, <1>4, DeliverEffect
<1>5. ASSUME NEW m \in Messages, Process(m) \/ Rescue(m)
      PROVE  Backed'
  <2> DEFINE o == m.origin
  <2>1. PICK k \in Nat :
          /\ k <= Backing[L1Proxy[o]]
          /\ k <= originDebt[o] + m.amount
          /\ originDebt' = [originDebt EXCEPT ![o] = @ + m.amount - k]
          /\ Backing' = [Backing EXCEPT ![L1Proxy[o]] = @ - k]
    BY <1>5, PayEffect
  <2>2. m \in dispatched \ Paid /\ dispatched' = dispatched /\ Paid' = Paid \cup {m}
    BY <1>5, PayEffect
  <2>3. /\ Backing \in [Proxies -> Nat] /\ m.amount \in Nat /\ o \in Origins
        /\ originDebt \in [Origins -> Nat]
    BY TransitFinite, MessageType DEF VaultInv, TypeInv, TypeOK
  <2> DEFINE d == originDebt[o] + m.amount - k
  <2>4. d \in Nat /\ originDebt' = [originDebt EXCEPT ![o] = d] /\ originDebt[o] \in Nat
        /\ d + k = originDebt[o] + m.amount
    BY <2>1, <2>3
  <2> HIDE DEF d
  <2>5. ASSUME NEW p \in Proxies
        PROVE  Backing'[p] = OwedBy(p)' + UnpaidTo(p)'
    <3>1. /\ OwedBy(p) \in Nat /\ OwedBy(p)' \in Nat
          /\ OwedBy(p)' + (IF L1Proxy[o] = p THEN originDebt[o] ELSE 0) =
               OwedBy(p) + (IF L1Proxy[o] = p THEN d ELSE 0)
      BY <2>3, <2>4, OwedChange
    <3>2. /\ UnpaidTo(p)' \in Nat
          /\ UnpaidTo(p) = UnpaidTo(p)' + IF L1Proxy[o] = p THEN m.amount ELSE 0
      BY <2>2, PayUnpaid
    <3>3. Backing'[p] = Backing[p] - IF L1Proxy[o] = p THEN k ELSE 0
      BY <2>1, <2>3
    <3>4. Backing[p] = OwedBy(p) + UnpaidTo(p)
      BY DEF Backed
    <3>5. QED
      BY <2>3, <2>4, <3>1, <3>2, <3>3, <3>4
  <2>6. QED
    BY <2>5 DEF Backed
<1>6. ASSUME NEW o \in Origins, Claim(o), UNCHANGED bridgeVars
      PROVE  Backed'
  <2>1. PICK k \in Nat :
          /\ k <= Backing[L1Proxy[o]]
          /\ k <= originDebt[o]
          /\ originDebt' = [originDebt EXCEPT ![o] = @ - k]
          /\ Backing' = [Backing EXCEPT ![L1Proxy[o]] = @ - k]
    BY <1>6, ClaimEffect
  <2>2. UNCHANGED <<dispatched, Paid>>
    BY <1>6, ClaimEffect
  <2>3. Backing \in [Proxies -> Nat] /\ originDebt \in [Origins -> Nat]
    BY TransitFinite DEF VaultInv, TypeInv, TypeOK
  <2> DEFINE d == originDebt[o] - k
  <2>4. d \in Nat /\ originDebt' = [originDebt EXCEPT ![o] = d] /\ originDebt[o] \in Nat
        /\ d + k = originDebt[o]
    BY <2>1, <2>3
  <2> HIDE DEF d
  <2>5. ASSUME NEW p \in Proxies
        PROVE  Backing'[p] = OwedBy(p)' + UnpaidTo(p)'
    <3>1. /\ OwedBy(p) \in Nat /\ OwedBy(p)' \in Nat
          /\ OwedBy(p)' + (IF L1Proxy[o] = p THEN originDebt[o] ELSE 0) =
               OwedBy(p) + (IF L1Proxy[o] = p THEN d ELSE 0)
      BY <2>4, OwedChange
    <3>2. UnpaidTo(p)' = UnpaidTo(p) /\ UnpaidTo(p) \in Nat
      BY <2>2, TransitFinite, AmountsType DEF UnpaidTo, ToProxy
    <3>3. Backing'[p] = Backing[p] - IF L1Proxy[o] = p THEN k ELSE 0
      BY <2>1, <2>3
    <3>4. Backing[p] = OwedBy(p) + UnpaidTo(p)
      BY DEF Backed
    <3>5. QED
      BY <2>4, <3>1, <3>2, <3>3, <3>4
  <2>6. QED
    BY <2>5 DEF Backed
<1>7. ASSUME PoolStep
      PROVE  Backed'
  <2>1. UNCHANGED bridgeVars /\ messages' = messages
    BY <1>7, PoolNextEffect DEF PoolStep
  <2>2. CASE UNCHANGED <<originDebt, proxyBalance>>
    BY <1>1, <2>1, <2>2, QuietVaultEffect
  <2>3. QED
    BY <1>6, <1>7, <2>1, <2>2, PoolNextEffect DEF PoolStep
<1>8. QED
  BY <1>2, <1>3, <1>4, <1>5, <1>7 DEF VaultsNext

LEMMA InitBacked == VaultsInit => Backed
<1> SUFFICES ASSUME VaultsInit PROVE Backed
  OBVIOUS
<1>1. /\ dispatched = {} /\ inTransit = {}
      /\ originDebt = [o \in Origins |-> 0]
      /\ proxyBalance = [p \in Proxies |-> 0]
  BY DEF VaultsInit, Origin!BridgeInit, Init
<1>2. \A p \in Proxies : ComingTo(p) = 0 /\ UnpaidTo(p) = 0 /\ OwedBy(p) = 0
  BY <1>1, SumOverZero DEF ComingTo, UnpaidTo, OwedBy
<1>3. QED
  BY <1>1, <1>2 DEF Backed, Backing

\* What is on its way to a proxy and what waits there is, at any moment, what its
\* origins owe plus what was sent and not paid.
THEOREM LoansBacked ==
  ASSUME FullDelivery
  PROVE  VaultsSpec => []LoansAreBacked
<1>1. VaultInv /\ Backed /\ [VaultsNext]_vaultVars => Backed'
  BY VaultsStepBacked
<1>2. Backed => LoansAreBacked
  BY DEF Backed, Backing, LoansAreBacked
<1>3. QED
  BY <1>1, <1>2, InitBacked, VaultInvariant, PTL DEF VaultsSpec
=============================================================================
