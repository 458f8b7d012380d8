---------------------------- MODULE RelayVaults ----------------------------
(***************************************************************************)
(* The whole path of a transfer: the RelayBridges of the origin chains     *)
(* (RelayBridge), Hyperlane, the native bridges, and the pool (RelayPool). *)
(*                                                                         *)
(* Hyperlane may deliver a dispatched message at any later moment, before  *)
(* or after its asset arrives and in any order, tries again when handle    *)
(* reverts, and may try a message that was delivered before: a dispatched  *)
(* message never goes away. It may also never deliver one, which the owner *)
(* of the pool then pays with processFailedHandler. The chains share one   *)
(* clock, up to MAX_SKEW.                                                  *)
(***************************************************************************)
EXTENDS RelayPool

CONSTANTS
  L1Proxy,        \* L1_BRIDGE_PROXY of each origin's BridgeProxy
  Native, DepositFee, HYPERLANE_FEE, Values, MAX_SKEW   \* see RelayBridge

ASSUME BridgeAssumption ==
  /\ Native \subseteq Origins
  /\ DepositFee \in [Origins -> Nat]
  /\ HYPERLANE_FEE \in Nat
  /\ Values \subseteq Nat
  /\ MAX_SKEW \in Nat
ASSUME ProxyAssumption == L1Proxy \in [Origins -> Proxies]
\* What `hardhat bridge:send` checks before a transfer: the origin is (or will
\* be) set up with the proxy its transfers go to.
ASSUME SetupAssumption ==
  \A p \in OriginParams : p.settings.proxyBridge = L1Proxy[p.origin]

VARIABLES transferNonce, dispatched, inTransit

Origin == INSTANCE RelayBridge

\* Arrivals names all that the native bridges can deliver.
ASSUME ArrivalsAssumption == \A m \in Messages : Origin!Receivable(m) \subseteq Arrivals

bridgeVars == <<transferNonce, dispatched, inTransit>>
vaultVars == <<vars, bridgeVars>>

Id(m) == <<m.origin, m.nonce>>

\* The transfers the pool has paid.
Paid == {m \in dispatched : Id(m) \in messages}

-----------------------------------------------------------------------------
(* Steps *)

Send(m) == Origin!Bridge(m) /\ UNCHANGED vars

Deliver(m) ==
  /\ Origin!Deliver(m)
  /\ \E received \in Origin!Receivable(m) : Arrive(L1Proxy[m.origin], received)

\* Hyperlane's relayer calls the mailbox of the pool's chain, which calls handle.
Process(m) == m \in dispatched /\ Handle(m) /\ UNCHANGED bridgeVars

\* The owner pays a message that was dispatched.
Rescue(m) == m \in dispatched /\ ProcessFailedHandler(m) /\ UNCHANGED bridgeVars

PoolStep == PoolNext /\ UNCHANGED bridgeVars

VaultsInit == Init /\ Origin!BridgeInit

VaultsNext ==
  \/ \E m \in Messages : Send(m)
  \/ \E m \in Messages : Deliver(m)
  \/ \E m \in Messages : Process(m)
  \/ \E m \in Messages : Rescue(m)
  \/ PoolStep

VaultsSpec == VaultsInit /\ [][VaultsNext]_vaultVars

\* Hyperlane retries ("Hyperlane performs retries", smart-contracts/README.md),
\* a native bridge delivers once the claimer has proven and finalised its
\* withdrawals, and the claimer, a job that is run again and again, claims from
\* every origin with a debt. Time passes. Nothing else has to happen: no user
\* bridges, no owner rescues and no curator acts.
Fairness ==
  /\ \A m \in Messages : WF_vaultVars(Process(m)) /\ WF_vaultVars(Deliver(m))
  /\ \A o \in Origins : WF_vaultVars(Claim(o) /\ UNCHANGED bridgeVars)
  /\ WF_vaultVars(Tick /\ UNCHANGED bridgeVars)

FairVaultsSpec == VaultsSpec /\ Fairness

-----------------------------------------------------------------------------
(* Safety *)

Amount == [m \in Messages |-> m.amount]

\* What is on its way to proxy p.
ComingTo(p) == SumOver(Amount, {m \in inTransit : L1Proxy[m.origin] = p})

\* What was sent to p and not paid yet.
UnpaidTo(p) == SumOver(Amount, {m \in dispatched \ Paid : L1Proxy[m.origin] = p})

\* What the origins that send to p owe.
OwedBy(p) == SumOver(originDebt, {o \in Origins : L1Proxy[o] = p})

\* "It knows that repayment is on the way": whatever was paid, rescued, claimed,
\* disabled or is still in flight, what is on its way to a proxy and what waits
\* there is exactly what its origins owe plus what has not been paid yet.
LoansAreBacked ==
  \A p \in Proxies : ComingTo(p) + proxyBalance[p] = OwedBy(p) + UnpaidTo(p)

\* The pool and its bridges implement the ledger of loans.
Ledger == INSTANCE LoanLedger
  WITH sent <- dispatched,
       lent <- Paid,
       owed <- originDebt,
       backing <- [p \in Proxies |-> ComingTo(p) + proxyBalance[p]]

ImplementsLedger == Ledger!LedgerSpec

-----------------------------------------------------------------------------
(* Liveness *)

\* A dispatched transfer is eventually paid, unless it exceeds the limit of its
\* origin on its own (which is 0 for an origin that is disabled or unknown):
\* one that reverts because of the debt of others, of the cool-down or of a
\* clock that runs ahead waits for claims or for time.
EveryTransferIsPaid ==
  \A m \in Messages :
    m \in dispatched ~> \/ m \in Paid
                        \/ authorizedOrigins[m.origin].maxDebt < m.amount

\* Every debt is eventually repaid in full, that of a disabled origin too.
EveryLoanIsRepaid ==
  \A o \in Origins : originDebt[o] > 0 ~> originDebt[o] = 0

-----------------------------------------------------------------------------
(* What the documentation says and the code does not do *)

\* "100% of volume replenished back to the pool": what has been lent is on its
\* way or waits at the proxy. The proxy for Arbitrum deposits takes the cost of
\* its retryable ticket out of the amount, the message is for all of it.
VolumeIsReplenished ==
  \A p \in Proxies : OwedBy(p) <= ComingTo(p) + proxyBalance[p]
=============================================================================
