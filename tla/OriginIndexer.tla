--------------------------- MODULE OriginIndexer ---------------------------
(***************************************************************************)
(* The tables relay_pool and pool_origin of one curated pool, and the part *)
(* of the claimer that reads them: which origins a pool has, what each     *)
(* owes, and what waits at its proxy. All events come from one chain and   *)
(* are handled in their order, at any later time.                          *)
(*                                                                         *)
(* The pool is reduced to what its events say and to the fees for which it *)
(* rejects a claim. The transfers of an origin always arrive at the proxy  *)
(* its bridge was deployed with, whatever the owner configured.            *)
(***************************************************************************)
EXTENDS OriginSums, Sequences, SequencesExt

CONSTANTS
  Origins,        \* chain and bridge
  Proxies,
  Destination,    \* where the transfers of each origin arrive
  Configured,     \* the proxies the owner may name for each origin
  Limits,         \* values of maxDebt the owner may set
  Fees,           \* values of bridgeFee
  Messages,
  From,           \* the origin of each message
  Amount,
  FRACTIONAL_BPS_DENOMINATOR,
  BPS_DIVISOR,
  MAX_PENDING     \* bound: events that are not indexed yet; claims of the
                  \* relayer may exceed it by one, so that it holds up no claim

ASSUME OriginIndexerAssumption ==
  /\ IsFiniteSet(Origins)
  /\ Destination \in [Origins -> Proxies]
  /\ Configured \in [Origins -> SUBSET Proxies]
  /\ Limits \subseteq Nat /\ Fees \subseteq Nat
  /\ From \in [Messages -> Origins]
  /\ Amount \in [Messages -> Nat \ {0}]
  /\ FRACTIONAL_BPS_DENOMINATOR \in Nat \ {0}
  /\ BPS_DIVISOR \in Nat \ {0}
  /\ MAX_PENDING \in Nat

VARIABLES
  origins,           \* authorizedOrigins: settings and debt of those added
  outstandingDebt,
  messages,          \* the messages that were processed
  pendingBridgeFees,
  feesCharged,       \* history: the fees of all loans
  arrived,           \* the messages whose asset arrived
  waiting,           \* what waits at each proxy
  log,               \* the events that are not indexed yet
  db,                \* the tables
  todo,              \* what the claim job read and has not checked yet
  requests           \* the origins whose claim the relayer accepted

feeVars == <<pendingBridgeFees, feesCharged>>
poolVars == <<origins, outstandingDebt, messages, feeVars, arrived, waiting>>
jobVars == <<todo, requests>>
vars == <<poolVars, log, db, jobVars>>

Settings == [maxDebt: Nat, bridgeFee: Nat, proxyBridge: Proxies, outstandingDebt: Nat]

-----------------------------------------------------------------------------
(* The pool *)

\* The events of one transaction, in their order.
Emit(events) == log' = log \o events

\* The debt of o and of the pool change by the same amount.
DebtChanged(o, debt, total) ==
  [kind |-> "OutstandingDebtChanged", origin |-> o,
   newOriginDebt |-> debt, newDebt |-> total]

AddOrigin(o, limit, fee, proxy) ==
  /\ o \in DOMAIN origins =>
       fee = origins[o].bridgeFee \/ origins[o].outstandingDebt = 0
  /\ origins' = [x \in DOMAIN origins \cup {o} |->
       IF x = o
       THEN [maxDebt |-> limit, bridgeFee |-> fee, proxyBridge |-> proxy,
             outstandingDebt |-> IF o \in DOMAIN origins
                                 THEN origins[o].outstandingDebt ELSE 0]
       ELSE origins[x]]
  /\ Emit(<<[kind |-> "OriginAdded", origin |-> o, maxDebt |-> limit,
             bridgeFee |-> fee, proxyBridge |-> proxy]>>)
  /\ UNCHANGED <<outstandingDebt, messages, feeVars, arrived, waiting>>

DisableOrigin(o) ==
  /\ o \in DOMAIN origins
  /\ origins' = [origins EXCEPT ![o].maxDebt = 0]
  /\ Emit(<<[kind |-> "OriginDisabled", origin |-> o]>>)
  /\ UNCHANGED <<outstandingDebt, messages, feeVars, arrived, waiting>>

FeeOf(amount, rate) == (amount * rate) \div FRACTIONAL_BPS_DENOMINATOR

Handle(m) ==
  LET o == From[m] IN
  /\ o \in DOMAIN origins
  /\ m \notin messages
  /\ origins[o].outstandingDebt + Amount[m] <= origins[o].maxDebt
  /\ messages' = messages \cup {m}
  /\ LET fee == FeeOf(Amount[m], origins[o].bridgeFee)
     IN  /\ fee <= Amount[m]
         /\ pendingBridgeFees' = pendingBridgeFees + fee
         /\ feesCharged' = feesCharged + fee
  /\ origins' = [origins EXCEPT ![o].outstandingDebt = @ + Amount[m]]
  /\ outstandingDebt' = outstandingDebt + Amount[m]
  /\ Emit(<<DebtChanged(o, origins'[o].outstandingDebt, outstandingDebt'),
            [kind |-> "LoanEmitted", origin |-> o, amount |-> Amount[m]]>>)
  /\ UNCHANGED <<arrived, waiting>>

\* A bug: all that waits is claimed, also more than the debt.
WholeBalance(balance, debt) == balance

\* BridgeProxy.claim
Claimed(balance, debt) == IF balance < debt THEN balance ELSE debt

\* What a claim for o would claim, and its fee.
ToClaim(o) == Claimed(waiting[origins[o].proxyBridge], origins[o].outstandingDebt)

ToRelease(o) == FeeOf(ToClaim(o), origins[o].bridgeFee)

\* The subtraction of the fee is checked.
Claim(o) ==
  /\ o \in DOMAIN origins
  /\ ToRelease(o) <= pendingBridgeFees
  /\ pendingBridgeFees' = pendingBridgeFees - ToRelease(o)
  /\ LET p == origins[o].proxyBridge
         amount == ToClaim(o)
     IN  /\ waiting' = [waiting EXCEPT ![p] = @ - amount]
         /\ origins' = [origins EXCEPT ![o].outstandingDebt = @ - amount]
         /\ outstandingDebt' = outstandingDebt - amount
         /\ Emit(<<DebtChanged(o, origins'[o].outstandingDebt, outstandingDebt')>>)
  /\ UNCHANGED <<messages, feesCharged, arrived>>

\* A bug: a rescue for an origin that was never added.
ProcessFailedHandlerUnchecked(m) ==
  LET o == From[m] IN
  /\ m \notin messages
  /\ Amount[m] <= waiting[Destination[o]]
  /\ messages' = messages \cup {m}
  /\ waiting' = [waiting EXCEPT ![Destination[o]] = @ - Amount[m]]
  /\ Emit(<<DebtChanged(o, Amount[m], outstandingDebt + Amount[m]),
            DebtChanged(o, 0, outstandingDebt)>>)
  /\ UNCHANGED <<origins, outstandingDebt, feeVars, arrived>>

\* The debt rises and what the proxy has is claimed, in one transaction and
\* without a fee.
ProcessFailedHandler(m) ==
  LET o == From[m] IN
  /\ m \notin messages
  /\ o \in DOMAIN origins
  /\ LET p == origins[o].proxyBridge
         debt == origins[o].outstandingDebt + Amount[m]
         amount == Claimed(waiting[p], debt)
     IN  /\ amount >= Amount[m]
         /\ waiting' = [waiting EXCEPT ![p] = @ - amount]
         /\ origins' = [origins EXCEPT ![o].outstandingDebt = debt - amount]
         /\ outstandingDebt' = outstandingDebt + Amount[m] - amount
         /\ Emit(<<DebtChanged(o, debt, outstandingDebt + Amount[m]),
                   DebtChanged(o, debt - amount, outstandingDebt')>>)
  /\ messages' = messages \cup {m}
  /\ UNCHANGED <<feeVars, arrived>>

\* The native bridge delivers.
Arrive(m) ==
  /\ m \notin arrived
  /\ arrived' = arrived \cup {m}
  /\ waiting' = [waiting EXCEPT ![Destination[From[m]]] = @ + Amount[m]]
  /\ UNCHANGED <<origins, outstandingDebt, messages, feeVars, log>>

-----------------------------------------------------------------------------
(* The handlers: each takes the tables to the tables *)

\* A bug: the fee is rounded up.
RoundedUpBps(fee) ==
  (fee * BPS_DIVISOR + FRACTIONAL_BPS_DENOMINATOR - 1) \div FRACTIONAL_BPS_DENOMINATOR

BridgeFeeInBps(fee) == (fee * BPS_DIVISOR) \div FRACTIONAL_BPS_DENOMINATOR

\* A bug: the upsert takes the values of the insertion.
OnOriginAddedAgain(d, e) ==
  [d EXCEPT !.origins = [o \in DOMAIN @ \cup {e.origin} |->
     IF o = e.origin
     THEN [maxDebt |-> e.maxDebt, bridgeFee |-> BridgeFeeInBps(e.bridgeFee),
           proxyBridge |-> e.proxyBridge, currentOutstandingDebt |-> 0]
     ELSE @[o]]]

\* A row that exists keeps its proxyBridge and its debt.
OnOriginAdded(d, e) ==
  [d EXCEPT !.origins = [o \in DOMAIN @ \cup {e.origin} |->
     IF o # e.origin THEN @[o]
     ELSE IF o \in DOMAIN @
     THEN [@[o] EXCEPT !.maxDebt = e.maxDebt,
                       !.bridgeFee = BridgeFeeInBps(e.bridgeFee)]
     ELSE [maxDebt |-> e.maxDebt, bridgeFee |-> BridgeFeeInBps(e.bridgeFee),
           proxyBridge |-> e.proxyBridge, currentOutstandingDebt |-> 0]]]

OnOriginDisabled(d, e) == [d EXCEPT !.origins[e.origin].maxDebt = 0]

OnOutstandingDebtChanged(d, e) ==
  [d EXCEPT !.pool.outstandingDebt = e.newDebt,
            !.origins[e.origin].currentOutstandingDebt = e.newOriginDebt]

OnLoanEmitted(d, e) ==
  IF e.origin \in DOMAIN d.origins
  THEN [d EXCEPT !.pool.totalBridgeFees =
          @ + (e.amount * d.origins[e.origin].bridgeFee) \div BPS_DIVISOR]
  ELSE d

Indexed(d, e) ==
  CASE e.kind = "OriginAdded" -> OnOriginAdded(d, e)
    [] e.kind = "OriginDisabled" -> OnOriginDisabled(d, e)
    [] e.kind = "OutstandingDebtChanged" -> OnOutstandingDebtChanged(d, e)
    [] e.kind = "LoanEmitted" -> OnLoanEmitted(d, e)

\* An update of a row that does not exist throws, and stops the indexer.
Throws(d, e) ==
  /\ e.kind \in {"OriginDisabled", "OutstandingDebtChanged"}
  /\ e.origin \notin DOMAIN d.origins

Index ==
  /\ log # <<>>
  /\ ~ Throws(db, Head(log))
  /\ db' = Indexed(db, Head(log))
  /\ log' = Tail(log)
  /\ UNCHANGED <<poolVars, jobVars>>

-----------------------------------------------------------------------------
(* The claim job *)

\* One query returns proxies and debts of all origins.
ReadOrigins ==
  /\ todo = {}
  /\ todo' = {[origin |-> o, proxyBridge |-> db.origins[o].proxyBridge,
               currentOutstandingDebt |-> db.origins[o].currentOutstandingDebt] :
              o \in DOMAIN db.origins}
  /\ UNCHANGED <<poolVars, log, db, requests>>

\* A bug: only a balance that covers the whole debt is claimed.
CanClaimAll(x) == waiting[x.proxyBridge] >= x.currentOutstandingDebt
                  /\ x.currentOutstandingDebt > 0

CanClaim(x) == waiting[x.proxyBridge] > 0 /\ x.currentOutstandingDebt > 0

\* The balance is read now, the debt was read with the query. That the relayer
\* refuses, which is only logged, is the same as dropping the request.
CheckOrigin(x) ==
  /\ x \in todo
  /\ todo' = todo \ {x}
  /\ requests' = IF CanClaim(x) THEN requests \cup {x.origin} ELSE requests
  /\ UNCHANGED <<poolVars, log, db>>

\* A balance cannot be read: the rest of the run is lost.
AbortRun ==
  /\ todo # {}
  /\ todo' = {}
  /\ UNCHANGED <<poolVars, log, db, requests>>

RelayClaim(o) ==
  /\ o \in requests
  /\ Claim(o)
  /\ Len(log') <= MAX_PENDING + 1
  /\ requests' = requests \ {o}
  /\ UNCHANGED <<db, todo>>

DropClaim(o) ==
  /\ o \in requests
  /\ requests' = requests \ {o}
  /\ UNCHANGED <<poolVars, log, db, todo>>

-----------------------------------------------------------------------------
Init ==
  /\ origins = <<>>
  /\ outstandingDebt = 0
  /\ messages = {}
  /\ pendingBridgeFees = 0
  /\ feesCharged = 0
  /\ arrived = {}
  /\ waiting = [p \in Proxies |-> 0]
  /\ log = <<>>
  /\ db = [pool |-> [outstandingDebt |-> 0, totalBridgeFees |-> 0], origins |-> <<>>]
  /\ todo = {}
  /\ requests = {}

OwnerStep(o) ==
  \/ \E limit \in Limits, fee \in Fees, proxy \in Configured[o] :
       AddOrigin(o, limit, fee, proxy)
  \/ DisableOrigin(o)

PoolStep ==
  /\ \/ \E o \in Origins : OwnerStep(o) \/ Claim(o)
     \/ \E m \in Messages : Handle(m) \/ ProcessFailedHandler(m) \/ Arrive(m)
  /\ Len(log') <= MAX_PENDING
  /\ UNCHANGED <<db, jobVars>>

JobStep ==
  \/ ReadOrigins \/ AbortRun
  \/ \E x \in todo : CheckOrigin(x)
  \/ \E o \in Origins : RelayClaim(o) \/ DropClaim(o)

IndexSpec == Init /\ [][PoolStep \/ Index]_vars

Next == PoolStep \/ Index \/ JobStep

Spec == Init /\ [][Next]_vars

\* The indexer goes on, the job is run again and again, and for no origin are
\* the runs always aborted before it, refused or dropped. Nothing is assumed of
\* the pool and its users.
FairSpec ==
  /\ Spec
  /\ WF_vars(Index)
  /\ WF_vars(ReadOrigins)
  /\ \A o \in Origins :
       /\ SF_vars(\E x \in todo : x.origin = o /\ CheckOrigin(x))
       /\ SF_vars(RelayClaim(o))

-----------------------------------------------------------------------------
OriginIndexerTypeOK ==
  /\ DOMAIN origins \subseteq Origins
  /\ \A o \in DOMAIN origins : origins[o] \in Settings
  /\ outstandingDebt \in Nat /\ pendingBridgeFees \in Nat /\ feesCharged \in Nat
  /\ messages \subseteq Messages /\ arrived \subseteq Messages
  /\ waiting \in [Proxies -> Nat]
  /\ DOMAIN db.origins \subseteq Origins
  /\ db.pool \in [outstandingDebt: Nat, totalBridgeFees: Nat]
  /\ requests \subseteq Origins

\* The tables d after the first n of some events.
After(d, events, n) ==
  LET after[i \in 0 .. n] ==
        IF i = 0 THEN d ELSE Indexed(after[i - 1], events[i])
  IN after[n]

Replayed(n) == After(db, log, n)

\* No event ever finds its row missing, which would stop the indexer for good,
\* however far it is behind.
NoHandlerThrows == log # <<>> => ~ Throws(db, Head(log))

\* What relay_pool and pool_origin say of debts and limits.
Shown(d) ==
  [debt |-> d.pool.outstandingDebt,
   origins |-> [o \in DOMAIN d.origins |->
     <<d.origins[o].maxDebt, d.origins[o].currentOutstandingDebt>>]]

Mirror == INSTANCE TableMirror WITH
  truth <- [debt |-> outstandingDebt,
            origins |-> [o \in DOMAIN origins |->
              <<origins[o].maxDebt, origins[o].outstandingDebt>>]],
  pending <- [n \in 1 .. Len(log) |-> Shown(Replayed(n))],
  shown <- Shown(db)

\* Debts and limits in the tables are, in their order, those the contract went
\* through: also when an origin with loans is added again, disabled or rescued.
ImplementsMirror == Mirror!MirrorSpec

\* The handler's bookkeeping of fees never says more than the pool charged.
FeesAreNotOverstated == db.pool.totalBridgeFees <= feesCharged

\* An origin with a debt has something at its proxy, and the pool would take it:
\* its fee is not more than the fees that are pending. (Several loans claimed
\* together may have a larger one.)
Outstanding(o) ==
  /\ o \in DOMAIN origins
  /\ waiting[origins[o].proxyBridge] > 0
  /\ origins[o].outstandingDebt > 0
  /\ ToRelease(o) <= pendingBridgeFees

\* The owner changed the proxy and the row keeps the first one.
Stale(o) ==
  /\ o \in DOMAIN origins \cap DOMAIN db.origins
  /\ db.origins[o].proxyBridge # origins[o].proxyBridge

\* claim-withdrawals.ts:45 lists all origins and checks their balances: what
\* waits at the proxy of an origin with a debt is claimed, although requests
\* are refused and dropped, runs aborted, and the job acts on old rows, unless
\* the pool comes to reject the claim or the owner has changed the proxy.
EveryBalanceIsClaimed ==
  \A o \in Origins : Outstanding(o) ~> ~ Outstanding(o) \/ Stale(o)

\* check-outstading-debts.ts compares the debt of the pool with the sum over the
\* origins whose maxDebt is positive: whatever is not indexed yet, it reports a
\* mismatch exactly when an origin that is disabled has a debt.
DebtCheckReportsDisabled ==
  LET debts == [o \in DOMAIN db.origins |-> db.origins[o].currentOutstandingDebt]
      enabled == {o \in DOMAIN db.origins : db.origins[o].maxDebt > 0}
  IN  db.pool.outstandingDebt # SumOver(debts, enabled) <=>
        \E o \in DOMAIN db.origins \ enabled : debts[o] > 0

=============================================================================
