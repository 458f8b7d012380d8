# Relay vaults in TLA+

A verification project for `relayprotocol/relay-vaults`: TLA+ modules of the
parts of the system that keep money and state consistent, TLC runs that check
them on small instances, and proofs, checked by TLAPS, of what matters most for
every value of the constants. `PROJECT.json` lists components, runs, hazards,
theorems and the source lines each definition stands for.

## The system

A user bridges an asset from an origin chain to a pool chain. The slow native
bridge of the origin chain carries the asset and takes up to days; a fast
Hyperlane message tells the pool on the other side, which pays the user at once
from its own liquidity, minus a fee, and is repaid when the asset arrives.

| Component | State | Operations | Talks to |
|---|---|---|---|
| `RelayPool` (vault, pool chain) | shares, position in a yield pool, origins with their debt, processed messages, pending fees, the stream | ERC4626 deposit, mint, withdraw, redeem; `handle`, `claim`, `processFailedHandler`, `collectNonDepositedAssets`, `swapAndDeposit`, `updateStreamedAssets`, owner settings, `disableOrigin` | Hyperlane mailbox (calls `handle`), `BridgeProxy`, yield pool, `TokenSwap`, timelock (owner), curators |
| `BridgeProxy` (one per origin, both chains) | the funds the native bridge delivered | `claim` on the pool chain, `bridge` by delegatecall on the origin chain | `RelayPool`, native bridge |
| `RelayBridge` (origin chain) | `transferNonce` | `bridge`: takes the asset, calls the proxy, dispatches the message, refunds | native bridge, Hyperlane mailbox |
| Factories, gateway, `TokenSwap`, `OriginCurator` | registry of pools; nothing else | deploy, wrap, swap, forward | `RelayPool` |
| Backend indexer (`backend/src`) | tables of bridge transactions, pools, origins, balances | one handler per contract event; chains are indexed independently (`ordering: 'multichain'`) | RPC nodes, database |
| Claimer (`claimer/`) | none: a repeated job | prove, finalize, claim, then checks, from one GraphQL snapshot each | backend API, relayer API |

What is hard here:

* *Two channels.* Message and funds of one bridge travel separately; either may
  be late, and a message may be lost, delivered twice, or delivered after the
  owner already paid it by hand.
* *Shared accounting.* One set of counters (`outstandingDebt` and one debt per
  origin, `pendingBridgeFees`, the stream) is changed by six operations that
  anybody, the mailbox or the owner may call in any order, while settings change
  under loans that are outstanding.
* *Rounding and boundaries.* Fees per loan and per claim, four share
  conversions, a linear stream with a division, checked subtractions that revert.
* *Time.* Cool-down of messages, streaming of fees, a period that can change.
* *Independent indexing.* Events of different chains reach the database in any
  relative order, handlers may fail, and the claimer acts on what is there.

What makes each component correct: a pool never pays a message twice, its debt
counters agree, it never owes more than it holds, and no provider loses or gains
by the order of the operations; the origin side never dispatches a message
without sending the funds; a row of the indexer reflects every event of its
transaction whatever the order; and the claimer eventually collects what arrived.

## Modules

| Module | Models | Status |
|---|---|---|
| `RelayPool` | the vault with its share operations, the proxies' balances, and time | done |
| `NativeGateway`, `MCNativeGateway` | the gateway for native currency, on top of `RelayPool` | done |
| `OriginSums` | sum of a function over the set of origins, without recursion, for the properties | done |
| `MCRelayPool` | values of the constants for TLC | done |
| `OriginSumsProofs` | lemmas about that sum, about quotients, and the least number with a property | done |
| `RelayPoolProofs` | type correctness and the inductive invariant | done |
| `RelayPoolSafetyProofs` | payments, coverage of fees, neutrality, share value; the stream's end, the rounding of fees, the debt limits, what stays in the gateway | done |
| `RelayBridge` | an origin chain's bridge with the proxy it delegates to | done |
| `LoanLedger` | abstract: transfers, loans, repayments | done |
| `RelayVaults` | composition: origins, Hyperlane, native bridges, pool | done |
| `MCRelayVaults` | values of its constants for TLC | done |
| `RelayVaultsProofs` | the composition implements pool and ledger; loans are backed | done |
| `NativeBridges` | the life of a transfer on its chains, and the events it leaves in each chain's log | done |
| `TransferProgress` | abstract: a shown status is one that was reached, and never regresses | done |
| `BridgeIndexer` | the handlers of `bridge_transaction` on top of it | done |
| `BridgeIndexerProofs` | type, derived status, real evidence, refinement | done |
| `Claimer`, `MCClaimer` | the job that proves and finalizes, and the relayer, on top of the indexer | done |
| `ClaimerProofs` | the claimer implements the indexer; requests, rows, evidence | done |
| `TableMirror` | abstract: a table shows what a contract went through, in order, later | done |
| `OriginIndexer`, `MCOriginIndexer` | the tables of origins, debts and fees, and the job that claims | done |
| `OriginIndexerProofs` | no handler throws; types, fees, the check of debts; the tables mirror the pool | done |
| `ShareIndexer`, `MCShareIndexer` | the tables of pools, balances and actions | done |
| `ShareIndexerProofs` | types, totals, actions, rows that are there; the balances mirror the pools | done |

### RelayPool

One action is one transaction. A transaction is atomic on the pool's chain: it
happens completely, or reverts and changes nothing, so an operation that reverts
is an action that is not enabled, and a checked subtraction is a guard unless
the type invariant proves it never underflows. The interleavings are those of
transactions, in any order and by anybody.

The variables are the storage of the contract, with two changes of shape: an
origin's `outstandingDebt` field is `originDebt`, apart from its other settings,
and the mapping `messages` is the set of its keys with a stored message. Three
variables belong to other contracts: `yieldBalance` (`previewRedeem` of the
pool's shares in the yield pool), `idle` (the asset the pool itself holds) and
`proxyBalance` (what waits at each proxy). `payouts` is a history variable.

| Action | Code |
|---|---|
| `Handle(m)` | `handle`, with `increaseOutstandingDebt`, `sendFunds` |
| `Claim(o)` | `claim`, `_claim(.., true)`, `BridgeProxy.claim`, `decreaseOutstandingDebt`, `addToStreamingAssets` |
| `ProcessFailedHandler(m)` | `processFailedHandler`, `_claim(.., false)` |
| `UpdateStreamedAssets`, `UpdateStreamingPeriod` | the same functions |
| `CollectNonDepositedAssets`, `SwapAndDeposit` | the same functions; `swapAndDeposit` collects the whole balance |
| `AddOrigin`, `DisableOrigin`, `SetTokenSwap`, `UpdateYieldPool` | the same functions |
| `Deposit`, `Mint`, `Withdraw`, `Redeem` | the ERC4626 base contract (external) with `afterDeposit`, `beforeWithdraw` |
| `YieldChange`, `Donate`, `Arrive`, `Tick` | the yield pool's value, transfers to the pool, the native bridge, `block.timestamp` (environment) |

Abstracted: users and their share balances (any caller may hold the shares it
burns), the recipient of a loan (a payment always succeeds), native currency
versus ERC20 (the pool wraps what it receives), the width of integers (amounts
are naturals; no product of the code comes near 2^256), the exchange rate of the
yield pool's shares except for the slippage test of `updateYieldPool`, and
limits of a yield pool on deposits and withdrawals. A caller that re-enters from
the payment of native currency finds all the state of the loan written, so what
it does is the next action.

`MAX_TIME`, `MAX_ASSETS` and `MAX_ARRIVED` bound only time, what comes in from
outside and what waits at a proxy; no operation of the pool is bounded by them.

### NativeGateway

The gateway extends `RelayPool`: its calls are pool transactions in which the
gateway is the provider, next to those of everybody else, so the properties of the
pool are checked with it. It has no fields; `weth`, its balance, is what outlives a
call. Only `GatewayMint` leaves something: `convertToShares` rounds the shares down,
the pool rounds their cost up, and the caller sent the whole value. The slippage bound
is part of each action's guard. That the native currency reaches the caller is
external; a call that fails to send it reverts. `MAX_WETH` bounds what remains.

### RelayBridge

`Bridge(m)` is one call of `bridge`, with the delegatecall to the proxy, the
dispatch and the refund; `m` is the message it encodes (`nonce`, `amount` and the
origin's clock). A revert at any point undoes the call, so what must hold for
it to succeed is the guard: the value suffices for the fee, a native amount, what
the proxy pays next to a token, and the refund computed at the end
(`ValueSuffices`); and a native deposit is not smaller than its ticket's cost.
`dispatched` is what the mailbox of the origin accepted and never shrinks;
`inTransit` are the messages whose asset the native bridge still holds. The four
proxies that withdraw deliver the whole amount (`DepositFee` 0), the Arbitrum
deposit proxy what `Receivable` says. The steps of a native bridge (proving,
finalising) are one step, `Deliver`: nothing of the contracts depends on them.

### RelayVaults and LoanLedger

`RelayVaults` EXTENDS `RelayPool` and instantiates `RelayBridge` under `Origin`.

| Action | What happens |
|---|---|
| `Send(m)` | a user calls `bridge` on an origin chain |
| `Deliver(m)` | the native bridge delivers to the proxy on the pool's chain (`RelayPool!Arrive`) |
| `Process(m)` | Hyperlane calls `handle` with a dispatched message, first try, retry or repetition |
| `Rescue(m)` | the owner calls `processFailedHandler` for a dispatched message |
| `PoolStep` | any other transaction on the pool's chain, or time |

Hyperlane may reorder, repeat, delay and lose messages: a dispatched message can
be processed at any later time, in any order, any number of times, or never. It
does not invent messages. The owner rescues only what was dispatched; nobody but
the native bridges sends assets to a proxy; all chains share one clock up to
`MAX_SKEW`, by which an origin's may be ahead. `SetupAssumption` is what the
task `bridge:send` checks before a transfer (`tasks/bridge.ts:144`): an origin's
`proxyBridge` is the proxy its transfers are sent to.

`LoanLedger` is what this promises without messages, time, fees and shares. The
mapping takes `dispatched` to what was sent, the dispatched messages marked in
`messages` to what was lent, each origin's debt to what is owed, and the sum of
what is in transit to a proxy and waits there to its backing. A rescue is a loan
repaid at once in part, a claim a repayment, a delivery a stutter.

Fairness (`FairVaultsSpec`) is weak, for each actor separately: Hyperlane
processes a message that can be processed ("Hyperlane performs retries",
`smart-contracts/README.md:150`); a native bridge delivers (the claimer, a
repeated job, proves and finalises); the claimer claims from each origin with a
debt whenever it can (`claim-withdrawals.ts:61`: a balance and a debt); time
passes. Users, owner, curators and liquidity providers owe nothing.

### NativeBridges, BridgeIndexer and TransferProgress

A transfer is initiated on its origin chain, handled and, on the OP stack, proven
and after a period finalized on the pool's chain (`exit`, `handled`); each step
appends its event to the log of its chain. `Index(c)` handles the next event of
chain `c`: within a chain in order, between chains in any (`ordering:
'multichain'`, `ponder.config.ts`). A handler is one action; a handler that
returns early leaves the row alone.

| Definition | Code |
|---|---|
| `OnBridgeInitiated` | `BridgeInitiated.ts`: the logs of the receipt, the upsert (`UpsertOrigin`) |
| `OnLoanEmitted` | `LoanEmitted.ts`: the row is made if it is not there |
| `OnWithdrawalProven` | `WithdrawalProven.ts`: the row of the withdrawal hash, or nothing |
| `OnFinalized` | `WithdrawalFinalized.ts`, `OutBoxTransactionExecuted.ts`, `BridgeMint.ts` |
| `ComputeNativeBridgeStatus` | `nativeBridgeStatus.ts` |
| `Age`, `Elapse` | the times the claimer's queries compare with |

A row keeps one Boolean for each hash column and, for a timestamp, whether the
time it is compared with has passed. The keys of the three stacks (`opWithdrawalHash`,
`arbTransactionIndex`, `zksyncWithdrawalHash`) are one field `key`, since a
row's stack decides which is set. `Unfetched` are the transfers whose receipt may not
be fetched, `Indirect` the ZKsync withdrawals that may be finalized through another
contract, which `BridgeMint.ts` ignores. Transfers may share a key (outbox indices of
two chains) or a transaction (`LastOf`), of which a row keeps the last withdrawal
(`ReceiptKey`); its receipt exists once all of it was sent. So a row stands for the
withdrawals of its stack with the key it is given (`Named`), and `Evident(t)` is what
the row of `t` may show: the transfer's own initiation and loan, and the proofs and
finalizations of those. Only hashes of OP withdrawals are taken to be distinct, as they
cover a nonce and the target. Reorganizations and retries of ponder are external: a handler runs completely or
stops the indexer.

`TransferProgress` is what the tables promise: a status is shown only once it was
reached, and is not replaced by an earlier one. One step may show statuses of several
transfers, as one event does. The mapping takes `Evident` to what was reached.

### Claimer

One run of the job: `ProveTransactions` takes the result of its query, `Accepted`
or `Refused` send a request for each row, then `FinalizeWithdrawals` the same,
then `EndRun`; `AbortRun` is an exception at any point. An accepted request is
carried out at any later time (`Relay`) or never (`DropRequest`), also when it
was made meanwhile by another. A request names a transaction, so the relayer may prove or
finalize any of its withdrawals (`Together`). `OutsideExits` are the transfers that others
prove and finalize too.

Fairness (`FairClaimerSpec`): the indexer goes on, time passes and the job is run
again and again (weak); a transfer's request is not refused, dropped or lost to an
abort each time (strong, since each run asks again: `main.ts` is one run of a job
that is repeated, and `relay.ts:28` logs and goes on). Users and pool owe nothing.

### OriginIndexer and TableMirror

The pool is reduced to origins, debts, messages and fees, with the events each
transaction emits in their order (`handle`, `claim`, `processFailedHandler`,
`addOrigin`, `disableOrigin`), and to `pendingBridgeFees`, for which a claim may revert
(`ToRelease`, finding 2); `RelayPool` is where their accounting is checked. The owner may
name other proxies for an origin (`Configured`), while its transfers go on arriving where
its bridge sends them (`Destination`). The handlers `OnOriginAdded`, `OnOriginDisabled`, `OnOutstandingDebtChanged` and
`OnLoanEmitted` take the tables to the tables; `Throws` is an update of a row that is
not there, which ponder does not survive. `ReadOrigins`, `CheckOrigin`, `AbortRun`
are `claim-withdrawals.ts`: the debts are those of the query, the balance is read
when an origin's turn comes. `FairSpec` is the fairness of `Claimer` for this job.

`TableMirror` is what a table promises when one chain is indexed in order:
it shows a state the contract was in, and goes through all of them in order. Its
`pending` are the states the events that are not indexed yet stand for.
`OriginIndexer` maps debts and limits to it, `ShareIndexer` balances.

### ShareIndexer

Transactions consist of operations, blocks of transactions: `Execute(t, ..)` is one
operation of transaction `t`, a new one or, with `Batching`, the last of the block.
Handlers run per event, but
`totalSupply` is read at the end of the event's block: `EndBlock` seals each event
of the block with the supplies at its end. The token of a pool is solmate's: anybody may
withdraw or transfer no shares in the name of anybody, and shares may be sent to
`ZeroAddress`, which keeps them and never gives any; `totalSupply` is a variable, as it
does not notice. `burnt` is what such transfers moved, and `Kept` the balances without
them, which is what the tables can follow. `DeployPool` includes the factory's
initial deposit. Prices are left out: the columns in assets are not modelled.
`operations`, `burnt` and `holdings` are history variables; `holdings` keeps, for each event
that is not indexed yet, snapshots included, who held what after it. `OnPoolSnapshot`
is the total a snapshot writes. `Put` is the operator `@@` of TLC, which TLAPS does
not know.

## Runs

| Run | Instance | Shows |
|---|---|---|
| `debt` | two origins with a proxy each, three messages, fees of a half, an origin that can change fee, limit and cool-down, two yield pools, a swap, a donation | debt counters agree; one payment per message; limits hold; the fees set aside are short only by roundings |
| `assets` | one origin, two loans, providers with amounts of 1, callers of the gateway with 3, with and without a slippage bound, a donation, interest, periods 1 and 2, time 1 to 4 | `totalAssets` never underflows; no step makes a share worth less; nothing is credited at once; the stream ends within a period of now; a mint leaves less than a share in the gateway |
| `rescue_fees` | one origin, two loans | finding: a rescue strands the fee of an earlier loan |
| `rounding` | one origin, two loans of odd amounts | finding: a claim of funds that arrived reverts |
| `stream_end` | a donation, time | finding: division by zero at the end of the stream |
| `vaults` | two origins (native and token) sharing a proxy, transfers of 2, 4 and 3, limits 4 and 3, liquidity 4, skewed clocks, a limit that changes | loans are backed by what is coming or waiting; the ledger is implemented; every transfer within its limit is paid and every loan repaid |
| `deposit_fee` | an origin of Arbitrum deposits, one transfer | finding: the loan is not replenished in full |
| `transfers` | three pairs of transfers, one pair used in each behaviour (`OnePair`): two OP withdrawals of one transaction, two Orbit withdrawals of different chains with one index, an OP and a ZKsync one with equal keys; two receipts that may be lost, an indirect finalization, the claimer (idle for the first pair) and, for four of the six, others exiting | status, evidence and progress of the rows; evidence of what only the claimer exits reaches its row; rows with a receipt become complete; requests name complete rows |
| `claimer_live` | an OP and an Orbit transfer with equal keys, each alone in its stack and transaction, the claimer alone | every loan is finalized and its row says so |
| `origins` | two origins and one loan each, three pending events, fees that are no whole basis point | the tables mirror the pool; the claimer's check of debts reports a disabled origin with debt and nothing else; no handler misses its row; fees are not overstated |
| `claims_live` | one origin with a fee of 3/4, loans of 1 and 2, two proxies the owner may name, the claim job | what waits for an origin with a debt is claimed, unless the pool rejects the claim for its fee or the row has another proxy |
| `shares` | two pools, one of them curated, two accounts and the zero address, two transactions of any number of operations of 0 or 1 shares, four pending events | balances mirror the pools but for transfers to the zero address, and add up to the totals; each transaction has its action; whoever gives shares has a row |

The bounds are chosen so that each interesting case happens: two loans of one
origin with one claim for both, a claim of part of the debt, funds of one loan
taken by the rescue of another, a limit lowered below the debt, a fee change
tried under debt, a stream that ends, is renewed before and after its end, and
providers who leave while something streams. Fees of one half make every odd
amount round; `FRACTIONAL_BPS_DENOMINATOR` is 2 in the runs and any positive
number in the proofs. Deadlock is checked in the runs of the contracts; the indexers
and the claimer may really come to rest, with every transfer made and every event
indexed, and `MAX_TX` ends what users do.

Every property of a passing run has a mutant, a plausible mistake in one
definition, that TLC must notice. The mistakes stand just before the definitions
they replace and are named in `PROJECT.json`.

The runs of the pool alone are safety: it promises nothing on its own, every
operation waits for somebody to call it. Liveness is a question to the
composition. In `vaults` the amounts keep clear of finding 2 (fees that are
not rounded) and the liquidity is less than the limits together, so that
messages wait for cool-down, for a skewed clock, for the limit of their origin
and for liquidity that the other origin holds; the owner may rescue and re-add
origins and a curator may disable them at any moment. There a transfer may stay
unpaid only if it exceeds its origin's limit on its own. Time stops at `MAX_TIME`,
after every cool-down has passed.

### Findings

1. `rescue_fees`: `processFailedHandler` claims up to the whole debt of the
   origin without charging fees. If the funds of an earlier loan have arrived,
   they are claimed too, and that loan's fee stays in `pendingBridgeFees` for good,
   which lowers `totalAssets` by it.
2. `rounding`: fees are rounded down per loan and per claim. A claim for two
   loans can need one unit more than is pending, and reverts. `FeeShortfallBounded` proves
   that nothing else makes it short by more than one unit per message: a change of
   fee under debt or a rescue does not.
3. `stream_end`: in the block at `endOfStream`, once the stream was settled in
   it, `remainsToStream` divides by zero; deposits and withdrawals revert until
   the next block. A claim with a fee reverts in that block in any case.
4. `deposit_fee`: the proxy for native Arbitrum deposits takes the cost of its
   retryable ticket out of the amount; the message, and so the debt, is for all
   of it. The rest of the debt is never repaid, where the white paper says that
   100% of the volume is replenished.

### Assumptions that the code does not ensure

What the code does not do in these cases is in the models and in the runs; each property
says what is left out, and nothing else goes wrong.

* A pool rejects a claim whose fee is more than what is pending (finding 2).
  `EveryBalanceIsClaimed` asks for a claim only as long as the pool would take it: with
  the constants of `claims_live`, two loans that are claimed together may have to wait
  for another loan.
* `OriginAdded.ts:56` does not update `proxyBridge`, so after a change of proxy the job
  polls the old one. `EveryBalanceIsClaimed` excepts an origin whose row is `Stale`.
* `OutBoxTransactionExecuted.ts:32` matches the outbox index without the chain, so two
  Orbit chains may share it; and `BridgeInitiated.ts:64` keeps the last withdrawal in a
  receipt, so two `bridge` calls of one transaction share that. The finalization of one
  transfer then marks the row of another, which the claimer forgets. `EvidenceIsReal` says
  that a row only has evidence of its own transfer and of withdrawals it stands for.
* A proof or finalization by somebody else may be indexed before `BridgeInitiated`, and
  is dropped (`WithdrawalProven.ts:28`). The claimer itself acts only on rows that have
  their key, which is why `EvidenceReachesTheRow` holds for what is not in `OutsideExits`,
  whatever happens to the others. A request names a transaction, so it speaks of transfers
  alone in theirs. A ZKsync message in `Indirect` has no event the indexer reads.
* `BridgeInitiated.ts:34` returns without a row when the receipt cannot be fetched; the
  row `LoanEmitted` makes has no origin, and no query ever returns it.
  `HandledRowsAreComplete` speaks of all other rows.
* `claimer_live` takes the good case: no key shared in a stack, transactions of their own,
  every receipt fetched, nobody else exiting. In the cases above `EveryLoanIsFinalized` fails: the
  claimer never returns to a row that is not complete or is marked already.
* Two OP withdrawals have different hashes (`ChainsAssumption`): the hash covers the nonce
  of the L2 contract and the target, which is the proxy of one chain.
* Somebody without a row can stop the indexer: solmate's token accepts a transfer of no
  shares from any account, and a withdrawal of none, and `Transfer.ts:41` and
  `Withdraw.ts` then read a row that is not there. So does a transfer of a pool that
  `PoolDeployed.ts:86` skipped, because `Transfer.ts` does not ask whether the pool is
  curated; that is read at the head of the chain, so the tables also depend on when they
  are built. `HoldersHaveRows` says that with positive amounts, in a curated pool, no
  handler misses its row. Once stopped, the tables stay as they are: the other
  properties of `shares` are of safety.
* `Transfer.ts:14` takes a transfer to `address(0)` for a burn, although no withdrawal
  follows and the supply stays: the shares remain in the row of the sender.
  `SharesImplementMirror` is about the balances without such transfers (`Kept`).
* The gateway keeps what its `mint` does not spend. `native-gateway.hardhat.ts:495-517`
  expects that nothing gets locked there, which is so at the share price of that test,
  1; otherwise `mint` may leave a remainder, and nothing ever returns it.
  `RemaindersAreLessThanAShare` is what holds at every price: each remainder is below
  the value of a share, and no later call spends it.
* The query of `check-outstading-debts.ts:11` leaves origins with `maxDebt` 0 out, so a
  disabled origin with a loan is reported as a mismatch. `DebtCheckReportsDisabled` says
  that this is reported, always, and nothing else ever is.
* `FeesAreNotOverstated` is one-sided: `OriginAdded.ts:35-37` rounds the fee down to whole
  basis points, so the total may be too low.
* `TransactionsAreRecorded` speaks of transactions: the key of `pool_action` is the
  transaction, so of two operations in one only the first has a row.

## Proofs

Assumptions: the named `ASSUME`s of `RelayPool` (finitely many origins; amounts,
times and parameters are naturals; a positive denominator and deployment time;
no address equals `address(0)`), and those of the other modules: for the indexers,
that origins (`OriginIndexer`) and accounts (`ShareIndexer`) are finitely many,
that OP withdrawals have different hashes (`NativeBridges`), that the last transfer of a
transaction is of its chain (`BridgeIndexer`), and that the constants have their types. TLC evaluates them in every run. Nothing else is
assumed of the sizes of the sets; what one theorem assumes on top stands in its `ASSUME`.
Every invariant and action property of a passing run, and every refinement, is stated
by a theorem.

* `TypeInv` is `TypeOK`, `StreamClock` (the stream was last settled in the past)
  and `DebtIsSumOfOrigins`. Type correctness alone is not inductive: that `claim`
  does not take `outstandingDebt` below zero needs the sum, since an origin's
  debt is at most the sum (`DebtAtLeastEachOrigin`), and that the stream stays
  within its amount needs the clock. Each action has a lemma; `NextTypeInv`
  joins them. `TypeCorrect`, `DebtsAddUp` and `StreamIsBounded` follow.
* `OriginSumsProofs` proves what is needed of sums over a finite set from
  cardinality of a disjoint union, because recursive operators and the library's
  induction theorems are out of the provers' reach. Where a proof has to go through a
  log event by event it argues by the first event that fails (`Least`, from the
  well-foundedness of the naturals).
* `NoMessagePaidTwice`: inductive with "paid exactly when marked".
* The other theorems split `TotalAssets` into `Slack` (position plus debt minus
  fees) and `RemainsToStream`, with one lemma per kind of step: loans keep both
  (`LoanEffect`), claims and collections add the same amount to both
  (`CollectEffect`, `AddToStreamEffect`), settling and settings keep both
  (`QuietEffect`), time only shrinks the second (`TickEffect`), and providers
  exchange shares at a rounding against them (`LPSteps`, `LPEffect`).
  `AssetsCoverFees` needs the strengthening `Covered`, which also covers the
  instants at which `remainsToStream` divides by zero.
  `AssetsCoverFees` and `ShareValueKept` assume that the yield pool loses no
  value (`YieldChanges \subseteq Nat`); with losses both are false.

* `RelayVaultsProofs`: `VaultsImplementPool` is a step simulation (every step
  of the composition is a step of `RelayPool` or a stutter), which carries the
  theorems above over. `VaultInv` adds the channels (`ChannelInv`: nonces of
  dispatched messages are below the counter and identify a message, and only
  dispatched messages are marked) and that an origin's proxy never changes
  (`SetupInv`). Uniqueness of nonces is what makes a mark in `messages` the mark
  of one transfer; without it a payment could take two out of the unpaid ones.
  One lemma per kind of step (`SendEffect`, `DeliverEffect`, `PayEffect`,
  `ClaimEffect`, `QuietVaultEffect`) says what it does to the ledger's variables;
  `VaultsImplementLedger` and `LoansBacked` both follow from them. Both assume
  `FullDelivery` (no deposit has a cost): with one, `deposit_fee` refutes the
  second, and the first because a delivery would lower a backing.

* `BridgeIndexerProofs`: the inductive invariant relates rows, logs and chains: an event
  in a log is of a step that was made, a key in a row is the one of its receipt, and a
  status is the one its row's hashes give. `StatusIsDerived` is not inductive alone:
  `OnWithdrawalProven` derives one status for all matching rows from one of them, and
  `OnFinalized` from none. That this one status fits all of them needs `PortalOrder`: a
  proof never stands in the log behind the finalization of its withdrawal, so none of the
  rows a proof finds is finalized, and here the distinct hashes of OP withdrawals are
  used. No theorem assumes anything else of keys, transactions or lost events; one about
  several transfers with one key or one transaction is about the rows they share.

* `RelayPoolSafetyProofs` also: `StreamEnds` adds to `TypeInv` that `streamingPeriod` is
  one the owner may choose or the initial one; the time left after an addition is a
  weighted average of two times, which is at most what both are at most. `FeeShortfallBounded`
  adds that only finitely many messages were paid: a loan
  rounds once and adds one to their number, and `FeesDueChange` says what a change of
  one origin's debt and fee does to the sum of the fees due. `DebtsRiseWithinLimits` needs
  only the type invariant. `RemaindersBounded` is about `GatewaySpec`: `TypeInv` also
  holds when amounts come through the gateway (`SharesTypeInv`, for any amount), and
  `MintRemainder` is the arithmetic of `convertToShares` followed by `previewMint`.
* `ClaimerProofs`: `ClaimerImplementsIndexer` is a step simulation, so what is proved of the
  indexer holds beside the claimer. `ClaimerInv` adds that the rows the
  job holds and the requests it made are of complete rows (`JobInv`); it is inductive
  because no handler takes away what makes a row complete (`RowsKept`). `HandledRowsComplete` adds that `BridgeInitiated` of a
  transfer is indexed or still in its log (`OriginKnown`), if its receipt can be fetched.
  `EvidenceNotLost` adds that a transfer proved or finalized has its origin in its row,
  and its evidence there or in a log (`EvidenceInv`), for the transfers that only the
  claimer exits and that are alone in their transaction (`Alone`): the request that
  proves such a transfer is its own (`AloneFacts`), and the key its row has is its own.
  None of these theorems has an assumption of its own.
* `OriginIndexerProofs`: `HandlersNeverThrow`, with no assumption. The invariant `KnownInv`
  says of each pending event that its origin has a row or that its `OriginAdded` is
  earlier in the log. The other theorems need what the pending events will make of the
  tables. `TablesInv` says that after any number of them (`Replayed`) the tables are
  typed, the debt of the pool is the sum of its origins' and the fees are at most those
  charged, and that after all of them the tables say what the contract says. The
  properties alone are not inductive: about a table that lags, a handler's input says
  nothing. With it a transaction is judged by what its own events do to tables that
  agree with the contract (`EmitKeepsTables`), and indexing only moves the first
  replayed table into the database. `OriginIndexerTypes`, `FeesNotOverstated` and
  `DebtCheckExact` are about the first replayed table, `TablesImplementMirror` about
  all of them: a transaction extends `pending`, a handler takes its head. The runs use
  `IndexSpec` and `FairSpec`; both imply `Spec` (`RunsAreOfSpec`).
* `ShareIndexerProofs`: a row of this table depends on all the events before it,
  so the invariant is local: each pending event leads from the holdings before it to the
  holdings recorded after it (`Follows`, `Chain`), the first from those the tables show,
  and the last holdings are the contract's. A handler does to the tables what
  its event says (`BalancesFollow`), which gives `SharesFollow` and `BalancesFound`. The
  second one needs the first: a row is missing only where the tables show 0, and nobody
  gives more than is shown: what an account has, or had before it sent shares to the zero
  address (`burnt` is negative for that address alone). `TotalsAgree` says that totals are the sums of balances
  between blocks; inside a block they are already those of its end, so the inductive
  form (`TotalsFollow`) says which of the two holds and that the events of a block
  share their supplies. `ActionsRecorded` adds that a recorded or pending action is operation of its transaction. None of them assumes anything of amounts, recipients
  or which pools are curated.

Model-checked only: the liveness properties `EveryTransferIsPaid`, `EveryLoanIsRepaid`,
`EveryBalanceIsClaimed` and `EveryLoanIsFinalized`, because liveness under fairness and
`ENABLED` are out of the provers' reach, and the findings, which are counterexamples.

## Plan

Done, in this order: `RelayPool` and its gateway with their runs and proofs; `RelayBridge`,
`LoanLedger` and their composition `RelayVaults` with its runs and proofs;
`BridgeIndexer` and `Claimer`, `OriginIndexer` and `ShareIndexer`, with their runs
and proofs. What is left:

1. Links between modules that now stand side by side: the pool that
   `OriginIndexer` indexes is a reduction of `RelayPool` (limits, debts and messages are
   the same, liquidity and the stream are left out), which a step simulation would show,
   so that the events are those of the full contract.
2. `Claimer` composed with `RelayVaults`, where it would replace the fairness of
   `Deliver` and `Claim` by that of the job.

## Not modelled

Balances of single users in `RelayPool` (they are in `ShareIndexer`), the max* views,
events and logging, the Uniswap path, the native bridges' inner protocols, the
timelock's delay, `OriginCurator`, deployment tasks, the handlers that copy one event into one row
(`YieldPoolChanged`, `OwnershipTransferred`, `BridgeDeployed`, roles of the timelock),
statistics of `PoolSnapshot`, the claimer's checks of other chains, which only log, the
API, the GraphQL client, and tables of addresses, networks and ABIs: they keep no
state the properties are about, or are external.
