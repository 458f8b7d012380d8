---------------------------- MODULE ShareIndexer ----------------------------
(***************************************************************************)
(* The tables user_balance, pool_action and the totals of relay_pool: what *)
(* the indexer makes of deployments, deposits, withdrawals and transfers   *)
(* of shares. A handler reads a contract as it is at the end of the block  *)
(* of its event, while the rows it updates are as the events before it     *)
(* left them.                                                              *)
(*                                                                         *)
(* A pool is reduced to who holds its shares; what they are worth is in    *)
(* RelayPool. Its token lets anybody withdraw or transfer no shares at all *)
(* in the name of anybody, and transfer shares to the zero address, which  *)
(* never gives any.                                                        *)
(***************************************************************************)
EXTENDS OriginSums, Sequences, SequencesExt

CONSTANTS
  Pools,
  Curated,      \* the pools whose timelock has our multisig as a proposer when
                \* their deployment is indexed
  Accounts,
  Timelock,     \* the account that holds the initial deposit of each pool
  ZeroAddress,
  Amounts,      \* shares of an operation, none too
  Batching,     \* whether a transaction may hold several operations
  MAX_TX,       \* bound: transactions
  MAX_PENDING   \* bound: events that are not indexed yet

ASSUME ShareIndexerAssumption ==
  /\ Curated \subseteq Pools
  /\ IsFiniteSet(Accounts)
  /\ Timelock \in Accounts
  /\ ZeroAddress \notin Accounts
  /\ Amounts \subseteq Nat
  /\ Batching \in BOOLEAN
  /\ MAX_TX \in Nat
  /\ MAX_PENDING \in Nat

VARIABLES
  deployed,   \* the pools that exist
  shares,     \* balanceOf of each pool
  totalSupply,
  burnt,      \* history: what transfers to the zero address took from each
              \* holder, and, negative, what they gave to it
  tx,         \* the last transaction
  operations, \* history: all deposits and withdrawals
  holdings,   \* history: who held what after each event that is not indexed yet
  block,      \* the events of the block that is being built
  log,        \* the events of finished blocks that are not indexed yet
  db          \* the tables

\* The events that are not indexed yet.
Pending == [i \in DOMAIN log |-> log[i].event] \o block

tokenVars == <<deployed, shares, totalSupply, burnt>>
chainVars == <<tokenVars, tx, operations, holdings, block, log>>
vars == <<chainVars, db>>

Holders == Accounts \cup {ZeroAddress}

\* What each would hold if no transfer had gone to the zero address.
Kept == [p \in Pools |-> [u \in Holders |-> shares[p][u] + burnt[p][u]]]

\* Who holds what of the pools we curate.
HoldingsOf(pools, balances) == [p \in pools \cap Curated |-> balances[p]]

Holdings == HoldingsOf(deployed, Kept)

-----------------------------------------------------------------------------
(* The pools *)

\* Balances b after u got, or gave, n shares.
Got(b, u, n) == [b EXCEPT ![u] = @ + n]

Gave(b, u, n) == [b EXCEPT ![u] = @ - n]

\* Transaction t is a new one or the last one of the block.
Execute(t, events, states) ==
  /\ \/ t = tx + 1 /\ tx < MAX_TX
     \/ t = tx /\ Batching /\ block # <<>>
  /\ tx' = t
  /\ Len(log) + Len(block) + Len(events) <= MAX_PENDING
  /\ block' = block \o events
  /\ holdings' = holdings \o states
  /\ UNCHANGED <<log, db>>

Moved(p, from, to, n) ==
  [kind |-> "Transfer", pool |-> p, from |-> from, to |-> to, shares |-> n]

Operation(kind, p, t, u, n) ==
  [kind |-> kind, pool |-> p, tx |-> t, user |-> u, shares |-> n]

\* The last of a transaction's events tells what it did.
Operate(op, events, states) ==
  /\ operations' = operations \cup {op}
  /\ Execute(op.tx, events \o <<op>>, states \o <<Holdings'>>)

\* Nobody acts for the zero address; but to move nothing takes no approval.
MayGive(p, u, n) ==
  /\ p \in deployed
  /\ shares[p][u] >= n
  /\ u = ZeroAddress => n = 0

\* The factory deploys the pool and deposits for its timelock.
DeployPool(p, t, n) ==
  /\ p \notin deployed
  /\ n > 0
  /\ deployed' = deployed \cup {p}
  /\ shares' = [shares EXCEPT ![p][Timelock] = n]
  /\ totalSupply' = [totalSupply EXCEPT ![p] = n]
  /\ UNCHANGED burnt
  /\ LET empty == HoldingsOf(deployed', Kept)
     IN Operate(Operation("Deposit", p, t, Timelock, n),
                <<[kind |-> "PoolDeployed", pool |-> p], Moved(p, ZeroAddress, Timelock, n)>>,
                <<empty, empty>>)

Deposit(p, t, u, n) ==
  /\ p \in deployed
  /\ UNCHANGED <<deployed, burnt>>
  /\ shares' = [shares EXCEPT ![p] = Got(shares[p], u, n)]
  /\ totalSupply' = [totalSupply EXCEPT ![p] = totalSupply[p] + n]
  /\ Operate(Operation("Deposit", p, t, u, n), <<Moved(p, ZeroAddress, u, n)>>, <<Holdings>>)

Withdraw(p, t, u, n) ==
  /\ MayGive(p, u, n)
  /\ UNCHANGED <<deployed, burnt>>
  /\ shares' = [shares EXCEPT ![p] = Gave(shares[p], u, n)]
  /\ totalSupply' = [totalSupply EXCEPT ![p] = totalSupply[p] - n]
  /\ Operate(Operation("Withdraw", p, t, u, n), <<Moved(p, u, ZeroAddress, n)>>, <<Holdings>>)

Transfer(p, t, u, v, n) ==
  /\ MayGive(p, u, n)
  /\ UNCHANGED <<deployed, totalSupply, operations>>
  /\ shares' = [shares EXCEPT ![p] = Got(Gave(shares[p], u, n), v, n)]
  /\ burnt' = IF v = ZeroAddress
              THEN [burnt EXCEPT ![p] = Gave(Got(burnt[p], u, n), v, n)]
              ELSE burnt
  /\ Execute(t, <<Moved(p, u, v, n)>>, <<Holdings'>>)

\* What the handler of each event of a block reads: the supplies at its end.
Sealed(events, supply) ==
  [i \in DOMAIN events |-> [event |-> events[i], first |-> i = 1, supply |-> supply]]

\* The block ends. A snapshot comes after its events, for the pools whose last
\* one is old enough.
EndBlock(due) ==
  /\ block # <<>>
  /\ LET snapshot == IF due = {} THEN <<>> ELSE <<[kind |-> "PoolSnapshot", due |-> due]>>
     IN  /\ log' = log \o Sealed(block \o snapshot, totalSupply)
         /\ holdings' = holdings \o [i \in DOMAIN snapshot |-> Holdings]
  /\ block' = <<>>
  /\ UNCHANGED <<tokenVars, tx, operations, db>>

-----------------------------------------------------------------------------
(* The handlers *)

BalanceOf(d, p, u) == IF <<p, u>> \in DOMAIN d.balances THEN d.balances[<<p, u>>] ELSE 0

\* f with a value for x. (The operator @@ of TLC is not known to TLAPS.)
Put(f, x, v) == [y \in DOMAIN f \cup {x} |-> IF y = x THEN v ELSE f[y]]

\* An upsert of a balance adds to the row or makes it.
Credited(d, p, u, n) ==
  [d EXCEPT !.balances = Put(@, <<p, u>>, BalanceOf(d, p, u) + n)]

Debited(d, p, u, n) == [d EXCEPT !.balances[<<p, u>>] = @ - n]

\* A bug: a user who has an action keeps only that one.
RecordedOnce(d, e) ==
  [d EXCEPT !.actions = IF \E a \in @ : a.user = e.user THEN @ ELSE @ \cup {e}]

\* The key of an action is its transaction; a conflict does nothing.
Recorded(d, e) ==
  [d EXCEPT !.actions = IF \E a \in @ : a.tx = e.tx THEN @ ELSE @ \cup {e}]

\* A pool that is there already keeps its row.
OnPoolDeployed(d, e) ==
  IF e.pool \in Curated \ DOMAIN d.pools
  THEN [d EXCEPT !.pools = Put(@, e.pool, 0)]
  ELSE d

\* A bug: the totals are written only with the first deposit of a user.
OnDepositTotalsOnce(d, e, supply) ==
  IF e.pool \notin DOMAIN d.pools THEN d
  ELSE Credited(Recorded(IF BalanceOf(d, e.pool, e.user) > 0 THEN d
                         ELSE [d EXCEPT !.pools[e.pool] = supply[e.pool]], e),
                e.pool, e.user, e.shares)

OnDeposit(d, e, supply) ==
  IF e.pool \notin DOMAIN d.pools THEN d
  ELSE Credited(Recorded([d EXCEPT !.pools[e.pool] = supply[e.pool]], e),
                e.pool, e.user, e.shares)

OnWithdraw(d, e, supply) ==
  IF e.pool \notin DOMAIN d.pools THEN d
  ELSE Debited(Recorded([d EXCEPT !.pools[e.pool] = supply[e.pool]], e),
               e.pool, e.user, e.shares)

Minted(e) == ZeroAddress \in {e.from, e.to}

\* A bug: mints are transfers too.
OnTransferOfMints(d, e) ==
  IF e.to = ZeroAddress THEN d
  ELSE IF e.from = ZeroAddress THEN Credited(d, e.pool, e.to, e.shares)
  ELSE Credited(Debited(d, e.pool, e.from, e.shares), e.pool, e.to, e.shares)

\* A bug: burns are transfers too.
OnTransferOfBurns(d, e) ==
  IF <<e.pool, e.from>> \notin DOMAIN d.balances THEN d
  ELSE IF e.to = ZeroAddress THEN Debited(d, e.pool, e.from, e.shares)
  ELSE Credited(Debited(d, e.pool, e.from, e.shares), e.pool, e.to, e.shares)

\* A bug: only a recipient that has a row is credited.
OnTransferToKnown(d, e) ==
  IF Minted(e) THEN d
  ELSE IF <<e.pool, e.to>> \notin DOMAIN d.balances
       THEN Debited(d, e.pool, e.from, e.shares)
  ELSE Credited(Debited(d, e.pool, e.from, e.shares), e.pool, e.to, e.shares)

\* Mints and burns are left to deposits and withdrawals; nothing asks whether
\* the pool is one of ours.
OnTransfer(d, e) ==
  IF Minted(e) THEN d
  ELSE Credited(Debited(d, e.pool, e.from, e.shares), e.pool, e.to, e.shares)

\* What a snapshot writes next to its statistics.
OnPoolSnapshot(d, e, supply) ==
  [d EXCEPT !.pools = [p \in DOMAIN @ |-> IF p \in e.due THEN supply[p] ELSE @[p]]]

Indexed(d, e, supply) ==
  CASE e.kind = "PoolDeployed" -> OnPoolDeployed(d, e)
    [] e.kind = "Deposit" -> OnDeposit(d, e, supply)
    [] e.kind = "Withdraw" -> OnWithdraw(d, e, supply)
    [] e.kind = "Transfer" -> OnTransfer(d, e)
    [] e.kind = "PoolSnapshot" -> OnPoolSnapshot(d, e, supply)

\* The row of the account that loses shares is read without asking whether it
\* is there.
Throws(d, e) ==
  \/ /\ e.kind = "Withdraw"
     /\ e.pool \in DOMAIN d.pools
     /\ <<e.pool, e.user>> \notin DOMAIN d.balances
  \/ /\ e.kind = "Transfer"
     /\ ~ Minted(e)
     /\ <<e.pool, e.from>> \notin DOMAIN d.balances

Index ==
  /\ log # <<>>
  /\ ~ Throws(db, Head(log).event)
  /\ db' = Indexed(db, Head(log).event, Head(log).supply)
  /\ log' = Tail(log)
  /\ holdings' = Tail(holdings)
  /\ UNCHANGED <<tokenVars, tx, operations, block>>

-----------------------------------------------------------------------------
Init ==
  /\ deployed = {}
  /\ shares = [p \in Pools |-> [u \in Holders |-> 0]]
  /\ totalSupply = [p \in Pools |-> 0]
  /\ burnt = [p \in Pools |-> [u \in Holders |-> 0]]
  /\ tx = 0
  /\ operations = {}
  /\ holdings = <<>>
  /\ block = <<>>
  /\ log = <<>>
  /\ db = [pools |-> <<>>, balances |-> <<>>, actions |-> {}]

PoolStep(p) ==
  \E t \in {tx, tx + 1}, n \in Amounts :
    \/ DeployPool(p, t, n)
    \/ \E u \in Holders : Deposit(p, t, u, n) \/ Withdraw(p, t, u, n)
    \/ \E u, v \in Holders : Transfer(p, t, u, v, n)

Next ==
  \/ \E p \in Pools : PoolStep(p)
  \/ \E due \in SUBSET Curated : EndBlock(due)
  \/ Index

Spec == Init /\ [][Next]_vars

-----------------------------------------------------------------------------
ShareIndexerTypeOK ==
  /\ deployed \subseteq Pools
  /\ shares \in [Pools -> [Holders -> Nat]]
  /\ totalSupply \in [Pools -> Nat]
  /\ tx \in 0 .. MAX_TX
  /\ DOMAIN db.pools \subseteq Curated
  /\ \A p \in DOMAIN db.pools : db.pools[p] \in Nat
  /\ DOMAIN db.balances \subseteq Pools \X Holders
  /\ \A x \in DOMAIN db.balances : db.balances[x] \in Nat
  /\ \A a \in db.actions : a.tx \in 1 .. tx

\* The balances the tables show.
Shown(d) == [p \in DOMAIN d.pools |-> [u \in Holders |-> BalanceOf(d, p, u)]]

Mirror == INSTANCE TableMirror WITH
  truth <- Holdings, pending <- holdings, shown <- Shown(db)

\* The balances in the tables are those the pools went through, in their order:
\* no mint, burn or transfer, be it to oneself, is counted twice, and none is
\* missed but a transfer to the zero address. (Transfer.ts:14 takes it for a
\* burn: its shares stay in the row of the sender, and nowhere else.)
SharesImplementMirror == Mirror!MirrorSpec

\* Once a block is indexed as a whole the balances of a pool's accounts add up
\* to its totalShares, although the handlers add to the ones event by event and
\* read the other at the end of the block.
TotalsAddUp ==
  (log = <<>> \/ Head(log).first) =>
    \A p \in DOMAIN db.pools :
      db.pools[p] = SumOver(Shown(db)[p], Holders)

\* An account that gives shares of a curated pool has its row, whichever way the
\* shares came to it: the indexer stops only at a move of no shares, which
\* anybody may make in the name of an account without a row, and at a transfer
\* of a pool that PoolDeployed.ts:86 skipped.
HoldersHaveRows ==
  log # <<>> /\ Throws(db, Head(log).event) =>
    \/ Head(log).event.shares = 0
    \/ Head(log).event.pool \notin Curated

\* pool_action has one row for each transaction that deposits to or withdraws
\* from a curated pool, once its operations are indexed, and the row is one of
\* them. (Of several in one transaction the table keeps the first.)
TransactionsAreRecorded ==
  /\ db.actions \subseteq operations
  /\ \A op \in operations : op.pool \in Curated =>
       \/ \E a \in db.actions : a.tx = op.tx
       \/ op \in Range(Pending)

=============================================================================
