------------------------- MODULE ShareIndexerProofs -------------------------
(***************************************************************************)
(* Proofs about ShareIndexer: its types, that who gives shares of a        *)
(* curated pool has a row, that every transaction has its action, that the *)
(* balances add up to the totals at each end of a block, and that the      *)
(* balances of the tables are, one after the other, those the pools went   *)
(* through, transfers to the zero address aside.                           *)
(*                                                                         *)
(* The argument is local to an event: `holdings` keeps what was held after *)
(* each event that is not indexed yet, and the event itself tells the step *)
(* from one to the next (Follows).                                         *)
(***************************************************************************)
EXTENDS ShareIndexer, OriginSumsProofs, SequenceTheorems

-----------------------------------------------------------------------------
(* The inductive invariant *)

Balances == [Holders -> Nat]

\* Who may hold what.
Holding == UNION {[D -> Balances] : D \in SUBSET Curated}

Deployment == [kind : {"PoolDeployed"}, pool : Pools]

Op == [kind : {"Deposit", "Withdraw"}, pool : Pools, tx : Nat,
       user : Holders, shares : Amounts]

Move == [kind : {"Transfer"}, pool : Pools, from : Holders,
         to : Holders, shares : Amounts]

Snapshot == [kind : {"PoolSnapshot"}, due : SUBSET Pools]

Event == Deployment \cup Op \cup Move \cup Snapshot

Entry == [event : Event, first : BOOLEAN, supply : [Pools -> Nat]]

\* The rows of tables, those of balances only for pools that have one.
Tables(d) ==
  /\ d = [pools |-> d.pools, balances |-> d.balances, actions |-> d.actions]
  /\ d.pools \in [DOMAIN d.pools -> Nat]
  /\ DOMAIN d.pools \subseteq Curated
  /\ d.balances \in [DOMAIN d.balances -> Nat]
  /\ DOMAIN d.balances \subseteq (DOMAIN d.pools) \X Holders

\* What is kept of each pool adds up to its supply: a transfer to the zero
\* address takes from no supply.
TokensOK ==
  /\ deployed \subseteq Pools
  /\ shares \in [Pools -> Balances]
  /\ totalSupply \in [Pools -> Nat]
  /\ burnt \in [Pools -> [Holders -> Int]]
  /\ \A p \in Pools \ deployed : \A u \in Holders : shares[p][u] = 0 /\ burnt[p][u] = 0
  /\ \A p \in Pools : \A u \in Accounts : burnt[p][u] >= 0
  /\ \A p \in Pools : Kept[p] \in Balances /\ totalSupply[p] = SumOver(Kept[p], Holders)

SharesTypes ==
  /\ TokensOK
  /\ tx \in 0 .. MAX_TX
  /\ block # <<>> => tx > 0
  /\ operations \subseteq Op
  /\ holdings \in Seq(Holding)
  /\ block \in Seq(Event)
  /\ log \in Seq(Entry)
  /\ Tables(db)

\* Event e takes what is held from h to k.
Follows(h, e, k) ==
  CASE e.kind = "PoolDeployed" ->
         IF e.pool \in Curated
         THEN e.pool \notin DOMAIN h /\ k = Put(h, e.pool, [u \in Holders |-> 0])
         ELSE k = h
    [] e.kind = "Deposit" ->
         IF e.pool \in Curated
         THEN e.pool \in DOMAIN h /\ k = Put(h, e.pool, Got(h[e.pool], e.user, e.shares))
         ELSE k = h
    [] e.kind = "Withdraw" ->
         IF e.pool \in Curated
         THEN /\ e.pool \in DOMAIN h
              /\ h[e.pool][e.user] >= e.shares
              /\ k = Put(h, e.pool, Gave(h[e.pool], e.user, e.shares))
         ELSE k = h
    [] e.kind = "Transfer" ->
         IF e.pool \in Curated /\ ~ Minted(e)
         THEN /\ e.pool \in DOMAIN h
              /\ h[e.pool][e.from] >= e.shares
              /\ k = Put(h, e.pool, Got(Gave(h[e.pool], e.from, e.shares), e.to, e.shares))
         ELSE k = h
    [] e.kind = "PoolSnapshot" -> k = h

\* The events take what is held from h through the states one after the other.
Chain(h, events, states) ==
  /\ Len(events) = Len(states)
  /\ \A i \in 1 .. Len(states) :
       Follows(IF i = 1 THEN h ELSE states[i - 1], events[i], states[i])

\* What is held after the states, h before them.
Now(h, states) == IF states = <<>> THEN h ELSE states[Len(states)]

BalancesFollow ==
  /\ Chain(Shown(db), Pending, holdings)
  /\ Now(Shown(db), holdings) = Holdings

\* Each action is of an operation, and each operation pending or recorded.
ActionsFollow ==
  /\ \A op \in operations : op.tx \in 1 .. tx
  /\ db.actions \subseteq operations
  /\ \A e \in Range(Pending) : e \in Op => e \in operations
  /\ \A op \in operations : op.pool \in Curated =>
       \/ \E a \in db.actions : a.tx = op.tx
       \/ op \in Range(Pending)

\* The sum of what is held of each pool.
Sums(h) == [p \in DOMAIN h |-> SumOver(h[p], Holders)]

\* The events of a block share their supplies, which are the sums after the
\* last of them. A pool's total is the sum of its balances unless an event of
\* the block wrote what it is at the end of the block.
TotalsFollow ==
  /\ \A i \in 1 .. Len(log) :
       IF i = Len(log) \/ log[i + 1].first
       THEN \A p \in DOMAIN holdings[i] : log[i].supply[p] = Sums(holdings[i])[p]
       ELSE log[i + 1].supply = log[i].supply
  /\ \A p \in DOMAIN db.pools :
       \/ db.pools[p] = Sums(Shown(db))[p]
       \/ log # <<>> /\ ~ Head(log).first /\ db.pools[p] = Head(log).supply[p]

SharesInv == SharesTypes /\ BalancesFollow /\ ActionsFollow /\ TotalsFollow

-----------------------------------------------------------------------------
(* Functions and sequences *)

LEMMA PutIs ==
  ASSUME NEW f, NEW x, NEW v
  PROVE  /\ DOMAIN Put(f, x, v) = DOMAIN f \cup {x}
         /\ Put(f, x, v)[x] = v
         /\ \A y \in DOMAIN f : y # x => Put(f, x, v)[y] = f[y]
BY DEF Put

LEMMA PutType ==
  ASSUME NEW S, NEW f, f \in [DOMAIN f -> S], NEW x, NEW v \in S
  PROVE  Put(f, x, v) \in [DOMAIN Put(f, x, v) -> S]
BY DEF Put

LEMMA HoldingIs ==
  ASSUME NEW h \in Holding
  PROVE  h \in [DOMAIN h -> Balances] /\ DOMAIN h \subseteq Curated
BY DEF Holding

LEMMA IsHolding ==
  ASSUME NEW h, h \in [DOMAIN h -> Balances], DOMAIN h \subseteq Curated
  PROVE  h \in Holding
BY DEF Holding

LEMMA PutHolding ==
  ASSUME NEW h \in Holding, NEW p \in Curated, NEW b \in Balances
  PROVE  Put(h, p, b) \in Holding
<1>1. h \in [DOMAIN h -> Balances] /\ DOMAIN h \subseteq Curated
  BY HoldingIs
<1>2. Put(h, p, b) \in [DOMAIN Put(h, p, b) -> Balances]
  BY <1>1, PutType
<1>3. DOMAIN Put(h, p, b) \subseteq Curated
  BY <1>1 DEF Put
<1>4. QED
  BY <1>2, <1>3, IsHolding

\* The events of the entries l of the log and of block b.
LEMMA PendingIs ==
  ASSUME NEW l \in Seq(Entry), NEW b \in Seq(Event)
  PROVE  LET pending == [i \in DOMAIN l |-> l[i].event] \o b
         IN  /\ pending \in Seq(Event)
             /\ Len(pending) = Len(l) + Len(b)
             /\ \A i \in 1 .. Len(l) + Len(b) :
                  pending[i] = IF i <= Len(l) THEN l[i].event ELSE b[i - Len(l)]
<1> DEFINE m == [i \in DOMAIN l |-> l[i].event]
<1>1. m \in Seq(Event) /\ Len(m) = Len(l) /\ \A i \in 1 .. Len(l) : m[i] = l[i].event
  <2>1. ASSUME NEW i \in DOMAIN l PROVE l[i].event \in Event
    <3>1. l[i] \in Entry
      OBVIOUS
    <3>2. QED
      BY <3>1 DEF Entry
  <2>2. QED
    BY <2>1
<1> HIDE DEF m
<1>2. /\ m \o b \in Seq(Event)
      /\ Len(m \o b) = Len(l) + Len(b)
      /\ \A i \in 1 .. Len(l) + Len(b) :
           (m \o b)[i] = IF i <= Len(l) THEN l[i].event ELSE b[i - Len(l)]
  BY <1>1
<1>3. QED
  BY <1>2 DEF m

LEMMA ChainJoins ==
  ASSUME NEW h, NEW events \in Seq(Event), NEW states \in Seq(Holding),
         NEW more \in Seq(Event), NEW next \in Seq(Holding),
         Chain(h, events, states), Chain(Now(h, states), more, next)
  PROVE  /\ Chain(h, events \o more, states \o next)
         /\ Now(h, states \o next) = Now(Now(h, states), next)
<1> DEFINE n == Len(states)
           m == Len(next)
           s == states \o next
<1>1. /\ n \in Nat /\ m \in Nat /\ Len(events) = n /\ Len(more) = m
      /\ Len(s) = n + m /\ Len(events \o more) = n + m
  <2>1. Len(events) = n /\ Len(more) = m
    BY DEF Chain
  <2>2. Len(s) = n + m /\ Len(events \o more) = Len(events) + Len(more)
    OBVIOUS
  <2>3. n \in Nat /\ m \in Nat
    OBVIOUS
  <2>4. QED
    BY <2>1, <2>2, <2>3
<1>2. ASSUME NEW i \in 1 .. n + m
      PROVE  Follows(IF i = 1 THEN h ELSE s[i - 1], (events \o more)[i], s[i])
  <2>1. CASE i <= n
    <3>1. Follows(IF i = 1 THEN h ELSE states[i - 1], events[i], states[i])
      BY <1>1, <2>1 DEF Chain
    <3>2. s[i] = states[i] /\ (events \o more)[i] = events[i]
      BY <1>1, <2>1
    <3>3. i # 1 => s[i - 1] = states[i - 1]
      BY <1>1, <2>1
    <3>4. QED
      BY <3>1, <3>2, <3>3
  <2>2. CASE i > n
    <3> DEFINE j == i - n
    <3>1. j \in 1 .. m
      BY <1>1, <2>2
    <3>2. Follows(IF j = 1 THEN Now(h, states) ELSE next[j - 1], more[j], next[j])
      BY <1>1, <3>1 DEF Chain
    <3>3. s[i] = next[j] /\ (events \o more)[i] = more[j]
      BY <1>1, <2>2
    <3>4. (IF i = 1 THEN h ELSE s[i - 1]) = IF j = 1 THEN Now(h, states) ELSE next[j - 1]
      BY <1>1, <2>2, <3>1 DEF Now
    <3>5. QED
      BY <3>2, <3>3, <3>4
  <2>3. QED
    BY <1>1, <2>1, <2>2
<1>3. Chain(h, events \o more, s)
  BY <1>1, <1>2 DEF Chain
<1>4. Now(h, s) = Now(Now(h, states), next)
  BY <1>1 DEF Now
<1>5. QED
  BY <1>3, <1>4

LEMMA ChainRest ==
  ASSUME NEW h, NEW events \in Seq(Event), NEW states \in Seq(Holding),
         Chain(h, events, states), states # <<>>
  PROVE  /\ Follows(h, events[1], states[1])
         /\ Chain(states[1], Tail(events), Tail(states))
         /\ Now(states[1], Tail(states)) = Now(h, states)
<1>1. PICK n \in Nat : n + 1 = Len(states)
  OBVIOUS
<1>2. Len(events) = n + 1
  BY <1>1 DEF Chain
<1>3. /\ Len(Tail(states)) = n /\ Len(Tail(events)) = n
      /\ \A i \in 1 .. n : Tail(states)[i] = states[i + 1] /\ Tail(events)[i] = events[i + 1]
  BY <1>1, <1>2
<1>4. Follows(h, events[1], states[1])
  BY <1>1 DEF Chain
<1>5. ASSUME NEW i \in 1 .. n
      PROVE  Follows(IF i = 1 THEN states[1] ELSE Tail(states)[i - 1], Tail(events)[i], Tail(states)[i])
  <2>1. i + 1 \in 1 .. n + 1 /\ i + 1 # 1 /\ (i + 1) - 1 = i
    OBVIOUS
  <2>2. Follows(states[i], events[i + 1], states[i + 1])
    BY <1>1, <2>1 DEF Chain
  <2>3. (IF i = 1 THEN states[1] ELSE Tail(states)[i - 1]) = states[i]
    BY <1>3
  <2>4. QED
    BY <1>3, <2>2, <2>3
<1>6. Now(states[1], Tail(states)) = Now(h, states)
  <2>1. Now(h, states) = states[n + 1]
    BY <1>1 DEF Now
  <2>2. CASE n = 0
    <3>1. Tail(states) = <<>>
      <4>1. Tail(states) \in Seq(Holding)
        OBVIOUS
      <4>2. Len(Tail(states)) = 0
        BY <1>3, <2>2
      <4>3. QED
        BY <4>1, <4>2, EmptySeq
    <3>2. QED
      BY <2>1, <2>2, <3>1 DEF Now
  <2>3. CASE n > 0
    <3>1. Tail(states) # <<>>
      <4>1. Len(Tail(states)) # Len(<<>>)
        BY <1>3, <2>3
      <4>2. QED
        BY <4>1
    <3>2. Tail(states)[n] = states[n + 1]
      BY <1>3, <2>3
    <3>3. QED
      BY <1>3, <2>1, <3>1, <3>2 DEF Now
  <2>4. QED
    BY <2>2, <2>3
<1>7. QED
  BY <1>3, <1>4, <1>5, <1>6 DEF Chain

LEMMA ChainOfNone ==
  ASSUME NEW h
  PROVE  Chain(h, <<>>, <<>>) /\ Now(h, <<>>) = h
BY DEF Chain, Now

LEMMA ChainOfOne ==
  ASSUME NEW h, NEW e, NEW k, Follows(h, e, k)
  PROVE  Chain(h, <<e>>, <<k>>) /\ Now(h, <<k>>) = k
BY DEF Chain, Now

LEMMA ChainOfTwo ==
  ASSUME NEW h, NEW d, NEW i, NEW e, NEW k, Follows(h, d, i), Follows(i, e, k)
  PROVE  Chain(h, <<d, e>>, <<i, k>>) /\ Now(h, <<i, k>>) = k
<1>1. Len(<<d, e>>) = 2 /\ Len(<<i, k>>) = 2
  OBVIOUS
<1>2. ASSUME NEW j \in 1 .. 2
      PROVE  Follows(IF j = 1 THEN h ELSE <<i, k>>[j - 1], <<d, e>>[j], <<i, k>>[j])
  <2>1. CASE j = 1
    BY <2>1
  <2>2. CASE j = 2
    <3>1. <<i, k>>[j - 1] = i /\ <<i, k>>[j] = k /\ <<d, e>>[j] = e
      BY <2>2
    <3>2. QED
      BY <2>2, <3>1
  <2>3. QED
    BY <2>1, <2>2
<1>3. Now(h, <<i, k>>) = k
  BY DEF Now
<1>4. QED
  BY <1>1, <1>2, <1>3 DEF Chain

LEMMA RangeJoins ==
  ASSUME NEW s \in Seq(Event), NEW r \in Seq(Event)
  PROVE  Range(s \o r) = Range(s) \cup Range(r)
<1> DEFINE n == Len(s)
           m == Len(r)
<1>1. /\ n \in Nat /\ m \in Nat /\ DOMAIN s = 1 .. n /\ DOMAIN r = 1 .. m
      /\ DOMAIN (s \o r) = 1 .. n + m
      /\ \A i \in 1 .. n + m : (s \o r)[i] = IF i <= n THEN s[i] ELSE r[i - n]
  OBVIOUS
<1>2. Range(s \o r) \subseteq Range(s) \cup Range(r)
  <2>1. ASSUME NEW i \in 1 .. n + m PROVE (s \o r)[i] \in Range(s) \cup Range(r)
    <3>1. i <= n => i \in 1 .. n
      BY <1>1
    <3>2. i > n => i - n \in 1 .. m
      BY <1>1
    <3>3. QED
      BY <1>1, <3>1, <3>2 DEF Range
  <2>2. QED
    BY <1>1, <2>1 DEF Range
<1>3. Range(s) \subseteq Range(s \o r)
  BY <1>1 DEF Range
<1>4. Range(r) \subseteq Range(s \o r)
  <2>1. ASSUME NEW i \in 1 .. m PROVE r[i] \in Range(s \o r)
    <3>1. i + n \in 1 .. n + m /\ (i + n) - n = i /\ ~ (i + n <= n)
      BY <1>1
    <3>2. (s \o r)[i + n] = r[i]
      BY <1>1, <3>1
    <3>3. QED
      BY <1>1, <3>1, <3>2 DEF Range
  <2>2. QED
    BY <1>1, <2>1 DEF Range
<1>5. QED
  BY <1>2, <1>3, <1>4

-----------------------------------------------------------------------------
(* Who holds what *)

LEMMA HoldersFinite == IsFiniteSet(Holders) /\ Accounts \subseteq Holders
BY ShareIndexerAssumption, FS_AddElement DEF Holders

LEMMA BalancesSum ==
  ASSUME NEW b \in Balances
  PROVE  SumOver(b, Holders) \in Nat /\ \A w \in Holders : b[w] \in Nat
<1>1. \A w \in Holders : b[w] \in Nat
  BY DEF Balances
<1>2. QED
  BY <1>1, HoldersFinite, SumOverType

LEMMA GotIs ==
  ASSUME NEW b \in Balances, NEW u \in Holders, NEW n \in Nat
  PROVE  /\ Got(b, u, n) \in Balances
         /\ Got(b, u, n) = [w \in Holders |-> IF w = u THEN b[w] + n ELSE b[w]]
         /\ SumOver(Got(b, u, n), Holders) = SumOver(b, Holders) + n
<1> DEFINE c == Got(b, u, n)
<1>1. c = [w \in Holders |-> IF w = u THEN b[w] + n ELSE b[w]] /\ c \in Balances
  <2>1. b \in [Holders -> Nat]
    BY DEF Balances
  <2>2. c = [w \in Holders |-> IF w = u THEN b[w] + n ELSE b[w]]
    BY <2>1 DEF Got
  <2>3. \A w \in Holders : (IF w = u THEN b[w] + n ELSE b[w]) \in Nat
    BY <2>1
  <2> HIDE DEF c
  <2>4. QED
    BY <2>2, <2>3 DEF Balances
<1>2. /\ \A w \in Holders : b[w] \in Nat /\ c[w] \in Nat
      /\ \A w \in Holders \ {u} : c[w] = b[w]
      /\ c[u] = b[u] + n
  BY <1>1 DEF Balances
<1> HIDE DEF c
<1>3. SumOver(c, Holders) = SumOver(b, Holders) - b[u] + c[u]
  BY <1>2, HoldersFinite, SumOverChange
<1>4. QED
  BY <1>1, <1>2, <1>3, BalancesSum DEF c

LEMMA GaveIs ==
  ASSUME NEW b \in Balances, NEW u \in Holders, NEW n \in Nat, b[u] >= n
  PROVE  /\ Gave(b, u, n) \in Balances
         /\ Gave(b, u, n) = [w \in Holders |-> IF w = u THEN b[w] - n ELSE b[w]]
         /\ SumOver(Gave(b, u, n), Holders) = SumOver(b, Holders) - n
<1> DEFINE c == Gave(b, u, n)
<1>1. c = [w \in Holders |-> IF w = u THEN b[w] - n ELSE b[w]] /\ c \in Balances
  <2>1. b \in [Holders -> Nat]
    BY DEF Balances
  <2>2. c = [w \in Holders |-> IF w = u THEN b[w] - n ELSE b[w]]
    BY <2>1 DEF Gave
  <2>3. \A w \in Holders : (IF w = u THEN b[w] - n ELSE b[w]) \in Nat
    BY <2>1
  <2> HIDE DEF c
  <2>4. QED
    BY <2>2, <2>3 DEF Balances
<1>2. /\ \A w \in Holders : b[w] \in Nat /\ c[w] \in Nat
      /\ \A w \in Holders \ {u} : c[w] = b[w]
      /\ c[u] = b[u] - n
  BY <1>1 DEF Balances
<1> HIDE DEF c
<1>3. SumOver(c, Holders) = SumOver(b, Holders) - b[u] + c[u]
  BY <1>2, HoldersFinite, SumOverChange
<1>4. QED
  BY <1>1, <1>2, <1>3, BalancesSum DEF c

\* Shares that move leave the sum as it is.
LEMMA SumKept ==
  ASSUME NEW b \in Balances, NEW u \in Holders, NEW v \in Holders, NEW n \in Nat, b[u] >= n
  PROVE  /\ Got(Gave(b, u, n), v, n) \in Balances
         /\ SumOver(Got(Gave(b, u, n), v, n), Holders) = SumOver(b, Holders)
<1> DEFINE c == Gave(b, u, n)
<1>1. c \in Balances /\ SumOver(c, Holders) = SumOver(b, Holders) - n
  BY GaveIs
<1> HIDE DEF c
<1>2. Got(c, v, n) \in Balances /\ SumOver(Got(c, v, n), Holders) = SumOver(c, Holders) + n
  BY <1>1, GotIs
<1>3. SumOver(b, Holders) \in Nat
  BY BalancesSum
<1>4. QED
  BY <1>1, <1>2, <1>3 DEF c

LEMMA KeptType == TokensOK => Kept \in [Pools -> Balances]
BY DEF TokensOK, Kept

\* Nobody gives more than is kept of it.
LEMMA GiverKeeps ==
  ASSUME TokensOK, NEW p \in Pools, NEW u \in Holders, NEW n \in Nat, MayGive(p, u, n)
  PROVE  /\ p \in deployed /\ shares[p] \in Balances /\ shares[p][u] >= n
         /\ Kept[p] \in Balances /\ Kept[p][u] >= n
         /\ u = ZeroAddress => n = 0
<1>1. /\ p \in deployed /\ shares[p] \in Balances /\ shares[p][u] >= n
      /\ Kept[p] \in Balances /\ (u = ZeroAddress => n = 0)
  BY DEF TokensOK, MayGive
<1>2. CASE u = ZeroAddress
  BY <1>1, <1>2 DEF Balances
<1>3. CASE u # ZeroAddress
  <2>1. u \in Accounts
    BY <1>3 DEF Holders
  <2>2. Kept[p][u] = shares[p][u] + burnt[p][u] /\ burnt[p][u] >= 0 /\ burnt[p][u] \in Int
    BY <2>1 DEF TokensOK, Kept
  <2>3. shares[p][u] \in Nat
    BY <1>1 DEF Balances
  <2>4. QED
    BY <1>1, <2>2, <2>3
<1>4. QED
  BY <1>1, <1>2, <1>3

\* The token of one pool changes: s is held of it, b burnt and k kept.
TokenBecomes(p, s, b, k) ==
  /\ s \in Balances /\ b \in [Holders -> Int] /\ k \in Balances
  /\ \A w \in Holders : k[w] = s[w] + b[w]
  /\ \A w \in Accounts : b[w] >= 0
  /\ shares' = [shares EXCEPT ![p] = s]
  /\ burnt' = [burnt EXCEPT ![p] = b]
  /\ totalSupply' = [totalSupply EXCEPT ![p] = SumOver(k, Holders)]
  /\ deployed' = deployed \cup {p}

LEMMA TokenChanges ==
  ASSUME TokensOK, NEW p \in Pools, NEW s, NEW b, NEW k, TokenBecomes(p, s, b, k)
  PROVE  TokensOK' /\ Kept' = [Kept EXCEPT ![p] = k]
<1> USE DEF TokenBecomes
<1>1. /\ deployed \subseteq Pools /\ shares \in [Pools -> Balances]
      /\ totalSupply \in [Pools -> Nat] /\ burnt \in [Pools -> [Holders -> Int]]
      /\ Kept \in [Pools -> Balances]
  BY KeptType DEF TokensOK
<1>2. \A q \in Pools : Kept'[q] = IF q = p THEN k ELSE Kept[q]
  <2>1. k = [w \in Holders |-> s[w] + b[w]]
    BY DEF Balances
  <2>2. Kept'[p] = [w \in Holders |-> s[w] + b[w]]
    BY <1>1 DEF Kept
  <2>3. \A q \in Pools : q # p => Kept'[q] = Kept[q]
    BY <1>1 DEF Kept
  <2>4. QED
    BY <2>1, <2>2, <2>3
<1>3. Kept' = [Kept EXCEPT ![p] = k]
  <2>1. Kept' = [q \in Pools |-> Kept'[q]]
    BY DEF Kept
  <2>2. QED
    BY <1>1, <1>2, <2>1
<1>4. deployed' \subseteq Pools /\ shares' \in [Pools -> Balances] /\ burnt' \in [Pools -> [Holders -> Int]]
  BY <1>1
<1>5. totalSupply' \in [Pools -> Nat]
  <2>1. SumOver(k, Holders) \in Nat
    BY BalancesSum
  <2>2. QED
    BY <1>1, <2>1
<1>6. \A q \in Pools \ deployed' : \A u \in Holders : shares'[q][u] = 0 /\ burnt'[q][u] = 0
  BY <1>1 DEF TokensOK
<1>7. \A q \in Pools : \A u \in Accounts : burnt'[q][u] >= 0
  BY <1>1 DEF TokensOK
<1>8. \A q \in Pools : Kept'[q] \in Balances /\ totalSupply'[q] = SumOver(Kept'[q], Holders)
  BY <1>1, <1>2 DEF TokensOK
<1>9. QED
  BY <1>3, <1>4, <1>5, <1>6, <1>7, <1>8 DEF TokensOK

LEMMA TokensSame ==
  ASSUME TokensOK, UNCHANGED tokenVars
  PROVE  TokensOK' /\ Kept' = Kept
<1>1. deployed' = deployed /\ shares' = shares /\ totalSupply' = totalSupply /\ burnt' = burnt
  BY DEF tokenVars
<1>2. Kept' = Kept
  BY <1>1 DEF Kept
<1>3. QED
  BY <1>1, <1>2 DEF TokensOK

-----------------------------------------------------------------------------
(* A transaction *)

LEMMA HoldingsType ==
  ASSUME NEW D, D \subseteq Pools, NEW b \in [Pools -> Balances]
  PROVE  HoldingsOf(D, b) \in Holding
<1>1. HoldingsOf(D, b) \in [D \cap Curated -> Balances]
  BY DEF HoldingsOf
<1>2. QED
  BY <1>1, IsHolding

\* The balances of one pool change.
LEMMA HoldingsPut ==
  ASSUME NEW D, D \subseteq Pools, NEW b \in [Pools -> Balances], NEW p \in D, NEW c
  PROVE  HoldingsOf(D, [b EXCEPT ![p] = c]) =
           IF p \in Curated THEN Put(HoldingsOf(D, b), p, c) ELSE HoldingsOf(D, b)
<1> DEFINE h == HoldingsOf(D, b)
           k == HoldingsOf(D, [b EXCEPT ![p] = c])
<1>1. k = [q \in D \cap Curated |-> IF q = p THEN c ELSE b[q]]
  BY DEF HoldingsOf
<1>2. CASE p \in Curated
  <2>1. Put(h, p, c) = [q \in (D \cap Curated) \cup {p} |-> IF q = p THEN c ELSE h[q]]
    BY DEF Put, HoldingsOf
  <2>2. (D \cap Curated) \cup {p} = D \cap Curated
    BY <1>2
  <2>3. \A q \in D \cap Curated : h[q] = b[q]
    BY DEF HoldingsOf
  <2>4. QED
    BY <1>1, <1>2, <2>1, <2>2, <2>3
<1>3. CASE p \notin Curated
  BY <1>1, <1>3 DEF HoldingsOf
<1>4. QED
  BY <1>2, <1>3

LEMMA OpIs ==
  ASSUME NEW p \in Pools, NEW t \in Nat, NEW u \in Holders, NEW n \in Amounts,
         NEW kind \in {"Deposit", "Withdraw"}
  PROVE  /\ Operation(kind, p, t, u, n) \in Op
         /\ Operation(kind, p, t, u, n).kind = kind
         /\ Operation(kind, p, t, u, n).pool = p
         /\ Operation(kind, p, t, u, n).tx = t
         /\ Operation(kind, p, t, u, n).user = u
         /\ Operation(kind, p, t, u, n).shares = n
BY DEF Operation, Op

LEMMA MoveIs ==
  ASSUME NEW p \in Pools, NEW u \in Holders,
         NEW v \in Holders, NEW n \in Amounts
  PROVE  /\ Moved(p, u, v, n) \in Move
         /\ Moved(p, u, v, n).kind = "Transfer"
         /\ Moved(p, u, v, n).pool = p
         /\ Moved(p, u, v, n).from = u
         /\ Moved(p, u, v, n).to = v
         /\ Moved(p, u, v, n).shares = n
BY DEF Moved, Move

\* An operation is no other event.
LEMMA OpsApart ==
  ASSUME NEW e \in Op
  PROVE  e \notin Deployment /\ e \notin Move /\ e \notin Snapshot
<1>1. e.kind \in {"Deposit", "Withdraw"}
  BY DEF Op
<1>2. QED
  BY <1>1 DEF Deployment, Move, Snapshot

\* What an action has to show of its events for all the rest to be kept.
TransactionOK(events, states) ==
  /\ events \in Seq(Event) /\ states \in Seq(Holding)
  /\ Chain(Holdings, events, states) /\ Now(Holdings, states) = Holdings'
  /\ operations' \subseteq Op /\ operations \subseteq operations'
  /\ \A op \in operations' \ operations : op.tx = tx' /\ op \in Range(events)
  /\ \A e \in Range(events) : e \in Op => e \in operations'

LEMMA TransactionKeeps ==
  ASSUME SharesInv, NEW t \in {tx, tx + 1}, NEW events, NEW states,
         Execute(t, events, states), TransactionOK(events, states),
         TokensOK'
  PROVE  SharesInv'
<1>1. /\ log' = log /\ db' = db /\ block' = block \o events
      /\ holdings' = holdings \o states /\ tx' = t
  BY DEF Execute
<1>2. /\ log \in Seq(Entry) /\ block \in Seq(Event) /\ holdings \in Seq(Holding)
      /\ events \in Seq(Event) /\ states \in Seq(Holding)
  BY DEF SharesInv, SharesTypes, TransactionOK
<1>3. tx' \in 1 .. MAX_TX /\ tx <= tx' /\ tx \in 0 .. MAX_TX
  <2>1. tx \in 0 .. MAX_TX /\ (block # <<>> => tx > 0) /\ MAX_TX \in Nat
    BY ShareIndexerAssumption DEF SharesInv, SharesTypes
  <2>2. QED
    BY <1>1, <2>1 DEF Execute
<1>4. Pending \in Seq(Event) /\ Pending' = Pending \o events
  <2> DEFINE m == [i \in DOMAIN log |-> log[i].event]
  <2>1. Pending \in Seq(Event)
    BY <1>2, PendingIs DEF Pending
  <2>2. m \in Seq(Event)
    <3>1. m \o <<>> \in Seq(Event) /\ Len(m \o <<>>) = Len(log)
      BY <1>2, PendingIs
    <3>2. QED
      BY <1>2, PendingIs
  <2>3. m \o (block \o events) = (m \o block) \o events
    <3> HIDE DEF m
    <3>1. QED
      BY <1>2, <2>2
  <2>4. QED
    BY <1>1, <2>1, <2>3 DEF Pending
<1>5. SharesTypes'
  <2>1. block' \in Seq(Event) /\ holdings' \in Seq(Holding)
    BY <1>1, <1>2
  <2>2. operations' \subseteq Op
    BY DEF TransactionOK
  <2>3. QED
    BY <1>1, <1>2, <1>3, <2>1, <2>2 DEF SharesInv, SharesTypes
<1>6. BalancesFollow'
  <2>1. Chain(Shown(db), Pending, holdings) /\ Now(Shown(db), holdings) = Holdings
    BY DEF SharesInv, BalancesFollow
  <2>2. Chain(Now(Shown(db), holdings), events, states)
    BY <2>1 DEF TransactionOK
  <2>3. /\ Chain(Shown(db), Pending \o events, holdings \o states)
        /\ Now(Shown(db), holdings \o states) = Now(Holdings, states)
    BY <1>2, <1>4, <2>1, <2>2, ChainJoins
  <2>4. QED
    BY <1>1, <1>4, <2>3 DEF BalancesFollow, TransactionOK
<1>7. ActionsFollow'
  <2>1. Range(Pending') = Range(Pending) \cup Range(events)
    BY <1>2, <1>4, RangeJoins
  <2>2. ASSUME NEW op \in operations' PROVE op.tx \in 1 .. tx'
    <3>1. CASE op \in operations
      <4>1. op.tx \in 1 .. tx
        BY <3>1 DEF SharesInv, ActionsFollow
      <4>2. QED
        BY <1>3, <4>1
    <3>2. CASE op \notin operations
      BY <1>3, <3>2 DEF TransactionOK
    <3>3. QED
      BY <3>1, <3>2
  <2>3. db'.actions \subseteq operations'
    BY <1>1 DEF SharesInv, ActionsFollow, TransactionOK
  <2>4. ASSUME NEW e \in Range(Pending'), e \in Op PROVE e \in operations'
    BY <2>1, <2>4 DEF SharesInv, ActionsFollow, TransactionOK
  <2>5. ASSUME NEW op \in operations', op.pool \in Curated
        PROVE  (\E a \in db'.actions : a.tx = op.tx) \/ op \in Range(Pending')
    BY <1>1, <2>1, <2>5 DEF SharesInv, ActionsFollow, TransactionOK
  <2>6. QED
    BY <2>2, <2>3, <2>4, <2>5 DEF ActionsFollow
<1>8. TotalsFollow'
  <2>1. Len(log) \in Nat /\ Len(log) <= Len(holdings)
    <3>1. Len(Pending) = Len(log) + Len(block) /\ Len(block) \in Nat /\ Len(log) \in Nat
      BY <1>2, PendingIs DEF Pending
    <3>2. Len(Pending) = Len(holdings)
      BY DEF SharesInv, BalancesFollow, Chain
    <3>3. QED
      BY <3>1, <3>2
  <2>2. \A i \in 1 .. Len(log) : holdings'[i] = holdings[i]
    BY <1>1, <1>2, <2>1
  <2>3. ASSUME NEW i \in 1 .. Len(log)
        PROVE  IF i = Len(log) \/ log[i + 1].first
               THEN \A p \in DOMAIN holdings'[i] : log[i].supply[p] = Sums(holdings'[i])[p]
               ELSE log[i + 1].supply = log[i].supply
    BY <2>2, <2>3 DEF SharesInv, TotalsFollow
  <2>4. \A p \in DOMAIN db.pools :
          \/ db.pools[p] = Sums(Shown(db))[p]
          \/ log # <<>> /\ ~ Head(log).first /\ db.pools[p] = Head(log).supply[p]
    BY DEF SharesInv, TotalsFollow
  <2>5. QED
    BY <1>1, <2>3, <2>4 DEF TotalsFollow, Shown, BalanceOf, Sums
<1>9. QED
  BY <1>5, <1>6, <1>7, <1>8 DEF SharesInv

LEMMA HoldingsAfter == Holdings' = HoldingsOf(deployed', Kept')
BY DEF Holdings, HoldingsOf

\* An operation, after events that are none.
LEMMA OperationKeeps ==
  ASSUME SharesInv, NEW op \in Op, op.tx \in {tx, tx + 1},
         NEW events \in Seq(Deployment \cup Move), NEW states \in Seq(Holding),
         Operate(op, events, states), Chain(Holdings, events, states),
         Follows(Now(Holdings, states), op, Holdings'),
         TokensOK'
  PROVE  SharesInv'
<1> DEFINE more == events \o <<op>>
           next == states \o <<Holdings'>>
<1>1. events \in Seq(Event) /\ <<op>> \in Seq(Event)
  <2>1. op \in Event
    BY DEF Event
  <2>2. Deployment \cup Move \subseteq Event
    BY DEF Event
  <2>3. QED
    BY <2>1, <2>2
<1>2. Holdings' \in Holding
  <2>1. Kept' \in [Pools -> Balances] /\ deployed' \subseteq Pools
    BY DEF TokensOK, Kept
  <2>2. QED
    BY <2>1, HoldingsAfter, HoldingsType
<1>3. <<Holdings'>> \in Seq(Holding)
  BY <1>2
<1>4. /\ Chain(Now(Holdings, states), <<op>>, <<Holdings'>>)
      /\ Now(Now(Holdings, states), <<Holdings'>>) = Holdings'
  BY ChainOfOne
<1>5. Chain(Holdings, more, next) /\ Now(Holdings, next) = Holdings'
  BY <1>1, <1>3, <1>4, ChainJoins
<1>6. Range(more) = Range(events) \cup {op}
  <2>1. Range(<<op>>) = {op}
    BY DEF Range
  <2>2. QED
    BY <1>1, <2>1, RangeJoins
<1>7. operations' = operations \cup {op} /\ Execute(op.tx, more, next)
  BY DEF Operate
<1>8. \A e \in Range(events) : e \notin Op
  <2>1. ASSUME NEW i \in DOMAIN events PROVE events[i] \notin Op
    BY OpsApart
  <2>2. QED
    BY <2>1 DEF Range
<1>9. operations \subseteq Op /\ tx' = op.tx
  BY <1>7 DEF SharesInv, SharesTypes, Execute
<1>10. more \in Seq(Event) /\ next \in Seq(Holding)
  BY <1>1, <1>3
<1> HIDE DEF more, next
<1>11. TransactionOK(more, next)
  BY <1>5, <1>6, <1>7, <1>8, <1>9, <1>10 DEF TransactionOK
<1>12. QED
  BY <1>7, <1>11, TransactionKeeps

LEMMA DeployPoolKeeps ==
  ASSUME SharesInv, NEW p \in Pools, NEW t \in {tx, tx + 1}, NEW n \in Amounts,
         DeployPool(p, t, n)
  PROVE  SharesInv'
<1> DEFINE op == Operation("Deposit", p, t, Timelock, n)
           mint == Moved(p, ZeroAddress, Timelock, n)
           creation == [kind |-> "PoolDeployed", pool |-> p]
           empty == HoldingsOf(deployed', Kept)
           zeros == [u \in Holders |-> 0]
           c == Got(zeros, Timelock, n)
<1>1. /\ TokensOK /\ deployed \subseteq Pools /\ Kept \in [Pools -> Balances] /\ tx \in Nat
      /\ p \notin deployed /\ deployed' = deployed \cup {p}
      /\ Timelock \in Holders /\ ZeroAddress \in Holders
      /\ n \in Nat /\ Amounts \subseteq Nat /\ Curated \subseteq Pools
  <2>1. TokensOK /\ tx \in Nat
    BY ShareIndexerAssumption DEF SharesInv, SharesTypes
  <2>2. deployed \subseteq Pools /\ Kept \in [Pools -> Balances]
    BY <2>1, KeptType DEF TokensOK
  <2>3. p \notin deployed /\ deployed' = deployed \cup {p}
    BY DEF DeployPool
  <2>4. QED
    BY <2>1, <2>2, <2>3, ShareIndexerAssumption DEF Holders
<1>2. Kept[p] = zeros /\ shares[p] = zeros /\ burnt[p] = zeros /\ zeros \in Balances
  <2>1. \A u \in Holders : shares[p][u] = 0 /\ burnt[p][u] = 0
    BY <1>1 DEF TokensOK
  <2>2. shares[p] \in Balances /\ burnt[p] \in [Holders -> Int]
    BY DEF SharesInv, SharesTypes, TokensOK
  <2>3. QED
    BY <2>1, <2>2 DEF Kept, Balances
<1>3. TokensOK' /\ Kept' = [Kept EXCEPT ![p] = c]
  <2>1. c \in Balances /\ SumOver(c, Holders) = n
    <3>1. c \in Balances /\ SumOver(c, Holders) = SumOver(zeros, Holders) + n
      BY <1>1, <1>2, GotIs
    <3>2. SumOver(zeros, Holders) = 0
      BY SumOverZero
    <3>3. QED
      BY <1>1, <3>1, <3>2
  <2>2. shares' = [shares EXCEPT ![p] = c]
    <3>1. shares' = [shares EXCEPT ![p] = [shares[p] EXCEPT ![Timelock] = n]]
      BY DEF DeployPool
    <3>2. [shares[p] EXCEPT ![Timelock] = n] = c
      BY <1>1, <1>2 DEF Got
    <3>3. QED
      BY <3>1, <3>2
  <2>3. burnt' = [burnt EXCEPT ![p] = zeros]
    <3>1. burnt' = burnt /\ burnt \in [Pools -> [Holders -> Int]]
      BY DEF DeployPool, SharesInv, SharesTypes, TokensOK
    <3>2. QED
      BY <1>2, <3>1
  <2>4. totalSupply' = [totalSupply EXCEPT ![p] = SumOver(c, Holders)]
    BY <2>1 DEF DeployPool
  <2>5. zeros \in [Holders -> Int] /\ \A w \in Accounts : zeros[w] >= 0
    BY HoldersFinite
  <2>6. \A w \in Holders : c[w] = c[w] + zeros[w]
    BY <2>1 DEF Balances
  <2> HIDE DEF c, zeros
  <2>7. TokenBecomes(p, c, zeros, c)
    BY <1>1, <2>1, <2>2, <2>3, <2>4, <2>5, <2>6 DEF TokenBecomes
  <2>8. QED
    BY <1>1, <2>7, TokenChanges
<1>4. /\ op \in Op /\ op.kind = "Deposit" /\ op.pool = p /\ op.tx = t
      /\ op.user = Timelock /\ op.shares = n
  BY <1>1, OpIs
<1>5. mint \in Move /\ mint.kind = "Transfer" /\ Minted(mint)
  BY <1>1, MoveIs DEF Minted
<1>6. creation \in Deployment /\ creation.kind = "PoolDeployed" /\ creation.pool = p
  BY DEF Deployment
<1>7. Operate(op, <<creation, mint>>, <<empty, empty>>)
  BY DEF DeployPool
<1>8. empty \in Holding
  BY <1>1, HoldingsType
<1>9. DOMAIN Holdings = deployed \cap Curated /\ DOMAIN empty = (deployed \cup {p}) \cap Curated
  BY <1>1 DEF Holdings, HoldingsOf
<1>10. Holdings' = IF p \in Curated THEN Put(empty, p, c) ELSE empty
  BY <1>1, <1>3, HoldingsAfter, HoldingsPut
<1>11. p \in Curated => empty[p] = zeros /\ p \in DOMAIN empty
  BY <1>1, <1>2 DEF HoldingsOf
<1>12. empty = IF p \in Curated THEN Put(Holdings, p, zeros) ELSE Holdings
  BY <1>1, <1>2 DEF HoldingsOf, Holdings, Put
<1> HIDE DEF op, mint, creation, empty, zeros
<1>13. Follows(Holdings, creation, empty)
  BY <1>1, <1>6, <1>9, <1>12 DEF Follows, zeros
<1>14. Follows(empty, mint, empty)
  BY <1>5 DEF Follows
<1>15. Follows(empty, op, Holdings')
  BY <1>4, <1>10, <1>11 DEF Follows
<1>16. Chain(Holdings, <<creation, mint>>, <<empty, empty>>) /\ Now(Holdings, <<empty, empty>>) = empty
  BY <1>13, <1>14, ChainOfTwo
<1>17. <<creation, mint>> \in Seq(Deployment \cup Move) /\ <<empty, empty>> \in Seq(Holding)
  BY <1>5, <1>6, <1>8
<1>18. QED
  BY <1>3, <1>4, <1>7, <1>15, <1>16, <1>17, OperationKeeps

LEMMA DepositKeeps ==
  ASSUME SharesInv, NEW p \in Pools, NEW t \in {tx, tx + 1}, NEW u \in Holders,
         NEW n \in Amounts, Deposit(p, t, u, n)
  PROVE  SharesInv'
<1> DEFINE op == Operation("Deposit", p, t, u, n)
           mint == Moved(p, ZeroAddress, u, n)
           c == Got(Kept[p], u, n)
<1>1. /\ TokensOK /\ deployed \subseteq Pools /\ Kept \in [Pools -> Balances] /\ tx \in Nat
      /\ p \in deployed /\ deployed' = deployed
      /\ ZeroAddress \in Holders /\ n \in Nat /\ Curated \subseteq Pools
  <2>1. TokensOK /\ tx \in Nat
    BY ShareIndexerAssumption DEF SharesInv, SharesTypes
  <2>2. deployed \subseteq Pools /\ Kept \in [Pools -> Balances]
    BY <2>1, KeptType DEF TokensOK
  <2>3. p \in deployed /\ deployed' = deployed
    BY DEF Deposit
  <2>4. QED
    BY <2>1, <2>2, <2>3, ShareIndexerAssumption DEF Holders
<1>2. TokensOK' /\ Kept' = [Kept EXCEPT ![p] = c]
  <2> DEFINE s == Got(shares[p], u, n)
  <2>1. /\ shares[p] \in Balances /\ burnt[p] \in [Holders -> Int] /\ Kept[p] \in Balances
        /\ \A w \in Holders : Kept[p][w] = shares[p][w] + burnt[p][w]
        /\ \A w \in Accounts : burnt[p][w] >= 0
    BY <1>1 DEF TokensOK, Kept
  <2>2. /\ s \in Balances /\ s = [w \in Holders |-> IF w = u THEN shares[p][w] + n ELSE shares[p][w]]
    BY <1>1, <2>1, GotIs
  <2>3. /\ c \in Balances /\ c = [w \in Holders |-> IF w = u THEN Kept[p][w] + n ELSE Kept[p][w]]
        /\ SumOver(c, Holders) = SumOver(Kept[p], Holders) + n
    BY <1>1, <2>1, GotIs
  <2>4. shares' = [shares EXCEPT ![p] = s]
    BY DEF Deposit
  <2>5. burnt' = [burnt EXCEPT ![p] = burnt[p]]
    BY <1>1 DEF Deposit, TokensOK
  <2>6. totalSupply' = [totalSupply EXCEPT ![p] = SumOver(c, Holders)]
    BY <1>1, <2>3 DEF Deposit, TokensOK
  <2>7. \A w \in Holders : c[w] = s[w] + burnt[p][w]
    BY <1>1, <2>1, <2>2, <2>3 DEF Balances
  <2>8. deployed' = deployed \cup {p}
    BY <1>1
  <2> HIDE DEF c, s
  <2>9. TokenBecomes(p, s, burnt[p], c)
    BY <2>1, <2>2, <2>3, <2>4, <2>5, <2>6, <2>7, <2>8 DEF TokenBecomes
  <2>10. QED
    BY <1>1, <2>9, TokenChanges
<1>3. op \in Op /\ op.kind = "Deposit" /\ op.pool = p /\ op.tx = t /\ op.user = u /\ op.shares = n
  <2>1. t \in Nat
    BY <1>1
  <2>2. QED
    BY <2>1, OpIs
<1>4. mint \in Move /\ mint.kind = "Transfer" /\ Minted(mint)
  BY <1>1, MoveIs DEF Minted
<1>5. Operate(op, <<mint>>, <<Holdings>>)
  BY DEF Deposit
<1>6. Holdings \in Holding /\ DOMAIN Holdings = deployed \cap Curated
  BY <1>1, HoldingsType DEF Holdings, HoldingsOf
<1>7. Holdings' = IF p \in Curated THEN Put(Holdings, p, c) ELSE Holdings
  BY <1>1, <1>2, HoldingsAfter, HoldingsPut DEF Holdings
<1>8. p \in Curated => Holdings[p] = Kept[p] /\ p \in DOMAIN Holdings
  BY <1>1 DEF Holdings, HoldingsOf
<1> HIDE DEF op, mint
<1>9. Follows(Holdings, mint, Holdings)
  BY <1>4 DEF Follows
<1>10. Follows(Holdings, op, Holdings')
  BY <1>3, <1>7, <1>8 DEF Follows
<1>11. Chain(Holdings, <<mint>>, <<Holdings>>) /\ Now(Holdings, <<Holdings>>) = Holdings
  BY <1>9, ChainOfOne
<1>12. <<mint>> \in Seq(Deployment \cup Move) /\ <<Holdings>> \in Seq(Holding)
  BY <1>4, <1>6
<1>13. QED
  BY <1>2, <1>3, <1>5, <1>10, <1>11, <1>12, OperationKeeps

LEMMA WithdrawKeeps ==
  ASSUME SharesInv, NEW p \in Pools, NEW t \in {tx, tx + 1}, NEW u \in Holders,
         NEW n \in Amounts, Withdraw(p, t, u, n)
  PROVE  SharesInv'
<1> DEFINE op == Operation("Withdraw", p, t, u, n)
           burn == Moved(p, u, ZeroAddress, n)
           c == Gave(Kept[p], u, n)
<1>1. /\ TokensOK /\ deployed \subseteq Pools /\ Kept \in [Pools -> Balances] /\ tx \in Nat
      /\ deployed' = deployed /\ MayGive(p, u, n)
      /\ ZeroAddress \in Holders /\ n \in Nat /\ Curated \subseteq Pools
  <2>1. TokensOK /\ tx \in Nat
    BY ShareIndexerAssumption DEF SharesInv, SharesTypes
  <2>2. deployed \subseteq Pools /\ Kept \in [Pools -> Balances]
    BY <2>1, KeptType DEF TokensOK
  <2>3. MayGive(p, u, n) /\ deployed' = deployed
    BY DEF Withdraw
  <2>4. QED
    BY <2>1, <2>2, <2>3, ShareIndexerAssumption DEF Holders
<1>2. /\ p \in deployed /\ shares[p] \in Balances /\ shares[p][u] >= n
      /\ Kept[p] \in Balances /\ Kept[p][u] >= n
  BY <1>1, GiverKeeps
<1>3. TokensOK' /\ Kept' = [Kept EXCEPT ![p] = c]
  <2> DEFINE s == Gave(shares[p], u, n)
  <2>1. /\ burnt[p] \in [Holders -> Int]
        /\ \A w \in Holders : Kept[p][w] = shares[p][w] + burnt[p][w]
        /\ \A w \in Accounts : burnt[p][w] >= 0
    BY <1>1 DEF TokensOK, Kept
  <2>2. /\ s \in Balances /\ s = [w \in Holders |-> IF w = u THEN shares[p][w] - n ELSE shares[p][w]]
    BY <1>1, <1>2, GaveIs
  <2>3. /\ c \in Balances /\ c = [w \in Holders |-> IF w = u THEN Kept[p][w] - n ELSE Kept[p][w]]
        /\ SumOver(c, Holders) = SumOver(Kept[p], Holders) - n
    BY <1>1, <1>2, GaveIs
  <2>4. shares' = [shares EXCEPT ![p] = s]
    BY DEF Withdraw
  <2>5. burnt' = [burnt EXCEPT ![p] = burnt[p]]
    BY <1>1 DEF Withdraw, TokensOK
  <2>6. totalSupply' = [totalSupply EXCEPT ![p] = SumOver(c, Holders)]
    BY <1>1, <2>3 DEF Withdraw, TokensOK
  <2>7. \A w \in Holders : c[w] = s[w] + burnt[p][w]
    BY <1>1, <1>2, <2>1, <2>2, <2>3 DEF Balances
  <2>8. deployed' = deployed \cup {p}
    BY <1>1, <1>2
  <2> HIDE DEF c, s
  <2>9. TokenBecomes(p, s, burnt[p], c)
    BY <2>1, <2>2, <2>3, <2>4, <2>5, <2>6, <2>7, <2>8 DEF TokenBecomes
  <2>10. QED
    BY <1>1, <2>9, TokenChanges
<1>4. op \in Op /\ op.kind = "Withdraw" /\ op.pool = p /\ op.tx = t /\ op.user = u /\ op.shares = n
  <2>1. t \in Nat
    BY <1>1
  <2>2. QED
    BY <2>1, OpIs
<1>5. burn \in Move /\ burn.kind = "Transfer" /\ Minted(burn)
  BY <1>1, MoveIs DEF Minted
<1>6. Operate(op, <<burn>>, <<Holdings>>)
  BY DEF Withdraw
<1>7. Holdings \in Holding /\ DOMAIN Holdings = deployed \cap Curated
  BY <1>1, HoldingsType DEF Holdings, HoldingsOf
<1>8. Holdings' = IF p \in Curated THEN Put(Holdings, p, c) ELSE Holdings
  BY <1>1, <1>2, <1>3, HoldingsAfter, HoldingsPut DEF Holdings
<1>9. p \in Curated => Holdings[p] = Kept[p] /\ p \in DOMAIN Holdings
  BY <1>1, <1>2 DEF Holdings, HoldingsOf
<1> HIDE DEF op, burn
<1>10. Follows(Holdings, burn, Holdings)
  BY <1>5 DEF Follows
<1>11. Follows(Holdings, op, Holdings')
  BY <1>2, <1>4, <1>8, <1>9 DEF Follows
<1>12. Chain(Holdings, <<burn>>, <<Holdings>>) /\ Now(Holdings, <<Holdings>>) = Holdings
  BY <1>10, ChainOfOne
<1>13. <<burn>> \in Seq(Deployment \cup Move) /\ <<Holdings>> \in Seq(Holding)
  BY <1>5, <1>7
<1>14. QED
  BY <1>3, <1>4, <1>6, <1>11, <1>12, <1>13, OperationKeeps

\* A transfer from or to the zero address leaves what is kept as it is: the one
\* moves nothing, the other burns what it moves.
LEMMA TransferTokens ==
  ASSUME SharesInv, NEW p \in Pools, NEW t \in {tx, tx + 1}, NEW u \in Holders,
         NEW v \in Holders, NEW n \in Amounts, Transfer(p, t, u, v, n)
  PROVE  /\ TokensOK' /\ p \in deployed /\ deployed' = deployed
         /\ Kept[p] \in Balances /\ Kept[p][u] >= n
         /\ IF ZeroAddress \in {u, v} THEN Kept' = Kept
            ELSE Kept' = [Kept EXCEPT ![p] = Got(Gave(Kept[p], u, n), v, n)]
<1> DEFINE s == Got(Gave(shares[p], u, n), v, n)
           moved == Got(Gave(Kept[p], u, n), v, n)
           c == IF ZeroAddress \in {u, v} THEN Kept[p] ELSE moved
           b == IF v = ZeroAddress THEN Gave(Got(burnt[p], u, n), v, n) ELSE burnt[p]
<1>1. /\ TokensOK /\ Kept \in [Pools -> Balances]
      /\ deployed' = deployed /\ MayGive(p, u, n) /\ n \in Nat
  BY ShareIndexerAssumption, KeptType DEF SharesInv, SharesTypes, TokensOK, Transfer
<1>2. /\ p \in deployed /\ shares[p] \in Balances /\ shares[p][u] >= n
      /\ Kept[p] \in Balances /\ Kept[p][u] >= n /\ (u = ZeroAddress => n = 0)
  BY <1>1, GiverKeeps
<1>3. /\ burnt[p] \in [Holders -> Int]
      /\ \A w \in Holders : Kept[p][w] = shares[p][w] + burnt[p][w]
      /\ \A w \in Accounts : burnt[p][w] >= 0
      /\ \A w \in Holders : shares[p][w] \in Nat /\ Kept[p][w] \in Nat /\ burnt[p][w] \in Int
  BY <1>1, <1>2 DEF TokensOK, Kept, Balances
<1>4. /\ s \in Balances
      /\ \A w \in Holders :
           s[w] = shares[p][w] - (IF w = u THEN n ELSE 0) + (IF w = v THEN n ELSE 0)
  <2> DEFINE g == Gave(shares[p], u, n)
  <2>1. g \in Balances /\ g = [w \in Holders |-> IF w = u THEN shares[p][w] - n ELSE shares[p][w]]
    BY <1>1, <1>2, GaveIs
  <2> HIDE DEF g
  <2>2. Got(g, v, n) \in Balances /\ Got(g, v, n) = [w \in Holders |-> IF w = v THEN g[w] + n ELSE g[w]]
    BY <1>1, <2>1, GotIs
  <2>3. QED
    BY <1>1, <1>3, <2>1, <2>2 DEF g
<1>5. /\ moved \in Balances /\ SumOver(moved, Holders) = SumOver(Kept[p], Holders)
      /\ \A w \in Holders :
           moved[w] = Kept[p][w] - (IF w = u THEN n ELSE 0) + (IF w = v THEN n ELSE 0)
  <2> DEFINE g == Gave(Kept[p], u, n)
  <2>1. g \in Balances /\ g = [w \in Holders |-> IF w = u THEN Kept[p][w] - n ELSE Kept[p][w]]
    BY <1>1, <1>2, GaveIs
  <2>2. moved \in Balances /\ SumOver(moved, Holders) = SumOver(Kept[p], Holders)
    BY <1>1, <1>2, SumKept
  <2> HIDE DEF g
  <2>3. Got(g, v, n) = [w \in Holders |-> IF w = v THEN g[w] + n ELSE g[w]]
    BY <1>1, <2>1, GotIs
  <2>4. QED
    BY <1>1, <1>3, <2>1, <2>2, <2>3 DEF g
<1>6. /\ b \in [Holders -> Int]
      /\ \A w \in Holders :
           b[w] = IF v = ZeroAddress
                  THEN burnt[p][w] + (IF w = u THEN n ELSE 0) - (IF w = v THEN n ELSE 0)
                  ELSE burnt[p][w]
  BY <1>1, <1>3 DEF Got, Gave
<1>7. c \in Balances /\ SumOver(c, Holders) = SumOver(Kept[p], Holders)
  BY <1>2, <1>5
<1>8. \A w \in Accounts : b[w] >= 0
  <2>1. \A w \in Accounts : w \in Holders /\ w # ZeroAddress
    BY ShareIndexerAssumption DEF Holders
  <2> HIDE DEF b
  <2>2. QED
    BY <1>1, <1>3, <1>6, <2>1
<1> HIDE DEF s, moved, b
<1>9. \A w \in Holders : c[w] = s[w] + b[w]
  <2>1. CASE v = ZeroAddress
    BY <1>1, <1>3, <1>4, <1>6, <2>1
  <2>2. CASE v # ZeroAddress /\ u = ZeroAddress
    BY <1>1, <1>2, <1>3, <1>4, <1>6, <2>2
  <2>3. CASE v # ZeroAddress /\ u # ZeroAddress
    BY <1>1, <1>3, <1>4, <1>5, <1>6, <2>3
  <2>4. QED
    BY <2>1, <2>2, <2>3
<1>10. /\ shares' = [shares EXCEPT ![p] = s]
       /\ burnt' = [burnt EXCEPT ![p] = b]
       /\ totalSupply' = [totalSupply EXCEPT ![p] = SumOver(c, Holders)]
       /\ deployed' = deployed \cup {p}
  <2>1. shares' = [shares EXCEPT ![p] = s]
    BY DEF Transfer, s
  <2>2. burnt' = [burnt EXCEPT ![p] = b]
    BY <1>1 DEF Transfer, TokensOK, b
  <2>3. totalSupply' = [totalSupply EXCEPT ![p] = SumOver(c, Holders)]
    BY <1>1, <1>7 DEF Transfer, TokensOK
  <2>4. QED
    BY <1>1, <1>2, <2>1, <2>2, <2>3
<1> HIDE DEF c
<1>11. TokensOK' /\ Kept' = [Kept EXCEPT ![p] = c]
  <2>1. TokenBecomes(p, s, b, c)
    BY <1>4, <1>6, <1>7, <1>8, <1>9, <1>10 DEF TokenBecomes
  <2>2. QED
    BY <1>1, <2>1, TokenChanges
<1>12. ZeroAddress \in {u, v} => Kept' = Kept
  BY <1>1, <1>11 DEF c
<1>13. QED
  BY <1>1, <1>2, <1>11, <1>12 DEF c, moved

LEMMA TransferKeeps ==
  ASSUME SharesInv, NEW p \in Pools, NEW t \in {tx, tx + 1}, NEW u \in Holders,
         NEW v \in Holders, NEW n \in Amounts, Transfer(p, t, u, v, n)
  PROVE  SharesInv'
<1> DEFINE move == Moved(p, u, v, n)
           c == Got(Gave(Kept[p], u, n), v, n)
<1>1. /\ TokensOK /\ TokensOK' /\ deployed \subseteq Pools /\ Kept \in [Pools -> Balances]
      /\ Kept' \in [Pools -> Balances] /\ deployed' = deployed /\ p \in deployed
      /\ operations \subseteq Op /\ operations' = operations
  <2>1. TokensOK' /\ TokensOK /\ deployed' = deployed /\ p \in deployed
    BY TransferTokens DEF SharesInv, SharesTypes
  <2>2. QED
    BY <2>1, KeptType DEF SharesInv, SharesTypes, TokensOK, Transfer, Kept
<1>2. /\ Kept[p][u] >= n
      /\ IF ZeroAddress \in {u, v} THEN Kept' = Kept ELSE Kept' = [Kept EXCEPT ![p] = c]
  BY TransferTokens
<1>3. /\ move \in Move /\ move.kind = "Transfer" /\ move.pool = p
      /\ move.from = u /\ move.to = v /\ move.shares = n
      /\ Minted(move) <=> ZeroAddress \in {u, v}
  BY MoveIs DEF Minted
<1>4. Execute(t, <<move>>, <<Holdings'>>)
  BY DEF Transfer
<1>5. Holdings \in Holding /\ DOMAIN Holdings = deployed \cap Curated /\ Holdings' \in Holding
  BY <1>1, HoldingsType, HoldingsAfter DEF Holdings, HoldingsOf
<1>6. Holdings' = IF p \in Curated /\ ZeroAddress \notin {u, v}
                  THEN Put(Holdings, p, c) ELSE Holdings
  <2>1. CASE ZeroAddress \in {u, v}
    BY <1>1, <1>2, <2>1, HoldingsAfter DEF Holdings
  <2>2. CASE ZeroAddress \notin {u, v}
    BY <1>1, <1>2, <2>2, HoldingsAfter, HoldingsPut DEF Holdings
  <2>3. QED
    BY <2>1, <2>2
<1>7. p \in Curated => Holdings[p] = Kept[p] /\ p \in DOMAIN Holdings
  BY <1>1 DEF Holdings, HoldingsOf
<1> HIDE DEF move
<1>8. Follows(Holdings, move, Holdings')
  BY <1>2, <1>3, <1>6, <1>7 DEF Follows
<1>9. Chain(Holdings, <<move>>, <<Holdings'>>) /\ Now(Holdings, <<Holdings'>>) = Holdings'
  BY <1>8, ChainOfOne
<1>10. move \in Event /\ move \notin Op
  BY <1>3, OpsApart DEF Event
<1>11. <<move>> \in Seq(Event) /\ <<Holdings'>> \in Seq(Holding) /\ Range(<<move>>) = {move}
  BY <1>5, <1>10 DEF Range
<1>12. TransactionOK(<<move>>, <<Holdings'>>)
  BY <1>1, <1>9, <1>10, <1>11 DEF TransactionOK
<1>13. QED
  BY <1>1, <1>4, <1>12, TransactionKeeps

-----------------------------------------------------------------------------
(* The end of a block *)

LEMMA SealedIs ==
  ASSUME NEW events \in Seq(Event), NEW supply \in [Pools -> Nat]
  PROVE  /\ Sealed(events, supply) \in Seq(Entry)
         /\ Len(Sealed(events, supply)) = Len(events)
         /\ \A i \in 1 .. Len(events) :
              /\ Sealed(events, supply)[i].event = events[i]
              /\ Sealed(events, supply)[i].first <=> i = 1
              /\ Sealed(events, supply)[i].supply = supply
<1> DEFINE s == Sealed(events, supply)
<1>1. s = [i \in 1 .. Len(events) |-> [event |-> events[i], first |-> i = 1, supply |-> supply]]
  BY DEF Sealed
<1>2. ASSUME NEW i \in 1 .. Len(events) PROVE s[i] \in Entry
  <2>1. events[i] \in Event /\ (i = 1) \in BOOLEAN
    OBVIOUS
  <2>2. QED
    BY <1>1, <2>1 DEF Entry
<1>3. s \in Seq(Entry) /\ Len(s) = Len(events)
  BY <1>1, <1>2
<1>4. ASSUME NEW i \in 1 .. Len(events)
      PROVE  s[i].event = events[i] /\ (s[i].first <=> i = 1) /\ s[i].supply = supply
  <2> DEFINE begins == i = 1
  <2>1. s[i] = [event |-> events[i], first |-> begins, supply |-> supply]
    BY <1>1
  <2> HIDE DEF s, begins
  <2>2. s[i].event = events[i] /\ s[i].supply = supply /\ s[i].first = begins
    BY <2>1
  <2>3. QED
    BY <2>2 DEF begins
<1> HIDE DEF s
<1>5. QED
  BY <1>3, <1>4 DEF s

LEMMA EndBlockKeeps ==
  ASSUME SharesInv, NEW due \in SUBSET Curated, EndBlock(due)
  PROVE  SharesInv'
<1> DEFINE snapshot == IF due = {} THEN <<>> ELSE <<[kind |-> "PoolSnapshot", due |-> due]>>
           supply == totalSupply
           states == [i \in DOMAIN snapshot |-> Holdings]
           events == block \o snapshot
           sealed == Sealed(events, supply)
<1>1. /\ log' = log \o sealed /\ holdings' = holdings \o states /\ block' = <<>> /\ block # <<>>
      /\ UNCHANGED tokenVars /\ tx' = tx /\ operations' = operations
      /\ db' = db
  BY DEF EndBlock
<1>2. /\ log \in Seq(Entry) /\ block \in Seq(Event) /\ holdings \in Seq(Holding)
      /\ TokensOK /\ deployed \subseteq Pools /\ Kept \in [Pools -> Balances]
      /\ TokensOK' /\ Kept' = Kept /\ deployed' = deployed
  <2>1. TokensOK /\ TokensOK' /\ Kept' = Kept
    BY <1>1, TokensSame DEF SharesInv, SharesTypes
  <2>2. QED
    BY <1>1, <2>1, KeptType DEF SharesInv, SharesTypes, TokensOK, tokenVars
<1>3. Holdings \in Holding /\ Holdings' = Holdings
  BY <1>2, HoldingsType, HoldingsAfter DEF Holdings
<1>4. /\ snapshot \in Seq(Event) /\ states \in Seq(Holding)
      /\ Chain(Holdings, snapshot, states) /\ Now(Holdings, states) = Holdings
      /\ \A e \in Range(snapshot) : e \notin Op
  <2>1. CASE due = {}
    <3>1. snapshot = <<>> /\ states = <<>>
      BY <2>1
    <3>2. QED
      BY <3>1, ChainOfNone DEF Range
  <2>2. CASE due # {}
    <3> DEFINE e == [kind |-> "PoolSnapshot", due |-> due]
    <3>1. e \in Snapshot /\ e.kind = "PoolSnapshot"
      BY ShareIndexerAssumption DEF Snapshot
    <3>2. snapshot = <<e>>
      BY <2>2
    <3>3. states = <<Holdings>>
      BY <3>2
    <3>4. e \in Event /\ e \notin Op
      BY <3>1, OpsApart DEF Event
    <3> HIDE DEF e
    <3>5. Follows(Holdings, e, Holdings)
      BY <3>1 DEF Follows
    <3>6. Chain(Holdings, <<e>>, <<Holdings>>) /\ Now(Holdings, <<Holdings>>) = Holdings
      BY <3>5, ChainOfOne
    <3>7. <<e>> \in Seq(Event) /\ <<Holdings>> \in Seq(Holding) /\ Range(<<e>>) = {e}
      BY <1>3, <3>4 DEF Range
    <3> HIDE DEF snapshot, states
    <3>8. QED
      BY <3>2, <3>3, <3>4, <3>6, <3>7
  <2>3. QED
    BY <2>1, <2>2
<1>5. supply \in [Pools -> Nat] /\ \A p \in Pools : supply[p] = SumOver(Kept[p], Holders)
  BY <1>2 DEF TokensOK
<1> HIDE DEF snapshot, supply, states
<1>6. /\ events \in Seq(Event) /\ Len(events) = Len(block) + Len(snapshot)
      /\ Len(block) \in Nat /\ Len(snapshot) \in Nat /\ Len(log) \in Nat
  BY <1>2, <1>4
<1> HIDE DEF events
<1>7. /\ sealed \in Seq(Entry) /\ Len(sealed) = Len(block) + Len(snapshot)
      /\ \A i \in 1 .. Len(block) + Len(snapshot) :
           /\ sealed[i].event = events[i]
           /\ sealed[i].first <=> i = 1
           /\ sealed[i].supply = supply
  <2>1. /\ Sealed(events, supply) \in Seq(Entry)
        /\ Len(Sealed(events, supply)) = Len(events)
        /\ \A i \in 1 .. Len(events) :
             /\ Sealed(events, supply)[i].event = events[i]
             /\ Sealed(events, supply)[i].first <=> i = 1
             /\ Sealed(events, supply)[i].supply = supply
    <3>1. events \in Seq(Event)
      BY <1>6
    <3>2. supply \in [Pools -> Nat]
      BY <1>5
    <3> HIDE DEF sealed
    <3>3. QED
      BY ONLY <3>1, <3>2, SealedIs
  <2>2. Len(events) = Len(block) + Len(snapshot)
    BY <1>6
  <2>3. sealed = Sealed(events, supply)
    OBVIOUS
  <2> HIDE DEF sealed
  <2>4. QED
    BY <2>1, <2>2, <2>3
<1> HIDE DEF sealed
<1>8. Pending \in Seq(Event) /\ Pending' = Pending \o snapshot
  <2>1. /\ Pending \in Seq(Event) /\ Len(Pending) = Len(log) + Len(block)
        /\ \A i \in 1 .. Len(log) + Len(block) :
             Pending[i] = IF i <= Len(log) THEN log[i].event ELSE block[i - Len(log)]
    BY <1>2, PendingIs DEF Pending
  <2>2. /\ log' \in Seq(Entry) /\ Len(log') = Len(log) + (Len(block) + Len(snapshot))
        /\ block' \in Seq(Event) /\ Len(block') = 0
    <3>1. log' = log \o sealed /\ sealed \in Seq(Entry)
      BY <1>1, <1>7
    <3>2. log' \in Seq(Entry) /\ Len(log') = Len(log) + Len(sealed)
      BY <1>2, <3>1, ConcatProperties
    <3>3. QED
      BY <1>1, <1>7, <3>2
  <2>3. /\ Pending' \in Seq(Event) /\ Len(Pending') = Len(log') + Len(block')
        /\ \A i \in 1 .. Len(log') + Len(block') :
             Pending'[i] = IF i <= Len(log') THEN log'[i].event ELSE block'[i - Len(log')]
    BY <2>2, PendingIs DEF Pending
  <2> DEFINE N == Len(log) + (Len(block) + Len(snapshot))
  <2>4. /\ Len(log) \in Nat /\ Len(block) \in Nat /\ Len(snapshot) \in Nat
        /\ Pending \o snapshot \in Seq(Event) /\ Len(Pending \o snapshot) = N
    <3>1. /\ Pending \o snapshot \in Seq(Event)
          /\ Len(Pending \o snapshot) = Len(Pending) + Len(snapshot)
      BY <1>4, <2>1, ConcatProperties
    <3>2. QED
      BY <1>6, <2>1, <3>1
  <2>5. ASSUME NEW i \in 1 .. N PROVE Pending'[i] = (Pending \o snapshot)[i]
    <3>1. Pending'[i] = log'[i].event
      BY <2>2, <2>3, <2>4
    <3>2. CASE i <= Len(log)
      <4>1. log'[i] = log[i]
        BY <1>1, <1>2, <1>7, <3>2
      <4>2. (Pending \o snapshot)[i] = Pending[i]
        BY <1>4, <2>1, <2>4, <3>2
      <4>3. Pending[i] = log[i].event
        BY <2>1, <2>4, <3>2
      <4>4. QED
        BY <3>1, <4>1, <4>2, <4>3
    <3>3. CASE i > Len(log)
      <4> DEFINE j == i - Len(log)
      <4>1. j \in 1 .. Len(block) + Len(snapshot)
        BY <2>4, <3>3
      <4>2. log'[i] = sealed[j]
        BY <1>1, <1>2, <1>7, <2>4, <3>3
      <4>3. Pending'[i] = events[j]
        BY <1>7, <3>1, <4>1, <4>2
      <4>4. CASE j <= Len(block)
        <5>1. events[j] = block[j]
          BY <1>2, <1>4, <4>1, <4>4 DEF events
        <5>2. (Pending \o snapshot)[i] = Pending[i]
          BY <1>4, <2>1, <2>4, <4>4
        <5>3. Pending[i] = block[j]
          BY <2>1, <2>4, <3>3, <4>4
        <5>4. QED
          BY <4>3, <5>1, <5>2, <5>3
      <4>5. CASE j > Len(block)
        <5>1. events[j] = snapshot[j - Len(block)]
          BY <1>2, <1>4, <4>1, <4>5 DEF events
        <5>2. (Pending \o snapshot)[i] = snapshot[i - (Len(log) + Len(block))]
          BY <1>4, <2>1, <2>4, <4>5
        <5>3. j - Len(block) = i - (Len(log) + Len(block))
          BY <2>4
        <5>4. QED
          BY <4>3, <5>1, <5>2, <5>3
      <4>6. QED
        BY <2>4, <4>1, <4>4, <4>5
    <3>4. QED
      BY <2>4, <3>2, <3>3
  <2>6. Len(Pending') = N
    BY <2>2, <2>3, <2>4
  <2> HIDE DEF N
  <2>7. QED
    BY <2>1, <2>3, <2>4, <2>5, <2>6, SeqEqual
<1>9. SharesTypes'
  <2>1. log' \in Seq(Entry) /\ holdings' \in Seq(Holding) /\ block' \in Seq(Event)
    BY <1>1, <1>2, <1>4, <1>7
  <2>2. QED
    BY <1>1, <1>2, <2>1 DEF SharesInv, SharesTypes
<1>10. BalancesFollow'
  <2>1. Chain(Shown(db), Pending, holdings) /\ Now(Shown(db), holdings) = Holdings
    BY DEF SharesInv, BalancesFollow
  <2>2. Chain(Now(Shown(db), holdings), snapshot, states)
    BY <1>4, <2>1
  <2>3. /\ Chain(Shown(db), Pending \o snapshot, holdings \o states)
        /\ Now(Shown(db), holdings \o states) = Now(Holdings, states)
    BY <1>2, <1>4, <1>8, <2>1, <2>2, ChainJoins
  <2>4. QED
    BY <1>1, <1>3, <1>4, <1>8, <2>3 DEF BalancesFollow
<1>11. ActionsFollow'
  <2>1. Range(Pending') = Range(Pending) \cup Range(snapshot)
    BY <1>4, <1>8, RangeJoins
  <2>2. \A e \in Range(Pending') : e \in Op => e \in operations'
    BY <1>1, <1>4, <2>1 DEF SharesInv, ActionsFollow
  <2>3. \A op \in operations' : op.pool \in Curated =>
          (\E a \in db'.actions : a.tx = op.tx) \/ op \in Range(Pending')
    BY <1>1, <2>1 DEF SharesInv, ActionsFollow
  <2>4. (\A op \in operations' : op.tx \in 1 .. tx') /\ db'.actions \subseteq operations'
    BY <1>1 DEF SharesInv, ActionsFollow
  <2>5. QED
    BY <2>2, <2>3, <2>4 DEF ActionsFollow
<1>12. TotalsFollow'
  <2> DEFINE n == Len(log)
             m == Len(block) + Len(snapshot)
  <2>1. /\ n \in Nat /\ m \in Nat \ {0} /\ Len(log') = n + m /\ Len(sealed) = m
        /\ Len(holdings') = n + m /\ n <= Len(holdings)
    <3>1. Len(block) \in Nat \ {0} /\ Len(snapshot) \in Nat /\ n \in Nat
      BY <1>1, <1>2, <1>4, EmptySeq
    <3>2. Len(log') = n + Len(sealed)
      <4>1. log' = log \o sealed /\ sealed \in Seq(Entry)
        BY <1>1, <1>7
      <4>2. QED
        BY <1>2, <4>1, ConcatProperties
    <3>3. Len(Pending) = n + Len(block) /\ Len(Pending) = Len(holdings)
      BY <1>2, PendingIs DEF Pending, SharesInv, BalancesFollow, Chain
    <3>4. Len(Pending') = Len(Pending) + Len(snapshot)
      BY <1>4, <1>8
    <3>5. Len(Pending') = Len(holdings')
      BY <1>10 DEF BalancesFollow, Chain
    <3>6. QED
      BY <1>7, <3>1, <3>2, <3>3, <3>4, <3>5
  <2>2. \A i \in 1 .. n : log'[i] = log[i] /\ holdings'[i] = holdings[i]
    BY <1>1, <1>2, <1>4, <1>7, <2>1
  <2>3. \A i \in 1 .. m : log'[n + i] = sealed[i]
    BY <1>1, <1>2, <1>7, <2>1
  <2>4. holdings'[n + m] = Holdings
    <3>1. Now(Shown(db), holdings') = Holdings
      BY <1>1, <1>3, <1>10 DEF BalancesFollow, Shown, BalanceOf, Now
    <3>2. holdings' # <<>>
      BY <2>1
    <3>3. QED
      BY <2>1, <3>1, <3>2 DEF Now
  <2>5. \A p \in DOMAIN Holdings : supply[p] = Sums(Holdings)[p]
    BY <1>2, <1>5 DEF Sums, Holdings, HoldingsOf
  <2> HIDE DEF m
  <2>6. ASSUME NEW i \in 1 .. n + m
        PROVE  IF i = n + m \/ log'[i + 1].first
               THEN \A p \in DOMAIN holdings'[i] : log'[i].supply[p] = Sums(holdings'[i])[p]
               ELSE log'[i + 1].supply = log'[i].supply
    <3>1. CASE i < n
      <4>1. i \in 1 .. n /\ i + 1 \in 1 .. n /\ i # n /\ i # n + m
        BY <2>1, <3>1
      <4>2. IF log[i + 1].first
            THEN \A p \in DOMAIN holdings[i] : log[i].supply[p] = Sums(holdings[i])[p]
            ELSE log[i + 1].supply = log[i].supply
        BY <4>1 DEF SharesInv, TotalsFollow
      <4>3. QED
        BY <2>2, <4>1, <4>2
    <3>2. CASE i = n
      <4>1. i \in 1 .. n /\ 1 \in 1 .. m /\ i # n + m
        BY <2>1, <3>2
      <4>2. \A p \in DOMAIN holdings[i] : log[i].supply[p] = Sums(holdings[i])[p]
        BY <3>2, <4>1 DEF SharesInv, TotalsFollow
      <4>3. log'[i + 1].first
        BY <1>7, <2>3, <3>2, <4>1 DEF m
      <4>4. QED
        BY <2>2, <4>1, <4>2, <4>3
    <3>3. CASE i > n /\ i # n + m
      <4>1. /\ i - n \in 1 .. m /\ (i - n) + 1 \in 1 .. m /\ (i - n) + 1 # 1
            /\ i = n + (i - n) /\ i + 1 = n + ((i - n) + 1)
        BY <2>1, <3>3
      <4>2. log'[i] = sealed[i - n] /\ log'[i + 1] = sealed[(i - n) + 1]
        BY <2>3, <4>1
      <4>3. log'[i].supply = supply /\ log'[i + 1].supply = supply /\ ~ log'[i + 1].first
        BY <1>7, <4>1, <4>2 DEF m
      <4>4. QED
        BY <3>3, <4>3
    <3>4. CASE i = n + m
      <4>1. m \in 1 .. m
        BY <2>1
      <4>2. log'[i].supply = supply
        BY <1>7, <2>3, <3>4, <4>1 DEF m
      <4>3. QED
        BY <2>4, <2>5, <3>4, <4>2
    <3>5. QED
      BY <2>1, <3>1, <3>2, <3>3, <3>4
  <2>7. ASSUME NEW p \in DOMAIN db.pools
        PROVE  \/ db.pools[p] = Sums(Shown(db))[p]
               \/ log' # <<>> /\ ~ Head(log').first /\ db.pools[p] = Head(log').supply[p]
    <3>1. \/ db.pools[p] = Sums(Shown(db))[p]
          \/ log # <<>> /\ ~ Head(log).first /\ db.pools[p] = Head(log).supply[p]
      BY DEF SharesInv, TotalsFollow
    <3>2. CASE log # <<>>
      <4>1. 1 \in 1 .. n /\ Head(log) = log[1]
        BY <1>2, <3>2, EmptySeq
      <4>2. log' # <<>> /\ log' \in Seq(Entry)
        BY <1>1, <1>2, <1>7, <2>1
      <4>3. Head(log') = log[1]
        BY <2>2, <4>1, <4>2
      <4>4. QED
        BY <3>1, <4>1, <4>2, <4>3
    <3>3. QED
      BY <3>1, <3>2
  <2>8. \A i \in 1 .. Len(log') :
          IF i = Len(log') \/ log'[i + 1].first
          THEN \A p \in DOMAIN holdings'[i] : log'[i].supply[p] = Sums(holdings'[i])[p]
          ELSE log'[i + 1].supply = log'[i].supply
    BY <2>1, <2>6
  <2>9. QED
    BY <1>1, <2>7, <2>8 DEF TotalsFollow, Shown, BalanceOf, Sums
<1>13. QED
  BY <1>9, <1>10, <1>11, <1>12 DEF SharesInv

-----------------------------------------------------------------------------
(* What the tables show after a handler *)

LEMMA ShownIs ==
  ASSUME NEW d, Tables(d)
  PROVE  /\ DOMAIN Shown(d) = DOMAIN d.pools
         /\ \A p \in DOMAIN d.pools :
              /\ Shown(d)[p] \in Balances
              /\ \A u \in Holders : Shown(d)[p][u] = BalanceOf(d, p, u)
         /\ Shown(d) \in Holding
<1>1. \A p \in DOMAIN d.pools : \A u \in Holders : BalanceOf(d, p, u) \in Nat
  BY DEF Tables, BalanceOf
<1>2. Shown(d) \in [DOMAIN d.pools -> Balances]
  BY <1>1 DEF Shown, Balances
<1>3. DOMAIN d.pools \subseteq Curated
  BY DEF Tables
<1>4. Shown(d) \in Holding
  BY <1>2, <1>3, IsHolding
<1>5. \A p \in DOMAIN d.pools : \A u \in Holders : Shown(d)[p][u] = BalanceOf(d, p, u)
  BY DEF Shown
<1>6. QED
  BY <1>2, <1>4, <1>5

LEMMA ShownSame ==
  ASSUME NEW d, NEW i, DOMAIN i.pools = DOMAIN d.pools, i.balances = d.balances
  PROVE  Shown(i) = Shown(d)
BY DEF Shown, BalanceOf

\* The balances of one account change, and of no other.
LEMMA ShownChange ==
  ASSUME NEW d, Tables(d), NEW p \in DOMAIN d.pools, NEW u \in Holders, NEW b \in Balances,
         \A w \in Holders \ {u} : b[w] = BalanceOf(d, p, w),
         NEW i, DOMAIN i.pools = DOMAIN d.pools,
         DOMAIN i.balances = DOMAIN d.balances \cup {<<p, u>>},
         i.balances[<<p, u>>] = b[u],
         \A x \in DOMAIN d.balances : x # <<p, u>> => i.balances[x] = d.balances[x]
  PROVE  Shown(i) = Put(Shown(d), p, b)
<1>1. \A w \in Holders : BalanceOf(i, p, w) = b[w]
  BY DEF BalanceOf
<1>2. \A q \in DOMAIN d.pools : \A w \in Holders :
        q # p => BalanceOf(i, q, w) = BalanceOf(d, q, w)
  BY DEF BalanceOf
<1>3. Shown(i)[p] = b
  BY <1>1 DEF Shown, Balances
<1>4. \A q \in DOMAIN d.pools : q # p => Shown(i)[q] = Shown(d)[q]
  BY <1>2 DEF Shown
<1>5. DOMAIN Shown(i) = DOMAIN d.pools /\ DOMAIN Shown(d) = DOMAIN d.pools
  BY DEF Shown
<1>6. Put(Shown(d), p, b) = [q \in DOMAIN d.pools |-> IF q = p THEN b ELSE Shown(d)[q]]
  BY <1>5 DEF Put
<1>7. Shown(i) = [q \in DOMAIN d.pools |-> Shown(i)[q]]
  BY <1>5 DEF Shown
<1>8. QED
  BY <1>3, <1>4, <1>6, <1>7

LEMMA CreditedShows ==
  ASSUME NEW d, Tables(d), NEW p \in DOMAIN d.pools, NEW u \in Holders, NEW n \in Nat
  PROVE  /\ Tables(Credited(d, p, u, n))
         /\ Shown(Credited(d, p, u, n)) = Put(Shown(d), p, Got(Shown(d)[p], u, n))
         /\ Credited(d, p, u, n).pools = d.pools
         /\ Credited(d, p, u, n).actions = d.actions
<1> DEFINE i == Credited(d, p, u, n)
           f == Put(d.balances, <<p, u>>, BalanceOf(d, p, u) + n)
           b == Got(Shown(d)[p], u, n)
<1>1. d = [pools |-> d.pools, balances |-> d.balances, actions |-> d.actions]
  BY DEF Tables
<1>2. i = [pools |-> d.pools, balances |-> f, actions |-> d.actions]
  BY <1>1 DEF Credited
<1>3. /\ DOMAIN f = DOMAIN d.balances \cup {<<p, u>>}
      /\ f[<<p, u>>] = BalanceOf(d, p, u) + n
      /\ \A x \in DOMAIN d.balances : x # <<p, u>> => f[x] = d.balances[x]
  BY DEF Put
<1>4. BalanceOf(d, p, u) \in Nat
  BY DEF Tables, BalanceOf
<1>5. f \in [DOMAIN f -> Nat]
  <2>1. d.balances \in [DOMAIN d.balances -> Nat] /\ BalanceOf(d, p, u) + n \in Nat
    BY <1>4 DEF Tables
  <2>2. QED
    BY <2>1, PutType
<1>6. Shown(d)[p] \in Balances /\ \A w \in Holders : Shown(d)[p][w] = BalanceOf(d, p, w)
  BY ShownIs
<1>7. /\ b \in Balances /\ b[u] = BalanceOf(d, p, u) + n
      /\ \A w \in Holders \ {u} : b[w] = BalanceOf(d, p, w)
  BY <1>4, <1>6 DEF Got, Balances
<1> HIDE DEF i, f, b
<1>8. i.pools = d.pools /\ i.balances = f /\ i.actions = d.actions
  BY <1>2
<1>9. Shown(i) = Put(Shown(d), p, b)
  BY <1>3, <1>7, <1>8, ShownChange
<1>10. Tables(i)
  BY <1>2, <1>3, <1>5, <1>8 DEF Tables
<1>11. QED
  BY <1>8, <1>9, <1>10 DEF i, b

LEMMA DebitedShows ==
  ASSUME NEW d, Tables(d), NEW p \in DOMAIN d.pools, NEW u \in Holders, NEW n \in Nat,
         <<p, u>> \in DOMAIN d.balances, Shown(d)[p][u] >= n
  PROVE  /\ Tables(Debited(d, p, u, n))
         /\ Shown(Debited(d, p, u, n)) = Put(Shown(d), p, Gave(Shown(d)[p], u, n))
         /\ Debited(d, p, u, n).pools = d.pools
         /\ Debited(d, p, u, n).actions = d.actions
<1> DEFINE i == Debited(d, p, u, n)
           f == [d.balances EXCEPT ![<<p, u>>] = @ - n]
           b == Gave(Shown(d)[p], u, n)
<1>1. d = [pools |-> d.pools, balances |-> d.balances, actions |-> d.actions]
  BY DEF Tables
<1>2. i = [pools |-> d.pools, balances |-> f, actions |-> d.actions]
  BY <1>1 DEF Debited
<1>3. Shown(d)[p] \in Balances /\ \A w \in Holders : Shown(d)[p][w] = BalanceOf(d, p, w)
  BY ShownIs
<1>4. BalanceOf(d, p, u) = d.balances[<<p, u>>] /\ BalanceOf(d, p, u) \in Nat
  BY DEF Tables, BalanceOf
<1>5. /\ DOMAIN f = DOMAIN d.balances
      /\ f[<<p, u>>] = BalanceOf(d, p, u) - n
      /\ \A x \in DOMAIN d.balances : x # <<p, u>> => f[x] = d.balances[x]
  BY <1>4
<1>6. BalanceOf(d, p, u) - n \in Nat
  BY <1>3, <1>4
<1>7. f \in [DOMAIN f -> Nat]
  BY <1>4, <1>6 DEF Tables
<1>8. /\ b \in Balances /\ b[u] = BalanceOf(d, p, u) - n
      /\ \A w \in Holders \ {u} : b[w] = BalanceOf(d, p, w)
  BY <1>3, <1>6 DEF Gave, Balances
<1> HIDE DEF i, f, b
<1>9. i.pools = d.pools /\ i.balances = f /\ i.actions = d.actions
  BY <1>2
<1>10. DOMAIN f = DOMAIN d.balances \cup {<<p, u>>}
  BY <1>5
<1>11. Shown(i) = Put(Shown(d), p, b)
  BY <1>5, <1>8, <1>9, <1>10, ShownChange
<1>12. Tables(i)
  BY <1>2, <1>5, <1>7, <1>9 DEF Tables
<1>13. QED
  BY <1>9, <1>11, <1>12 DEF i, b

LEMMA PutAgain ==
  ASSUME NEW h, NEW p, NEW b, NEW c
  PROVE  Put(Put(h, p, b), p, c) = Put(h, p, c)
BY DEF Put

\* What a handler makes of tables d: tables i that show k. It records at most
\* its event, and the total it writes is the supply at the end of the block or,
\* for a pool that is new, the sum of its balances; where it writes none that
\* sum stays as it was.
Shows(d, e, supply, i, k) ==
  /\ Tables(i) /\ Shown(i) = k
  /\ d.actions \subseteq i.actions /\ i.actions \subseteq d.actions \cup {e}
  /\ e \notin Op => i.actions = d.actions
  /\ e \in Op /\ e.pool \in Curated => \E a \in i.actions : a.tx = e.tx
  /\ \A p \in DOMAIN i.pools :
       \/ i.pools[p] = supply[p]
       \/ i.pools[p] = Sums(k)[p]
       \/ /\ p \in DOMAIN d.pools /\ i.pools[p] = d.pools[p]
          /\ Sums(k)[p] = Sums(Shown(d))[p]

LEMMA IdleShows ==
  ASSUME NEW d, Tables(d), NEW e, e \notin Op, NEW supply
  PROVE  Shows(d, e, supply, d, Shown(d))
BY DEF Shows

LEMMA PoolDeployedShows ==
  ASSUME NEW d, Tables(d), NEW e \in Deployment, NEW supply, NEW k, Follows(Shown(d), e, k)
  PROVE  Shows(d, e, supply, OnPoolDeployed(d, e), k)
<1> DEFINE i == OnPoolDeployed(d, e)
           zeros == [u \in Holders |-> 0]
<1>1. e.kind = "PoolDeployed" /\ e \notin Op
  BY OpsApart DEF Deployment
<1>2. CASE e.pool \notin Curated
  <2>1. k = Shown(d) /\ i = d
    BY <1>1, <1>2 DEF Follows, OnPoolDeployed
  <2>2. QED
    BY <1>1, <2>1, IdleShows
<1>3. CASE e.pool \in Curated
  <2> DEFINE p == e.pool
             f == Put(d.pools, p, 0)
  <2>1. p \notin DOMAIN Shown(d) /\ k = Put(Shown(d), p, zeros)
    BY <1>1, <1>3 DEF Follows
  <2>2. p \notin DOMAIN d.pools
    BY <2>1, ShownIs
  <2>3. d = [pools |-> d.pools, balances |-> d.balances, actions |-> d.actions]
    BY DEF Tables
  <2>4. i = [pools |-> f, balances |-> d.balances, actions |-> d.actions]
    BY <1>3, <2>2, <2>3 DEF OnPoolDeployed
  <2>5. DOMAIN f = DOMAIN d.pools \cup {p} /\ f[p] = 0 /\ \A q \in DOMAIN d.pools : f[q] = d.pools[q]
    BY <2>2 DEF Put
  <2>6. f \in [DOMAIN f -> Nat]
    <3>1. d.pools \in [DOMAIN d.pools -> Nat] /\ 0 \in Nat
      BY DEF Tables
    <3>2. QED
      BY <3>1, PutType
  <2> HIDE DEF f, i, zeros
  <2>7. i.pools = f /\ i.balances = d.balances /\ i.actions = d.actions
    BY <2>4
  <2>8. Tables(i)
    <3>1. i = [pools |-> i.pools, balances |-> i.balances, actions |-> i.actions]
      BY <2>4, <2>7
    <3>2. DOMAIN i.balances \subseteq (DOMAIN i.pools) \X Holders
      BY <2>5, <2>7 DEF Tables
    <3>3. i.balances \in [DOMAIN i.balances -> Nat]
      BY <2>7 DEF Tables
    <3>4. i.pools \in [DOMAIN i.pools -> Nat] /\ DOMAIN i.pools \subseteq Curated
      BY <1>3, <2>5, <2>6, <2>7 DEF Tables
    <3>5. QED
      BY <3>1, <3>2, <3>3, <3>4 DEF Tables
  <2>9. Shown(i)[p] = zeros
    <3>1. \A u \in Holders : <<p, u>> \notin DOMAIN d.balances
      BY <2>2 DEF Tables
    <3>2. \A u \in Holders : BalanceOf(i, p, u) = 0
      BY <2>7, <3>1 DEF BalanceOf
    <3>3. QED
      BY <2>5, <2>7, <3>2 DEF Shown, zeros
  <2>10. \A q \in DOMAIN d.pools : Shown(i)[q] = Shown(d)[q]
    BY <2>5, <2>7 DEF Shown, BalanceOf
  <2>11. DOMAIN k = DOMAIN d.pools \cup {p} /\ DOMAIN Shown(d) = DOMAIN d.pools
    <3>1. DOMAIN Shown(d) = DOMAIN d.pools
      BY ShownIs
    <3>2. QED
      BY <2>1, <3>1 DEF Put
  <2>12. Shown(i) = k
    <3>1. DOMAIN Shown(i) = DOMAIN d.pools \cup {p} /\ DOMAIN Shown(d) = DOMAIN d.pools
      BY <2>5, <2>7 DEF Shown
    <3>2. Shown(i) = [q \in DOMAIN Shown(i) |-> Shown(i)[q]]
      BY DEF Shown
    <3>3. k = [q \in DOMAIN d.pools \cup {p} |-> IF q = p THEN zeros ELSE Shown(d)[q]]
      BY <2>1, <3>1 DEF Put
    <3>4. QED
      BY <2>9, <2>10, <3>1, <3>2, <3>3
  <2>13. i.pools[p] = Sums(k)[p]
    <3>1. Sums(k)[p] = SumOver(zeros, Holders)
      BY <2>9, <2>12, <2>11 DEF Sums
    <3>2. SumOver(zeros, Holders) = 0
      BY SumOverZero DEF zeros
    <3>3. QED
      BY <2>5, <2>7, <3>1, <3>2
  <2>14. ASSUME NEW q \in DOMAIN d.pools
         PROVE  i.pools[q] = d.pools[q] /\ Sums(k)[q] = Sums(Shown(d))[q]
    <3>1. q \in DOMAIN k /\ q \in DOMAIN Shown(d)
      BY <2>11
    <3>2. QED
      BY <2>5, <2>7, <2>10, <2>12, <3>1 DEF Sums
  <2>15. DOMAIN i.pools = DOMAIN d.pools \cup {p}
    BY <2>5, <2>7
  <2>16. QED
    BY <1>1, <2>7, <2>8, <2>12, <2>13, <2>14, <2>15 DEF Shows, i
<1>4. QED
  BY <1>2, <1>3

\* What a deposit and a withdrawal do before they change the balance.
LEMMA RecordedShows ==
  ASSUME NEW d, Tables(d), NEW e \in Op, e.pool \in DOMAIN d.pools,
         NEW supply \in [Pools -> Nat]
  PROVE  LET i == Recorded([d EXCEPT !.pools[e.pool] = supply[e.pool]], e)
         IN  /\ Tables(i) /\ Shown(i) = Shown(d)
             /\ i.balances = d.balances
             /\ DOMAIN i.pools = DOMAIN d.pools
             /\ i.pools[e.pool] = supply[e.pool]
             /\ \A q \in DOMAIN d.pools : q # e.pool => i.pools[q] = d.pools[q]
             /\ d.actions \subseteq i.actions /\ i.actions \subseteq d.actions \cup {e}
             /\ \E a \in i.actions : a.tx = e.tx
<1> DEFINE f == [d.pools EXCEPT ![e.pool] = supply[e.pool]]
           c == [d EXCEPT !.pools[e.pool] = supply[e.pool]]
           i == Recorded(c, e)
<1>1. d = [pools |-> d.pools, balances |-> d.balances, actions |-> d.actions]
  BY DEF Tables
<1>2. c = [pools |-> f, balances |-> d.balances, actions |-> d.actions]
  BY <1>1
<1>3. /\ DOMAIN f = DOMAIN d.pools /\ f[e.pool] = supply[e.pool]
      /\ \A q \in DOMAIN d.pools : q # e.pool => f[q] = d.pools[q]
      /\ f \in [DOMAIN f -> Nat]
  BY ShareIndexerAssumption DEF Tables
<1> DEFINE A == IF \E a \in c.actions : a.tx = e.tx THEN c.actions ELSE c.actions \cup {e}
<1> HIDE DEF c, f
<1>4. i = [pools |-> f, balances |-> d.balances, actions |-> A] /\ c.actions = d.actions
  <2>1. i = [c EXCEPT !.actions = A]
    BY DEF Recorded
  <2> HIDE DEF A, i
  <2>2. QED
    BY <1>2, <2>1
<1> HIDE DEF i
<1>5. i.pools = f /\ i.balances = d.balances /\ i.actions = A
  BY <1>4
<1>6. Tables(i)
  BY <1>3, <1>4, <1>5 DEF Tables
<1>7. Shown(i) = Shown(d)
  BY <1>3, <1>5, ShownSame
<1>8. d.actions \subseteq i.actions /\ i.actions \subseteq d.actions \cup {e}
  BY <1>4, <1>5
<1>9. \E a \in i.actions : a.tx = e.tx
  BY <1>4, <1>5
<1>10. QED
  BY <1>3, <1>5, <1>6, <1>7, <1>8, <1>9 DEF i, c

LEMMA DepositShows ==
  ASSUME NEW d, Tables(d), NEW e \in Op, e.kind = "Deposit",
         NEW supply \in [Pools -> Nat], NEW k, Follows(Shown(d), e, k)
  PROVE  Shows(d, e, supply, OnDeposit(d, e, supply), k)
<1> DEFINE j == Recorded([d EXCEPT !.pools[e.pool] = supply[e.pool]], e)
           i == Credited(j, e.pool, e.user, e.shares)
           b == Got(Shown(d)[e.pool], e.user, e.shares)
<1>1. e.pool \in Pools /\ e.user \in Holders /\ e.shares \in Nat
  BY ShareIndexerAssumption DEF Op
<1>2. CASE e.pool \notin Curated
  <2>1. k = Shown(d) /\ e.pool \notin DOMAIN d.pools
    BY <1>2 DEF Follows, Tables
  <2>2. OnDeposit(d, e, supply) = d
    BY <2>1 DEF OnDeposit
  <2>3. QED
    BY <1>2, <2>1, <2>2 DEF Shows
<1>3. CASE e.pool \in Curated
  <2>1. e.pool \in DOMAIN d.pools /\ k = Put(Shown(d), e.pool, b)
    BY <1>3, ShownIs DEF Follows
  <2>2. OnDeposit(d, e, supply) = i
    BY <2>1 DEF OnDeposit
  <2>3. /\ Tables(j) /\ Shown(j) = Shown(d)
        /\ j.balances = d.balances
        /\ DOMAIN j.pools = DOMAIN d.pools
        /\ j.pools[e.pool] = supply[e.pool]
        /\ \A q \in DOMAIN d.pools : q # e.pool => j.pools[q] = d.pools[q]
        /\ d.actions \subseteq j.actions /\ j.actions \subseteq d.actions \cup {e}
        /\ \E a \in j.actions : a.tx = e.tx
    BY <2>1, RecordedShows
  <2> HIDE DEF j
  <2>4. e.pool \in DOMAIN j.pools
    BY <2>1, <2>3
  <2>5. /\ Tables(i) /\ Shown(i) = Put(Shown(j), e.pool, Got(Shown(j)[e.pool], e.user, e.shares))
        /\ i.pools = j.pools /\ i.actions = j.actions
    BY <1>1, <2>3, <2>4, CreditedShows
  <2> HIDE DEF i, b
  <2>6. Shown(i) = k
    BY <2>1, <2>3, <2>5 DEF b
  <2>7. ASSUME NEW q \in DOMAIN i.pools, q # e.pool
        PROVE  q \in DOMAIN d.pools /\ i.pools[q] = d.pools[q] /\ Sums(k)[q] = Sums(Shown(d))[q]
    <3>1. q \in DOMAIN d.pools /\ i.pools[q] = d.pools[q]
      BY <2>3, <2>5, <2>7
    <3>2. q \in DOMAIN Shown(d)
      BY <3>1, ShownIs
    <3>3. q \in DOMAIN k /\ k[q] = Shown(d)[q]
      BY <2>1, <2>7, <3>2 DEF Put
    <3>4. QED
      BY <3>1, <3>2, <3>3 DEF Sums
  <2>8. i.pools[e.pool] = supply[e.pool]
    BY <2>3, <2>5
  <2>9. Shows(d, e, supply, i, k)
    BY <2>3, <2>5, <2>6, <2>7, <2>8 DEF Shows
  <2>10. QED
    BY <2>2, <2>9
<1>4. QED
  BY <1>2, <1>3

LEMMA WithdrawShows ==
  ASSUME NEW d, Tables(d), NEW e \in Op, e.kind = "Withdraw",
         NEW supply \in [Pools -> Nat], NEW k, Follows(Shown(d), e, k), ~ Throws(d, e)
  PROVE  Shows(d, e, supply, OnWithdraw(d, e, supply), k)
<1> DEFINE j == Recorded([d EXCEPT !.pools[e.pool] = supply[e.pool]], e)
           i == Debited(j, e.pool, e.user, e.shares)
           b == Gave(Shown(d)[e.pool], e.user, e.shares)
<1>1. e.pool \in Pools /\ e.user \in Holders /\ e.shares \in Nat
  BY ShareIndexerAssumption DEF Op
<1>2. CASE e.pool \notin Curated
  <2>1. k = Shown(d) /\ e.pool \notin DOMAIN d.pools
    BY <1>2 DEF Follows, Tables
  <2>2. OnWithdraw(d, e, supply) = d
    BY <2>1 DEF OnWithdraw
  <2>3. QED
    BY <1>2, <2>1, <2>2 DEF Shows
<1>3. CASE e.pool \in Curated
  <2>1. /\ e.pool \in DOMAIN d.pools /\ k = Put(Shown(d), e.pool, b)
        /\ Shown(d)[e.pool][e.user] >= e.shares
    BY <1>3, ShownIs DEF Follows
  <2>2. <<e.pool, e.user>> \in DOMAIN d.balances
    BY <2>1 DEF Throws
  <2>3. OnWithdraw(d, e, supply) = i
    BY <2>1 DEF OnWithdraw
  <2>4. /\ Tables(j) /\ Shown(j) = Shown(d)
        /\ j.balances = d.balances
        /\ DOMAIN j.pools = DOMAIN d.pools
        /\ j.pools[e.pool] = supply[e.pool]
        /\ \A q \in DOMAIN d.pools : q # e.pool => j.pools[q] = d.pools[q]
        /\ d.actions \subseteq j.actions /\ j.actions \subseteq d.actions \cup {e}
        /\ \E a \in j.actions : a.tx = e.tx
    BY <2>1, RecordedShows
  <2> HIDE DEF j
  <2>5. /\ e.pool \in DOMAIN j.pools /\ <<e.pool, e.user>> \in DOMAIN j.balances
        /\ Shown(j)[e.pool][e.user] >= e.shares
    BY <2>1, <2>2, <2>4
  <2>6. /\ Tables(i) /\ Shown(i) = Put(Shown(j), e.pool, Gave(Shown(j)[e.pool], e.user, e.shares))
        /\ i.pools = j.pools /\ i.actions = j.actions
    BY <1>1, <2>4, <2>5, DebitedShows
  <2> HIDE DEF i, b
  <2>7. Shown(i) = k
    BY <2>1, <2>4, <2>6 DEF b
  <2>8. ASSUME NEW q \in DOMAIN i.pools, q # e.pool
        PROVE  q \in DOMAIN d.pools /\ i.pools[q] = d.pools[q] /\ Sums(k)[q] = Sums(Shown(d))[q]
    <3>1. q \in DOMAIN d.pools /\ i.pools[q] = d.pools[q]
      BY <2>4, <2>6, <2>8
    <3>2. q \in DOMAIN Shown(d)
      BY <3>1, ShownIs
    <3>3. q \in DOMAIN k /\ k[q] = Shown(d)[q]
      BY <2>1, <2>8, <3>2 DEF Put
    <3>4. QED
      BY <3>1, <3>2, <3>3 DEF Sums
  <2>9. i.pools[e.pool] = supply[e.pool]
    BY <2>4, <2>6
  <2>10. Shows(d, e, supply, i, k)
    BY <2>4, <2>6, <2>7, <2>8, <2>9 DEF Shows
  <2>11. QED
    BY <2>3, <2>10
<1>4. QED
  BY <1>2, <1>3

LEMMA TransferShows ==
  ASSUME NEW d, Tables(d), NEW e \in Move, NEW supply, NEW k,
         Follows(Shown(d), e, k), ~ Throws(d, e)
  PROVE  Shows(d, e, supply, OnTransfer(d, e), k)
<1> DEFINE p == e.pool
           j == Debited(d, p, e.from, e.shares)
           i == Credited(j, p, e.to, e.shares)
           a == Gave(Shown(d)[p], e.from, e.shares)
           b == Got(a, e.to, e.shares)
<1>1. /\ e.kind = "Transfer" /\ e.shares \in Nat /\ e \notin Op
      /\ e.from \in Holders /\ e.to \in Holders
  BY ShareIndexerAssumption, OpsApart DEF Move
<1>2. CASE Minted(e)
  <2>1. k = Shown(d) /\ OnTransfer(d, e) = d
    BY <1>1, <1>2 DEF Follows, OnTransfer
  <2>2. QED
    BY <1>1, <2>1, IdleShows
<1>3. CASE ~ Minted(e)
  <2>1. e.from \in Holders /\ e.to \in Holders
    BY <1>1, <1>3 DEF Minted
  <2>2. <<p, e.from>> \in DOMAIN d.balances
    BY <1>1, <1>3 DEF Throws
  <2>3. p \in DOMAIN d.pools /\ p \in Curated
    BY <2>2 DEF Tables
  <2>4. Shown(d)[p][e.from] >= e.shares /\ k = Put(Shown(d), p, b)
    BY <1>1, <1>3, <2>3 DEF Follows
  <2>5. OnTransfer(d, e) = i
    BY <1>3 DEF OnTransfer
  <2>6. /\ Tables(j) /\ Shown(j) = Put(Shown(d), p, a)
        /\ j.pools = d.pools /\ j.actions = d.actions
    BY <1>1, <2>1, <2>2, <2>3, <2>4, DebitedShows
  <2> HIDE DEF j, a
  <2>7. /\ Tables(i) /\ Shown(i) = Put(Shown(j), p, Got(Shown(j)[p], e.to, e.shares))
        /\ i.pools = j.pools /\ i.actions = j.actions
    <3>1. p \in DOMAIN j.pools
      BY <2>3, <2>6
    <3>2. QED
      BY <1>1, <2>1, <2>6, <3>1, CreditedShows
  <2> HIDE DEF i
  <2>8. Shown(j)[p] = a
    BY <2>6 DEF Put
  <2>9. Shown(i) = k
    BY <2>4, <2>6, <2>7, <2>8, PutAgain
  <2>10. Sums(k)[p] = Sums(Shown(d))[p]
    <3>1. Shown(d)[p] \in Balances /\ p \in DOMAIN Shown(d)
      BY <2>3, ShownIs
    <3>2. SumOver(b, Holders) = SumOver(Shown(d)[p], Holders)
      BY <1>1, <2>1, <2>4, <3>1, SumKept DEF a
    <3> HIDE DEF b
    <3>3. p \in DOMAIN k /\ k[p] = b
      BY <2>4 DEF Put
    <3>4. QED
      BY <3>1, <3>2, <3>3 DEF Sums
  <2>11. ASSUME NEW q \in DOMAIN d.pools PROVE Sums(k)[q] = Sums(Shown(d))[q]
    <3>1. CASE q # p
      <4>1. q \in DOMAIN Shown(d)
        BY ShownIs
      <4>2. q \in DOMAIN k /\ k[q] = Shown(d)[q]
        BY <2>4, <3>1, <4>1 DEF Put
      <4>3. QED
        BY <4>1, <4>2 DEF Sums
    <3>2. QED
      BY <2>10, <3>1
  <2>12. Shows(d, e, supply, i, k)
    BY <1>1, <2>6, <2>7, <2>9, <2>11 DEF Shows
  <2>13. QED
    BY <2>5, <2>12
<1>4. QED
  BY <1>2, <1>3

LEMMA SnapshotShows ==
  ASSUME NEW d, Tables(d), NEW e \in Snapshot, NEW supply \in [Pools -> Nat], NEW k,
         Follows(Shown(d), e, k)
  PROVE  Shows(d, e, supply, OnPoolSnapshot(d, e, supply), k)
<1> DEFINE i == OnPoolSnapshot(d, e, supply)
           f == [p \in DOMAIN d.pools |-> IF p \in e.due THEN supply[p] ELSE d.pools[p]]
<1>1. e.kind = "PoolSnapshot" /\ e \notin Op
  BY OpsApart DEF Snapshot
<1>2. k = Shown(d)
  BY <1>1 DEF Follows
<1>3. d = [pools |-> d.pools, balances |-> d.balances, actions |-> d.actions]
  BY DEF Tables
<1>4. i = [pools |-> f, balances |-> d.balances, actions |-> d.actions]
  BY <1>3 DEF OnPoolSnapshot
<1>5. /\ f \in [DOMAIN f -> Nat] /\ DOMAIN f = DOMAIN d.pools
      /\ \A p \in DOMAIN f : f[p] = supply[p] \/ f[p] = d.pools[p]
  BY ShareIndexerAssumption DEF Tables
<1> HIDE DEF i, f
<1>6. i.pools = f /\ i.balances = d.balances /\ i.actions = d.actions
  BY <1>4
<1>7. Tables(i)
  BY <1>4, <1>5, <1>6 DEF Tables
<1>8. Shown(i) = Shown(d)
  BY <1>5, <1>6, ShownSame
<1>9. Shows(d, e, supply, i, k)
  BY <1>1, <1>2, <1>5, <1>6, <1>7, <1>8 DEF Shows
<1>10. QED
  BY <1>9 DEF i

LEMMA HandlerShows ==
  ASSUME NEW d, Tables(d), NEW e \in Event, NEW supply \in [Pools -> Nat], NEW k,
         Follows(Shown(d), e, k), ~ Throws(d, e)
  PROVE  Shows(d, e, supply, Indexed(d, e, supply), k)
<1>1. CASE e \in Deployment
  <2>1. e.kind = "PoolDeployed"
    BY <1>1 DEF Deployment
  <2>2. Indexed(d, e, supply) = OnPoolDeployed(d, e)
    BY <2>1 DEF Indexed
  <2>3. QED
    BY <1>1, <2>2, PoolDeployedShows
<1>2. CASE e \in Op
  <2>1. e.kind = "Deposit" \/ e.kind = "Withdraw"
    BY <1>2 DEF Op
  <2>2. CASE e.kind = "Deposit"
    BY <1>2, <2>2, DepositShows DEF Indexed
  <2>3. CASE e.kind = "Withdraw"
    BY <1>2, <2>3, WithdrawShows DEF Indexed
  <2>4. QED
    BY <2>1, <2>2, <2>3
<1>3. CASE e \in Move
  <2>1. e.kind = "Transfer"
    BY <1>3 DEF Move
  <2>2. Indexed(d, e, supply) = OnTransfer(d, e)
    BY <2>1 DEF Indexed
  <2>3. QED
    BY <1>3, <2>2, TransferShows
<1>4. CASE e \in Snapshot
  <2>1. e.kind = "PoolSnapshot"
    BY <1>4 DEF Snapshot
  <2>2. Indexed(d, e, supply) = OnPoolSnapshot(d, e, supply)
    BY <2>1 DEF Indexed
  <2>3. QED
    BY <1>4, <2>2, SnapshotShows
<1>5. QED
  BY <1>1, <1>2, <1>3, <1>4 DEF Event

-----------------------------------------------------------------------------
(* Indexing an event *)

\* The next event and the supplies its handler reads are those of the first
\* entry of the log, and after it the other events are pending.
LEMMA NextEvent ==
  ASSUME SharesTypes, log # <<>>
  PROVE  /\ Len(log) \in Nat \ {0} /\ Head(log) = log[1]
         /\ Head(log).event \in Event /\ Head(log).supply \in [Pools -> Nat]
         /\ Pending \in Seq(Event) /\ Pending # <<>> /\ Pending[1] = Head(log).event
         /\ Len(Pending) = Len(log) + Len(block) /\ Len(block) \in Nat
         /\ Tail(log) \in Seq(Entry) /\ Len(Tail(log)) = Len(log) - 1
         /\ \A i \in 1 .. Len(log) - 1 : Tail(log)[i] = log[i + 1]
<1>1. log \in Seq(Entry) /\ block \in Seq(Event)
  BY DEF SharesTypes
<1>2. Len(log) \in Nat \ {0} /\ Head(log) = log[1] /\ Len(block) \in Nat
  BY <1>1, EmptySeq
<1>3. log[1] \in Entry
  BY <1>1, <1>2
<1>4. Head(log).event \in Event /\ Head(log).supply \in [Pools -> Nat]
  BY <1>2, <1>3 DEF Entry
<1>5. /\ Pending \in Seq(Event) /\ Len(Pending) = Len(log) + Len(block)
      /\ \A i \in 1 .. Len(log) + Len(block) :
           Pending[i] = IF i <= Len(log) THEN log[i].event ELSE block[i - Len(log)]
  BY <1>1, PendingIs DEF Pending
<1>6. Pending[1] = Head(log).event /\ Pending # <<>>
  BY <1>2, <1>5
<1>7. /\ Tail(log) \in Seq(Entry) /\ Len(Tail(log)) = Len(log) - 1
      /\ \A i \in 1 .. Len(log) - 1 : Tail(log)[i] = log[i + 1]
  BY <1>1, <1>2
<1>8. QED
  BY <1>2, <1>4, <1>5, <1>6, <1>7

LEMMA PendingRest ==
  ASSUME SharesTypes, log # <<>>, log' = Tail(log), block' = block
  PROVE  Pending' = Tail(Pending)
<1> DEFINE n == Len(log)
           m == Len(block)
<1>1. log \in Seq(Entry) /\ block \in Seq(Event)
  BY DEF SharesTypes
<1>2. /\ n \in Nat \ {0} /\ m \in Nat /\ Pending \in Seq(Event) /\ Pending # <<>>
      /\ Len(Pending) = n + m /\ Tail(log) \in Seq(Entry) /\ Len(Tail(log)) = n - 1
      /\ \A i \in 1 .. n - 1 : Tail(log)[i] = log[i + 1]
  BY NextEvent
<1>3. \A i \in 1 .. n + m : Pending[i] = IF i <= n THEN log[i].event ELSE block[i - n]
  BY <1>1, PendingIs DEF Pending
<1>4. log' \in Seq(Entry) /\ block' \in Seq(Event) /\ Len(log') = n - 1 /\ Len(block') = m
  BY <1>1, <1>2
<1>5. /\ Pending' \in Seq(Event) /\ Len(Pending') = (n - 1) + m
      /\ \A i \in 1 .. (n - 1) + m :
           Pending'[i] = IF i <= n - 1 THEN log'[i].event ELSE block'[i - (n - 1)]
  <2>1. /\ Pending' \in Seq(Event) /\ Len(Pending') = Len(log') + Len(block')
        /\ \A i \in 1 .. Len(log') + Len(block') :
             Pending'[i] = IF i <= Len(log') THEN log'[i].event ELSE block'[i - Len(log')]
    BY <1>4, PendingIs DEF Pending
  <2>2. QED
    BY <1>4, <2>1
<1>6. /\ Tail(Pending) \in Seq(Event) /\ Len(Tail(Pending)) = (n - 1) + m
      /\ \A i \in 1 .. (n - 1) + m : Tail(Pending)[i] = Pending[i + 1]
  <2>1. /\ Tail(Pending) \in Seq(Event) /\ Len(Tail(Pending)) = Len(Pending) - 1
        /\ \A i \in 1 .. Len(Pending) - 1 : Tail(Pending)[i] = Pending[i + 1]
    BY <1>2
  <2>2. Len(Pending) - 1 = (n - 1) + m
    BY <1>2
  <2>3. QED
    BY <2>1, <2>2
<1>7. ASSUME NEW i \in 1 .. (n - 1) + m PROVE Pending'[i] = Tail(Pending)[i]
  <2>1. i + 1 \in 1 .. n + m /\ (i <= n - 1 <=> i + 1 <= n) /\ (i + 1) - n = i - (n - 1)
    BY <1>2
  <2>2. Pending[i + 1] = IF i + 1 <= n THEN log[i + 1].event ELSE block[(i + 1) - n]
    BY <1>3, <2>1
  <2>3. Pending'[i] = IF i <= n - 1 THEN log'[i].event ELSE block[i - (n - 1)]
    BY <1>5
  <2>4. i <= n - 1 => log'[i] = log[i + 1]
    BY <1>2
  <2>5. QED
    BY <1>6, <2>1, <2>2, <2>3, <2>4
<1>8. QED
  BY <1>5, <1>6, <1>7, SeqEqual

LEMMA IndexShows ==
  ASSUME SharesInv, Index
  PROVE  /\ holdings # <<>> /\ holdings[1] \in Holding
         /\ Len(log) <= Len(holdings)
         /\ Follows(Shown(db), Head(log).event, holdings[1])
         /\ Shows(db, Head(log).event, Head(log).supply, db', holdings[1])
<1>1. log # <<>> /\ SharesTypes /\ holdings \in Seq(Holding) /\ Tables(db)
  BY DEF Index, SharesInv, SharesTypes
<1>2. /\ Len(log) \in Nat \ {0} /\ Head(log).event \in Event /\ Head(log).supply \in [Pools -> Nat]
      /\ Pending \in Seq(Event) /\ Pending[1] = Head(log).event
      /\ Len(Pending) = Len(log) + Len(block) /\ Len(block) \in Nat
  BY <1>1, NextEvent
<1>3. Chain(Shown(db), Pending, holdings)
  BY DEF SharesInv, BalancesFollow
<1>4. Len(holdings) = Len(log) + Len(block)
  BY <1>2, <1>3 DEF Chain
<1>5. holdings # <<>> /\ holdings[1] \in Holding
  BY <1>1, <1>2, <1>4
<1>6. Follows(Shown(db), Head(log).event, holdings[1])
  BY <1>1, <1>2, <1>3, <1>5, ChainRest
<1>7. Shows(db, Head(log).event, Head(log).supply, db', holdings[1])
  BY <1>1, <1>2, <1>6, HandlerShows DEF Index
<1>8. QED
  BY <1>2, <1>4, <1>5, <1>6, <1>7

LEMMA IndexKeeps ==
  ASSUME SharesInv, Index
  PROVE  SharesInv'
<1> DEFINE n == Len(log)
<1>1. /\ log # <<>> /\ log' = Tail(log) /\ holdings' = Tail(holdings) /\ block' = block
      /\ UNCHANGED tokenVars /\ tx' = tx /\ operations' = operations
  BY DEF Index
<1>2. /\ SharesTypes /\ holdings \in Seq(Holding) /\ operations \subseteq Op
      /\ TokensOK' /\ Holdings' = Holdings
  <2>1. SharesTypes /\ TokensOK
    BY DEF SharesInv, SharesTypes
  <2>2. TokensOK' /\ Kept' = Kept /\ deployed' = deployed
    BY <1>1, <2>1, TokensSame DEF tokenVars
  <2>3. QED
    BY <2>1, <2>2, HoldingsAfter DEF Holdings, SharesTypes
<1>3. PICK e, supply, k :
        /\ e = Head(log).event /\ supply = Head(log).supply /\ k = holdings[1]
  OBVIOUS
<1>4. /\ n \in Nat \ {0} /\ Head(log) = log[1]
      /\ Pending \in Seq(Event) /\ Pending # <<>> /\ Pending[1] = e
      /\ Tail(log) \in Seq(Entry) /\ Len(Tail(log)) = n - 1
      /\ \A i \in 1 .. n - 1 : Tail(log)[i] = log[i + 1]
  BY <1>1, <1>2, <1>3, NextEvent
<1>5. /\ holdings # <<>> /\ n <= Len(holdings) /\ Follows(Shown(db), e, k)
      /\ Shows(db, e, supply, db', k)
  BY <1>3, IndexShows
<1>6. Pending' = Tail(Pending)
  BY <1>1, <1>2, PendingRest
<1>7. SharesTypes'
  <2>1. Tables(db')
    BY <1>5 DEF Shows
  <2>2. holdings' \in Seq(Holding) /\ log' \in Seq(Entry)
    BY <1>1, <1>2, <1>4, <1>5
  <2>3. QED
    BY <1>1, <1>2, <2>1, <2>2 DEF SharesTypes, Tables
<1>8. BalancesFollow'
  <2>1. Chain(Shown(db), Pending, holdings) /\ Now(Shown(db), holdings) = Holdings
    BY DEF SharesInv, BalancesFollow
  <2>2. Chain(k, Tail(Pending), Tail(holdings)) /\ Now(k, Tail(holdings)) = Holdings
    BY <1>2, <1>3, <1>4, <1>5, <2>1, ChainRest
  <2>3. Shown(db') = k
    BY <1>5 DEF Shows
  <2>4. Chain(Shown(db'), Pending', holdings') /\ Now(Shown(db'), holdings') = Holdings'
    BY <1>1, <1>2, <1>6, <2>2, <2>3
  <2>5. QED
    BY <2>4 DEF BalancesFollow, Shown, BalanceOf, Now
<1>9. ActionsFollow'
  <2>1. Range(Pending) = {e} \cup Range(Pending')
    <3>1. Pending = <<e>> \o Tail(Pending) /\ <<e>> \in Seq(Event) /\ Tail(Pending) \in Seq(Event)
      <4>1. e \in Event
        BY <1>1, <1>2, <1>3, NextEvent
      <4>2. Tail(Pending) \in Seq(Event) /\ Len(Tail(Pending)) = Len(Pending) - 1
        BY <1>4
      <4>3. \A i \in 1 .. Len(Pending) - 1 : Tail(Pending)[i] = Pending[i + 1]
        BY <1>4
      <4>4. Len(<<e>> \o Tail(Pending)) = Len(Pending)
        BY <1>4, <4>1, <4>2
      <4>5. ASSUME NEW i \in 1 .. Len(Pending) PROVE (<<e>> \o Tail(Pending))[i] = Pending[i]
        BY <1>4, <4>1, <4>2, <4>3
      <4>6. <<e>> \o Tail(Pending) \in Seq(Event)
        BY <4>1, <4>2
      <4>7. Pending = <<e>> \o Tail(Pending)
        BY <1>4, <4>4, <4>5, <4>6, SeqEqual
      <4>8. QED
        BY <4>1, <4>2, <4>7
    <3>2. Range(<<e>> \o Tail(Pending)) = Range(<<e>>) \cup Range(Tail(Pending))
      BY <3>1, RangeJoins
    <3>3. Range(<<e>>) = {e}
      BY DEF Range
    <3>4. QED
      BY <1>6, <3>1, <3>2, <3>3
  <2>2. \A x \in Range(Pending') : x \in Op => x \in operations
    BY <2>1 DEF SharesInv, ActionsFollow
  <2>3. db'.actions \subseteq operations
    <3>1. db.actions \subseteq operations /\ (e \in Op => e \in operations)
      BY <2>1 DEF SharesInv, ActionsFollow
    <3>2. QED
      BY <1>5, <3>1 DEF Shows
  <2>4. ASSUME NEW op \in operations, op.pool \in Curated
        PROVE  (\E a \in db'.actions : a.tx = op.tx) \/ op \in Range(Pending')
    <3>1. (\E a \in db.actions : a.tx = op.tx) \/ op \in Range(Pending)
      BY <2>4 DEF SharesInv, ActionsFollow
    <3>2. op = e => \E a \in db'.actions : a.tx = op.tx
      BY <1>2, <1>5, <2>4 DEF Shows
    <3>3. db.actions \subseteq db'.actions
      BY <1>5 DEF Shows
    <3>4. QED
      BY <2>1, <3>1, <3>2, <3>3
  <2>5. \A op \in operations : op.tx \in 1 .. tx
    BY DEF SharesInv, ActionsFollow
  <2>6. QED
    BY <1>1, <2>2, <2>3, <2>4, <2>5 DEF ActionsFollow
<1>10. TotalsFollow'
  <2>1. ASSUME NEW i \in 1 .. n
        PROVE  IF i = n \/ log[i + 1].first
               THEN \A p \in DOMAIN holdings[i] : log[i].supply[p] = Sums(holdings[i])[p]
               ELSE log[i + 1].supply = log[i].supply
    BY <2>1 DEF SharesInv, TotalsFollow
  <2>2. /\ Len(log') = n - 1 /\ log' \in Seq(Entry)
        /\ \A i \in 1 .. n - 1 : log'[i] = log[i + 1] /\ holdings'[i] = holdings[i + 1]
    <3>1. \A i \in 1 .. n - 1 : Tail(holdings)[i] = holdings[i + 1]
      BY <1>2, <1>4, <1>5
    <3>2. QED
      BY <1>1, <1>4, <3>1
  <2>3. ASSUME NEW i \in 1 .. n - 1
        PROVE  IF i = n - 1 \/ log'[i + 1].first
               THEN \A p \in DOMAIN holdings'[i] : log'[i].supply[p] = Sums(holdings'[i])[p]
               ELSE log'[i + 1].supply = log'[i].supply
    <3>1. i + 1 \in 1 .. n /\ (i = n - 1 <=> i + 1 = n)
      BY <1>4
    <3>2. i # n - 1 => i + 1 \in 1 .. n - 1
      <4>1. n \in Nat
        BY <1>4
      <4> HIDE DEF n
      <4>2. QED
        BY <4>1
    <3>3. IF i + 1 = n \/ log[(i + 1) + 1].first
          THEN \A p \in DOMAIN holdings[i + 1] : log[i + 1].supply[p] = Sums(holdings[i + 1])[p]
          ELSE log[(i + 1) + 1].supply = log[i + 1].supply
      BY <2>1, <3>1
    <3>4. log'[i] = log[i + 1] /\ holdings'[i] = holdings[i + 1]
      BY <2>2
    <3>5. i # n - 1 => log'[i + 1] = log[(i + 1) + 1]
      BY <2>2, <3>2
    <3>6. QED
      BY <3>1, <3>3, <3>4, <3>5
  <2>4. /\ DOMAIN db'.pools = DOMAIN k /\ Shown(db') = k
        /\ DOMAIN db.pools = DOMAIN Shown(db)
    <3>1. Tables(db) /\ Tables(db') /\ Shown(db') = k
      BY <1>2, <1>5 DEF Shows, SharesTypes
    <3>2. DOMAIN Shown(db') = DOMAIN db'.pools /\ DOMAIN Shown(db) = DOMAIN db.pools
      BY <3>1, ShownIs
    <3>3. QED
      BY <3>1, <3>2
  <2>5. ASSUME NEW p \in DOMAIN db'.pools
        PROVE  \/ db'.pools[p] = Sums(k)[p]
               \/ log' # <<>> /\ ~ Head(log').first /\ db'.pools[p] = Head(log').supply[p]
    <3>1. \/ db'.pools[p] = supply[p]
          \/ db'.pools[p] = Sums(k)[p]
          \/ /\ p \in DOMAIN db.pools /\ db'.pools[p] = db.pools[p]
             /\ Sums(k)[p] = Sums(Shown(db))[p]
      BY <1>5 DEF Shows
    <3>2. p \in DOMAIN db.pools =>
            db.pools[p] = Sums(Shown(db))[p] \/ db.pools[p] = supply[p]
      BY <1>3 DEF SharesInv, TotalsFollow
    <3>3. db'.pools[p] = supply[p] \/ db'.pools[p] = Sums(k)[p]
      BY <3>1, <3>2
    <3>4. CASE n = 1 \/ log[2].first
      <4>1. supply[p] = Sums(k)[p]
        <5>1. 1 \in 1 .. n /\ 1 + 1 = 2
          BY <1>4
        <5>2. \A q \in DOMAIN holdings[1] : log[1].supply[q] = Sums(holdings[1])[q]
          BY <2>1, <3>4, <5>1
        <5>3. QED
          BY <1>3, <1>4, <2>4, <5>2
      <4>2. QED
        BY <3>3, <4>1
    <3>5. CASE ~ (n = 1 \/ log[2].first)
      <4>1. 1 \in 1 .. n /\ 1 \in 1 .. n - 1 /\ 1 + 1 = 2
        BY <1>4, <3>5
      <4>2. log[2].supply = log[1].supply
        BY <2>1, <3>5, <4>1
      <4>3. log' # <<>> /\ Head(log') = log[2]
        BY <2>2, <4>1
      <4>4. QED
        BY <1>3, <1>4, <3>3, <3>5, <4>2, <4>3
    <3>6. QED
      BY <3>4, <3>5
  <2>6. \A i \in 1 .. Len(log') :
          IF i = Len(log') \/ log'[i + 1].first
          THEN \A p \in DOMAIN holdings'[i] : log'[i].supply[p] = Sums(holdings'[i])[p]
          ELSE log'[i + 1].supply = log'[i].supply
    BY <2>2, <2>3
  <2>7. \A p \in DOMAIN db'.pools :
          \/ db'.pools[p] = Sums(Shown(db'))[p]
          \/ log' # <<>> /\ ~ Head(log').first /\ db'.pools[p] = Head(log').supply[p]
    BY <2>4, <2>5
  <2>8. QED
    BY <2>6, <2>7 DEF TotalsFollow, Shown, BalanceOf, Sums
<1>11. QED
  BY <1>7, <1>8, <1>9, <1>10 DEF SharesInv

-----------------------------------------------------------------------------
(* The invariant holds *)

LEMMA SharesStart == Init => SharesInv
<1> SUFFICES ASSUME Init PROVE SharesInv
  OBVIOUS
<1>1. /\ deployed = {} /\ shares = [p \in Pools |-> [u \in Holders |-> 0]] /\ tx = 0
      /\ totalSupply = [p \in Pools |-> 0] /\ burnt = [p \in Pools |-> [u \in Holders |-> 0]]
      /\ operations = {} /\ holdings = <<>> /\ block = <<>> /\ log = <<>>
      /\ db = [pools |-> <<>>, balances |-> <<>>, actions |-> {}]
  BY DEF Init
<1>2. /\ db.pools = <<>> /\ db.balances = <<>> /\ db.actions = {} /\ DOMAIN db.pools = {}
      /\ DOMAIN db.balances = {}
  BY <1>1
<1>3. Tables(db)
  BY <1>1, <1>2 DEF Tables
<1>4. Pending = <<>>
  BY <1>1 DEF Pending
<1>5. Holdings = Shown(db)
  BY <1>1, <1>2 DEF Holdings, HoldingsOf, Shown
<1>6. SharesTypes
  <2>1. \A p \in Pools : Kept[p] = [u \in Holders |-> 0]
    BY <1>1 DEF Kept
  <2>2. SumOver([u \in Holders |-> 0], Holders) = 0
    BY SumOverZero
  <2>3. \A p \in Pools : Kept[p] \in Balances /\ totalSupply[p] = SumOver(Kept[p], Holders)
    BY <1>1, <2>1, <2>2 DEF Balances
  <2>4. \A p \in Pools : \A u \in Accounts : burnt[p][u] >= 0
    BY <1>1, HoldersFinite
  <2>5. TokensOK
    BY <1>1, <2>3, <2>4 DEF TokensOK, Balances
  <2>6. QED
    BY <1>1, <1>3, <2>5, ShareIndexerAssumption DEF SharesTypes
<1>7. BalancesFollow
  BY <1>1, <1>4, <1>5, ChainOfNone DEF BalancesFollow
<1>8. ActionsFollow
  BY <1>1, <1>2, <1>4 DEF ActionsFollow, Range
<1>9. TotalsFollow
  BY <1>1, <1>2 DEF TotalsFollow
<1>10. QED
  BY <1>6, <1>7, <1>8, <1>9 DEF SharesInv

LEMMA SharesStep ==
  ASSUME SharesInv, [Next]_vars
  PROVE  SharesInv'
<1>1. CASE UNCHANGED vars
  <2>1. UNCHANGED <<tokenVars, tx, operations, holdings, block, log, db>>
    BY <1>1 DEF vars, chainVars
  <2>2. TokensOK' /\ UNCHANGED <<Pending, Holdings>>
    <3>1. TokensOK' /\ Kept' = Kept /\ deployed' = deployed
      BY <2>1, TokensSame DEF SharesInv, SharesTypes, tokenVars
    <3>2. QED
      BY <2>1, <3>1, HoldingsAfter DEF Pending, Holdings
  <2>3. SharesTypes'
    BY <2>1, <2>2 DEF SharesInv, SharesTypes, Tables
  <2>4. BalancesFollow'
    BY <2>1, <2>2 DEF SharesInv, BalancesFollow, Shown, BalanceOf
  <2>5. ActionsFollow'
    BY <2>1, <2>2 DEF SharesInv, ActionsFollow
  <2>6. TotalsFollow'
    BY <2>1 DEF SharesInv, TotalsFollow, Shown, BalanceOf, Sums
  <2>7. QED
    BY <2>3, <2>4, <2>5, <2>6 DEF SharesInv
<1>2. ASSUME NEW p \in Pools, PoolStep(p) PROVE SharesInv'
  <2>1. PICK t \in {tx, tx + 1}, n \in Amounts :
          \/ DeployPool(p, t, n)
          \/ \E u \in Holders : Deposit(p, t, u, n) \/ Withdraw(p, t, u, n)
          \/ \E u, v \in Holders : Transfer(p, t, u, v, n)
    BY <1>2 DEF PoolStep
  <2>2. CASE DeployPool(p, t, n)
    BY <2>2, DeployPoolKeeps
  <2>3. ASSUME NEW u \in Holders, Deposit(p, t, u, n) PROVE SharesInv'
    BY <2>3, DepositKeeps
  <2>4. ASSUME NEW u \in Holders, Withdraw(p, t, u, n) PROVE SharesInv'
    BY <2>4, WithdrawKeeps
  <2>5. ASSUME NEW u \in Holders, NEW v \in Holders, Transfer(p, t, u, v, n) PROVE SharesInv'
    BY <2>5, TransferKeeps
  <2>6. QED
    BY <2>1, <2>2, <2>3, <2>4, <2>5
<1>3. ASSUME NEW due \in SUBSET Curated, EndBlock(due) PROVE SharesInv'
  BY <1>3, EndBlockKeeps
<1>4. CASE Index
  BY <1>4, IndexKeeps
<1>5. QED
  BY <1>1, <1>2, <1>3, <1>4 DEF Next

LEMMA SharesInvariant == Spec => []SharesInv
<1>1. SharesInv /\ [Next]_vars => SharesInv'
  BY SharesStep
<1>2. QED
  BY <1>1, SharesStart, PTL DEF Spec

-----------------------------------------------------------------------------
(* Theorems *)

\* Every balance and total in the tables is a natural number, of a pool and an
\* account there is, and every action is of a transaction there was.
THEOREM ShareIndexerTypes == Spec => []ShareIndexerTypeOK
<1>1. SharesInv => ShareIndexerTypeOK
  <2> SUFFICES ASSUME SharesInv PROVE ShareIndexerTypeOK
    OBVIOUS
  <2>1. /\ deployed \subseteq Pools /\ shares \in [Pools -> [Holders -> Nat]]
        /\ totalSupply \in [Pools -> Nat] /\ tx \in 0 .. MAX_TX
    BY DEF SharesInv, SharesTypes, TokensOK, Balances
  <2>2. DOMAIN db.pools \subseteq Curated /\ \A p \in DOMAIN db.pools : db.pools[p] \in Nat
    BY DEF SharesInv, SharesTypes, Tables
  <2>3. DOMAIN db.balances \subseteq Pools \X Holders
    BY <2>2, ShareIndexerAssumption DEF SharesInv, SharesTypes, Tables
  <2>4. \A x \in DOMAIN db.balances : db.balances[x] \in Nat
    BY DEF SharesInv, SharesTypes, Tables
  <2>5. \A a \in db.actions : a.tx \in 1 .. tx
    BY DEF SharesInv, ActionsFollow
  <2>6. QED
    BY <2>1, <2>2, <2>3, <2>4, <2>5 DEF ShareIndexerTypeOK
<1>2. QED
  BY <1>1, SharesInvariant, PTL

\* Once a block is indexed as a whole the balances of a pool add up to its
\* total, for any number of accounts and whatever the block did.
THEOREM TotalsAgree == Spec => []TotalsAddUp
<1>1. SharesInv => TotalsAddUp
  <2> SUFFICES ASSUME SharesInv, log = <<>> \/ Head(log).first, NEW p \in DOMAIN db.pools
               PROVE  db.pools[p] = SumOver(Shown(db)[p], Holders)
    BY DEF TotalsAddUp
  <2>1. db.pools[p] = Sums(Shown(db))[p]
    BY DEF SharesInv, TotalsFollow
  <2>2. p \in DOMAIN Shown(db)
    BY ShownIs DEF SharesInv, SharesTypes
  <2>3. QED
    BY <2>1, <2>2 DEF Sums
<1>2. QED
  BY <1>1, SharesInvariant, PTL

\* Every transaction that deposits to or withdraws from a curated pool has its
\* row among the actions or is still pending, and each row is an operation.
THEOREM ActionsRecorded == Spec => []TransactionsAreRecorded
<1>1. SharesInv => TransactionsAreRecorded
  BY DEF SharesInv, ActionsFollow, TransactionsAreRecorded
<1>2. QED
  BY <1>1, SharesInvariant, PTL

\* Whoever gives shares of a curated pool has a row: what is shown of an account
\* without one is zero, and nobody gives more than is shown.
LEMMA GiversHaveRows ==
  ASSUME SharesInv
  PROVE  HoldersHaveRows
<1> SUFFICES ASSUME log # <<>>, Throws(db, Head(log).event),
                    Head(log).event.shares # 0, Head(log).event.pool \in Curated
             PROVE  FALSE
  BY DEF HoldersHaveRows
<1> DEFINE e == Head(log).event
           k == holdings[1]
<1>1. SharesTypes /\ holdings \in Seq(Holding) /\ Tables(db)
  BY DEF SharesInv, SharesTypes
<1>2. /\ Len(log) \in Nat \ {0} /\ e \in Event /\ Pending \in Seq(Event) /\ Pending[1] = e
      /\ Len(Pending) = Len(log) + Len(block) /\ Len(block) \in Nat
  BY <1>1, NextEvent
<1>3. Chain(Shown(db), Pending, holdings)
  BY DEF SharesInv, BalancesFollow
<1>4. Len(holdings) = Len(log) + Len(block)
  BY <1>2, <1>3 DEF Chain
<1>5. holdings # <<>>
  BY <1>1, <1>2, <1>4
<1> HIDE DEF e, k
<1>6. Follows(Shown(db), e, k)
  BY <1>1, <1>2, <1>3, <1>5, ChainRest DEF k
<1>7. Throws(db, e) /\ e.shares # 0 /\ e.pool \in Curated
  BY DEF e
<1>8. ASSUME NEW p \in DOMAIN db.pools, NEW u \in Holders, NEW n \in Amounts \ {0},
             Shown(db)[p][u] >= n
      PROVE  <<p, u>> \in DOMAIN db.balances
  <2>1. Shown(db)[p][u] = BalanceOf(db, p, u)
    BY <1>1, ShownIs
  <2>2. n \in Nat \ {0}
    BY ShareIndexerAssumption
  <2>3. BalanceOf(db, p, u) # 0
    BY <1>8, <2>1, <2>2
  <2>4. QED
    BY <2>3 DEF BalanceOf
<1>9. DOMAIN Shown(db) = DOMAIN db.pools
  BY <1>1, ShownIs
<1>10. CASE e.kind = "Withdraw"
  <2>1. e \in Op
    BY <1>2, <1>10 DEF Event, Deployment, Move, Snapshot
  <2>2. e.pool \in Curated /\ e.user \in Holders /\ e.shares \in Amounts \ {0}
    BY <1>7, <2>1 DEF Op
  <2>3. e.pool \in DOMAIN db.pools /\ Shown(db)[e.pool][e.user] >= e.shares
    BY <1>6, <1>9, <1>10, <2>2 DEF Follows
  <2>4. QED
    BY <1>7, <1>8, <1>10, <2>2, <2>3 DEF Throws
<1>11. CASE e.kind = "Transfer" /\ ~ Minted(e)
  <2>1. e \in Move
    BY <1>2, <1>11 DEF Event, Deployment, Op, Snapshot
  <2>2. e.pool \in Curated /\ e.from \in Holders /\ e.shares \in Amounts \ {0}
    BY <1>7, <1>11, <2>1 DEF Move, Minted
  <2>3. e.pool \in DOMAIN db.pools /\ Shown(db)[e.pool][e.from] >= e.shares
    BY <1>6, <1>9, <1>11, <2>2 DEF Follows
  <2>4. QED
    BY <1>7, <1>8, <1>11, <2>2, <2>3 DEF Throws
<1>12. QED
  BY <1>7, <1>10, <1>11 DEF Throws

\* The indexer stops for want of a row only at a move of no shares or of a pool
\* it skipped: an account that gives shares of a curated pool has its row.
THEOREM BalancesFound == Spec => []HoldersHaveRows
<1>1. SharesInv => HoldersHaveRows
  BY GiversHaveRows
<1>2. QED
  BY <1>1, SharesInvariant, PTL

-----------------------------------------------------------------------------
(* The tables follow the pools *)

LEMMA MirrorState ==
  /\ Mirror!Change <=>
       /\ holdings' # holdings /\ IsPrefix(holdings, holdings')
       /\ Holdings' = Last(holdings') /\ UNCHANGED Shown(db)
  /\ Mirror!Follow <=>
       /\ holdings # <<>> /\ Shown(db)' = Head(holdings)
       /\ holdings' = Tail(holdings) /\ UNCHANGED Holdings
  /\ Mirror!MirrorInit <=> Shown(db) = Holdings /\ holdings = <<>>
BY DEF Mirror!Change, Mirror!Follow, Mirror!MirrorInit, Mirror!IsPrefix, IsPrefix,
       Mirror!Last, Last, Holdings, HoldingsOf, Shown, BalanceOf

\* What was held after more events extends what was held after those before.
LEMMA HoldingsGrow ==
  ASSUME SharesInv, SharesInv', db' = db, NEW states \in Seq(Holding), states # <<>>,
         holdings' = holdings \o states
  PROVE  Mirror!Change
<1>1. holdings \in Seq(Holding)
  BY DEF SharesInv, SharesTypes
<1>2. /\ Len(holdings) \in Nat /\ Len(states) \in Nat \ {0}
      /\ Len(holdings') = Len(holdings) + Len(states) /\ holdings' \in Seq(Holding)
      /\ \A i \in 1 .. Len(holdings) : holdings'[i] = holdings[i]
  BY <1>1, EmptySeq
<1>3. IsPrefix(holdings, holdings')
  BY <1>1, <1>2 DEF IsPrefix
<1>4. holdings' # holdings /\ holdings' # <<>>
  BY <1>2
<1>5. Holdings' = Last(holdings')
  <2>1. Now(Shown(db'), holdings') = Holdings'
    BY DEF SharesInv, BalancesFollow, Shown, BalanceOf, Now
  <2>2. QED
    BY <1>4, <2>1 DEF Now, Last
<1>6. UNCHANGED Shown(db)
  BY DEF Shown, BalanceOf
<1>7. QED
  BY <1>3, <1>4, <1>5, <1>6, MirrorState

LEMMA IndexMirrors ==
  ASSUME SharesInv, Index
  PROVE  Mirror!Follow
<1>1. holdings # <<>> /\ holdings \in Seq(Holding) /\ Shown(db') = holdings[1]
  BY IndexShows DEF Shows, SharesInv, SharesTypes
<1>2. Head(holdings) = holdings[1] /\ holdings' = Tail(holdings) /\ UNCHANGED Holdings
  <2>1. UNCHANGED tokenVars
    BY DEF Index
  <2>2. Kept' = Kept /\ deployed' = deployed
    BY <2>1, TokensSame DEF SharesInv, SharesTypes, tokenVars
  <2>3. QED
    BY <1>1, <2>2, HoldingsAfter DEF Index, Holdings
<1>3. Shown(db)' = Head(holdings)
  BY <1>1, <1>2 DEF Shown, BalanceOf
<1>4. QED
  BY <1>1, <1>2, <1>3, MirrorState

LEMMA TransactionMirrors ==
  ASSUME SharesInv, SharesInv', NEW p \in Pools, PoolStep(p)
  PROVE  Mirror!Change
<1>1. PICK t \in {tx, tx + 1}, n \in Amounts :
        \/ DeployPool(p, t, n)
        \/ \E u \in Holders : Deposit(p, t, u, n) \/ Withdraw(p, t, u, n)
        \/ \E u, v \in Holders : Transfer(p, t, u, v, n)
  BY DEF PoolStep
<1>2. /\ deployed \subseteq Pools /\ Kept \in [Pools -> Balances] /\ Holdings \in Holding
      /\ Holdings' \in Holding
  <2>1. deployed \subseteq Pools /\ Kept \in [Pools -> Balances]
    BY KeptType DEF SharesInv, SharesTypes, TokensOK
  <2>2. deployed' \subseteq Pools /\ Kept' \in [Pools -> Balances]
    BY DEF SharesInv, SharesTypes, TokensOK, Kept
  <2>3. QED
    BY <2>1, <2>2, HoldingsType, HoldingsAfter DEF Holdings
<1>3. ASSUME NEW op, NEW events, NEW states \in Seq(Holding), Operate(op, events, states)
      PROVE  Mirror!Change
  <2>1. db' = db /\ holdings' = holdings \o (states \o <<Holdings'>>)
    BY <1>3 DEF Operate, Execute
  <2>2. <<Holdings'>> \in Seq(Holding)
    BY <1>2
  <2>3. states \o <<Holdings'>> \in Seq(Holding) /\ states \o <<Holdings'>> # <<>>
    BY <2>2, ConcatEqualIffEmpty
  <2>4. QED
    BY <2>1, <2>3, HoldingsGrow
<1>4. CASE DeployPool(p, t, n)
  <2> DEFINE empty == HoldingsOf(deployed', Kept)
  <2>1. empty \in Holding
    BY <1>2, <1>4, HoldingsType DEF DeployPool
  <2>2. Operate(Operation("Deposit", p, t, Timelock, n),
                <<[kind |-> "PoolDeployed", pool |-> p], Moved(p, ZeroAddress, Timelock, n)>>,
                <<empty, empty>>)
    BY <1>4 DEF DeployPool
  <2> HIDE DEF empty
  <2>3. <<empty, empty>> \in Seq(Holding)
    BY <2>1
  <2>4. QED
    BY <1>3, <2>2, <2>3
<1>5. ASSUME NEW u \in Holders, Deposit(p, t, u, n) \/ Withdraw(p, t, u, n)
      PROVE  Mirror!Change
  <2>1. <<Holdings>> \in Seq(Holding)
    BY <1>2
  <2>2. CASE Deposit(p, t, u, n)
    <3>1. Operate(Operation("Deposit", p, t, u, n), <<Moved(p, ZeroAddress, u, n)>>, <<Holdings>>)
      BY <2>2 DEF Deposit
    <3>2. QED
      BY <1>3, <2>1, <3>1
  <2>3. CASE Withdraw(p, t, u, n)
    <3>1. Operate(Operation("Withdraw", p, t, u, n), <<Moved(p, u, ZeroAddress, n)>>, <<Holdings>>)
      BY <2>3 DEF Withdraw
    <3>2. QED
      BY <1>3, <2>1, <3>1
  <2>4. QED
    BY <1>5, <2>2, <2>3
<1>6. ASSUME NEW u \in Holders, NEW v \in Holders, Transfer(p, t, u, v, n)
      PROVE  Mirror!Change
  <2>1. db' = db /\ holdings' = holdings \o <<Holdings'>>
    BY <1>6 DEF Transfer, Execute
  <2>2. <<Holdings'>> \in Seq(Holding) /\ <<Holdings'>> # <<>>
    BY <1>2
  <2>3. QED
    BY <2>1, <2>2, HoldingsGrow
<1>7. QED
  BY <1>1, <1>4, <1>5, <1>6

LEMMA EndBlockMirrors ==
  ASSUME SharesInv, SharesInv', NEW due \in SUBSET Curated, EndBlock(due)
  PROVE  Mirror!Change \/ UNCHANGED <<Holdings, holdings, Shown(db)>>
<1> DEFINE snapshot == IF due = {} THEN <<>> ELSE <<[kind |-> "PoolSnapshot", due |-> due]>>
           states == [i \in DOMAIN snapshot |-> Holdings]
<1>1. db' = db /\ UNCHANGED tokenVars /\ holdings' = holdings \o states
  BY DEF EndBlock
<1>2. Holdings \in Holding /\ holdings \in Seq(Holding) /\ UNCHANGED Holdings
  <2>1. TokensOK /\ Kept \in [Pools -> Balances] /\ deployed \subseteq Pools
    BY KeptType DEF SharesInv, SharesTypes, TokensOK
  <2>2. Kept' = Kept /\ deployed' = deployed
    BY <1>1, <2>1, TokensSame DEF tokenVars
  <2>3. QED
    BY <2>1, <2>2, HoldingsType, HoldingsAfter DEF SharesInv, SharesTypes, Holdings
<1>3. CASE due = {}
  <2>1. states = <<>>
    BY <1>3
  <2>2. holdings' = holdings
    BY <1>1, <1>2, <2>1, ConcatEmptySeq
  <2>3. UNCHANGED Holdings /\ UNCHANGED Shown(db)
    BY <1>1, <1>2 DEF Shown, BalanceOf
  <2>4. QED
    BY <2>2, <2>3
<1>4. CASE due # {}
  <2>1. states = <<Holdings>>
    BY <1>4
  <2> HIDE DEF states
  <2>2. states \in Seq(Holding) /\ states # <<>>
    BY <1>2, <2>1
  <2>3. QED
    BY <1>1, <2>2, HoldingsGrow
<1>5. QED
  BY <1>3, <1>4

LEMMA StepMirrors ==
  ASSUME SharesInv, SharesInv', [Next]_vars
  PROVE  [Mirror!Change \/ Mirror!Follow]_(Mirror!mirrorVars)
<1>1. CASE UNCHANGED <<Holdings, holdings, Shown(db)>>
  BY <1>1 DEF Mirror!mirrorVars
<1>2. CASE UNCHANGED vars
  <2>1. UNCHANGED <<tokenVars, holdings, db>>
    BY <1>2 DEF vars, chainVars
  <2>2. UNCHANGED <<Holdings, holdings, Shown(db)>>
    <3>1. Kept' = Kept /\ deployed' = deployed
      BY <2>1, TokensSame DEF SharesInv, SharesTypes, tokenVars
    <3>2. QED
      BY <2>1, <3>1, HoldingsAfter DEF Holdings, Shown, BalanceOf
  <2>3. QED
    BY <1>1, <2>2
<1>3. CASE \E p \in Pools : PoolStep(p)
  BY <1>3, TransactionMirrors
<1>4. CASE \E due \in SUBSET Curated : EndBlock(due)
  BY <1>1, <1>4, EndBlockMirrors
<1>5. CASE Index
  BY <1>5, IndexMirrors
<1>6. QED
  BY <1>2, <1>3, <1>4, <1>5 DEF Next

LEMMA MirrorStart == Init => Mirror!MirrorInit
<1> SUFFICES ASSUME Init PROVE Mirror!MirrorInit
  OBVIOUS
<1>1. holdings = <<>>
  BY DEF Init
<1>2. Shown(db) = Holdings
  BY <1>1, SharesStart DEF SharesInv, BalancesFollow, Now
<1>3. QED
  BY <1>1, <1>2, MirrorState

\* The balances in the tables are, one after the other, those the pools went
\* through: a transaction extends what is pending and an indexed event shows
\* the next of it, for any number of pools, accounts and transactions.
THEOREM SharesFollow == Spec => SharesImplementMirror
<1>1. SharesInv /\ SharesInv' /\ [Next]_vars
        => [Mirror!Change \/ Mirror!Follow]_(Mirror!mirrorVars)
  BY StepMirrors
<1>2. QED
  BY <1>1, MirrorStart, SharesInvariant, PTL DEF Spec, SharesImplementMirror, Mirror!MirrorSpec

=============================================================================
