------------------------ MODULE BridgeIndexerProofs ------------------------
(***************************************************************************)
(* Theorems about the indexer of bridge transactions, for any number of    *)
(* chains and transfers: what a row says is what the chains did, and its   *)
(* status only moves forward, in whatever order the chains are indexed.    *)
(*                                                                         *)
(* An event is handled long after it was emitted, so the invariant follows *)
(* the evidence through the logs: what an event says has happened is still *)
(* so when it is read. A row may stand for a withdrawal that it shares     *)
(* with others; its status is its own nevertheless, because no proof is    *)
(* left to be read once a finalization was (PortalOrder).                  *)
(***************************************************************************)
EXTENDS BridgeIndexer, TLAPS

PortalKinds == {"WithdrawalProven", "WithdrawalFinalized",
                "OutBoxTransactionExecuted", "BridgeMint"}

\* What e says has happened, when the withdrawals are at x and the loans of h
\* were emitted.
Real(e, x, h) ==
  /\ e.kind = "BridgeInitiated" => x[e.id] # "none"
  /\ e.kind = "LoanEmitted" => e.id \in h
  /\ e.kind = "WithdrawalProven" =>
       \E t \in Transfers : /\ Stack[t] = "op" /\ Key[t] = e.id
                            /\ x[t] \in {"proven", "mature", "finalized"}
  /\ \A s \in DOMAIN FinalizedKind : e.kind = FinalizedKind[s] =>
       \E t \in Transfers : Stack[t] = s /\ Key[t] = e.id /\ x[t] = "finalized"

LogsAreReal ==
  \A c \in Chains : \A i \in 1 .. Len(logs[c]) : Real(logs[c][i], exit, handled)

\* A withdrawal that the row of t stands for is proven, is finalized.
ProvenFor(t) == \E u \in Named[t] : exit[u] \in {"proven", "mature", "finalized"}
FinalizedFor(t) == \E u \in Named[t] : exit[u] = "finalized"

\* A row has the key in its receipt or none; without a status it is empty.
RowInv(t) ==
  /\ rows[t].key \in {NoKey, ReceiptKey(t)}
  /\ rows[t].nativeBridgeStatus = "NONE" =>
       /\ rows[t].key = NoKey
       /\ ~ rows[t].opProofTxHash
       /\ ~ rows[t].loanEmittedTxHash
       /\ ~ rows[t].nativeBridgeFinalizedTxHash
  /\ rows[t].nativeBridgeStatus # "NONE" =>
       rows[t].nativeBridgeStatus = ComputeNativeBridgeStatus(rows[t])
  /\ rows[t].nativeBridgeStatus # "NONE" => exit[t] # "none"
  /\ rows[t].loanEmittedTxHash => t \in handled
  /\ rows[t].opProofTxHash => Stack[t] = "op" /\ ProvenFor(t)
  /\ rows[t].nativeBridgeFinalizedTxHash => FinalizedFor(t)

\* The log has no proof of k from its n-th event on.
NoProof(k, log, n) ==
  \A i \in n .. Len(log) : log[i].kind = "WithdrawalProven" => log[i].id # k

\* The portal's events are in the log of the pool's chain, and there no proof of
\* a withdrawal comes after its finalization.
PortalOrder ==
  /\ \A c \in Chains : \A i \in 1 .. Len(logs[c]) :
       logs[c][i].kind \in {"WithdrawalProven", "WithdrawalFinalized"} => c = PoolChain
  /\ \A i \in 1 .. Len(logs[PoolChain]) :
       logs[PoolChain][i].kind = "WithdrawalFinalized" =>
         NoProof(logs[PoolChain][i].id, logs[PoolChain], i)
  /\ \A t \in Transfers : Stack[t] = "op" /\ rows[t].nativeBridgeFinalizedTxHash =>
       NoProof(ReceiptKey(t), logs[PoolChain], 1)

HandledInv == \A t \in handled : exit[t] # "none"

IndexerInv ==
  /\ IndexerTypeOK
  /\ LogsAreReal
  /\ HandledInv
  /\ PortalOrder
  /\ \A t \in Transfers : RowInv(t)

-----------------------------------------------------------------------------
(* The kinds of events *)

LEMMA Kinds ==
  /\ DOMAIN FinalizedKind = {"op", "orbit", "zksync"}
  /\ FinalizedKind["op"] = "WithdrawalFinalized"
  /\ FinalizedKind["orbit"] = "OutBoxTransactionExecuted"
  /\ FinalizedKind["zksync"] = "BridgeMint"
BY DEF FinalizedKind

LEMMA EventType ==
  ASSUME NEW e \in Event
  PROVE  \/ e.kind \in {"BridgeInitiated", "LoanEmitted"} /\ e.id \in Transfers
         \/ e.kind \in PortalKinds /\ e.id \in Keys
BY Kinds DEF Event, PortalKinds

LEMMA EventRecord ==
  ASSUME NEW kind, NEW id,
         \/ kind \in {"BridgeInitiated", "LoanEmitted"} /\ id \in Transfers
         \/ kind \in PortalKinds /\ id \in Keys
  PROVE  /\ [kind |-> kind, id |-> id] \in Event
         /\ [kind |-> kind, id |-> id].kind = kind
         /\ [kind |-> kind, id |-> id].id = id
<1>1. CASE kind \in {"BridgeInitiated", "LoanEmitted"} /\ id \in Transfers
  BY <1>1 DEF Event
<1>2. CASE kind \in PortalKinds /\ id \in Keys
  <2>1. kind \in {"WithdrawalProven"} \cup {FinalizedKind[s] : s \in DOMAIN FinalizedKind}
    BY <1>2, Kinds DEF PortalKinds
  <2>2. QED
    BY <1>2, <2>1 DEF Event
<1>3. QED
  BY <1>1, <1>2

\* Which kinds a stack finalizes with.
LEMMA StackKind ==
  ASSUME NEW s \in {"op", "orbit", "zksync"}
  PROVE  /\ FinalizedKind[s] \in PortalKinds \ {"WithdrawalProven"}
         /\ s \in DOMAIN FinalizedKind
         /\ \A u \in DOMAIN FinalizedKind : FinalizedKind[u] = FinalizedKind[s] => u = s
BY Kinds DEF PortalKinds

-----------------------------------------------------------------------------
(* Logs *)

\* An event that holds now may be appended; the other events stay real as
\* long as no transfer goes back.
LEMMA EmitKeepsLogs ==
  ASSUME IndexerTypeOK, LogsAreReal,
         NEW c \in Chains, NEW kind, NEW id,
         Emit(c, kind, id),
         [kind |-> kind, id |-> id] \in Event,
         Real([kind |-> kind, id |-> id], exit', handled'),
         \A e \in Event : Real(e, exit, handled) => Real(e, exit', handled')
  PROVE  LogsAreReal' /\ logs' \in [Chains -> Seq(Event)]
<1> DEFINE e == [kind |-> kind, id |-> id]
<1>1. logs \in [Chains -> Seq(Event)]
  BY DEF IndexerTypeOK, ChainsTypeOK
<1>2. logs' = [logs EXCEPT ![c] = Append(logs[c], e)]
  BY DEF Emit
<1> HIDE DEF e
<1>3. e \in Event /\ Real(e, exit', handled')
  BY DEF e
<1>4. logs' \in [Chains -> Seq(Event)]
  BY <1>1, <1>2, <1>3
<1>5. ASSUME NEW d \in Chains, NEW i \in 1 .. Len(logs'[d]) PROVE Real(logs'[d][i], exit', handled')
  <2>1. CASE d # c
    <3>1. logs'[d] = logs[d] /\ logs[d] \in Seq(Event)
      BY <2>1, <1>1, <1>2
    <3>2. Real(logs[d][i], exit, handled) /\ logs[d][i] \in Event
      BY <3>1, <1>5 DEF LogsAreReal
    <3>3. QED
      BY <3>1, <3>2
  <2>2. CASE d = c
    <3>1. logs'[d] = Append(logs[c], e) /\ logs[c] \in Seq(Event)
      BY <2>2, <1>1, <1>2
    <3>2. CASE i = Len(logs[c]) + 1
      BY <3>1, <3>2, <1>3
    <3>3. CASE i # Len(logs[c]) + 1
      <4>1. i \in 1 .. Len(logs[c]) /\ logs'[d][i] = logs[c][i]
        BY <3>1, <3>3, <1>5, <1>3
      <4>2. Real(logs[c][i], exit, handled) /\ logs[c][i] \in Event
        BY <4>1, <3>1 DEF LogsAreReal
      <4>3. QED
        BY <4>1, <4>2
    <3>4. QED
      BY <3>2, <3>3
  <2>3. QED
    BY <2>1, <2>2
<1>6. QED
  BY <1>4, <1>5 DEF LogsAreReal

\* The event that is read is removed from its log.
LEMMA IndexKeepsLogs ==
  ASSUME IndexerTypeOK, LogsAreReal, NEW c \in Chains, Index(c)
  PROVE  /\ logs' \in [Chains -> Seq(Event)]
         /\ LogsAreReal'
         /\ Head(logs[c]) \in Event
         /\ Real(Head(logs[c]), exit, handled)
<1>1. logs \in [Chains -> Seq(Event)] /\ logs[c] \in Seq(Event) /\ logs[c] # <<>>
  BY DEF IndexerTypeOK, ChainsTypeOK, Index
<1>2. logs' = [logs EXCEPT ![c] = Tail(logs[c])] /\ exit' = exit /\ handled' = handled
  BY DEF Index
<1>3. Head(logs[c]) \in Event /\ Tail(logs[c]) \in Seq(Event) /\ Len(logs[c]) > 0
  BY <1>1
<1>4. Real(Head(logs[c]), exit, handled)
  <2>1. Head(logs[c]) = logs[c][1] /\ 1 \in 1 .. Len(logs[c])
    BY <1>1, <1>3
  <2>2. QED
    BY <2>1 DEF LogsAreReal
<1>5. ASSUME NEW d \in Chains, NEW i \in 1 .. Len(logs'[d]) PROVE Real(logs'[d][i], exit', handled')
  <2>1. PICK j \in 1 .. Len(logs[d]) : logs'[d][i] = logs[d][j]
    <3>1. CASE d # c
      BY <3>1, <1>1, <1>2, <1>5
    <3>2. CASE d = c
      <4>1. logs'[d] = Tail(logs[c])
        BY <3>2, <1>1, <1>2
      <4>2. Len(Tail(logs[c])) = Len(logs[c]) - 1 /\ Len(logs[c]) \in Nat
        BY <1>1, <1>3
      <4>3. i + 1 \in 1 .. Len(logs[c]) /\ Tail(logs[c])[i] = logs[c][i + 1]
        BY <4>1, <4>2, <1>1, <1>5
      <4>4. QED
        BY <4>1, <4>3, <3>2
    <3>3. QED
      BY <3>1, <3>2
  <2>2. Real(logs[d][j], exit, handled)
    BY <2>1 DEF LogsAreReal
  <2>3. QED
    BY <2>1, <2>2, <1>2
<1>6. QED
  BY <1>1, <1>2, <1>3, <1>4, <1>5 DEF LogsAreReal

-----------------------------------------------------------------------------
(* The chains *)

\* What has happened stays so while the withdrawals only move forward.
LEMMA RealIsStable ==
  ASSUME NEW e \in Event,
         \A t \in Transfers : exit[t] # "none" => exit'[t] # "none",
         \A t \in Transfers : exit[t] \in {"proven", "mature", "finalized"} /\ Stack[t] = "op"
            => exit'[t] \in {"proven", "mature", "finalized"},
         \A t \in Transfers : exit[t] = "finalized" => exit'[t] = "finalized",
         handled \subseteq handled',
         Real(e, exit, handled)
  PROVE  Real(e, exit', handled')
<1>1. e.kind = "BridgeInitiated" => e.id \in Transfers
  BY EventType DEF PortalKinds
<1>2. QED
  BY <1>1 DEF Real

\* The transfers a row stands for.
LEMMA NamedFacts ==
  ASSUME NEW t \in Transfers
  PROVE  \A u : u \in Named[t] <=>
           u \in Transfers /\ Stack[u] = Stack[t] /\ Key[u] = ReceiptKey(t)
BY DEF Named

\* A step that leaves the rows alone and takes no withdrawal back.
LEMMA RowsStay ==
  ASSUME IndexerInv, rows' = rows,
         \A t \in Transfers : exit[t] # "none" => exit'[t] # "none",
         \A t \in Transfers : exit[t] \in {"proven", "mature", "finalized"} /\ Stack[t] = "op"
            => exit'[t] \in {"proven", "mature", "finalized"},
         \A t \in Transfers : exit[t] = "finalized" => exit'[t] = "finalized",
         handled \subseteq handled'
  PROVE  \A t \in Transfers : RowInv(t)'
<1> SUFFICES ASSUME NEW t \in Transfers PROVE RowInv(t)'
  OBVIOUS
<1>1. RowInv(t)
  BY DEF IndexerInv
<1>2. Stack[t] = "op" /\ ProvenFor(t) => ProvenFor(t)'
  BY NamedFacts DEF ProvenFor
<1>3. FinalizedFor(t) => FinalizedFor(t)'
  BY NamedFacts DEF FinalizedFor
<1>4. QED
  BY <1>1, <1>2, <1>3 DEF RowInv, ComputeNativeBridgeStatus

\* A new event keeps the order, if it is of the pool's chain when it is of the
\* portal, and no proof when the withdrawal was finalized.
LEMMA EmitKeepsOrder ==
  ASSUME IndexerTypeOK, PortalOrder, rows' = rows,
         NEW c \in Chains, NEW kind, NEW id, Emit(c, kind, id),
         kind \in {"WithdrawalProven", "WithdrawalFinalized"} => c = PoolChain,
         kind = "WithdrawalProven" =>
           /\ \A i \in 1 .. Len(logs[PoolChain]) :
                logs[PoolChain][i].kind = "WithdrawalFinalized" => logs[PoolChain][i].id # id
           /\ \A t \in Transfers : Stack[t] = "op" /\ rows[t].nativeBridgeFinalizedTxHash =>
                ReceiptKey(t) # id
  PROVE  PortalOrder'
<1> DEFINE e == [kind |-> kind, id |-> id]
<1>1. /\ logs \in [Chains -> Seq(Event)] /\ PoolChain \in Chains
      /\ logs' = [logs EXCEPT ![c] = Append(logs[c], e)]
      /\ e.kind = kind /\ e.id = id
  BY ChainsAssumption DEF IndexerTypeOK, ChainsTypeOK, Emit
<1> HIDE DEF e
<1>2. /\ logs'[c] = Append(logs[c], e) /\ logs[c] \in Seq(Event)
      /\ \A d \in Chains \ {c} : logs'[d] = logs[d]
  BY <1>1
<1>3. /\ Len(logs[c]) \in Nat /\ Len(logs'[c]) = Len(logs[c]) + 1
      /\ logs'[c][Len(logs[c]) + 1] = e
      /\ \A i \in 1 .. Len(logs[c]) : logs'[c][i] = logs[c][i]
  BY <1>2
<1>4. ASSUME NEW d \in Chains, NEW i \in 1 .. Len(logs'[d]),
             logs'[d][i].kind \in {"WithdrawalProven", "WithdrawalFinalized"}
      PROVE  d = PoolChain
  <2>1. CASE d # c
    BY <1>2, <1>4, <2>1 DEF PortalOrder
  <2>2. CASE d = c /\ i = Len(logs[c]) + 1
    BY <1>1, <1>3, <1>4, <2>2
  <2>3. CASE d = c /\ i # Len(logs[c]) + 1
    <3>1. i \in 1 .. Len(logs[c])
      BY <1>3, <2>3
    <3>2. QED
      BY <1>3, <1>4, <2>3, <3>1 DEF PortalOrder
  <2>4. QED
    BY <2>1, <2>2, <2>3
<1>5. CASE c # PoolChain
  <2>1. logs'[PoolChain] = logs[PoolChain]
    BY <1>1, <1>2, <1>5
  <2>2. QED
    BY <1>4, <2>1 DEF PortalOrder
<1>6. CASE c = PoolChain
  <2> DEFINE old == logs[PoolChain]
             new == logs'[PoolChain]
             n == Len(old)
  <2>1. /\ n \in Nat /\ Len(new) = n + 1 /\ new[n + 1] = e
        /\ \A i \in 1 .. n : new[i] = old[i]
    BY <1>3, <1>6
  <2>2. ASSUME NEW k, NEW m \in 1 .. n, NoProof(k, old, m), kind = "WithdrawalProven" => k # id
        PROVE  NoProof(k, new, m)
    <3>1. SUFFICES ASSUME NEW i \in m .. n + 1, new[i].kind = "WithdrawalProven"
                   PROVE  new[i].id # k
      BY <2>1 DEF NoProof
    <3>2. CASE i = n + 1
      BY <1>1, <2>1, <2>2, <3>1, <3>2
    <3>3. CASE i # n + 1
      <4>1. i \in m .. n /\ i \in 1 .. n
        BY <2>1, <3>3
      <4>2. QED
        BY <2>1, <2>2, <3>1, <4>1 DEF NoProof
    <3>4. QED
      BY <3>2, <3>3
  <2>3. ASSUME NEW k, NoProof(k, old, 1), kind = "WithdrawalProven" => k # id
        PROVE  NoProof(k, new, 1)
    <3>1. CASE n = 0
      BY <1>1, <2>1, <2>3, <3>1 DEF NoProof
    <3>2. CASE n # 0
      <4>1. 1 \in 1 .. n
        BY <2>1, <3>2
      <4>2. QED
        BY <2>2, <2>3, <4>1
    <3>3. QED
      BY <3>1, <3>2
  <2>4. ASSUME NEW i \in 1 .. Len(new), new[i].kind = "WithdrawalFinalized"
        PROVE  NoProof(new[i].id, new, i)
    <3>1. CASE i = n + 1
      <4>1. \A j \in i .. Len(new) : j = i
        BY <2>1, <3>1
      <4>2. QED
        BY <2>4, <4>1 DEF NoProof
    <3>2. CASE i # n + 1
      <4>1. i \in 1 .. n /\ new[i] = old[i]
        BY <2>1, <3>2
      <4>2. NoProof(old[i].id, old, i) /\ (kind = "WithdrawalProven" => old[i].id # id)
        BY <2>4, <4>1 DEF PortalOrder
      <4>3. QED
        BY <2>2, <4>1, <4>2
    <3>3. QED
      BY <3>1, <3>2
  <2>5. ASSUME NEW t \in Transfers, Stack[t] = "op", rows[t].nativeBridgeFinalizedTxHash
        PROVE  NoProof(ReceiptKey(t), new, 1)
    <3>1. NoProof(ReceiptKey(t), old, 1) /\ (kind = "WithdrawalProven" => ReceiptKey(t) # id)
      BY <2>5 DEF PortalOrder
    <3>2. QED
      BY <2>3, <3>1
  <2>6. \A t : ReceiptKey(t)' = ReceiptKey(t)
    BY DEF ReceiptKey
  <2> HIDE DEF old, new, n
  <2>7. /\ \A i \in 1 .. Len(new) : new[i].kind = "WithdrawalFinalized" =>
             NoProof(new[i].id, new, i)
        /\ \A t \in Transfers : Stack[t] = "op" /\ rows'[t].nativeBridgeFinalizedTxHash =>
             NoProof(ReceiptKey(t), new, 1)
    BY <2>4, <2>5
  <2>8. QED
    BY <1>4, <2>6, <2>7 DEF PortalOrder, NoProof, new
<1>7. QED
  BY <1>5, <1>6

LEMMA UserStepKeepsInv ==
  ASSUME IndexerInv, NEW t \in Transfers, UserStep(t)
  PROVE  IndexerInv'
<1>1. /\ exit \in [Transfers -> Exits]
      /\ handled \subseteq Transfers
      /\ rows' = rows
      /\ rows \in [Transfers -> Row]
      /\ PoolChain \in Chains /\ Origin[t] \in Chains
      /\ Stack[t] \in {"op", "orbit", "zksync"}
      /\ IndexerTypeOK /\ PortalOrder
  BY ChainsAssumption DEF IndexerInv, IndexerTypeOK, ChainsTypeOK, UserStep
<1>2. CASE Initiate(t)
  <2>1. /\ exit' = [exit EXCEPT ![t] = "initiated"] /\ exit[t] = "none" /\ handled' = handled
        /\ Emit(Origin[t], "BridgeInitiated", t)
    BY <1>2 DEF Initiate
  <2>2. LogsAreReal' /\ logs' \in [Chains -> Seq(Event)]
    <3>1. \A e \in Event : Real(e, exit, handled) => Real(e, exit', handled')
      BY <1>1, <2>1, RealIsStable
    <3>2. [kind |-> "BridgeInitiated", id |-> t] \in Event
      BY EventRecord
    <3>3. Real([kind |-> "BridgeInitiated", id |-> t], exit', handled')
      BY <1>1, <2>1, Kinds DEF Real
    <3>4. QED
      BY <1>1, <2>1, <3>1, <3>2, <3>3, EmitKeepsLogs DEF IndexerInv
  <2>3. IndexerTypeOK'
    BY <1>1, <2>1, <2>2 DEF IndexerTypeOK, ChainsTypeOK, Exits
  <2>4. \A u \in Transfers : RowInv(u)'
    BY <1>1, <2>1, RowsStay
  <2>5. PortalOrder'
    BY <1>1, <2>1, EmitKeepsOrder
  <2>6. QED
    BY <1>1, <2>1, <2>2, <2>3, <2>4, <2>5 DEF IndexerInv, HandledInv
<1>3. CASE Handle(t)
  <2>1. /\ exit' = exit /\ exit[t] # "none" /\ handled' = handled \cup {t}
        /\ Emit(PoolChain, "LoanEmitted", t)
    BY <1>3 DEF Handle
  <2>2. LogsAreReal' /\ logs' \in [Chains -> Seq(Event)]
    <3>1. \A e \in Event : Real(e, exit, handled) => Real(e, exit', handled')
      BY <2>1 DEF Real
    <3>2. [kind |-> "LoanEmitted", id |-> t] \in Event
      BY EventRecord
    <3>3. Real([kind |-> "LoanEmitted", id |-> t], exit', handled')
      BY <2>1, Kinds DEF Real
    <3>4. QED
      BY <1>1, <2>1, <3>1, <3>2, <3>3, EmitKeepsLogs DEF IndexerInv
  <2>3. IndexerTypeOK'
    BY <1>1, <2>1, <2>2 DEF IndexerTypeOK, ChainsTypeOK
  <2>4. \A u \in Transfers : RowInv(u)'
    BY <1>1, <2>1, RowsStay
  <2>5. PortalOrder'
    BY <1>1, <2>1, EmitKeepsOrder
  <2>6. QED
    BY <1>1, <2>1, <2>2, <2>3, <2>4, <2>5 DEF IndexerInv, HandledInv
<1>4. CASE Mature(t)
  <2>1. /\ exit' = [exit EXCEPT ![t] = "mature"]
        /\ exit[t] = IF Stack[t] = "op" THEN "proven" ELSE "initiated"
        /\ handled' = handled
        /\ logs' = logs
    BY <1>4 DEF Mature
  <2>2. \A e \in Event : Real(e, exit, handled) => Real(e, exit', handled')
    BY <1>1, <2>1, RealIsStable
  <2>3. LogsAreReal'
    <3>1. ASSUME NEW c \in Chains, NEW i \in 1 .. Len(logs[c])
          PROVE  Real(logs[c][i], exit', handled')
      <4>1. logs[c][i] \in Event /\ Real(logs[c][i], exit, handled)
        BY DEF IndexerInv, IndexerTypeOK, ChainsTypeOK, LogsAreReal
      <4>2. QED
        BY <4>1, <2>2
    <3>2. QED
      BY <2>1, <3>1 DEF LogsAreReal
  <2>4. IndexerTypeOK'
    BY <1>1, <2>1 DEF IndexerInv, IndexerTypeOK, ChainsTypeOK, Exits
  <2>5. \A u \in Transfers : RowInv(u)'
    BY <1>1, <2>1, RowsStay
  <2>6. PortalOrder'
    BY <1>1, <2>1 DEF PortalOrder, NoProof, ReceiptKey
  <2>7. QED
    BY <1>1, <2>1, <2>3, <2>4, <2>5, <2>6 DEF IndexerInv, HandledInv
<1>5. QED
  BY <1>2, <1>3, <1>4 DEF UserStep

\* What is known to be finalized was proven before, and cannot be again.
LEMMA ProvenBeforeFinalized ==
  ASSUME IndexerInv, NEW t \in Transfers, Stack[t] = "op", exit[t] # "finalized"
  PROVE  /\ \A i \in 1 .. Len(logs[PoolChain]) :
              logs[PoolChain][i].kind = "WithdrawalFinalized" =>
                logs[PoolChain][i].id # Key[t]
         /\ \A u \in Transfers : Stack[u] = "op" /\ rows[u].nativeBridgeFinalizedTxHash =>
              ReceiptKey(u) # Key[t]
<1>1. \A u \in Transfers : Stack[u] = "op" /\ Key[u] = Key[t] => u = t
  BY ChainsAssumption
<1>2. PoolChain \in Chains
  BY ChainsAssumption
<1>3. ASSUME NEW i \in 1 .. Len(logs[PoolChain]),
             logs[PoolChain][i].kind = "WithdrawalFinalized"
      PROVE  logs[PoolChain][i].id # Key[t]
  <2>1. \E u \in Transfers : /\ Stack[u] = "op" /\ Key[u] = logs[PoolChain][i].id
                             /\ exit[u] = "finalized"
    BY <1>2, <1>3, Kinds DEF IndexerInv, LogsAreReal, Real
  <2>2. QED
    BY <1>1, <2>1
<1>4. ASSUME NEW u \in Transfers, Stack[u] = "op", rows[u].nativeBridgeFinalizedTxHash
      PROVE  ReceiptKey(u) # Key[t]
  <2>1. FinalizedFor(u)
    BY <1>4 DEF IndexerInv, RowInv
  <2>2. PICK w \in Transfers : Stack[w] = "op" /\ Key[w] = ReceiptKey(u) /\ exit[w] = "finalized"
    BY <1>4, <2>1, NamedFacts DEF FinalizedFor
  <2>3. QED
    BY <1>1, <2>2
<1>5. QED
  BY <1>3, <1>4

LEMMA ExitStepKeepsInv ==
  ASSUME IndexerInv, NEW t \in Transfers, ExitStep(t)
  PROVE  IndexerInv'
<1>1. /\ exit \in [Transfers -> Exits]
      /\ handled \subseteq Transfers
      /\ rows' = rows
      /\ rows \in [Transfers -> Row]
      /\ Key[t] \in Keys
      /\ PoolChain \in Chains
      /\ Stack[t] \in {"op", "orbit", "zksync"}
      /\ IndexerTypeOK /\ PortalOrder
  BY ChainsAssumption DEF IndexerInv, IndexerTypeOK, ChainsTypeOK, ExitStep
<1>2. CASE Prove(t)
  <2>1. /\ exit' = [exit EXCEPT ![t] = "proven"] /\ Stack[t] = "op"
        /\ exit[t] \in {"initiated", "proven", "mature"} /\ handled' = handled
        /\ Emit(PoolChain, "WithdrawalProven", Key[t])
    BY <1>2 DEF Prove
  <2>2. LogsAreReal' /\ logs' \in [Chains -> Seq(Event)]
    <3>1. \A e \in Event : Real(e, exit, handled) => Real(e, exit', handled')
      BY <1>1, <2>1, RealIsStable
    <3>2. [kind |-> "WithdrawalProven", id |-> Key[t]] \in Event
      BY <1>1, EventRecord DEF PortalKinds
    <3>3. Real([kind |-> "WithdrawalProven", id |-> Key[t]], exit', handled')
      BY <1>1, <2>1, Kinds DEF Real
    <3>4. QED
      BY <1>1, <2>1, <3>1, <3>2, <3>3, EmitKeepsLogs DEF IndexerInv
  <2>3. IndexerTypeOK'
    BY <1>1, <2>1, <2>2 DEF IndexerTypeOK, ChainsTypeOK, Exits
  <2>4. \A u \in Transfers : RowInv(u)'
    BY <1>1, <2>1, RowsStay
  <2>5. PortalOrder'
    BY <1>1, <2>1, ProvenBeforeFinalized, EmitKeepsOrder
  <2>6. QED
    BY <1>1, <2>1, <2>2, <2>3, <2>4, <2>5 DEF IndexerInv, HandledInv
<1>3. CASE Finalize(t)
  <2> DEFINE k == FinalizedKind[Stack[t]]
  <2>1. /\ exit' = [exit EXCEPT ![t] = "finalized"] /\ exit[t] = "mature"
        /\ handled' = handled /\ Emit(PoolChain, k, Key[t])
    BY <1>3 DEF Finalize
  <2>2. /\ k \in PortalKinds \ {"WithdrawalProven"}
        /\ \A u \in DOMAIN FinalizedKind : FinalizedKind[u] = k => u = Stack[t]
    BY <1>1, StackKind
  <2> HIDE DEF k
  <2>3. LogsAreReal' /\ logs' \in [Chains -> Seq(Event)]
    <3>1. \A e \in Event : Real(e, exit, handled) => Real(e, exit', handled')
      BY <1>1, <2>1, RealIsStable
    <3>2. [kind |-> k, id |-> Key[t]] \in Event
      BY <1>1, <2>2, EventRecord
    <3>3. Real([kind |-> k, id |-> Key[t]], exit', handled')
      BY <1>1, <2>1, <2>2 DEF Real, PortalKinds
    <3>4. QED
      BY <1>1, <2>1, <3>1, <3>2, <3>3, EmitKeepsLogs DEF IndexerInv
  <2>4. IndexerTypeOK'
    BY <1>1, <2>1, <2>3 DEF IndexerTypeOK, ChainsTypeOK, Exits
  <2>5. \A u \in Transfers : RowInv(u)'
    BY <1>1, <2>1, RowsStay
  <2>6. PortalOrder'
    BY <1>1, <2>1, <2>2, EmitKeepsOrder DEF PortalKinds
  <2>7. QED
    BY <1>1, <2>1, <2>3, <2>4, <2>5, <2>6 DEF IndexerInv, HandledInv
<1>4. QED
  BY <1>2, <1>3 DEF ExitStep

LEMMA TimeStepKeepsInv ==
  ASSUME IndexerInv, NEW t \in Transfers, TimeStep(t)
  PROVE  IndexerInv'
<1>1. exit' = exit /\ handled' = handled /\ logs' = logs /\ rows \in [Transfers -> Row]
  BY DEF TimeStep, Age, Elapse, chainVars, IndexerInv, IndexerTypeOK
<1>2. /\ rows' \in [Transfers -> Row]
      /\ \A u \in Transfers :
           /\ rows'[u].nativeBridgeStatus = rows[u].nativeBridgeStatus
           /\ rows'[u].key = rows[u].key
           /\ rows'[u].opProofTxHash = rows[u].opProofTxHash
           /\ rows'[u].loanEmittedTxHash = rows[u].loanEmittedTxHash
           /\ rows'[u].nativeBridgeFinalizedTxHash = rows[u].nativeBridgeFinalizedTxHash
  BY <1>1 DEF TimeStep, Age, Elapse, Row
<1>3. ASSUME NEW u \in Transfers PROVE RowInv(u)'
  <2>1. RowInv(u)
    BY DEF IndexerInv
  <2>2. (ProvenFor(u)' <=> ProvenFor(u)) /\ (FinalizedFor(u)' <=> FinalizedFor(u))
    BY <1>1 DEF ProvenFor, FinalizedFor, Named, ReceiptKey
  <2>3. QED
    BY <1>1, <1>2, <2>1, <2>2 DEF RowInv, ComputeNativeBridgeStatus, ReceiptKey
<1>4. LogsAreReal'
  BY <1>1 DEF IndexerInv, LogsAreReal
<1>5. PortalOrder'
  BY <1>1, <1>2 DEF IndexerInv, PortalOrder, NoProof, ReceiptKey
<1>6. QED
  BY <1>1, <1>2, <1>3, <1>4, <1>5 DEF IndexerInv, IndexerTypeOK, ChainsTypeOK, HandledInv

-----------------------------------------------------------------------------
(* The handlers *)

\* The part of the invariant that a handler of the pool's or a bridge's event
\* must restore: only the row of t changes.
LEMMA OneRowKeepsRows ==
  ASSUME IndexerInv, NEW t \in Transfers, NEW r \in Row,
         rows' = [rows EXCEPT ![t] = r],
         exit' = exit, handled' = handled,
         RowInv(t)'
  PROVE  rows' \in [Transfers -> Row] /\ \A u \in Transfers : RowInv(u)'
<1>1. rows \in [Transfers -> Row]
  BY DEF IndexerInv, IndexerTypeOK
<1>2. rows' \in [Transfers -> Row]
  BY <1>1
<1>3. ASSUME NEW u \in Transfers PROVE RowInv(u)'
  <2>1. CASE u = t
    BY <2>1
  <2>2. CASE u # t
    <3>1. rows'[u] = rows[u]
      BY <1>1, <2>2
    <3>2. RowInv(u)
      BY DEF IndexerInv
    <3>3. /\ ReceiptKey(u)' = ReceiptKey(u)
          /\ ProvenFor(u)' <=> ProvenFor(u)
          /\ FinalizedFor(u)' <=> FinalizedFor(u)
      BY DEF ProvenFor, FinalizedFor, Named, ReceiptKey
    <3>4. QED
      BY <3>1, <3>2, <3>3 DEF RowInv, ComputeNativeBridgeStatus
  <2>3. QED
    BY <2>1, <2>2
<1>4. QED
  BY <1>2, <1>3

LEMMA BridgeInitiatedKeepsRows ==
  ASSUME IndexerInv, NEW t \in Transfers, exit[t] # "none",
         OnBridgeInitiated(t), exit' = exit, handled' = handled
  PROVE  rows' \in [Transfers -> Row] /\ \A u \in Transfers : RowInv(u)'
<1> DEFINE r == UpsertOrigin(rows[t], ReceiptKey(t))
<1>1. rows \in [Transfers -> Row] /\ ReceiptKey(t) \in Keys /\ RowInv(t)
  BY ChainsAssumption, IndexerAssumption DEF IndexerInv, IndexerTypeOK, ReceiptKey
<1>2. CASE rows' = rows
  BY <1>1, <1>2, RowsStay
<1>3. CASE rows' = [rows EXCEPT ![t] = r]
  <2>1. /\ r \in Row
        /\ r.key = ReceiptKey(t)
        /\ r.nativeBridgeStatus =
             IF rows[t].nativeBridgeStatus = "NONE" THEN "INITIATED"
             ELSE rows[t].nativeBridgeStatus
        /\ r.opProofTxHash = rows[t].opProofTxHash
        /\ r.loanEmittedTxHash = rows[t].loanEmittedTxHash
        /\ r.nativeBridgeFinalizedTxHash = rows[t].nativeBridgeFinalizedTxHash
    BY <1>1 DEF UpsertOrigin, Row, Statuses
  <2>2. rows'[t] = r
    BY <1>1, <1>3
  <2> HIDE DEF r
  <2>3. /\ ReceiptKey(t)' = ReceiptKey(t)
        /\ ProvenFor(t)' <=> ProvenFor(t)
        /\ FinalizedFor(t)' <=> FinalizedFor(t)
    BY DEF ProvenFor, FinalizedFor, Named, ReceiptKey
  <2>4. RowInv(t)'
    BY <1>1, <2>1, <2>2, <2>3 DEF RowInv, ComputeNativeBridgeStatus
  <2>5. QED
    BY <1>3, <2>1, <2>4, OneRowKeepsRows
<1>4. QED
  BY <1>2, <1>3 DEF OnBridgeInitiated

LEMMA LoanEmittedKeepsRows ==
  ASSUME IndexerInv, NEW t \in Transfers, t \in handled,
         OnLoanEmitted(t), exit' = exit, handled' = handled
  PROVE  rows' \in [Transfers -> Row] /\ \A u \in Transfers : RowInv(u)'
<1> DEFINE r == Derive([rows[t] EXCEPT !.loanEmittedTxHash = TRUE])
<1>1. rows \in [Transfers -> Row] /\ RowInv(t) /\ exit[t] # "none"
  BY DEF IndexerInv, IndexerTypeOK, HandledInv
<1>2. rows' = [rows EXCEPT ![t] = r]
  BY DEF OnLoanEmitted
<1>3. /\ r \in Row
      /\ r.key = rows[t].key
      /\ r.nativeBridgeStatus = ComputeNativeBridgeStatus(r)
      /\ r.nativeBridgeStatus # "NONE"
      /\ r.opProofTxHash = rows[t].opProofTxHash
      /\ r.loanEmittedTxHash
      /\ r.nativeBridgeFinalizedTxHash = rows[t].nativeBridgeFinalizedTxHash
  BY <1>1 DEF Derive, ComputeNativeBridgeStatus, Row, Statuses
<1>4. rows'[t] = r
  BY <1>1, <1>2
<1> HIDE DEF r
<1>5. /\ ReceiptKey(t)' = ReceiptKey(t)
      /\ ProvenFor(t)' <=> ProvenFor(t)
      /\ FinalizedFor(t)' <=> FinalizedFor(t)
  BY DEF ProvenFor, FinalizedFor, Named, ReceiptKey
<1>6. RowInv(t)'
  BY <1>1, <1>3, <1>4, <1>5 DEF RowInv, ComputeNativeBridgeStatus
<1>7. QED
  BY <1>2, <1>3, <1>6, OneRowKeepsRows

\* The rows an event of a native bridge finds: each has its key from its receipt.
LEMMA MatchFacts ==
  ASSUME IndexerInv, NEW s, NEW k \in Keys, NEW t \in Matching(s, k)
  PROVE  /\ t \in Transfers /\ Stack[t] = s /\ ReceiptKey(t) = k
         /\ rows[t].nativeBridgeStatus # "NONE"
<1>1. t \in Transfers /\ Stack[t] = s /\ rows[t].key = k /\ k # NoKey /\ RowInv(t)
  BY IndexerAssumption DEF Matching, IndexerInv
<1>2. QED
  BY <1>1 DEF RowInv

\* While the rows found are not finalized, all get the status their own hashes
\* give, whichever of them is read.
LEMMA WithdrawalProvenKeepsRows ==
  ASSUME IndexerInv, NEW k \in Keys,
         NEW w \in Transfers, Stack[w] = "op", Key[w] = k,
         exit[w] \in {"proven", "mature", "finalized"},
         \A u \in Transfers : Stack[u] = "op" /\ rows[u].nativeBridgeFinalizedTxHash =>
           ReceiptKey(u) # k,
         OnWithdrawalProven(k), exit' = exit, handled' = handled
  PROVE  rows' \in [Transfers -> Row] /\ \A u \in Transfers : RowInv(u)'
<1>1. rows \in [Transfers -> Row] /\ \A u \in Transfers : RowInv(u)
  BY DEF IndexerInv, IndexerTypeOK
<1>2. CASE rows' = rows
  BY <1>1, <1>2, RowsStay
<1>3. CASE rows' # rows
  <2>1. \A u \in Matching("op", k) :
          /\ u \in Transfers /\ Stack[u] = "op" /\ ReceiptKey(u) = k
          /\ rows[u].nativeBridgeStatus # "NONE"
          /\ rows[u].nativeBridgeFinalizedTxHash = FALSE
    BY <1>1, MatchFacts DEF Row
  <2>2. PICK x \in Matching("op", k) :
          rows' = [u \in Transfers |-> IF u \in Matching("op", k) THEN
                   [rows[u] EXCEPT
                     !.nativeBridgeStatus =
                       ComputeNativeBridgeStatus([rows[x] EXCEPT !.opProofTxHash = TRUE]),
                     !.opProofTxHash = TRUE,
                     !.expectedFinalizationTimestamp = "future"]
                   ELSE rows[u]]
    BY <1>3 DEF OnWithdrawalProven
  <2>3. ComputeNativeBridgeStatus([rows[x] EXCEPT !.opProofTxHash = TRUE]) = "PROVEN"
    BY <1>1, <2>1 DEF ComputeNativeBridgeStatus, Row
  <2>4. ASSUME NEW u \in Transfers PROVE rows'[u] \in Row /\ RowInv(u)'
    <3>1. /\ ReceiptKey(u)' = ReceiptKey(u)
          /\ ProvenFor(u)' <=> ProvenFor(u)
          /\ FinalizedFor(u)' <=> FinalizedFor(u)
      BY DEF ProvenFor, FinalizedFor, Named, ReceiptKey
    <3>2. CASE u \in Matching("op", k)
      <4>1. rows'[u] = [rows[u] EXCEPT !.nativeBridgeStatus = "PROVEN",
                                      !.opProofTxHash = TRUE,
                                      !.expectedFinalizationTimestamp = "future"]
        BY <2>2, <2>3, <3>2
      <4>2. /\ rows[u] \in Row /\ RowInv(u)
            /\ rows[u].nativeBridgeStatus # "NONE"
            /\ rows[u].nativeBridgeFinalizedTxHash = FALSE
        BY <1>1, <2>1, <3>2
      <4>3. /\ rows'[u] \in Row
            /\ rows'[u].key = rows[u].key
            /\ rows'[u].nativeBridgeStatus = "PROVEN"
            /\ rows'[u].opProofTxHash
            /\ rows'[u].loanEmittedTxHash = rows[u].loanEmittedTxHash
            /\ rows'[u].nativeBridgeFinalizedTxHash = rows[u].nativeBridgeFinalizedTxHash
        BY <4>1, <4>2 DEF Row, Statuses
      <4>4. ProvenFor(u) /\ Stack[u] = "op"
        BY <2>1, <3>2, NamedFacts DEF ProvenFor
      <4>5. QED
        BY <3>1, <4>2, <4>3, <4>4 DEF RowInv, ComputeNativeBridgeStatus
    <3>3. CASE u \notin Matching("op", k)
      <4>1. rows'[u] = rows[u]
        BY <2>2, <3>3
      <4>2. QED
        BY <1>1, <3>1, <4>1 DEF RowInv, ComputeNativeBridgeStatus
    <3>4. QED
      BY <3>2, <3>3
  <2>5. QED
    BY <2>2, <2>4
<1>4. QED
  BY <1>2, <1>3

LEMMA FinalizedKeepsRows ==
  ASSUME IndexerInv, NEW k \in Keys, NEW s,
         NEW w \in Transfers, Stack[w] = s, Key[w] = k, exit[w] = "finalized",
         OnFinalized(s, k), exit' = exit, handled' = handled
  PROVE  rows' \in [Transfers -> Row] /\ \A u \in Transfers : RowInv(u)'
<1>1. rows \in [Transfers -> Row] /\ \A u \in Transfers : RowInv(u)
  BY DEF IndexerInv, IndexerTypeOK
<1>2. CASE rows' = rows
  BY <1>1, <1>2, RowsStay
<1>3. CASE rows' # rows
  <2>1. ComputeNativeBridgeStatus([EmptyRow EXCEPT !.nativeBridgeFinalizedTxHash = TRUE])
          = "FINALIZED"
    BY DEF ComputeNativeBridgeStatus, EmptyRow
  <2>2. rows' = [u \in Transfers |-> IF u \in Matching(s, k) THEN
                   [rows[u] EXCEPT !.nativeBridgeFinalizedTxHash = TRUE,
                                   !.nativeBridgeStatus = "FINALIZED"]
                   ELSE rows[u]]
    BY <1>3, <2>1 DEF OnFinalized
  <2>3. ASSUME NEW u \in Transfers PROVE rows'[u] \in Row /\ RowInv(u)'
    <3>1. /\ ReceiptKey(u)' = ReceiptKey(u)
          /\ ProvenFor(u)' <=> ProvenFor(u)
          /\ FinalizedFor(u)' <=> FinalizedFor(u)
      BY DEF ProvenFor, FinalizedFor, Named, ReceiptKey
    <3>2. CASE u \in Matching(s, k)
      <4>1. rows'[u] = [rows[u] EXCEPT !.nativeBridgeFinalizedTxHash = TRUE,
                                      !.nativeBridgeStatus = "FINALIZED"]
        BY <2>2, <3>2
      <4>2. /\ rows'[u] \in Row
            /\ rows'[u].key = rows[u].key
            /\ rows'[u].nativeBridgeStatus = "FINALIZED"
            /\ rows'[u].opProofTxHash = rows[u].opProofTxHash
            /\ rows'[u].loanEmittedTxHash = rows[u].loanEmittedTxHash
            /\ rows'[u].nativeBridgeFinalizedTxHash
        BY <1>1, <4>1 DEF Row, Statuses
      <4>3. rows[u].nativeBridgeStatus # "NONE" /\ Stack[u] = s /\ ReceiptKey(u) = k
        BY <3>2, MatchFacts
      <4>4. FinalizedFor(u)
        BY <4>3, NamedFacts DEF FinalizedFor
      <4>5. QED
        BY <1>1, <3>1, <4>2, <4>3, <4>4 DEF RowInv, ComputeNativeBridgeStatus
    <3>3. CASE u \notin Matching(s, k)
      <4>1. rows'[u] = rows[u]
        BY <2>2, <3>3
      <4>2. QED
        BY <1>1, <3>1, <4>1 DEF RowInv, ComputeNativeBridgeStatus
    <3>4. QED
      BY <3>2, <3>3
  <2>4. QED
    BY <2>2, <2>3
<1>4. QED
  BY <1>2, <1>3

\* Only the finalization of a withdrawal that a row stands for finalizes it.
LEMMA NewlyFinalized ==
  ASSUME IndexerInv, NEW e \in Event, OnEvent(e), NEW t \in Transfers,
         rows'[t].nativeBridgeFinalizedTxHash, ~ rows[t].nativeBridgeFinalizedTxHash
  PROVE  e.kind = FinalizedKind[Stack[t]] /\ e.id = ReceiptKey(t)
<1>1. rows \in [Transfers -> Row]
  BY DEF IndexerInv, IndexerTypeOK
<1>2. CASE e.kind = "BridgeInitiated" /\ OnBridgeInitiated(e.id)
  <2> DEFINE r == UpsertOrigin(rows[t], ReceiptKey(t))
  <2>1. r.nativeBridgeFinalizedTxHash = rows[t].nativeBridgeFinalizedTxHash
    BY <1>1 DEF UpsertOrigin, Row
  <2>2. rows'[t] = rows[t] \/ rows'[t] = r
    BY <1>1, <1>2 DEF OnBridgeInitiated
  <2> HIDE DEF r
  <2>3. QED
    BY <2>1, <2>2
<1>3. CASE e.kind = "LoanEmitted" /\ OnLoanEmitted(e.id)
  BY <1>1, <1>3 DEF OnLoanEmitted, Derive, Row
<1>4. CASE e.kind = "WithdrawalProven" /\ OnWithdrawalProven(e.id)
  <2>1. rows' # rows
    OBVIOUS
  <2>2. PICK st : rows' = [u \in Transfers |-> IF u \in Matching("op", e.id) THEN
                   [rows[u] EXCEPT !.nativeBridgeStatus = st,
                                   !.opProofTxHash = TRUE,
                                   !.expectedFinalizationTimestamp = "future"]
                   ELSE rows[u]]
    BY <1>4, <2>1 DEF OnWithdrawalProven
  <2>3. \/ rows'[t] = rows[t]
        \/ rows'[t] = [rows[t] EXCEPT !.nativeBridgeStatus = st,
                                     !.opProofTxHash = TRUE,
                                     !.expectedFinalizationTimestamp = "future"]
    BY <2>2
  <2>4. rows[t] \in Row
    BY <1>1
  <2>5. rows'[t].nativeBridgeFinalizedTxHash = rows[t].nativeBridgeFinalizedTxHash
    BY <2>3, <2>4 DEF Row
  <2>6. QED
    BY <2>5
<1>5. ASSUME NEW s \in DOMAIN FinalizedKind,
             e.kind = FinalizedKind[s], OnFinalized(s, e.id)
      PROVE  e.kind = FinalizedKind[Stack[t]] /\ e.id = ReceiptKey(t)
  <2>1. e.id \in Keys
    BY <1>5, EventType, StackKind, Kinds DEF PortalKinds
  <2>2. t \in Matching(s, e.id)
    BY <1>5 DEF OnFinalized
  <2>3. QED
    BY <1>5, <2>1, <2>2, MatchFacts
<1>6. QED
  BY <1>2, <1>3, <1>4, <1>5 DEF OnEvent

LEMMA IndexKeepsOrder ==
  ASSUME IndexerInv, NEW c \in Chains, Index(c)
  PROVE  PortalOrder'
<1>1. /\ logs \in [Chains -> Seq(Event)] /\ logs[c] \in Seq(Event) /\ logs[c] # <<>>
      /\ logs' = [logs EXCEPT ![c] = Tail(logs[c])] /\ OnEvent(Head(logs[c]))
      /\ PoolChain \in Chains /\ PortalOrder
  BY ChainsAssumption DEF IndexerInv, IndexerTypeOK, ChainsTypeOK, Index
<1>2. PICK e : e = Head(logs[c]) /\ e = logs[c][1] /\ e \in Event
  BY <1>1
<1>3. /\ Len(logs[c]) \in Nat \ {0} /\ Len(logs'[c]) = Len(logs[c]) - 1
      /\ \A i \in 1 .. Len(logs'[c]) : i + 1 \in 1 .. Len(logs[c]) /\ logs'[c][i] = logs[c][i + 1]
      /\ \A d \in Chains \ {c} : logs'[d] = logs[d]
  BY <1>1
<1>4. \A t : ReceiptKey(t)' = ReceiptKey(t)
  BY DEF ReceiptKey
<1>5. ASSUME NEW t \in Transfers, Stack[t] = "op",
             rows'[t].nativeBridgeFinalizedTxHash, ~ rows[t].nativeBridgeFinalizedTxHash
      PROVE  e.kind = "WithdrawalFinalized" /\ e.id = ReceiptKey(t) /\ c = PoolChain
  <2>1. e.kind = "WithdrawalFinalized" /\ e.id = ReceiptKey(t)
    BY <1>1, <1>2, <1>5, NewlyFinalized, Kinds
  <2>2. 1 \in 1 .. Len(logs[c])
    BY <1>3
  <2>3. QED
    BY <1>1, <1>2, <2>1, <2>2 DEF PortalOrder
<1>6. ASSUME NEW d \in Chains, NEW i \in 1 .. Len(logs'[d]),
             logs'[d][i].kind \in {"WithdrawalProven", "WithdrawalFinalized"}
      PROVE  d = PoolChain
  <2>1. CASE d # c
    BY <1>1, <1>3, <1>6, <2>1 DEF PortalOrder
  <2>2. CASE d = c
    BY <1>1, <1>3, <1>6, <2>2 DEF PortalOrder
  <2>3. QED
    BY <2>1, <2>2
<1>7. CASE c # PoolChain
  <2>1. logs'[PoolChain] = logs[PoolChain]
    BY <1>1, <1>3, <1>7
  <2>2. QED
    BY <1>1, <1>4, <1>5, <1>6, <1>7, <2>1 DEF PortalOrder
<1>8. CASE c = PoolChain
  <2> DEFINE old == logs[PoolChain]
             new == logs'[PoolChain]
  <2>1. /\ Len(old) \in Nat \ {0} /\ Len(new) = Len(old) - 1 /\ e = old[1]
        /\ \A i \in 1 .. Len(new) : i + 1 \in 1 .. Len(old) /\ new[i] = old[i + 1]
    BY <1>2, <1>3, <1>8
  <2>2. ASSUME NEW k, NEW n \in 1 .. Len(old), NoProof(k, old, n),
               NEW m \in Nat \ {0}, n <= m + 1
        PROVE  NoProof(k, new, m)
    <3>1. SUFFICES ASSUME NEW i \in m .. Len(new), new[i].kind = "WithdrawalProven"
                   PROVE  new[i].id # k
      BY DEF NoProof
    <3>2. i \in 1 .. Len(new) /\ i + 1 \in n .. Len(old) /\ new[i] = old[i + 1]
      BY <2>1, <2>2
    <3>3. QED
      BY <2>2, <3>1, <3>2 DEF NoProof
  <2>3. ASSUME NEW i \in 1 .. Len(new), new[i].kind = "WithdrawalFinalized"
        PROVE  NoProof(new[i].id, new, i)
    <3>1. i + 1 \in 1 .. Len(old) /\ new[i] = old[i + 1] /\ i \in Nat \ {0}
      BY <2>1
    <3>2. NoProof(old[i + 1].id, old, i + 1)
      BY <1>1, <2>3, <3>1 DEF PortalOrder
    <3>3. QED
      BY <2>2, <3>1, <3>2
  <2>4. ASSUME NEW t \in Transfers, Stack[t] = "op", rows'[t].nativeBridgeFinalizedTxHash
        PROVE  NoProof(ReceiptKey(t), new, 1)
    <3>1. 1 \in 1 .. Len(old)
      BY <2>1
    <3>2. NoProof(ReceiptKey(t), old, 1)
      <4>1. CASE rows[t].nativeBridgeFinalizedTxHash
        BY <1>1, <2>4, <4>1 DEF PortalOrder
      <4>2. CASE ~ rows[t].nativeBridgeFinalizedTxHash
        <5>1. e.kind = "WithdrawalFinalized" /\ e.id = ReceiptKey(t)
          BY <1>5, <2>4, <4>2
        <5>2. QED
          BY <1>1, <2>1, <3>1, <5>1 DEF PortalOrder
      <4>3. QED
        BY <4>1, <4>2
    <3>3. QED
      BY <2>2, <3>1, <3>2
  <2> HIDE DEF old, new
  <2>5. /\ \A i \in 1 .. Len(new) : new[i].kind = "WithdrawalFinalized" =>
             NoProof(new[i].id, new, i)
        /\ \A t \in Transfers : Stack[t] = "op" /\ rows'[t].nativeBridgeFinalizedTxHash =>
             NoProof(ReceiptKey(t), new, 1)
    BY <2>3, <2>4
  <2>6. QED
    BY <1>4, <1>6, <2>5 DEF PortalOrder, NoProof, new
<1>9. QED
  BY <1>7, <1>8

LEMMA IndexKeepsInv ==
  ASSUME IndexerInv, NEW c \in Chains, Index(c)
  PROVE  IndexerInv'
<1> DEFINE e == Head(logs[c])
<1>1. /\ logs' \in [Chains -> Seq(Event)]
      /\ LogsAreReal'
      /\ e \in Event
      /\ Real(e, exit, handled)
  BY IndexKeepsLogs DEF IndexerInv
<1>2. exit' = exit /\ handled' = handled /\ OnEvent(e)
  BY DEF Index
<1> HIDE DEF e
<1>3. rows' \in [Transfers -> Row] /\ \A u \in Transfers : RowInv(u)'
  <2>1. CASE e.kind = "BridgeInitiated" /\ OnBridgeInitiated(e.id)
    <3>1. e.id \in Transfers /\ exit[e.id] # "none"
      BY <1>1, <2>1, EventType DEF PortalKinds, Real
    <3>2. QED
      BY <1>2, <2>1, <3>1, BridgeInitiatedKeepsRows
  <2>2. CASE e.kind = "LoanEmitted" /\ OnLoanEmitted(e.id)
    <3>1. e.id \in Transfers /\ e.id \in handled
      BY <1>1, <2>2, EventType DEF PortalKinds, Real
    <3>2. QED
      BY <1>2, <2>2, <3>1, LoanEmittedKeepsRows
  <2>3. CASE e.kind = "WithdrawalProven" /\ OnWithdrawalProven(e.id)
    <3>1. e.id \in Keys
      BY <1>1, <2>3, EventType DEF PortalKinds
    <3>2. PICK t \in Transfers : /\ Stack[t] = "op" /\ Key[t] = e.id
                                 /\ exit[t] \in {"proven", "mature", "finalized"}
      BY <1>1, <2>3 DEF Real
    <3>3. ASSUME NEW u \in Transfers, Stack[u] = "op", rows[u].nativeBridgeFinalizedTxHash
          PROVE  ReceiptKey(u) # e.id
      <4>1. e = logs[c][1] /\ 1 \in 1 .. Len(logs[c])
        BY DEF e, Index, IndexerInv, IndexerTypeOK, ChainsTypeOK
      <4>2. c = PoolChain
        BY <2>3, <4>1 DEF IndexerInv, PortalOrder
      <4>3. NoProof(ReceiptKey(u), logs[PoolChain], 1)
        BY <3>3 DEF IndexerInv, PortalOrder
      <4>4. QED
        BY <2>3, <4>1, <4>2, <4>3 DEF NoProof
    <3>4. QED
      BY <1>2, <2>3, <3>1, <3>2, <3>3, WithdrawalProvenKeepsRows
  <2>4. ASSUME NEW s \in DOMAIN FinalizedKind,
               e.kind = FinalizedKind[s], OnFinalized(s, e.id)
        PROVE  rows' \in [Transfers -> Row] /\ \A u \in Transfers : RowInv(u)'
    <3>1. e.kind \in PortalKinds
      BY <2>4, StackKind, Kinds
    <3>2. e.id \in Keys
      BY <1>1, <3>1, EventType DEF PortalKinds
    <3>3. PICK t \in Transfers : Stack[t] = s /\ Key[t] = e.id /\ exit[t] = "finalized"
      BY <1>1, <2>4 DEF Real
    <3>4. QED
      BY <1>2, <2>4, <3>2, <3>3, FinalizedKeepsRows
  <2>5. QED
    BY <1>2, <2>1, <2>2, <2>3, <2>4 DEF OnEvent
<1>4. PortalOrder'
  BY IndexKeepsOrder
<1>5. QED
  BY <1>1, <1>2, <1>3, <1>4 DEF IndexerInv, IndexerTypeOK, ChainsTypeOK, HandledInv

-----------------------------------------------------------------------------
(* The theorems *)

\* When a transition is evident.
LEMMA EvidentFacts ==
  ASSUME NEW t \in Transfers
  PROVE  /\ "INITIATED" \in Evident(t) <=> exit[t] # "none"
         /\ "HANDLED" \in Evident(t) <=> t \in handled
         /\ "PROVEN" \in Evident(t) <=>
              \E u \in Named[t] : Stack[u] = "op" /\ exit[u] \in {"proven", "mature", "finalized"}
         /\ "FINALIZED" \in Evident(t) <=> \E u \in Named[t] : exit[u] = "finalized"
         /\ \A s \in Evident(t) : s \in {"INITIATED", "HANDLED", "PROVEN", "FINALIZED"}
BY DEF Evident, Reached

LEMMA IndexerStart == IndexerInit => IndexerInv
<1> SUFFICES ASSUME IndexerInit PROVE IndexerInv
  OBVIOUS
<1>1. /\ exit = [t \in Transfers |-> "none"] /\ handled = {}
      /\ logs = [c \in Chains |-> <<>>] /\ rows = [t \in Transfers |-> EmptyRow]
  BY DEF IndexerInit, ChainsInit
<1>2. EmptyRow \in Row
  BY DEF EmptyRow, Row, Statuses
<1>3. IndexerTypeOK
  BY <1>1, <1>2 DEF IndexerTypeOK, ChainsTypeOK, Exits
<1>4. LogsAreReal /\ HandledInv /\ PortalOrder
  BY <1>1, ChainsAssumption DEF LogsAreReal, HandledInv, PortalOrder, NoProof, EmptyRow
<1>5. \A t \in Transfers : RowInv(t)
  BY <1>1 DEF RowInv, EmptyRow
<1>6. QED
  BY <1>3, <1>4, <1>5 DEF IndexerInv

LEMMA IndexerStep ==
  ASSUME IndexerInv, [IndexerNext]_indexerVars
  PROVE  IndexerInv'
<1>1. CASE UNCHANGED indexerVars
  <2>1. exit' = exit /\ handled' = handled /\ logs' = logs /\ rows' = rows
    BY <1>1 DEF indexerVars, chainVars
  <2>2. \A t \in Transfers : RowInv(t)'
    BY <2>1, RowsStay
  <2>3. PortalOrder'
    BY <2>1 DEF IndexerInv, PortalOrder, NoProof, ReceiptKey
  <2>4. QED
    BY <2>1, <2>2, <2>3 DEF IndexerInv, IndexerTypeOK, ChainsTypeOK, LogsAreReal, HandledInv
<1>2. CASE IndexerNext
  BY <1>2, UserStepKeepsInv, ExitStepKeepsInv, TimeStepKeepsInv, IndexKeepsInv
     DEF IndexerNext
<1>3. QED
  BY <1>1, <1>2

\* The indexer's invariant, whatever transfers share keys and transactions.
THEOREM IndexerInvariant == IndexerSpec => []IndexerInv
<1>1. IndexerInit => IndexerInv
  BY IndexerStart
<1>2. IndexerInv /\ [IndexerNext]_indexerVars => IndexerInv'
  BY IndexerStep
<1>3. QED
  BY <1>1, <1>2, PTL DEF IndexerSpec

\* The tables and logs keep their types (bridgeTransaction in the schema).
THEOREM IndexerTypeCorrect == IndexerSpec => []IndexerTypeOK
<1>1. IndexerInv => IndexerTypeOK
  BY DEF IndexerInv
<1>2. QED
  BY <1>1, IndexerInvariant, PTL

\* Each handler stores the status that computeNativeBridgeStatus would give the
\* whole row, also those that do not read it.
THEOREM StatusIsDerived == IndexerSpec => []StatusMatchesEvidence
<1>1. IndexerInv => StatusMatchesEvidence
  BY DEF IndexerInv, RowInv, StatusMatchesEvidence
<1>2. QED
  BY <1>1, IndexerInvariant, PTL

\* A hash in a row is evidence: its transition fired on a chain, for the transfer
\* itself or for a withdrawal that its row stands for.
THEOREM EvidenceIsDurable == IndexerSpec => []EvidenceIsReal
<1>1. ASSUME IndexerInv PROVE EvidenceIsReal
  <2>1. SUFFICES ASSUME NEW t \in Transfers
                 PROVE  /\ rows[t].loanEmittedTxHash => "HANDLED" \in Evident(t)
                        /\ rows[t].opProofTxHash => "PROVEN" \in Evident(t)
                        /\ rows[t].nativeBridgeFinalizedTxHash => "FINALIZED" \in Evident(t)
    BY DEF EvidenceIsReal
  <2>2. QED
    BY <1>1, EvidentFacts DEF IndexerInv, RowInv, ProvenFor, FinalizedFor, Named
<1>2. QED
  BY <1>1, IndexerInvariant, PTL

-----------------------------------------------------------------------------
(* The refinement *)

\* Evidence is added to a row and never removed.
Grows(q, r) ==
  /\ q.nativeBridgeStatus # "NONE" => r.nativeBridgeStatus # "NONE"
  /\ q.opProofTxHash => r.opProofTxHash
  /\ q.loanEmittedTxHash => r.loanEmittedTxHash
  /\ q.nativeBridgeFinalizedTxHash => r.nativeBridgeFinalizedTxHash

LEMMA IndexGrowsRows ==
  ASSUME IndexerInv, NEW c \in Chains, Index(c), NEW t \in Transfers
  PROVE  Grows(rows[t], rows'[t])
<1> DEFINE e == Head(logs[c])
<1>1. e \in Event /\ OnEvent(e)
  BY IndexKeepsLogs DEF IndexerInv, Index
<1>2. rows \in [Transfers -> Row]
  BY DEF IndexerInv, IndexerTypeOK
<1> HIDE DEF e
<1>3. CASE rows' = rows
  BY <1>3 DEF Grows
<1>4. CASE e.kind = "BridgeInitiated" /\ OnBridgeInitiated(e.id)
  <2> DEFINE r == UpsertOrigin(rows[t], ReceiptKey(t))
  <2>1. Grows(rows[t], r)
    BY <1>2 DEF Grows, UpsertOrigin, Row, Statuses
  <2>2. rows'[t] = rows[t] \/ rows'[t] = r
    BY <1>2, <1>4 DEF OnBridgeInitiated
  <2> HIDE DEF r
  <2>3. QED
    BY <2>1, <2>2 DEF Grows
<1>5. CASE e.kind = "LoanEmitted" /\ OnLoanEmitted(e.id)
  <2> DEFINE r == Derive([rows[t] EXCEPT !.loanEmittedTxHash = TRUE])
  <2>1. Grows(rows[t], r)
    BY <1>2 DEF Grows, Derive, ComputeNativeBridgeStatus, Row, Statuses
  <2>2. rows'[t] = rows[t] \/ rows'[t] = r
    BY <1>2, <1>5 DEF OnLoanEmitted
  <2> HIDE DEF r
  <2>3. QED
    BY <2>1, <2>2 DEF Grows
<1>6. CASE e.kind = "WithdrawalProven" /\ OnWithdrawalProven(e.id) /\ rows' # rows
  <2>1. PICK x \in Matching("op", e.id) :
          rows' = [u \in Transfers |-> IF u \in Matching("op", e.id) THEN
                   [rows[u] EXCEPT
                     !.nativeBridgeStatus =
                       ComputeNativeBridgeStatus([rows[x] EXCEPT !.opProofTxHash = TRUE]),
                     !.opProofTxHash = TRUE,
                     !.expectedFinalizationTimestamp = "future"]
                   ELSE rows[u]]
    BY <1>6 DEF OnWithdrawalProven
  <2> DEFINE st == ComputeNativeBridgeStatus([rows[x] EXCEPT !.opProofTxHash = TRUE])
  <2>2. \/ rows'[t] = rows[t]
        \/ rows'[t] = [rows[t] EXCEPT !.nativeBridgeStatus = st,
                                     !.opProofTxHash = TRUE,
                                     !.expectedFinalizationTimestamp = "future"]
    BY <2>1
  <2>3. st # "NONE"
    BY DEF ComputeNativeBridgeStatus
  <2> HIDE DEF st
  <2>4. rows[t] \in Row
    BY <1>2
  <2>5. CASE rows'[t] = rows[t]
    BY <2>5 DEF Grows
  <2>6. CASE rows'[t] = [rows[t] EXCEPT !.nativeBridgeStatus = st,
                                       !.opProofTxHash = TRUE,
                                       !.expectedFinalizationTimestamp = "future"]
    BY <2>3, <2>4, <2>6 DEF Grows, Row
  <2>7. QED
    BY <2>2, <2>5, <2>6
<1>7. ASSUME NEW s \in DOMAIN FinalizedKind,
             e.kind = FinalizedKind[s], OnFinalized(s, e.id), rows' # rows
      PROVE  Grows(rows[t], rows'[t])
  <2> DEFINE st == ComputeNativeBridgeStatus(
                     [EmptyRow EXCEPT !.nativeBridgeFinalizedTxHash = TRUE])
  <2>1. \/ rows'[t] = rows[t]
        \/ rows'[t] = [rows[t] EXCEPT !.nativeBridgeFinalizedTxHash = TRUE,
                                     !.nativeBridgeStatus = st]
    BY <1>7 DEF OnFinalized
  <2>2. st # "NONE"
    BY DEF ComputeNativeBridgeStatus
  <2> HIDE DEF st
  <2>3. QED
    BY <1>2, <2>1, <2>2 DEF Grows, Row
<1>8. QED
  BY <1>1, <1>3, <1>4, <1>5, <1>6, <1>7 DEF OnEvent

\* A row that grows shows the same status or a later one.
LEMMA GrowthIsProgress ==
  ASSUME NEW t \in Transfers, RowInv(t), RowInv(t)', Grows(rows[t], rows'[t]),
         rows'[t].nativeBridgeStatus # rows[t].nativeBridgeStatus
  PROVE  /\ rows'[t].nativeBridgeStatus # "NONE"
         /\ Progress!Level[rows'[t].nativeBridgeStatus]
              > Progress!Level[rows[t].nativeBridgeStatus]
<1>1. /\ Progress!Level["NONE"] = 0 /\ Progress!Level["INITIATED"] = 1
      /\ Progress!Level["HANDLED"] = 2 /\ Progress!Level["PROVEN"] = 3
      /\ Progress!Level["FINALIZED"] = 4
  BY DEF Progress!Level
<1>2. rows'[t].nativeBridgeStatus # "NONE"
  BY DEF Grows
<1>3. rows'[t].nativeBridgeStatus = ComputeNativeBridgeStatus(rows'[t])
  BY <1>2 DEF RowInv, ComputeNativeBridgeStatus
<1>4. CASE rows[t].nativeBridgeStatus = "NONE"
  BY <1>1, <1>3, <1>4 DEF ComputeNativeBridgeStatus
<1>5. CASE rows[t].nativeBridgeStatus # "NONE"
  <2>1. rows[t].nativeBridgeStatus = ComputeNativeBridgeStatus(rows[t])
    BY <1>5 DEF RowInv
  <2>2. QED
    BY <1>1, <1>3, <2>1 DEF ComputeNativeBridgeStatus, Grows
<1>6. QED
  BY <1>2, <1>4, <1>5

\* A step of the chains takes nothing back that was reached.
LEMMA ChainStepReaches ==
  ASSUME IndexerInv, NEW t \in Transfers, UserStep(t) \/ ExitStep(t), NEW u \in Transfers
  PROVE  rows' = rows /\ Reached(u) \subseteq Reached(u)'
<1>1. exit \in [Transfers -> Exits] /\ Stack[t] \in {"op", "orbit", "zksync"}
  BY ChainsAssumption DEF IndexerInv, IndexerTypeOK, ChainsTypeOK
<1>2. rows' = rows
  BY DEF UserStep, ExitStep
<1>3. CASE Initiate(t)
  BY <1>1, <1>2, <1>3 DEF Initiate, Reached
<1>4. CASE Handle(t)
  BY <1>1, <1>2, <1>4 DEF Handle, Reached
<1>5. CASE Mature(t)
  BY <1>1, <1>2, <1>5 DEF Mature, Reached
<1>6. CASE Prove(t)
  BY <1>1, <1>2, <1>6 DEF Prove, Reached
<1>7. CASE Finalize(t)
  BY <1>1, <1>2, <1>7 DEF Finalize, Reached
<1>8. QED
  BY <1>3, <1>4, <1>5, <1>6, <1>7 DEF UserStep, ExitStep

\* The transitions that fired and the statuses shown, of all transfers.
AllEvident == UNION {{t} \X Evident(t) : t \in Transfers}
AllShown == [t \in Transfers |-> rows[t].nativeBridgeStatus]

LEMMA AllEvidentPairs ==
  ASSUME NEW t \in Transfers, NEW s
  PROVE  <<t, s>> \in AllEvident <=> s \in Evident(t)
BY DEF AllEvident

\* A step of the indexer shows later statuses or changes none.
LEMMA IndexShows ==
  ASSUME IndexerInv, NEW c \in Chains, Index(c)
  PROVE  [Progress!ProgressNext]_Progress!progressVars
<1>1. exit' = exit /\ handled' = handled /\ IndexerInv'
  BY IndexKeepsInv DEF Index
<1>2. AllEvident' = AllEvident
  BY <1>1 DEF AllEvident, Evident, Named, ReceiptKey, Reached
<1>3. ASSUME NEW t \in Transfers, AllShown'[t] # AllShown[t]
      PROVE  /\ <<t, AllShown'[t]>> \in AllEvident
             /\ Progress!Level[AllShown'[t]] > Progress!Level[AllShown[t]]
  <2>1. rows'[t].nativeBridgeStatus # rows[t].nativeBridgeStatus
    BY <1>3 DEF AllShown
  <2>2. /\ rows'[t].nativeBridgeStatus # "NONE"
        /\ Progress!Level[rows'[t].nativeBridgeStatus]
             > Progress!Level[rows[t].nativeBridgeStatus]
    BY <1>1, <2>1, IndexGrowsRows, GrowthIsProgress DEF IndexerInv
  <2>3. Evident(t)' = Evident(t)
    BY <1>1 DEF Evident, Named, ReceiptKey, Reached
  <2>4. rows'[t].nativeBridgeStatus \in Evident(t)
    BY <1>1, <2>2, <2>3, EvidentFacts
       DEF IndexerInv, RowInv, ComputeNativeBridgeStatus, ProvenFor, FinalizedFor, Named
  <2>5. QED
    BY <2>2, <2>4, AllEvidentPairs DEF AllShown
<1>4. DOMAIN AllShown' = Transfers
  BY DEF AllShown
<1>5. Progress!Show
  BY <1>2, <1>3, <1>4 DEF Progress!Show, AllEvident, AllShown
<1>6. QED
  BY <1>5 DEF Progress!ProgressNext

\* The indexer implements the abstract progress of the transfers: the status it
\* shows never regresses and is never ahead of the chains.
THEOREM IndexerImplementsProgress == IndexerSpec => ImplementsProgress
<1>1. IndexerInit => Progress!ProgressInit
  <2> SUFFICES ASSUME IndexerInit PROVE Progress!ProgressInit
    OBVIOUS
  <2>1. \A t \in Transfers : Reached(t) = {}
    BY DEF IndexerInit, ChainsInit, Reached
  <2>2. \A t \in Transfers : Evident(t) = {}
    BY <2>1, NamedFacts DEF Evident
  <2>3. UNION {{t} \X Evident(t) : t \in Transfers} = {}
    BY <2>2
  <2>4. [t \in Transfers |-> rows[t].nativeBridgeStatus] = [t \in Transfers |-> "NONE"]
    BY DEF IndexerInit, EmptyRow
  <2>5. QED
    BY <2>3, <2>4 DEF Progress!ProgressInit
<1>2. IndexerInv /\ [IndexerNext]_indexerVars => [Progress!ProgressNext]_Progress!progressVars
  <2> SUFFICES ASSUME IndexerInv, [IndexerNext]_indexerVars
               PROVE  [Progress!ProgressNext]_Progress!progressVars
    OBVIOUS
  <2>1. CASE UNCHANGED indexerVars
    BY <2>1 DEF indexerVars, chainVars, Evident, Named, ReceiptKey, Reached,
                Progress!progressVars
  <2>2. ASSUME NEW t \in Transfers, UserStep(t) \/ ExitStep(t)
        PROVE  [Progress!ProgressNext]_Progress!progressVars
    <3>1. rows' = rows /\ \A u \in Transfers : Reached(u) \subseteq Reached(u)'
      BY <2>2, ChainStepReaches
    <3>2. \A u \in Transfers : Evident(u) \subseteq Evident(u)'
      BY <3>1 DEF Evident, Named, ReceiptKey
    <3>3. AllEvident \subseteq AllEvident'
      BY <3>2 DEF AllEvident
    <3>4. AllShown' = AllShown
      BY <3>1 DEF AllShown
    <3>5. Progress!Reach
      BY <3>3, <3>4 DEF Progress!Reach, AllEvident, AllShown
    <3>6. QED
      BY <3>5 DEF Progress!ProgressNext
  <2>3. ASSUME NEW t \in Transfers, TimeStep(t)
        PROVE  [Progress!ProgressNext]_Progress!progressVars
    <3>1. exit' = exit /\ handled' = handled /\ rows \in [Transfers -> Row]
      BY <2>3 DEF TimeStep, Age, Elapse, chainVars, IndexerInv, IndexerTypeOK
    <3>2. \A u \in Transfers : rows'[u].nativeBridgeStatus = rows[u].nativeBridgeStatus
      BY <2>3, <3>1 DEF TimeStep, Age, Elapse, Row
    <3>3. QED
      BY <3>1, <3>2 DEF Evident, Named, ReceiptKey, Reached, Progress!progressVars
  <2>4. ASSUME NEW c \in Chains, Index(c)
        PROVE  [Progress!ProgressNext]_Progress!progressVars
    BY <2>4, IndexShows
  <2>5. QED
    BY <2>1, <2>2, <2>3, <2>4 DEF IndexerNext
<1>3. QED
  BY <1>1, <1>2, IndexerInvariant, PTL DEF IndexerSpec, ImplementsProgress, Progress!ProgressSpec

=============================================================================
