---------------------------- MODULE ClaimerProofs ----------------------------
(***************************************************************************)
(* Theorems about the claimer, for any number of transfers and chains: it  *)
(* only requests what is complete, and of a withdrawal that it alone       *)
(* proves and finalizes, the handlers of the native bridges never see an   *)
(* event before the row it belongs to.                                     *)
(*                                                                         *)
(* A query and the requests made from it are older than the tables they    *)
(* are carried out under, so the invariant says what of a row stays true   *)
(* once it is.                                                             *)
(***************************************************************************)
EXTENDS Claimer, BridgeIndexerProofs

\* The key comes with the origin; a time to finalize comes with or after it.
WithOrigin(row) ==
  /\ row.key # NoKey <=> row.originTimestamp # "null"
  /\ row.expectedFinalizationTimestamp # "null" => row.originTimestamp # "null"

OriginInv == \A t \in Transfers : WithOrigin(rows[t])

Complete(row) ==
  /\ row.originTimestamp # "null"
  /\ row.loanEmittedTxHash \/ row.opProofTxHash

JobInv ==
  /\ todo \subseteq Transfers
  /\ requests \subseteq {"prove", "finalize"} \X Transfers
  /\ \A t \in todo : Complete(rows[t])
  /\ \A s \in {"prove", "finalize"} : \A t \in Transfers :
       <<s, t>> \in requests => Complete(rows[t])

ClaimerInv ==
  IndexerInv /\ OriginInv /\ JobInv /\ stage \in {"idle", "prove", "finalize"}

\* What a handler never takes away.
Keeps(q, r) ==
  /\ q.originTimestamp # "null" => r.originTimestamp # "null"
  /\ q.loanEmittedTxHash => r.loanEmittedTxHash
  /\ q.opProofTxHash => r.opProofTxHash
  /\ q.nativeBridgeFinalizedTxHash => r.nativeBridgeFinalizedTxHash

RowsKept == \A t \in Transfers : Keeps(rows[t], rows'[t])

-----------------------------------------------------------------------------
(* Every step of the claimer is one of the indexer's, or leaves it alone *)

LEMMA ClaimerStepIsIndexerStep ==
  ASSUME ClaimerNext
  PROVE  IndexerNext \/ UNCHANGED indexerVars
<1>1. CASE \E t \in Transfers : UserStep(t) /\ UNCHANGED jobVars
  BY <1>1 DEF IndexerNext
<1>2. CASE \E t \in Transfers : TimeStep(t) /\ UNCHANGED jobVars
  BY <1>2 DEF IndexerNext
<1>3. CASE \E t \in OutsideExits : ExitStep(t) /\ UNCHANGED jobVars
  BY <1>3, ClaimerAssumption DEF IndexerNext
<1>4. CASE \E c \in Chains : Index(c) /\ UNCHANGED jobVars
  BY <1>4 DEF IndexerNext
<1>5. CASE ProveTransactions \/ FinalizeWithdrawals \/ EndRun \/ AbortRun
  BY <1>5 DEF ProveTransactions, FinalizeWithdrawals, EndRun, AbortRun
<1>6. CASE \E t \in Transfers : Accepted(t) \/ Refused(t) \/ Relay(t) \/ DropRequest(t)
  <2>1. PICK t \in Transfers : Accepted(t) \/ Refused(t) \/ Relay(t) \/ DropRequest(t)
    BY <1>6
  <2>2. CASE Relay(t)
    <3>1. PICK u \in Together[t] : Prove(u) \/ Finalize(u)
      BY <2>2 DEF Relay
    <3>2. u \in Transfers /\ ExitStep(u)
      BY <2>2, <3>1 DEF Relay, ExitStep, Together
    <3>3. QED
      BY <3>2 DEF IndexerNext
  <2>3. CASE Accepted(t) \/ Refused(t) \/ DropRequest(t)
    BY <2>3 DEF Accepted, Refused, DropRequest
  <2>4. QED
    BY <2>1, <2>2, <2>3
<1>7. QED
  BY <1>1, <1>2, <1>3, <1>4, <1>5, <1>6 DEF ClaimerNext

\* The claimer and the relayer do nothing to chains and tables that the indexer
\* does not expect: what is proved of the indexer holds beside the claimer.
THEOREM ClaimerImplementsIndexer == ClaimerSpec => IndexerSpec
<1>1. ClaimerInit => IndexerInit
  BY DEF ClaimerInit
<1>2. [ClaimerNext]_claimerVars => [IndexerNext]_indexerVars
  BY ClaimerStepIsIndexerStep DEF claimerVars
<1>3. QED
  BY <1>1, <1>2, PTL DEF ClaimerSpec, IndexerSpec

-----------------------------------------------------------------------------
(* What the handlers do to a row *)

LEMMA TimeStepKeeps ==
  ASSUME IndexerTypeOK, OriginInv, NEW t \in Transfers, TimeStep(t)
  PROVE  OriginInv' /\ RowsKept
<1>1. rows \in [Transfers -> Row]
  BY DEF IndexerTypeOK
<1>2. CASE Age(t)
  BY <1>1, <1>2 DEF Age, OriginInv, WithOrigin, RowsKept, Keeps, Row
<1>3. CASE Elapse(t)
  BY <1>1, <1>3 DEF Elapse, OriginInv, WithOrigin, RowsKept, Keeps, Row
<1>4. QED
  BY <1>2, <1>3 DEF TimeStep

LEMMA BridgeInitiatedKeeps ==
  ASSUME IndexerTypeOK, OriginInv, NEW t \in Transfers, OnBridgeInitiated(t)
  PROVE  OriginInv' /\ RowsKept
<1>1. rows \in [Transfers -> Row]
  BY DEF IndexerTypeOK
<1>2. ReceiptKey(t) \in Keys /\ NoKey \notin Keys
  BY IndexerAssumption, ChainsAssumption DEF ReceiptKey
<1>3. CASE UNCHANGED rows
  BY <1>3 DEF OriginInv, RowsKept, Keeps
<1>4. CASE rows' = [rows EXCEPT ![t] = UpsertOrigin(rows[t], ReceiptKey(t))]
  BY <1>1, <1>2, <1>4 DEF UpsertOrigin, OriginInv, WithOrigin, RowsKept, Keeps, Row
<1>5. QED
  BY <1>3, <1>4 DEF OnBridgeInitiated

LEMMA LoanEmittedKeeps ==
  ASSUME IndexerTypeOK, OriginInv, NEW t \in Transfers, OnLoanEmitted(t)
  PROVE  OriginInv' /\ RowsKept
<1>1. rows \in [Transfers -> Row]
  BY DEF IndexerTypeOK
<1>2. QED
  BY <1>1 DEF OnLoanEmitted, Derive, OriginInv, WithOrigin, RowsKept, Keeps, Row

LEMMA WithdrawalProvenKeeps ==
  ASSUME IndexerTypeOK, OriginInv, NEW k \in Keys, OnWithdrawalProven(k)
  PROVE  /\ OriginInv' /\ RowsKept
         /\ \A t \in Matching("op", k) : rows'[t].opProofTxHash
<1>1. rows \in [Transfers -> Row] /\ NoKey # k
  BY IndexerAssumption DEF IndexerTypeOK
<1>2. CASE Matching("op", k) = {} /\ UNCHANGED rows
  BY <1>2 DEF OriginInv, RowsKept, Keeps
<1>3. ASSUME NEW s,
             rows' = [t \in Transfers |->
               IF t \in Matching("op", k)
               THEN [rows[t] EXCEPT !.nativeBridgeStatus = s,
                                    !.opProofTxHash = TRUE,
                                    !.expectedFinalizationTimestamp = "future"]
               ELSE rows[t]]
      PROVE  /\ OriginInv' /\ RowsKept
             /\ \A t \in Matching("op", k) : rows'[t].opProofTxHash
  <2>1. ASSUME NEW t \in Transfers
        PROVE  /\ WithOrigin(rows'[t]) /\ Keeps(rows[t], rows'[t])
               /\ t \in Matching("op", k) => rows'[t].opProofTxHash
    <3>1. rows[t] \in Row /\ WithOrigin(rows[t])
      BY <1>1 DEF OriginInv
    <3>2. CASE t \in Matching("op", k)
      <4>1. rows'[t] = [rows[t] EXCEPT !.nativeBridgeStatus = s,
                                      !.opProofTxHash = TRUE,
                                      !.expectedFinalizationTimestamp = "future"]
        BY <1>3, <3>2
      <4>2. rows[t].key = k
        BY <3>2 DEF Matching
      <4>3. QED
        BY <1>1, <3>1, <4>1, <4>2 DEF WithOrigin, Keeps, Row
    <3>3. CASE t \notin Matching("op", k)
      <4>1. rows'[t] = rows[t]
        BY <1>3, <3>3
      <4>2. QED
        BY <3>1, <3>3, <4>1 DEF Keeps
    <3>4. QED
      BY <3>2, <3>3
  <2>2. QED
    BY <2>1 DEF OriginInv, RowsKept, Matching
<1>4. QED
  BY <1>2, <1>3 DEF OnWithdrawalProven

LEMMA FinalizedKeeps ==
  ASSUME IndexerTypeOK, OriginInv, NEW s, NEW k \in Keys, OnFinalized(s, k)
  PROVE  /\ OriginInv' /\ RowsKept
         /\ (s = "zksync" => k \notin Indirect) =>
              \A t \in Matching(s, k) : rows'[t].nativeBridgeFinalizedTxHash
<1>1. rows \in [Transfers -> Row]
  BY DEF IndexerTypeOK
<1>2. CASE s = "zksync" /\ k \in Indirect /\ UNCHANGED rows
  BY <1>2 DEF OriginInv, RowsKept, Keeps
<1>3. ASSUME NEW x,
             rows' = [t \in Transfers |->
               IF t \in Matching(s, k)
               THEN [rows[t] EXCEPT !.nativeBridgeFinalizedTxHash = TRUE,
                                    !.nativeBridgeStatus = x]
               ELSE rows[t]]
      PROVE  /\ OriginInv' /\ RowsKept
             /\ \A t \in Matching(s, k) : rows'[t].nativeBridgeFinalizedTxHash
  <2>1. ASSUME NEW t \in Transfers
        PROVE  /\ WithOrigin(rows'[t]) /\ Keeps(rows[t], rows'[t])
               /\ t \in Matching(s, k) => rows'[t].nativeBridgeFinalizedTxHash
    <3>1. rows[t] \in Row /\ WithOrigin(rows[t])
      BY <1>1 DEF OriginInv
    <3>2. CASE t \in Matching(s, k)
      <4>1. rows'[t] = [rows[t] EXCEPT !.nativeBridgeFinalizedTxHash = TRUE,
                                      !.nativeBridgeStatus = x]
        BY <1>3, <3>2
      <4>2. QED
        BY <3>1, <4>1 DEF WithOrigin, Keeps, Row
    <3>3. CASE t \notin Matching(s, k)
      <4>1. rows'[t] = rows[t]
        BY <1>3, <3>3
      <4>2. QED
        BY <3>1, <3>3, <4>1 DEF Keeps
    <3>4. QED
      BY <3>2, <3>3
  <2>2. QED
    BY <2>1 DEF OriginInv, RowsKept, Matching
<1>4. QED
  BY <1>2, <1>3 DEF OnFinalized

\* No handler takes anything of a row away.
LEMMA IndexKeeps ==
  ASSUME IndexerInv, OriginInv, NEW c \in Chains, Index(c)
  PROVE  OriginInv' /\ RowsKept
<1> DEFINE e == Head(logs[c])
<1>1. e \in Event /\ OnEvent(e) /\ IndexerTypeOK
  BY IndexKeepsLogs DEF IndexerInv, Index
<1> HIDE DEF e
<1>2. CASE e.kind = "BridgeInitiated" /\ OnBridgeInitiated(e.id)
  BY <1>1, <1>2, EventType, BridgeInitiatedKeeps DEF PortalKinds
<1>3. CASE e.kind = "LoanEmitted" /\ OnLoanEmitted(e.id)
  BY <1>1, <1>3, EventType, LoanEmittedKeeps DEF PortalKinds
<1>4. CASE e.kind = "WithdrawalProven" /\ OnWithdrawalProven(e.id)
  <2>1. e.id \in Keys
    BY <1>1, <1>4, EventType DEF PortalKinds
  <2>2. QED
    BY <1>1, <1>4, <2>1, WithdrawalProvenKeeps
<1>5. ASSUME NEW s \in DOMAIN FinalizedKind,
             e.kind = FinalizedKind[s], OnFinalized(s, e.id)
      PROVE  OriginInv' /\ RowsKept
  <2>1. e.id \in Keys
    BY <1>1, <1>5, EventType, StackKind, Kinds DEF PortalKinds
  <2>2. QED
    BY <1>1, <1>5, <2>1, FinalizedKeeps
<1>6. QED
  BY <1>1, <1>2, <1>3, <1>4, <1>5 DEF OnEvent

\* Nor does any step of the indexer or of the chains.
LEMMA StepKeeps ==
  ASSUME IndexerInv, OriginInv, [IndexerNext]_indexerVars
  PROVE  OriginInv' /\ RowsKept
<1>1. CASE rows' = rows
  BY <1>1 DEF OriginInv, RowsKept, Keeps
<1>2. ASSUME NEW t \in Transfers, TimeStep(t) PROVE OriginInv' /\ RowsKept
  BY <1>2, TimeStepKeeps DEF IndexerInv
<1>3. ASSUME NEW c \in Chains, Index(c) PROVE OriginInv' /\ RowsKept
  BY <1>3, IndexKeeps
<1>4. QED
  BY <1>1, <1>2, <1>3 DEF IndexerNext, indexerVars, UserStep, ExitStep

-----------------------------------------------------------------------------
(* The job *)

\* What the queries return is complete.
LEMMA QueriesAreComplete ==
  ASSUME IndexerInv, OriginInv, NEW t \in ToProve \cup ToFinalize
  PROVE  t \in Transfers /\ Complete(rows[t])
<1>1. /\ t \in Transfers /\ RowInv(t) /\ WithOrigin(rows[t])
      /\ rows[t].nativeBridgeStatus \in {"HANDLED", "PROVEN"}
      /\ \/ rows[t].originTimestamp = "old"
         \/ rows[t].expectedFinalizationTimestamp = "past"
  BY DEF ToProve, ToFinalize, IndexerInv, OriginInv
<1>2. rows[t].originTimestamp # "null"
  BY <1>1 DEF WithOrigin
<1>3. rows[t].loanEmittedTxHash \/ rows[t].opProofTxHash
  BY <1>1 DEF RowInv, ComputeNativeBridgeStatus
<1>4. QED
  BY <1>1, <1>2, <1>3 DEF Complete

\* While the rows keep what they have, a smaller set of tasks stays complete.
LEMMA KeptJob ==
  ASSUME JobInv, RowsKept, todo' \subseteq todo,
         requests' \subseteq requests \cup ({"prove", "finalize"} \X todo)
  PROVE  JobInv'
<1>1. \A t \in Transfers : Complete(rows[t]) => Complete(rows[t])'
  BY DEF RowsKept, Keeps, Complete
<1>2. todo' \subseteq Transfers /\ \A t \in todo' : Complete(rows[t])'
  BY <1>1 DEF JobInv
<1>3. requests' \subseteq {"prove", "finalize"} \X Transfers
  BY DEF JobInv
<1>4. ASSUME NEW s \in {"prove", "finalize"}, NEW t \in Transfers, <<s, t>> \in requests'
      PROVE  Complete(rows[t])'
  <2>1. <<s, t>> \in requests \/ t \in todo
    BY <1>4
  <2>2. QED
    BY <1>1, <2>1 DEF JobInv
<1>5. QED
  BY <1>2, <1>3, <1>4 DEF JobInv

LEMMA JobStep ==
  ASSUME IndexerInv, OriginInv, JobInv, RowsKept, [ClaimerNext]_claimerVars,
         stage \in {"idle", "prove", "finalize"}
  PROVE  JobInv' /\ stage' \in {"idle", "prove", "finalize"}
<1>1. CASE UNCHANGED jobVars
  BY <1>1, KeptJob DEF jobVars
<1>2. CASE ProveTransactions \/ FinalizeWithdrawals
  <2>1. /\ rows' = rows /\ requests' = requests
        /\ todo' \subseteq ToProve \cup ToFinalize
        /\ stage' \in {"prove", "finalize"}
    BY <1>2 DEF ProveTransactions, FinalizeWithdrawals, indexerVars
  <2>2. \A t \in todo' : t \in Transfers /\ Complete(rows[t])'
    BY <2>1, QueriesAreComplete DEF Complete
  <2>3. QED
    BY <2>1, <2>2 DEF JobInv, Complete
<1>3. CASE EndRun \/ AbortRun
  BY <1>3, KeptJob DEF EndRun, AbortRun
<1>4. ASSUME NEW t \in Transfers, Accepted(t) \/ Refused(t) \/ Relay(t) \/ DropRequest(t)
      PROVE  JobInv' /\ stage' \in {"idle", "prove", "finalize"}
  <2>1. CASE Accepted(t)
    BY <2>1, KeptJob DEF Accepted
  <2>2. CASE Refused(t)
    BY <2>2, KeptJob DEF Refused
  <2>3. CASE Relay(t)
    BY <2>3, KeptJob DEF Relay
  <2>4. CASE DropRequest(t)
    BY <2>4, KeptJob DEF DropRequest
  <2>5. QED
    BY <1>4, <2>1, <2>2, <2>3, <2>4
<1>5. QED
  BY <1>1, <1>2, <1>3, <1>4 DEF ClaimerNext, claimerVars

LEMMA ClaimerStart == ClaimerInit => ClaimerInv
<1> SUFFICES ASSUME ClaimerInit PROVE ClaimerInv
  OBVIOUS
<1>1. IndexerInv
  BY IndexerStart DEF ClaimerInit
<1>2. rows = [t \in Transfers |-> EmptyRow]
  BY DEF ClaimerInit, IndexerInit
<1>3. OriginInv
  BY <1>2 DEF OriginInv, WithOrigin, EmptyRow
<1>4. JobInv /\ stage \in {"idle", "prove", "finalize"}
  BY DEF ClaimerInit, JobInv
<1>5. QED
  BY <1>1, <1>3, <1>4 DEF ClaimerInv

LEMMA ClaimerStep ==
  ASSUME ClaimerInv, [ClaimerNext]_claimerVars
  PROVE  ClaimerInv' /\ RowsKept
<1>1. [IndexerNext]_indexerVars
  BY ClaimerStepIsIndexerStep DEF claimerVars
<1>2. IndexerInv'
  BY <1>1, IndexerStep DEF ClaimerInv
<1>3. OriginInv' /\ RowsKept
  BY <1>1, StepKeeps DEF ClaimerInv
<1>4. JobInv' /\ stage' \in {"idle", "prove", "finalize"}
  BY <1>3, JobStep DEF ClaimerInv
<1>5. QED
  BY <1>2, <1>3, <1>4 DEF ClaimerInv

\* Everything the claimer is made of keeps its type, whoever else proves and
\* finalizes, whatever events are lost and wherever a run is aborted.
THEOREM ClaimerTypeCorrect == ClaimerSpec => []ClaimerTypeOK
<1>1. ClaimerInv => ClaimerTypeOK
  BY DEF ClaimerInv, IndexerInv, JobInv, ClaimerTypeOK
<1>2. QED
  BY <1>1, ClaimerStart, ClaimerStep, PTL DEF ClaimerSpec

\* No request is made for a transfer whose origin is unknown or whose loan was
\* never emitted, although a request may be older than everything indexed since.
THEOREM RequestsComplete == ClaimerSpec => []RequestsAreComplete
<1>1. ClaimerInv => RequestsAreComplete
  BY DEF ClaimerInv, JobInv, Complete, RequestsAreComplete
<1>2. QED
  BY <1>1, ClaimerStart, ClaimerStep, PTL DEF ClaimerSpec

-----------------------------------------------------------------------------
(* Events that wait to be indexed *)

Waits(c, e) == \E i \in DOMAIN logs[c] : logs[c][i] = e

\* A new event goes to the end of its log; the others stay.
LEMMA EmitWaits ==
  ASSUME logs \in [Chains -> Seq(Event)], NEW c \in Chains, NEW kind, NEW id,
         Emit(c, kind, id)
  PROVE  /\ Waits(c, [kind |-> kind, id |-> id])'
         /\ \A d \in Chains : \A e : Waits(d, e) => Waits(d, e)'
<1> DEFINE new == [kind |-> kind, id |-> id]
<1>1. logs' = [logs EXCEPT ![c] = Append(logs[c], new)]
  BY DEF Emit
<1> HIDE DEF new
<1>2. logs'[c] = Append(logs[c], new) /\ logs[c] \in Seq(Event)
  BY <1>1
<1>3. /\ DOMAIN logs[c] = 1 .. Len(logs[c])
      /\ DOMAIN logs'[c] = 1 .. Len(logs[c]) + 1
      /\ logs'[c][Len(logs[c]) + 1] = new
      /\ \A i \in 1 .. Len(logs[c]) : logs'[c][i] = logs[c][i]
      /\ Len(logs[c]) \in Nat
  BY <1>2
<1>4. Waits(c, new)'
  BY <1>3 DEF Waits
<1>5. ASSUME NEW d \in Chains, NEW e, Waits(d, e) PROVE Waits(d, e)'
  <2>1. CASE d = c
    BY <1>3, <1>5, <2>1 DEF Waits
  <2>2. CASE d # c
    BY <1>1, <1>5, <2>2 DEF Waits
  <2>3. QED
    BY <2>1, <2>2
<1>6. QED
  BY <1>4, <1>5 DEF new

\* Reading a log takes its first event away and nothing else.
LEMMA IndexWaits ==
  ASSUME logs \in [Chains -> Seq(Event)], NEW c \in Chains, Index(c),
         NEW d \in Chains, NEW e, Waits(d, e)
  PROVE  Waits(d, e)' \/ (d = c /\ Head(logs[c]) = e)
<1>1. logs' = [logs EXCEPT ![c] = Tail(logs[c])] /\ logs[c] # <<>> /\ logs[c] \in Seq(Event)
  BY DEF Index
<1>2. CASE d # c
  BY <1>1, <1>2 DEF Waits
<1>3. CASE d = c
  <2>1. PICK i \in DOMAIN logs[c] : logs[c][i] = e
    BY <1>3 DEF Waits
  <2>2. i \in 1 .. Len(logs[c]) /\ Len(logs[c]) \in Nat /\ logs'[c] = Tail(logs[c])
    BY <1>1, <2>1
  <2>3. CASE i = 1
    BY <1>1, <1>3, <2>1, <2>3
  <2>4. CASE i # 1
    <3>1. i - 1 \in 1 .. Len(logs[c]) - 1
      BY <2>2, <2>4
    <3>2. DOMAIN Tail(logs[c]) = 1 .. Len(logs[c]) - 1 /\ Tail(logs[c])[i - 1] = logs[c][i]
      BY <1>1, <2>2, <3>1
    <3>3. QED
      BY <1>3, <2>1, <2>2, <3>1, <3>2 DEF Waits
  <2>5. QED
    BY <2>3, <2>4
<1>4. QED
  BY <1>2, <1>3

-----------------------------------------------------------------------------
(* The origin of a transfer *)

\* What BridgeInitiated says is in the row or still to be read, if the receipt
\* can be fetched.
OriginKnown ==
  \A t \in Transfers \ Unfetched : exit[t] # "none" =>
    \/ rows[t].originTimestamp # "null"
    \/ Waits(Origin[t], [kind |-> "BridgeInitiated", id |-> t])

LEMMA OriginKnownStep ==
  ASSUME IndexerInv, RowsKept, OriginKnown,
         [IndexerNext]_indexerVars
  PROVE  OriginKnown'
<1>1. /\ logs \in [Chains -> Seq(Event)] /\ exit \in [Transfers -> Exits]
      /\ rows \in [Transfers -> Row]
      /\ PoolChain \in Chains /\ \A t \in Transfers : Origin[t] \in Chains
  BY ChainsAssumption DEF IndexerInv, IndexerTypeOK, ChainsTypeOK
<1>2. ASSUME \A t \in Transfers : exit'[t] # "none" =>
               \/ exit[t] # "none"
               \/ Waits(Origin[t], [kind |-> "BridgeInitiated", id |-> t])',
             \A d \in Chains : \A e : Waits(d, e) => Waits(d, e)'
      PROVE  OriginKnown'
  BY <1>1, <1>2 DEF OriginKnown, RowsKept, Keeps
<1>3. CASE UNCHANGED <<exit, logs>>
  BY <1>2, <1>3 DEF Waits
<1>4. ASSUME NEW t \in Transfers, UserStep(t) \/ ExitStep(t) PROVE OriginKnown'
  <2>1. CASE Initiate(t)
    BY <1>1, <1>2, <2>1, EmitWaits DEF Initiate
  <2>2. CASE Handle(t)
    BY <1>1, <1>2, <2>2, EmitWaits DEF Handle
  <2>3. CASE Mature(t)
    BY <1>1, <1>2, <2>3, ChainsAssumption DEF Mature, Waits
  <2>4. CASE Prove(t)
    BY <1>1, <1>2, <2>4, EmitWaits DEF Prove
  <2>5. CASE Finalize(t)
    BY <1>1, <1>2, <2>5, EmitWaits DEF Finalize
  <2>6. QED
    BY <1>4, <2>1, <2>2, <2>3, <2>4, <2>5 DEF UserStep, ExitStep
<1>5. ASSUME NEW t \in Transfers, TimeStep(t) PROVE OriginKnown'
  BY <1>3, <1>5 DEF TimeStep, Age, Elapse, chainVars
<1>6. ASSUME NEW c \in Chains, Index(c) PROVE OriginKnown'
  <2>1. exit' = exit /\ OnEvent(Head(logs[c]))
    BY <1>6 DEF Index
  <2>2. SUFFICES ASSUME NEW t \in Transfers \ Unfetched, exit[t] # "none"
                 PROVE  \/ rows'[t].originTimestamp # "null"
                        \/ Waits(Origin[t], [kind |-> "BridgeInitiated", id |-> t])'
    BY <2>1 DEF OriginKnown
  <2>3. CASE rows[t].originTimestamp # "null"
    BY <2>3 DEF RowsKept, Keeps
  <2> DEFINE e == [kind |-> "BridgeInitiated", id |-> t]
  <2>4. CASE Waits(Origin[t], e)
    <3>1. e.kind = "BridgeInitiated" /\ e.id = t
      OBVIOUS
    <3> HIDE DEF e
    <3>2. Waits(Origin[t], e)' \/ Head(logs[c]) = e
      BY <1>1, <1>6, <2>4, IndexWaits
    <3>3. CASE Head(logs[c]) = e
      <4>1. OnBridgeInitiated(t)
        BY <2>1, <3>1, <3>3, Kinds DEF OnEvent
      <4>2. rows' = [rows EXCEPT ![t] = UpsertOrigin(rows[t], ReceiptKey(t))]
        BY <4>1 DEF OnBridgeInitiated
      <4>3. rows'[t].originTimestamp = "recent"
        BY <1>1, <4>2 DEF UpsertOrigin, Row
      <4>4. QED
        BY <4>3
    <3>4. QED
      BY <3>2, <3>3 DEF e
  <2>5. QED
    BY <2>2, <2>3, <2>4 DEF OriginKnown
<1>7. QED
  BY <1>3, <1>4, <1>5, <1>6 DEF IndexerNext, indexerVars, chainVars

\* Whatever is indexed first and whatever keys and transactions the transfers
\* share, a row that was lent against has its origin and the key in its receipt
\* once the indexer has caught up, unless that receipt could not be fetched;
\* the receipts of other transfers do not matter.
THEOREM HandledRowsComplete == ClaimerSpec => []HandledRowsAreComplete
<1>1. ClaimerInit => OriginKnown
  BY DEF ClaimerInit, IndexerInit, ChainsInit, OriginKnown
<1>2. ClaimerInv /\ OriginKnown /\ [ClaimerNext]_claimerVars => OriginKnown'
  <2>1. SUFFICES ASSUME ClaimerInv, OriginKnown, [ClaimerNext]_claimerVars
                 PROVE  OriginKnown'
    OBVIOUS
  <2>2. [IndexerNext]_indexerVars
    BY <2>1, ClaimerStepIsIndexerStep DEF claimerVars
  <2>3. QED
    BY <2>1, <2>2, ClaimerStep, OriginKnownStep DEF ClaimerInv
<1>3. ClaimerInv /\ OriginKnown => HandledRowsAreComplete
  <2>1. SUFFICES ASSUME ClaimerInv, OriginKnown, \A c \in Chains : logs[c] = <<>>,
                        NEW t \in Transfers \ Unfetched, rows[t].loanEmittedTxHash
                 PROVE  rows[t].originTimestamp # "null" /\ rows[t].key = ReceiptKey(t)
    BY DEF HandledRowsAreComplete
  <2>2. RowInv(t) /\ WithOrigin(rows[t]) /\ exit[t] # "none"
    BY <2>1 DEF ClaimerInv, IndexerInv, OriginInv, HandledInv, RowInv
  <2>3. ~ Waits(Origin[t], [kind |-> "BridgeInitiated", id |-> t])
    BY <2>1, ChainsAssumption DEF Waits
  <2>4. rows[t].originTimestamp # "null"
    BY <2>1, <2>2, <2>3 DEF OriginKnown
  <2>5. QED
    BY <2>2, <2>4 DEF RowInv, WithOrigin
<1>4. QED
  BY <1>1, <1>2, <1>3, ClaimerStart, ClaimerStep, PTL DEF ClaimerSpec

-----------------------------------------------------------------------------
(* The evidence of the native bridges *)

WithdrawalEvent(kind, t) == [kind |-> kind, id |-> Key[t]]

\* The transfers that only the claimer proves and finalizes, each alone in its
\* transaction.
Alone == {t \in Transfers \ OutsideExits : Together[t] = {t}}

\* What is true of such a transfer: it has its origin before it leaves the
\* bridge, and its evidence since, unless its message was finalized through
\* another contract.
EvidenceAt(t) ==
  /\ "PROVEN" \in Reached(t) =>
       /\ rows[t].originTimestamp # "null"
       /\ rows[t].opProofTxHash \/ Waits(PoolChain, WithdrawalEvent("WithdrawalProven", t))
  /\ "FINALIZED" \in Reached(t) =>
       /\ rows[t].originTimestamp # "null"
       /\ (Stack[t] = "zksync" => Key[t] \notin Indirect) =>
            \/ rows[t].nativeBridgeFinalizedTxHash
            \/ Waits(PoolChain, WithdrawalEvent(FinalizedKind[Stack[t]], t))

EvidenceInv == \A t \in Alone : EvidenceAt(t)

\* The receipt of a transfer alone in its transaction has its own key, and a
\* request that proves or finalizes it is its own.
LEMMA AloneFacts ==
  ASSUME NEW t \in Alone
  PROVE  /\ t \in Transfers /\ t \notin OutsideExits /\ ReceiptKey(t) = Key[t]
         /\ \A r \in Transfers : t \in Together[r] => r = t
<1>1. t \in Transfers /\ t \notin OutsideExits /\ Together[t] = {t}
  BY DEF Alone
<1>2. LastOf[t] \in Transfers /\ LastOf[LastOf[t]] = LastOf[t]
  BY <1>1, IndexerAssumption
<1>3. LastOf[t] \in Together[t]
  BY <1>1, <1>2 DEF Together
<1>4. ReceiptKey(t) = Key[t]
  BY <1>1, <1>3 DEF ReceiptKey
<1>5. ASSUME NEW r \in Transfers, t \in Together[r] PROVE r = t
  <2>1. r \in Together[t]
    BY <1>1, <1>5 DEF Together
  <2>2. QED
    BY <1>1, <2>1
<1>6. QED
  BY <1>1, <1>4, <1>5

LEMMA ReachedFacts ==
  ASSUME NEW t \in Transfers
  PROVE  /\ "PROVEN" \in Reached(t)
              <=> Stack[t] = "op" /\ exit[t] \in {"proven", "mature", "finalized"}
         /\ "FINALIZED" \in Reached(t) <=> exit[t] = "finalized"
BY DEF Reached

\* A step that reaches nothing new for t keeps its evidence, as long as no
\* event is taken away.
LEMMA EvidenceKept ==
  ASSUME NEW t \in Transfers, EvidenceAt(t), Keeps(rows[t], rows'[t]),
         PoolChain \in Chains,
         \A e : Waits(PoolChain, e) => Waits(PoolChain, e)',
         "PROVEN" \in Reached(t)' => "PROVEN" \in Reached(t),
         "FINALIZED" \in Reached(t)' => "FINALIZED" \in Reached(t)
  PROVE  EvidenceAt(t)'
BY DEF EvidenceAt, Keeps, WithdrawalEvent

\* The claimer's proof is of a transfer whose row has its key, if it is alone.
LEMMA ProveKeepsEvidence ==
  ASSUME ClaimerInv, EvidenceInv, NEW t \in Transfers, Prove(t), rows' = rows,
         t \in Alone => rows[t].originTimestamp # "null"
  PROVE  EvidenceInv'
<1>1. /\ exit' = [exit EXCEPT ![t] = "proven"] /\ exit \in [Transfers -> Exits]
      /\ exit[t] \in {"initiated", "proven", "mature"} /\ Stack[t] = "op"
      /\ Emit(PoolChain, "WithdrawalProven", Key[t])
      /\ logs \in [Chains -> Seq(Event)] /\ PoolChain \in Chains
  BY ChainsAssumption DEF Prove, ClaimerInv, IndexerInv, IndexerTypeOK, ChainsTypeOK
<1>2. /\ Waits(PoolChain, WithdrawalEvent("WithdrawalProven", t))'
      /\ \A e : Waits(PoolChain, e) => Waits(PoolChain, e)'
  BY <1>1, EmitWaits DEF WithdrawalEvent
<1>3. ASSUME NEW u \in Alone PROVE EvidenceAt(u)'
  <2>0. u \in Transfers
    BY AloneFacts
  <2>1. CASE u = t
    <3>1. "FINALIZED" \notin Reached(u)'
      BY <1>1, <2>1 DEF Reached
    <3>2. QED
      BY <1>2, <2>1, <3>1 DEF EvidenceAt
  <2>2. CASE u # t
    <3>1. Reached(u)' = Reached(u)
      BY <1>1, <2>0, <2>2 DEF Reached, Prove
    <3>2. Keeps(rows[u], rows'[u])
      BY DEF Keeps
    <3>3. QED
      BY <1>1, <1>2, <2>0, <3>1, <3>2, EvidenceKept DEF EvidenceInv
  <2>3. QED
    BY <2>1, <2>2
<1>4. QED
  BY <1>3 DEF EvidenceInv, Alone, Together

LEMMA FinalizeKeepsEvidence ==
  ASSUME ClaimerInv, EvidenceInv, NEW t \in Transfers, Finalize(t), rows' = rows,
         t \in Alone => rows[t].originTimestamp # "null"
  PROVE  EvidenceInv'
<1>1. /\ exit' = [exit EXCEPT ![t] = "finalized"] /\ exit \in [Transfers -> Exits]
      /\ exit[t] = "mature" /\ handled' = handled
      /\ Emit(PoolChain, FinalizedKind[Stack[t]], Key[t])
      /\ logs \in [Chains -> Seq(Event)] /\ PoolChain \in Chains
  BY ChainsAssumption DEF Finalize, ClaimerInv, IndexerInv, IndexerTypeOK, ChainsTypeOK
<1>2. /\ Waits(PoolChain, WithdrawalEvent(FinalizedKind[Stack[t]], t))'
      /\ \A e : Waits(PoolChain, e) => Waits(PoolChain, e)'
  BY <1>1, EmitWaits DEF WithdrawalEvent
<1>3. ASSUME NEW u \in Alone PROVE EvidenceAt(u)'
  <2>0. u \in Transfers
    BY AloneFacts
  <2>1. CASE u = t
    <3>1. "PROVEN" \in Reached(u)' => "PROVEN" \in Reached(u)
      BY <1>1, <2>1 DEF Reached
    <3>2. "PROVEN" \in Reached(u) =>
            rows[u].opProofTxHash \/ Waits(PoolChain, WithdrawalEvent("WithdrawalProven", u))
      BY DEF EvidenceInv, EvidenceAt
    <3>3. Waits(PoolChain, WithdrawalEvent("WithdrawalProven", u))
            => Waits(PoolChain, WithdrawalEvent("WithdrawalProven", u))'
      BY <1>2 DEF WithdrawalEvent
    <3>4. QED
      BY <1>2, <2>1, <3>1, <3>2, <3>3 DEF EvidenceAt
  <2>2. CASE u # t
    <3>1. Reached(u)' = Reached(u)
      BY <1>1, <2>0, <2>2 DEF Reached
    <3>2. Keeps(rows[u], rows'[u])
      BY DEF Keeps
    <3>3. QED
      BY <1>1, <1>2, <2>0, <3>1, <3>2, EvidenceKept DEF EvidenceInv
  <2>3. QED
    BY <2>1, <2>2
<1>4. QED
  BY <1>3 DEF EvidenceInv, Alone, Together

\* An event of the native bridges finds the row it belongs to.
LEMMA IndexKeepsEvidence ==
  ASSUME ClaimerInv, RowsKept, EvidenceInv,
         NEW c \in Chains, Index(c)
  PROVE  EvidenceInv'
<1>1. /\ logs \in [Chains -> Seq(Event)] /\ PoolChain \in Chains
      /\ IndexerTypeOK /\ OriginInv /\ IndexerInv
  BY ChainsAssumption DEF ClaimerInv, IndexerInv, IndexerTypeOK, ChainsTypeOK
<1>2. exit' = exit /\ handled' = handled /\ OnEvent(Head(logs[c]))
  BY DEF Index
<1>3. ASSUME NEW t \in Alone PROVE EvidenceAt(t)'
  <2>0. t \in Transfers /\ ReceiptKey(t) = Key[t]
    BY AloneFacts
  <2>1. /\ Reached(t)' = Reached(t) /\ EvidenceAt(t)
        /\ Keeps(rows[t], rows'[t]) /\ Key[t] \in Keys
        /\ Stack[t] \in {"op", "orbit", "zksync"}
    BY <1>2, <2>0, ChainsAssumption DEF Reached, EvidenceInv, RowsKept
  <2>2. rows[t].originTimestamp # "null" => t \in Matching(Stack[t], Key[t])
    BY <1>1, <2>0 DEF OriginInv, WithOrigin, IndexerInv, RowInv, Matching
  <2>3. ASSUME "PROVEN" \in Reached(t)
        PROVE  rows'[t].opProofTxHash \/ Waits(PoolChain, WithdrawalEvent("WithdrawalProven", t))'
    <3> DEFINE e == WithdrawalEvent("WithdrawalProven", t)
    <3>1. e.kind = "WithdrawalProven" /\ e.id = Key[t]
      BY DEF WithdrawalEvent
    <3>2. /\ rows[t].opProofTxHash \/ Waits(PoolChain, e)
          /\ t \in Matching("op", Key[t])
      BY <2>0, <2>1, <2>2, <2>3, ReachedFacts DEF EvidenceAt
    <3>3. WithdrawalEvent("WithdrawalProven", t)' = e
      BY DEF WithdrawalEvent
    <3> HIDE DEF e
    <3>4. CASE rows[t].opProofTxHash
      BY <2>1, <3>4 DEF Keeps
    <3>5. CASE Waits(PoolChain, e)
      <4>1. Waits(PoolChain, e)' \/ Head(logs[c]) = e
        BY <1>1, <3>5, IndexWaits
      <4>2. CASE Head(logs[c]) = e
        <5>1. OnWithdrawalProven(Key[t])
          BY <1>2, <3>1, <4>2, Kinds DEF OnEvent
        <5>2. QED
          BY <1>1, <2>0, <2>1, <3>2, <5>1, WithdrawalProvenKeeps
      <4>3. QED
        BY <4>1, <4>2 DEF e
    <3>6. QED
      BY <3>2, <3>4, <3>5
  <2>4. ASSUME "FINALIZED" \in Reached(t), Stack[t] = "zksync" => Key[t] \notin Indirect
        PROVE  \/ rows'[t].nativeBridgeFinalizedTxHash
               \/ Waits(PoolChain, WithdrawalEvent(FinalizedKind[Stack[t]], t))'
    <3> DEFINE e == WithdrawalEvent(FinalizedKind[Stack[t]], t)
    <3>1. e.kind = FinalizedKind[Stack[t]] /\ e.id = Key[t]
      BY DEF WithdrawalEvent
    <3>2. /\ rows[t].nativeBridgeFinalizedTxHash \/ Waits(PoolChain, e)
          /\ t \in Matching(Stack[t], Key[t])
      BY <2>1, <2>2, <2>4 DEF EvidenceAt
    <3> HIDE DEF e
    <3>4. CASE rows[t].nativeBridgeFinalizedTxHash
      BY <2>1, <3>4 DEF Keeps
    <3>5. CASE Waits(PoolChain, e)
      <4>1. Waits(PoolChain, e)' \/ Head(logs[c]) = e
        BY <1>1, <3>5, IndexWaits
      <4>2. CASE Head(logs[c]) = e
        <5>1. /\ FinalizedKind[Stack[t]] \in PortalKinds \ {"WithdrawalProven"}
              /\ \A u \in DOMAIN FinalizedKind :
                   FinalizedKind[u] = FinalizedKind[Stack[t]] => u = Stack[t]
          BY <2>1, StackKind
        <5>2. OnFinalized(Stack[t], Key[t])
          BY <1>2, <3>1, <4>2, <5>1 DEF OnEvent, PortalKinds
        <5>3. QED
          BY <1>1, <2>0, <2>1, <2>4, <3>2, <5>2, FinalizedKeeps
      <4>3. QED
        BY <4>1, <4>2 DEF e
    <3>6. QED
      BY <3>2, <3>4, <3>5
  <2>5. QED
    BY <2>1, <2>3, <2>4 DEF EvidenceAt, Keeps
<1>4. QED
  BY <1>3 DEF EvidenceInv, Alone, Together

LEMMA EvidenceStep ==
  ASSUME ClaimerInv, RowsKept, EvidenceInv, [ClaimerNext]_claimerVars
  PROVE  EvidenceInv'
<1>1. /\ logs \in [Chains -> Seq(Event)] /\ exit \in [Transfers -> Exits]
      /\ PoolChain \in Chains /\ \A t \in Transfers : Origin[t] \in Chains
  BY ChainsAssumption DEF ClaimerInv, IndexerInv, IndexerTypeOK, ChainsTypeOK
<1>2. ASSUME \A t \in Transfers :
               /\ "PROVEN" \in Reached(t)' => "PROVEN" \in Reached(t)
               /\ "FINALIZED" \in Reached(t)' => "FINALIZED" \in Reached(t),
             \A e : Waits(PoolChain, e) => Waits(PoolChain, e)'
      PROVE  EvidenceInv'
  BY <1>1, <1>2, AloneFacts, EvidenceKept DEF EvidenceInv, RowsKept, Alone, Together
<1>3. CASE UNCHANGED chainVars
  BY <1>2, <1>3 DEF chainVars, Reached, Waits
<1>4. ASSUME NEW t \in Transfers, UserStep(t) PROVE EvidenceInv'
  <2>1. CASE Initiate(t)
    <3>1. \A u \in Transfers :
            /\ "PROVEN" \in Reached(u)' => "PROVEN" \in Reached(u)
            /\ "FINALIZED" \in Reached(u)' => "FINALIZED" \in Reached(u)
      BY <1>1, <2>1 DEF Initiate, Reached
    <3>2. QED
      BY <1>1, <1>2, <2>1, <3>1, EmitWaits DEF Initiate
  <2>2. CASE Handle(t)
    <3>1. \A u \in Transfers :
            /\ "PROVEN" \in Reached(u)' => "PROVEN" \in Reached(u)
            /\ "FINALIZED" \in Reached(u)' => "FINALIZED" \in Reached(u)
      BY <1>1, <2>2 DEF Handle, Reached
    <3>2. QED
      BY <1>1, <1>2, <2>2, <3>1, EmitWaits DEF Handle
  <2>3. CASE Mature(t)
    <3>1. \A u \in Transfers :
            /\ "PROVEN" \in Reached(u)' => "PROVEN" \in Reached(u)
            /\ "FINALIZED" \in Reached(u)' => "FINALIZED" \in Reached(u)
      BY <1>1, <2>3 DEF Mature, Reached
    <3>2. QED
      BY <1>1, <1>2, <2>3, <3>1 DEF Mature, Waits
  <2>4. QED
    BY <1>4, <2>1, <2>2, <2>3 DEF UserStep
<1>5. ASSUME NEW t \in Transfers, Relay(t) PROVE EvidenceInv'
  <2>1. rows' = rows
    BY <1>5 DEF Relay
  <2>2. PICK u \in Together[t] :
          \/ <<"prove", t>> \in requests /\ Prove(u)
          \/ <<"finalize", t>> \in requests /\ Finalize(u)
    BY <1>5 DEF Relay
  <2>3. u \in Transfers /\ (u \in Alone => u = t)
    BY <2>2, AloneFacts DEF Together
  <2>4. u \in Alone => rows[u].originTimestamp # "null"
    BY <2>2, <2>3 DEF ClaimerInv, JobInv, Complete
  <2>5. QED
    BY <2>1, <2>2, <2>3, <2>4, ProveKeepsEvidence, FinalizeKeepsEvidence
<1>6. ASSUME NEW c \in Chains, Index(c) PROVE EvidenceInv'
  BY <1>6, IndexKeepsEvidence
<1>7. CASE \E t \in Transfers : TimeStep(t) \/ Accepted(t) \/ Refused(t) \/ DropRequest(t)
  BY <1>3, <1>7 DEF TimeStep, Age, Elapse, Accepted, Refused, DropRequest, indexerVars
<1>8. CASE ProveTransactions \/ FinalizeWithdrawals \/ EndRun \/ AbortRun
  BY <1>3, <1>8 DEF ProveTransactions, FinalizeWithdrawals, EndRun, AbortRun, indexerVars
<1>9. ASSUME NEW t \in OutsideExits, ExitStep(t) PROVE EvidenceInv'
  <2>1. t \in Transfers /\ t \notin Alone /\ rows' = rows
    BY <1>9, ClaimerAssumption DEF Alone, ExitStep
  <2>2. QED
    BY <1>9, <2>1, ProveKeepsEvidence, FinalizeKeepsEvidence DEF ExitStep
<1>10. QED
  BY <1>3, <1>4, <1>5, <1>6, <1>7, <1>8, <1>9 DEF ClaimerNext, claimerVars, indexerVars

\* Of a withdrawal that only the claimer proves and finalizes, and that is alone
\* in its transaction, no event is indexed before its row has its key, although
\* the logs of the chains are read in any order: the claimer acts on the row,
\* and the row has its key when it has its origin. Whatever becomes of the other
\* withdrawals, and whatever keys they share with it, does not matter.
THEOREM EvidenceNotLost == ClaimerSpec => []EvidenceReachesTheRow
<1>1. ClaimerInit => EvidenceInv
  BY AloneFacts DEF ClaimerInit, IndexerInit, ChainsInit, EvidenceInv, EvidenceAt, Reached
<1>2. ClaimerInv /\ EvidenceInv /\ [ClaimerNext]_claimerVars => EvidenceInv'
  BY ClaimerStep, EvidenceStep
<1>3. EvidenceInv => EvidenceReachesTheRow
  BY DEF EvidenceInv, EvidenceAt, EvidenceReachesTheRow, Alone, Pending, Waits, WithdrawalEvent
<1>4. QED
  BY <1>1, <1>2, <1>3, ClaimerStart, ClaimerStep, PTL DEF ClaimerSpec

=============================================================================
