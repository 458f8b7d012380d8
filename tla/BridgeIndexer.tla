--------------------------- MODULE BridgeIndexer ---------------------------
(***************************************************************************)
(* The indexer of bridge transactions. It reads the log of each chain in   *)
(* order, and the logs of different chains independently of each other     *)
(* (ordering: multichain). A handler updates the rows of                   *)
(* bridge_transaction: those of bridge and pool events find their row by   *)
(* its primary key, those of native bridges by the key of the withdrawal,  *)
(* which the row has once BridgeInitiated was indexed.                     *)
(*                                                                         *)
(* A hash column is TRUE when it is set; a timestamp tells whether the     *)
(* time a query compares it with has passed.                               *)
(***************************************************************************)
EXTENDS NativeBridges

CONSTANTS
  NoKey,
  LastOf,     \* the last transfer of the transaction of each: one transaction
              \* may call bridge several times
  Unfetched,  \* the transfers whose receipt may not be fetched
  Indirect    \* the keys of the ZKsync withdrawals that may be finalized
              \* through another contract

ASSUME IndexerAssumption ==
  /\ NoKey \notin Keys
  /\ LastOf \in [Transfers -> Transfers]
  /\ \A t \in Transfers :
       /\ LastOf[LastOf[t]] = LastOf[t]
       /\ Origin[LastOf[t]] = Origin[t] /\ Stack[LastOf[t]] = Stack[t]
  /\ Unfetched \subseteq Transfers
  /\ Indirect \subseteq Keys

VARIABLE rows   \* the bridge transaction of each transfer

indexerVars == <<chainVars, rows>>

Statuses == {"INITIATED", "HANDLED", "PROVEN", "FINALIZED"}

Row ==
  [nativeBridgeStatus: Statuses \cup {"NONE"},   \* NONE: there is no row
   originTimestamp: {"null", "recent", "old"},
   key: Keys \cup {NoKey},
   expectedFinalizationTimestamp: {"null", "future", "past"},
   opProofTxHash: BOOLEAN,
   loanEmittedTxHash: BOOLEAN,
   nativeBridgeFinalizedTxHash: BOOLEAN]

EmptyRow ==
  [nativeBridgeStatus |-> "NONE", originTimestamp |-> "null", key |-> NoKey,
   expectedFinalizationTimestamp |-> "null", opProofTxHash |-> FALSE,
   loanEmittedTxHash |-> FALSE, nativeBridgeFinalizedTxHash |-> FALSE]

\* A bug: a status the schema does not know.
ComputeOtherStatus(row) ==
  IF row.nativeBridgeFinalizedTxHash THEN "CLAIMED"
  ELSE IF row.opProofTxHash THEN "PROVEN"
  ELSE IF row.loanEmittedTxHash THEN "HANDLED"
  ELSE "INITIATED"

ComputeNativeBridgeStatus(row) ==
  IF row.nativeBridgeFinalizedTxHash THEN "FINALIZED"
  ELSE IF row.opProofTxHash THEN "PROVEN"
  ELSE IF row.loanEmittedTxHash THEN "HANDLED"
  ELSE "INITIATED"

Derive(row) ==
  [row EXCEPT !.nativeBridgeStatus = ComputeNativeBridgeStatus(row)]

\* A bug: the upsert writes the status of a new row over an existing one too.
UpsertOriginAndStatus(row, k) ==
  [row EXCEPT !.nativeBridgeStatus = "INITIATED",
              !.originTimestamp = "recent",
              !.key = k,
              !.expectedFinalizationTimestamp = "future"]

\* A bug: the hashes are written only when the row is inserted.
UpsertOriginKeepingKey(row, k) ==
  [row EXCEPT !.nativeBridgeStatus = IF @ = "NONE" THEN "INITIATED" ELSE @,
              !.originTimestamp = "recent",
              !.key = IF row.nativeBridgeStatus = "NONE" THEN k ELSE @,
              !.expectedFinalizationTimestamp = "future"]

\* A bug: a row that exists is left alone.
InsertOrigin(row, k) ==
  IF row.nativeBridgeStatus # "NONE" THEN row
  ELSE [row EXCEPT !.nativeBridgeStatus = "INITIATED",
                   !.originTimestamp = "recent",
                   !.key = k,
                   !.expectedFinalizationTimestamp = "future"]

\* An existing row, made by LoanEmitted, keeps its status.
UpsertOrigin(row, k) ==
  [row EXCEPT !.nativeBridgeStatus = IF @ = "NONE" THEN "INITIATED" ELSE @,
              !.originTimestamp = "recent",
              !.key = k,
              !.expectedFinalizationTimestamp = "future"]

\* All logs of the receipt are read, and the last key among them is kept.
ReceiptKey(t) == Key[LastOf[t]]

OnBridgeInitiated(t) ==
  \/ /\ exit[LastOf[t]] # "none"   \* there is no receipt of half a transaction
     /\ rows' = [rows EXCEPT ![t] = UpsertOrigin(@, ReceiptKey(t))]
  \/ t \in Unfetched /\ UNCHANGED rows

\* A bug: the status is that of the new evidence alone.
OnLoanEmittedAlone(t) ==
  rows' = [rows EXCEPT ![t] =
             [@ EXCEPT !.loanEmittedTxHash = TRUE, !.nativeBridgeStatus = "HANDLED"]]

OnLoanEmitted(t) ==
  rows' = [rows EXCEPT ![t] = Derive([@ EXCEPT !.loanEmittedTxHash = TRUE])]

\* The rows WHERE the column of this stack has the key.
Matching(stack, k) ==
  {t \in Transfers : Stack[t] = stack /\ rows[t].key = k}

\* One matching row is read, all are updated.
OnWithdrawalProven(k) ==
  \/ /\ Matching("op", k) = {}
     /\ UNCHANGED rows
  \/ \E existing \in Matching("op", k) :
       rows' = [t \in Transfers |->
         IF t \in Matching("op", k)
         THEN [rows[t] EXCEPT
                 !.nativeBridgeStatus =
                   ComputeNativeBridgeStatus([rows[existing] EXCEPT !.opProofTxHash = TRUE]),
                 !.opProofTxHash = TRUE,
                 !.expectedFinalizationTimestamp = "future"]
         ELSE rows[t]]

\* A bug: the message of ZKsync is looked up among the hashes of the OP stack.
OnFinalizedAnyStack(stack, k) ==
  rows' = [t \in Transfers |->
    IF rows[t].key = k
    THEN Derive([rows[t] EXCEPT !.nativeBridgeFinalizedTxHash = TRUE])
    ELSE rows[t]]

\* The evidence of finalization alone decides the status.
OnFinalized(stack, k) ==
  \/ rows' = [t \in Transfers |->
       IF t \in Matching(stack, k)
       THEN [rows[t] EXCEPT
               !.nativeBridgeFinalizedTxHash = TRUE,
               !.nativeBridgeStatus = ComputeNativeBridgeStatus(
                  [EmptyRow EXCEPT !.nativeBridgeFinalizedTxHash = TRUE])]
       ELSE rows[t]]
  \/ stack = "zksync" /\ k \in Indirect /\ UNCHANGED rows

OnEvent(e) ==
  \/ e.kind = "BridgeInitiated" /\ OnBridgeInitiated(e.id)
  \/ e.kind = "LoanEmitted" /\ OnLoanEmitted(e.id)
  \/ e.kind = "WithdrawalProven" /\ OnWithdrawalProven(e.id)
  \/ \E s \in DOMAIN FinalizedKind : e.kind = FinalizedKind[s] /\ OnFinalized(s, e.id)

Index(c) ==
  /\ logs[c] # <<>>
  /\ OnEvent(Head(logs[c]))
  /\ logs' = [logs EXCEPT ![c] = Tail(@)]
  /\ UNCHANGED <<exit, handled>>

\* Half an hour has passed since t was initiated.
Age(t) ==
  /\ rows[t].originTimestamp = "recent"
  /\ rows' = [rows EXCEPT ![t].originTimestamp = "old"]
  /\ UNCHANGED chainVars

Elapse(t) ==
  /\ rows[t].expectedFinalizationTimestamp = "future"
  /\ rows' = [rows EXCEPT ![t].expectedFinalizationTimestamp = "past"]
  /\ UNCHANGED chainVars

IndexerInit ==
  /\ ChainsInit
  /\ rows = [t \in Transfers |-> EmptyRow]

\* The steps of the chains that no claimer takes.
UserStep(t) == (Initiate(t) \/ Handle(t) \/ Mature(t)) /\ UNCHANGED rows

ExitStep(t) == (Prove(t) \/ Finalize(t)) /\ UNCHANGED rows

TimeStep(t) == Age(t) \/ Elapse(t)

IndexerNext ==
  \/ \E t \in Transfers : UserStep(t) \/ ExitStep(t) \/ TimeStep(t)
  \/ \E c \in Chains : Index(c)

IndexerSpec == IndexerInit /\ [][IndexerNext]_indexerVars

-----------------------------------------------------------------------------
\* The withdrawals that each row stands for: all of its stack that have the
\* key it is given, which is the last one of its transaction.
Named ==
  [t \in Transfers |->
     {u \in Transfers : Stack[u] = Stack[t] /\ Key[u] = ReceiptKey(t)}]

\* The transitions that the row of t may show.
Evident(t) ==
  (Reached(t) \cap {"INITIATED", "HANDLED"})
  \cup UNION {Reached(u) \cap {"PROVEN", "FINALIZED"} : u \in Named[t]}

IndexerTypeOK ==
  /\ ChainsTypeOK
  /\ rows \in [Transfers -> Row]

\* The stored status is the one its own row's hashes give, although each
\* handler derives it from what it read and wrote, and two of them without
\* reading the row.
StatusMatchesEvidence ==
  \A t \in Transfers : rows[t].nativeBridgeStatus # "NONE" =>
    rows[t].nativeBridgeStatus = ComputeNativeBridgeStatus(rows[t])

\* A hash in a row is durable evidence that its transition fired on a chain: for
\* the transfer itself, or for a withdrawal that its row stands for, which is
\* another one only if they share an outbox index or a transaction.
EvidenceIsReal ==
  \A t \in Transfers :
    /\ rows[t].loanEmittedTxHash => "HANDLED" \in Evident(t)
    /\ rows[t].opProofTxHash => "PROVEN" \in Evident(t)
    /\ rows[t].nativeBridgeFinalizedTxHash => "FINALIZED" \in Evident(t)

Progress == INSTANCE TransferProgress WITH
  reached <- UNION {{t} \X Evident(t) : t \in Transfers},
  status <- [t \in Transfers |-> rows[t].nativeBridgeStatus]

\* Whatever the order in which the chains are indexed and whatever events are
\* lost, the status of a transfer never regresses and is never ahead of the
\* chains.
ImplementsProgress == Progress!ProgressSpec

=============================================================================
