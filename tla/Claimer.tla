------------------------------ MODULE Claimer ------------------------------
(***************************************************************************)
(* The claimer and the relayer it sends requests to, on top of the         *)
(* indexer. A run of the job queries the transactions to prove, requests a *)
(* proof for each, queries the ones to finalize and requests each; it acts *)
(* on what the query returned, whatever was indexed since. A request that  *)
(* is refused is logged and dropped; an accepted one is carried out later, *)
(* or never. The job may die at any point, and is run again.               *)
(***************************************************************************)
EXTENDS BridgeIndexer

CONSTANT OutsideExits   \* the transfers that others prove and finalize too

ASSUME ClaimerAssumption == OutsideExits \subseteq Transfers

VARIABLES
  stage,      \* where the run of the job is
  todo,       \* what its last query returned and is not requested yet
  requests    \* the requests the relayer has accepted

jobVars == <<stage, todo, requests>>
claimerVars == <<indexerVars, jobVars>>

ToProve ==
  {t \in Transfers : /\ rows[t].nativeBridgeStatus = "HANDLED"
                     /\ Stack[t] = "op"
                     /\ rows[t].originTimestamp = "old"}

\* A bug: only proven transactions are finalized, on every stack.
ToFinalizeProven ==
  {t \in Transfers : /\ rows[t].expectedFinalizationTimestamp = "past"
                     /\ rows[t].nativeBridgeStatus = "PROVEN"}

\* A bug: a missing timestamp counts as one that has passed.
ToFinalizeAtOnce ==
  {t \in Transfers : /\ rows[t].expectedFinalizationTimestamp # "future"
                     /\ rows[t].nativeBridgeStatus \in {"HANDLED", "PROVEN"}}

ToFinalize ==
  {t \in Transfers : /\ rows[t].expectedFinalizationTimestamp = "past"
                     /\ rows[t].nativeBridgeStatus \in {"HANDLED", "PROVEN"}}

ProveTransactions ==
  /\ stage = "idle"
  /\ stage' = "prove"
  /\ todo' = ToProve
  /\ UNCHANGED <<indexerVars, requests>>

FinalizeWithdrawals ==
  /\ stage = "prove"
  /\ todo = {}
  /\ stage' = "finalize"
  /\ todo' = ToFinalize
  /\ UNCHANGED <<indexerVars, requests>>

\* The run goes on to the claims and the checks, and ends.
EndRun ==
  /\ stage = "finalize"
  /\ todo = {}
  /\ stage' = "idle"
  /\ UNCHANGED <<indexerVars, todo, requests>>

\* A query throws, or the process is stopped.
AbortRun ==
  /\ stage # "idle"
  /\ stage' = "idle"
  /\ todo' = {}
  /\ UNCHANGED <<indexerVars, requests>>

\* submitProof or finalizeWithdrawal, one transaction after the other.
Accepted(t) ==
  /\ stage # "idle"
  /\ t \in todo
  /\ todo' = todo \ {t}
  /\ requests' = requests \cup {<<stage, t>>}
  /\ UNCHANGED <<indexerVars, stage>>

Refused(t) ==
  /\ stage # "idle"
  /\ t \in todo
  /\ todo' = todo \ {t}
  /\ UNCHANGED <<indexerVars, stage, requests>>

\* The transfers of the transaction of each.
Together == [t \in Transfers |-> {u \in Transfers : LastOf[u] = LastOf[t]}]

\* A request names the transaction.
Relay(t) ==
  /\ \E u \in Together[t] :
       \/ <<"prove", t>> \in requests /\ Prove(u) /\ requests' = requests \ {<<"prove", t>>}
       \/ <<"finalize", t>> \in requests /\ Finalize(u) /\ requests' = requests \ {<<"finalize", t>>}
  /\ UNCHANGED <<rows, stage, todo>>

\* The relayer gives up, or its transaction reverts.
DropRequest(t) ==
  /\ \E s \in {"prove", "finalize"} :
       <<s, t>> \in requests /\ requests' = requests \ {<<s, t>>}
  /\ UNCHANGED <<indexerVars, stage, todo>>

ClaimerInit ==
  /\ IndexerInit
  /\ stage = "idle"
  /\ todo = {}
  /\ requests = {}

ClaimerNext ==
  \/ \E t \in Transfers : UserStep(t) /\ UNCHANGED jobVars
  \/ \E t \in Transfers : TimeStep(t) /\ UNCHANGED jobVars
  \/ \E t \in OutsideExits : ExitStep(t) /\ UNCHANGED jobVars
  \/ \E c \in Chains : Index(c) /\ UNCHANGED jobVars
  \/ ProveTransactions \/ FinalizeWithdrawals \/ EndRun \/ AbortRun
  \/ \E t \in Transfers : Accepted(t) \/ Refused(t) \/ Relay(t) \/ DropRequest(t)

ClaimerSpec == ClaimerInit /\ [][ClaimerNext]_claimerVars

PassTime(t) ==
  /\ (Mature(t) /\ UNCHANGED rows) \/ TimeStep(t)
  /\ UNCHANGED jobVars

\* The indexer goes on, time passes, the job is run again and again and is not
\* aborted in the same place for ever, and neither is a request always refused
\* or always dropped. Nothing is assumed of the users and the pool.
FairClaimerSpec ==
  /\ ClaimerSpec
  /\ WF_claimerVars(\E c \in Chains : Index(c) /\ UNCHANGED jobVars)
  /\ \A t \in Transfers :
       /\ WF_claimerVars(PassTime(t))
       /\ SF_claimerVars(Accepted(t) /\ stage = "prove")
       /\ SF_claimerVars(Accepted(t) /\ stage = "finalize")
       /\ SF_claimerVars(Relay(t))
  /\ WF_claimerVars(ProveTransactions)
  /\ SF_claimerVars(FinalizeWithdrawals)
  /\ WF_claimerVars(EndRun)

-----------------------------------------------------------------------------
ClaimerTypeOK ==
  /\ IndexerTypeOK
  /\ stage \in {"idle", "prove", "finalize"}
  /\ todo \subseteq Transfers
  /\ requests \subseteq {"prove", "finalize"} \X Transfers

Pending(kind, t) ==
  \E i \in DOMAIN logs[PoolChain] :
    logs[PoolChain][i] = [kind |-> kind, id |-> Key[t]]

\* Every proof and finalization of a transfer that only the claimer proves and
\* finalizes, and that is alone in its transaction, reaches its row, although
\* the chains are indexed in any order: the handlers of the native bridges ignore
\* events whose row is not there yet, but the claimer acts on a row only once
\* BridgeInitiated has given it the key of its withdrawal.
EvidenceReachesTheRow ==
  \A t \in Transfers \ OutsideExits : Together[t] = {t} =>
    /\ "PROVEN" \in Reached(t) =>
         rows[t].opProofTxHash \/ Pending("WithdrawalProven", t)
    /\ "FINALIZED" \in Reached(t) /\ (Stack[t] = "zksync" => Key[t] \notin Indirect) =>
         rows[t].nativeBridgeFinalizedTxHash \/ Pending(FinalizedKind[Stack[t]], t)

\* A request names a transaction whose origin is known, although the row may
\* have been made by an event of the pool's chain, and that was lent or proven.
RequestsAreComplete ==
  \A s \in {"prove", "finalize"} : \A t \in Transfers : <<s, t>> \in requests =>
    /\ rows[t].originTimestamp # "null"
    /\ rows[t].loanEmittedTxHash \/ rows[t].opProofTxHash

\* Every loan that was emitted has its withdrawal proven and finalized, and
\* its row says so, although requests are refused, dropped, repeated and late,
\* runs are aborted, and a proof that is sent twice starts its period again.
EveryLoanIsFinalized ==
  \A t \in Transfers : t \in handled ~> rows[t].nativeBridgeStatus = "FINALIZED"

\* LoanEmitted.ts:4-5 expects that a prior event created a complete record. The
\* loan may well be indexed first; but once the indexer has caught up the row has
\* its origin and the key in its receipt, without which it is never finalized:
\* every row but those whose own receipt could not be fetched.
HandledRowsAreComplete ==
  (\A c \in Chains : logs[c] = <<>>) =>
    \A t \in Transfers \ Unfetched : rows[t].loanEmittedTxHash =>
      rows[t].originTimestamp # "null" /\ rows[t].key = ReceiptKey(t)

=============================================================================
