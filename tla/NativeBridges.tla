--------------------------- MODULE NativeBridges ---------------------------
(***************************************************************************)
(* The chains as the indexer sees them. A transfer leaves its origin chain *)
(* in one transaction (a message and a withdrawal of the native bridge);   *)
(* on the chain of the pool its loan is emitted, and its withdrawal is     *)
(* proven (OP stack only), matures and is finalized. Every step that the   *)
(* indexer subscribes to appends an event to the log of its chain.         *)
(*                                                                         *)
(* Anyone may prove and finalize a withdrawal: portals, outboxes and the   *)
(* vault of ZKsync are permissionless. Time is abstracted to whether the   *)
(* challenge period has passed.                                            *)
(***************************************************************************)
EXTENDS Integers, Sequences

CONSTANTS
  Transfers,    \* bridge transactions: origin chain, bridge and nonce
  Chains,
  PoolChain,    \* the chain of the pools, parent of the origin chains
  Origin,       \* the origin chain of each transfer
  Stack,        \* the stack of that chain
  Keys,
  Key,          \* what identifies a withdrawal on the pool's chain: the
                \* withdrawal hash (OP), the outbox index (Orbit), the message
                \* hash (ZKsync); an index counts the messages of one chain, so
                \* transfers of several chains may have the same
  MAX_PENDING   \* bound: events of a chain that are not indexed yet

ASSUME ChainsAssumption ==
  /\ PoolChain \in Chains
  /\ Origin \in [Transfers -> Chains \ {PoolChain}]
  /\ Stack \in [Transfers -> {"op", "orbit", "zksync"}]
  /\ Key \in [Transfers -> Keys]
  \* The hash of an OP withdrawal covers its nonce and its target.
  /\ \A t, u \in Transfers :
       Stack[t] = "op" /\ Stack[u] = "op" /\ Key[t] = Key[u] => t = u
  /\ MAX_PENDING \in Nat \ {0}

VARIABLES
  exit,         \* how far the withdrawal of each transfer is
  handled,      \* the transfers whose loan was emitted
  logs          \* for each chain, its events that are not indexed yet

chainVars == <<exit, handled, logs>>

Exits == {"none", "initiated", "proven", "mature", "finalized"}

\* The event of a finalized withdrawal, by stack.
FinalizedKind ==
  [op |-> "WithdrawalFinalized", orbit |-> "OutBoxTransactionExecuted",
   zksync |-> "BridgeMint"]

\* Events of a bridge or a pool name the transfer, those of a native bridge
\* only the key of its withdrawal.
Event ==
  [kind: {"BridgeInitiated", "LoanEmitted"}, id: Transfers]
  \cup [kind: {"WithdrawalProven"} \cup {FinalizedKind[s] : s \in DOMAIN FinalizedKind},
        id: Keys]

ChainsTypeOK ==
  /\ exit \in [Transfers -> Exits]
  /\ handled \subseteq Transfers
  /\ logs \in [Chains -> Seq(Event)]

Emit(chain, kind, id) ==
  /\ Len(logs[chain]) < MAX_PENDING
  /\ logs' = [logs EXCEPT ![chain] = Append(@, [kind |-> kind, id |-> id])]

ChainsInit ==
  /\ exit = [t \in Transfers |-> "none"]
  /\ handled = {}
  /\ logs = [c \in Chains |-> <<>>]

Initiate(t) ==
  /\ exit[t] = "none"
  /\ exit' = [exit EXCEPT ![t] = "initiated"]
  /\ Emit(Origin[t], "BridgeInitiated", t)
  /\ UNCHANGED handled

\* The pool processes the message of t; RelayPool says when it does.
Handle(t) ==
  /\ exit[t] # "none"
  /\ t \notin handled
  /\ handled' = handled \cup {t}
  /\ Emit(PoolChain, "LoanEmitted", t)
  /\ UNCHANGED exit

\* A second proof is accepted until the withdrawal is finalized, and starts
\* its challenge period again.
Prove(t) ==
  /\ Stack[t] = "op"
  /\ exit[t] \in {"initiated", "proven", "mature"}
  /\ exit' = [exit EXCEPT ![t] = "proven"]
  /\ Emit(PoolChain, "WithdrawalProven", Key[t])
  /\ UNCHANGED handled

Mature(t) ==
  /\ exit[t] = IF Stack[t] = "op" THEN "proven" ELSE "initiated"
  /\ exit' = [exit EXCEPT ![t] = "mature"]
  /\ UNCHANGED <<handled, logs>>

Finalize(t) ==
  /\ exit[t] = "mature"
  /\ exit' = [exit EXCEPT ![t] = "finalized"]
  /\ Emit(PoolChain, FinalizedKind[Stack[t]], Key[t])
  /\ UNCHANGED handled

\* The transitions of a transfer that have fired.
Reached(t) ==
  (IF exit[t] # "none" THEN {"INITIATED"} ELSE {})
  \cup (IF t \in handled THEN {"HANDLED"} ELSE {})
  \cup (IF Stack[t] = "op" /\ exit[t] \in {"proven", "mature", "finalized"}
        THEN {"PROVEN"} ELSE {})
  \cup (IF exit[t] = "finalized" THEN {"FINALIZED"} ELSE {})

=============================================================================
