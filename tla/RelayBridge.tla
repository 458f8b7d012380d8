----------------------------- MODULE RelayBridge -----------------------------
(***************************************************************************)
(* The origin side: src/smart-contracts/contracts/RelayBridge.sol with the *)
(* BridgeProxy it calls by delegatecall. One call of bridge() sends the    *)
(* asset over the native bridge and dispatches a Hyperlane message to the  *)
(* pool; from then on the two travel separately.                           *)
(*                                                                         *)
(* A revert anywhere in the call (too little value, a proxy that refuses   *)
(* the asset, a mailbox or a refund that fails) undoes it, the nonce       *)
(* included, so only calls that succeed are steps.                         *)
(***************************************************************************)
EXTENDS Integers

CONSTANTS
  Origins,        \* RelayBridge contracts
  Native,         \* those whose ASSET is the native currency
  DepositFee,     \* depositFee of the extraData of each origin's Arbitrum deposits,
                  \* which the proxy pays for the retryable ticket: out of a native
                  \* amount, or next to a token; 0 for the proxies that withdraw
  Messages,       \* what bridge() may dispatch: [origin, nonce, amount, timestamp]
  HYPERLANE_FEE,  \* quoteDispatch
  Values,         \* msg.value of a call
  MAX_SKEW        \* bound: how far an origin's clock runs ahead of the pool's

VARIABLES
  now,            \* block.timestamp
  transferNonce,
  dispatched,     \* messages the Hyperlane mailbox of the origin accepted
  inTransit       \* messages whose asset is still in the native bridge

bridgeVars == <<transferNonce, dispatched, inTransit>>

BridgeTypeOK ==
  /\ transferNonce \in [Origins -> Nat]
  /\ dispatched \subseteq Messages
  /\ inTransit \subseteq dispatched

\* msg.value pays the Hyperlane fee, a native amount, what the proxy takes for
\* the delivery of a token, and then the refund of what bridge() expects to be left.
ValueSuffices(o, amount, value) ==
  LET expected == HYPERLANE_FEE + IF o \in Native THEN amount ELSE 0
      spent    == expected + IF o \in Native THEN 0 ELSE DepositFee[o]
      refund   == value - expected
  IN  refund >= 0 /\ spent + refund <= value

\* Mistake: the result of the delegatecall to the proxy is not checked.
BridgeUnchecked(m) ==
  /\ m.nonce = transferNonce[m.origin]
  /\ m.timestamp \in now .. now + MAX_SKEW
  /\ \E value \in Values : ValueSuffices(m.origin, m.amount, value)
  /\ transferNonce' = [transferNonce EXCEPT ![m.origin] = @ + 1]
  /\ dispatched' = dispatched \cup {m}
  /\ inTransit' \in {inTransit, inTransit \cup {m}}

\* bridge(amount, ..): m is the message of the call.
Bridge(m) ==
  /\ m.nonce = transferNonce[m.origin]
  /\ m.timestamp \in now .. now + MAX_SKEW
  /\ \E value \in Values : ValueSuffices(m.origin, m.amount, value)
  /\ m.origin \in Native => DepositFee[m.origin] <= m.amount
  /\ transferNonce' = [transferNonce EXCEPT ![m.origin] = @ + 1]
  /\ dispatched' = dispatched \cup {m}
  /\ inTransit' = inTransit \cup {m}

\* What the native bridge may deliver for m: all of it, or, for a native deposit,
\* what its ticket leaves (the excess of the fee is refunded to the proxy).
Receivable(m) == m.amount - DepositFee[m.origin] .. m.amount

\* The native bridge delivers the asset of m.
Deliver(m) ==
  /\ m \in inTransit
  /\ inTransit' = inTransit \ {m}
  /\ UNCHANGED <<transferNonce, dispatched>>

BridgeInit ==
  /\ transferNonce = [o \in Origins |-> 0]
  /\ dispatched = {}
  /\ inTransit = {}

=============================================================================
