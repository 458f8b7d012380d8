--------------------------- MODULE MCRelayVaults ---------------------------
(***************************************************************************)
(* Values of RelayVaults' constants for TLC.                               *)
(***************************************************************************)
EXTENDS RelayVaults

CONSTANTS o1, o2, p1, p2, curator1, yp1

\* The fields stand in the order in which RelayPool declares them.
OriginOf(o, proxy, limit, fee, delay) ==
  [origin |-> o,
   settings |-> [curator |-> curator1, proxyBridge |-> proxy, maxDebt |-> limit,
                 bridgeFee |-> fee, coolDown |-> delay]]

\* Two origins that share a proxy; one may change its limit and its cool-down.
SharedProxy == [o \in Origins |-> p1]
SharedParams == {OriginOf(o1, p1, 4, 1, 1), OriginOf(o1, p1, 2, 1, 0),
                 OriginOf(o2, p1, 3, 0, 0)}
SharedMessages ==
  [origin: {o1}, nonce: {0}, amount: {2}, timestamp: {1}]
  \cup [origin: {o1}, nonce: {1}, amount: {4}, timestamp: 1 .. 2]
  \cup [origin: {o2}, nonce: {0}, amount: {3}, timestamp: {1}]

\* An origin whose transfers are Arbitrum deposits.
DepositParams == {OriginOf(o1, p1, 4, 0, 0)}
DepositMessages == [origin: {o1}, nonce: {0}, amount: {2}, timestamp: {1}]

NoDepositFee == [o \in Origins |-> 0]
SomeDepositFee == [o \in Origins |-> 1]
UnitPrices == [yp \in YieldPools |-> 1]

=============================================================================
