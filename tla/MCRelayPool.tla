---------------------------- MODULE MCRelayPool ----------------------------
(***************************************************************************)
(* Values of RelayPool's constants for TLC.                                *)
(***************************************************************************)
EXTENDS RelayPool

CONSTANTS o1, o2, p1, p2, curator1, yp1, yp2, ts1

\* The fields stand in the order in which RelayPool declares them.
OriginOf(o, proxy, limit, fee, delay) ==
  [origin |-> o,
   settings |-> [curator |-> curator1, proxyBridge |-> proxy, maxDebt |-> limit,
                 bridgeFee |-> fee, coolDown |-> delay]]

MessageOf(o, n, a, t) == [origin |-> o, nonce |-> n, amount |-> a, timestamp |-> t]

\* Two origins; the first may change its fee and its limit.
DebtParams == {OriginOf(o1, p1, 4, 1, 0), OriginOf(o1, p1, 3, 0, 1),
               OriginOf(o2, p2, 3, 1, 0)}
DebtMessages == {MessageOf(o1, 0, 3, 1), MessageOf(o1, 1, 1, 1), MessageOf(o2, 0, 2, 1)}

\* One origin with a fee of a half.
AssetParams == {OriginOf(o1, p1, 6, 1, 0)}
AssetMessages == {MessageOf(o1, 0, 4, 1), MessageOf(o1, 1, 2, 1)}

\* Amounts whose fees are rounded down by handle.
OddMessages == {MessageOf(o1, 0, 3, 1), MessageOf(o1, 1, 1, 1)}

\* The second yield pool's shares are worth twice those of the first.
UnitPrices == [yp \in YieldPools |-> IF yp = yp1 THEN 1 ELSE 2]

=============================================================================
