----------------------------- MODULE LoanLedger -----------------------------
(***************************************************************************)
(* What relay vaults promise, without messages, time, fees or shares: a    *)
(* transfer that was sent may be lent once, before or after its asset      *)
(* arrives; a loan is owed by its origin, and is repaid only out of the    *)
(* assets that were sent to the proxy of that origin.                      *)
(***************************************************************************)
EXTENDS Integers

CONSTANTS
  Origins,
  Proxies,
  L1Proxy,     \* the proxy on the pool's chain each origin sends to
  Messages     \* the transfers: records with an origin and an amount

VARIABLES
  sent,        \* transfers that were sent
  lent,        \* those that were paid to their recipients
  owed,        \* what each origin owes
  backing      \* for each proxy, what was sent to it and has not repaid a loan

ledgerVars == <<sent, lent, owed, backing>>

LedgerInit ==
  /\ sent = {}
  /\ lent = {}
  /\ owed = [o \in Origins |-> 0]
  /\ backing = [p \in Proxies |-> 0]

Send(m) ==
  /\ m \notin sent
  /\ sent' = sent \cup {m}
  /\ backing' = [backing EXCEPT ![L1Proxy[m.origin]] = @ + m.amount]
  /\ UNCHANGED <<lent, owed>>

\* The transfer m is lent, and k of what its origin owes then is repaid at once.
Lend(m, k) ==
  /\ m \in sent \ lent
  /\ k <= backing[L1Proxy[m.origin]]
  /\ k <= owed[m.origin] + m.amount
  /\ lent' = lent \cup {m}
  /\ owed' = [owed EXCEPT ![m.origin] = @ + m.amount - k]
  /\ backing' = [backing EXCEPT ![L1Proxy[m.origin]] = @ - k]
  /\ UNCHANGED sent

Repay(o, k) ==
  /\ k <= backing[L1Proxy[o]]
  /\ k <= owed[o]
  /\ owed' = [owed EXCEPT ![o] = @ - k]
  /\ backing' = [backing EXCEPT ![L1Proxy[o]] = @ - k]
  /\ UNCHANGED <<sent, lent>>

\* The amounts are bounded by what is owed, so that TLC can enumerate them.
LedgerNext ==
  \/ \E m \in Messages : Send(m)
  \/ \E m \in Messages : \E k \in 0 .. owed[m.origin] + m.amount : Lend(m, k)
  \/ \E o \in Origins : \E k \in 1 .. owed[o] : Repay(o, k)

LedgerSpec == LedgerInit /\ [][LedgerNext]_ledgerVars

=============================================================================
