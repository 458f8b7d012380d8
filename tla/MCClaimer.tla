----------------------------- MODULE MCClaimer -----------------------------
(***************************************************************************)
(* Values of Claimer's constants for TLC.                                  *)
(***************************************************************************)
EXTENDS Claimer

CONSTANTS t1, t2, t3, t4, t5, t6, l1, l2a, l2b, l2c, l2d, k1, k2, k3

-----------------------------------------------------------------------------
(* One transfer over OP and one over Orbit, with equal keys *)

TwoOrigins == [t \in Transfers |-> IF t = t1 THEN l2a ELSE l2b]
OpAndOrbit == [t \in Transfers |-> IF t = t1 THEN "op" ELSE "orbit"]
OneKey == [t \in Transfers |-> k1]

\* Each transaction bridges once.
OwnTransaction == [t \in Transfers |-> t]

-----------------------------------------------------------------------------
(* Three pairs of transfers that share something: two of one OP transaction,  *)
(* two of Orbit chains with equal outbox indices, and one of OP and one of    *)
(* ZKsync with equal hashes                                                   *)

FourOrigins ==
  [t \in Transfers |-> CASE t \in {t1, t2, t5} -> l2a
                         [] t = t3 -> l2b
                         [] t = t4 -> l2c
                         [] t = t6 -> l2d]

AllStacks ==
  [t \in Transfers |-> CASE t \in {t1, t2, t5} -> "op"
                         [] t \in {t3, t4} -> "orbit"
                         [] t = t6 -> "zksync"]

SharedKeys ==
  [t \in Transfers |-> CASE t = t1 -> k1 [] t = t2 -> k2 [] OTHER -> k3]

OneTransaction == [t \in Transfers |-> IF t = t1 THEN t2 ELSE t]

\* Only one pair is made. For the first one the job does not run: what it would
\* ask for, others may do.
OnePair ==
  /\ \E pair \in {{t1, t2}, {t3, t4}, {t5, t6}} :
       \A t \in Transfers \ pair : exit[t] = "none"
  /\ exit[t1] # "none" \/ exit[t2] # "none" => stage = "idle" /\ requests = {}

=============================================================================
