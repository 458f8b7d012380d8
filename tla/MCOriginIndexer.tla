-------------------------- MODULE MCOriginIndexer --------------------------
(* Values of the constants of OriginIndexer for TLC. *)
EXTENDS OriginIndexer

CONSTANTS o1, o2, p1, p2, m1, m2, m3

OneProxy == [o \in Origins |-> p1]
Correct == [o \in Origins |-> {Destination[o]}]
AnyProxy == [o \in Origins |-> Proxies]
Senders == [m \in Messages |-> IF m = m3 THEN o2 ELSE o1]
Amounts == [m \in Messages |-> IF m = m1 THEN 1 ELSE IF m = m2 THEN 2 ELSE 3]
=============================================================================
