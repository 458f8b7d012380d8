-------------------------- MODULE MCShareIndexer --------------------------
(* Values of the constants of ShareIndexer for TLC. *)
EXTENDS ShareIndexer

CONSTANTS p1, p2, a1, a2, zero

=============================================================================
