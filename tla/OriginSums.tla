----------------------------- MODULE OriginSums -----------------------------
(***************************************************************************)
(* The sum of a function of natural numbers over a finite set.             *)
(*                                                                         *)
(* RelayPool keeps `outstandingDebt` next to one `outstandingDebt` per     *)
(* origin (RelayPool.sol, increaseOutstandingDebt and                      *)
(* decreaseOutstandingDebt), the indexers do the same in their tables, and *)
(* a pool's total of shares is that of its holders: relating the two needs *)
(* a sum. It is written as the size of a disjoint union, f[x] units for    *)
(* each x, rather than by recursion: what it becomes when one value of f   *)
(* changes is then a fact about finite sets that can be proved.            *)
(***************************************************************************)
EXTENDS Integers, FiniteSets

\* f[x] distinct units, labelled with x.
UnitsOf(f, x) == {x} \X (1 .. f[x])

\* The units of every element of S.
UnitsIn(f, S) == UNION {UnitsOf(f, x) : x \in S}

\* The sum of f[x] for x in S.
SumOver(f, S) == Cardinality(UnitsIn(f, S))

=============================================================================
