-------------------------- MODULE OriginSumsProofs --------------------------
(***************************************************************************)
(* Facts about the sums of OriginSums: they are natural numbers, zero for  *)
(* the zero function, and change by as much as the value that changes. And *)
(* the facts about natural numbers that the proofs of several modules use. *)
(***************************************************************************)
EXTENDS OriginSums, FiniteSetTheorems, WellFoundedInduction, TLAPS

\* One element has f[x] units.
LEMMA UnitsOfOne ==
  ASSUME NEW f, NEW x, f[x] \in Nat
  PROVE  IsFiniteSet(UnitsOf(f, x)) /\ Cardinality(UnitsOf(f, x)) = f[x]
<1>1. IsFiniteSet({x}) /\ Cardinality({x}) = 1
  BY FS_Singleton
<1>2. IsFiniteSet(1 .. f[x]) /\ Cardinality(1 .. f[x]) = f[x]
  BY FS_Interval
<1>3. /\ IsFiniteSet({x} \X (1 .. f[x]))
      /\ Cardinality({x} \X (1 .. f[x])) = Cardinality({x}) * Cardinality(1 .. f[x])
  BY <1>1, <1>2, FS_Product
<1>4. QED
  BY <1>1, <1>2, <1>3 DEF UnitsOf

\* The units of a finite set are finitely many.
LEMMA UnitsInFinite ==
  ASSUME NEW S, IsFiniteSet(S), NEW f, \A y \in S : f[y] \in Nat
  PROVE  IsFiniteSet(UnitsIn(f, S))
<1> DEFINE U == {UnitsOf(f, y) : y \in S}
           g == [y \in S |-> UnitsOf(f, y)]
<1>1. g \in Surjection(S, U)
  BY DEF Surjection
<1>2. IsFiniteSet(U)
  BY <1>1, FS_Surjection
<1>3. \A T \in U : IsFiniteSet(T)
  BY UnitsOfOne
<1>4. QED
  BY <1>2, <1>3, FS_UNION DEF UnitsIn

\* A sum over a finite set is a natural number.
LEMMA SumOverType ==
  ASSUME NEW S, IsFiniteSet(S), NEW f, \A y \in S : f[y] \in Nat
  PROVE  SumOver(f, S) \in Nat
BY UnitsInFinite, FS_CardinalityType DEF SumOver

\* Functions that agree on S have the same sum over S.
LEMMA SumOverSame ==
  ASSUME NEW S, NEW f, NEW g, \A y \in S : f[y] = g[y]
  PROVE  SumOver(f, S) = SumOver(g, S)
<1>1. \A y \in S : UnitsOf(f, y) = UnitsOf(g, y)
  BY DEF UnitsOf
<1>2. UnitsIn(f, S) = UnitsIn(g, S)
  BY <1>1 DEF UnitsIn
<1>3. QED
  BY <1>2 DEF SumOver

\* The sum of a function that is zero everywhere is zero.
LEMMA SumOverZero ==
  ASSUME NEW S, NEW f, \A y \in S : f[y] = 0
  PROVE  SumOver(f, S) = 0
<1>1. \A y \in S : UnitsOf(f, y) = {}
  BY DEF UnitsOf
<1>2. UnitsIn(f, S) = {}
  BY <1>1 DEF UnitsIn
<1>3. QED
  BY <1>2, FS_EmptySet DEF SumOver

\* Taking one element out of the sum.
LEMMA SumOverSplit ==
  ASSUME NEW S, IsFiniteSet(S), NEW f, \A y \in S : f[y] \in Nat, NEW x \in S
  PROVE  SumOver(f, S) = SumOver(f, S \ {x}) + f[x]
<1> DEFINE R == UnitsIn(f, S \ {x})
           O == UnitsOf(f, x)
<1>1. UnitsIn(f, S) = R \cup O
  BY DEF UnitsIn
<1>2. R \cap O = {}
  BY DEF UnitsIn, UnitsOf
<1>3. IsFiniteSet(S \ {x})
  BY FS_RemoveElement
<1>4. IsFiniteSet(R)
  BY <1>3, UnitsInFinite
<1>5. IsFiniteSet(O) /\ Cardinality(O) = f[x]
  BY UnitsOfOne
<1>6. Cardinality(R \cup O) = Cardinality(R) + Cardinality(O) - Cardinality(R \cap O)
  BY <1>4, <1>5, FS_Union
<1>7. Cardinality(R \cap O) = 0
  BY <1>2, FS_EmptySet
<1>8. Cardinality(R) \in Nat
  BY <1>4, FS_CardinalityType
<1>9. QED
  BY <1>1, <1>5, <1>6, <1>7, <1>8 DEF SumOver

\* Functions that agree on S but for x have sums that differ as f[x] and g[x].
LEMMA SumOverChange ==
  ASSUME NEW S, IsFiniteSet(S), NEW x \in S,
         NEW f, \A y \in S : f[y] \in Nat,
         NEW g, \A y \in S : g[y] \in Nat,
         \A y \in S \ {x} : g[y] = f[y]
  PROVE  SumOver(g, S) = SumOver(f, S) - f[x] + g[x]
<1>1. SumOver(f, S) = SumOver(f, S \ {x}) + f[x]
  BY SumOverSplit
<1>2. SumOver(g, S) = SumOver(g, S \ {x}) + g[x]
  BY SumOverSplit
<1>3. SumOver(g, S \ {x}) = SumOver(f, S \ {x})
  BY SumOverSame
<1>4. SumOver(f, S \ {x}) \in Nat
  BY FS_RemoveElement, SumOverType
<1>5. QED
  BY <1>1, <1>2, <1>3, <1>4

\* An element that is added to S adds its value to the sum.
LEMMA SumOverAdd ==
  ASSUME NEW S, IsFiniteSet(S), NEW x, x \notin S,
         NEW f, \A y \in S \cup {x} : f[y] \in Nat
  PROVE  SumOver(f, S \cup {x}) = SumOver(f, S) + f[x]
<1>1. IsFiniteSet(S \cup {x})
  BY FS_AddElement
<1>2. SumOver(f, S \cup {x}) = SumOver(f, (S \cup {x}) \ {x}) + f[x]
  BY <1>1, SumOverSplit
<1>3. (S \cup {x}) \ {x} = S
  OBVIOUS
<1>4. QED
  BY <1>2, <1>3

\* Elements where f is zero count for nothing.
LEMMA SumOverSupport ==
  ASSUME NEW S, NEW T, T \subseteq S, NEW f, \A y \in S \ T : f[y] = 0
  PROVE  SumOver(f, T) = SumOver(f, S)
<1>1. \A y \in S \ T : UnitsOf(f, y) = {}
  BY DEF UnitsOf
<1>2. UnitsIn(f, T) = UnitsIn(f, S)
  BY <1>1 DEF UnitsIn
<1>3. QED
  BY <1>2 DEF SumOver

\* A part of S has at most its sum.
LEMMA SumOverSubset ==
  ASSUME NEW S, IsFiniteSet(S), NEW T, T \subseteq S, NEW f, \A y \in S : f[y] \in Nat
  PROVE  SumOver(f, T) <= SumOver(f, S)
<1>1. UnitsIn(f, T) \subseteq UnitsIn(f, S)
  BY DEF UnitsIn
<1>2. IsFiniteSet(UnitsIn(f, S))
  BY UnitsInFinite
<1>3. QED
  BY <1>1, <1>2, FS_Subset DEF SumOver

-----------------------------------------------------------------------------
(* Natural numbers *)

\* A quotient is the number of whole divisors in what is divided.
LEMMA QuotientType ==
  ASSUME NEW a \in Nat, NEW n \in Nat \ {0}
  PROVE  a \div n \in Nat /\ n * (a \div n) <= a /\ a < n * (a \div n) + n
OBVIOUS

LEMMA ProductMonotone ==
  ASSUME NEW a \in Nat, NEW b \in Nat, NEW c \in Nat, a <= b
  PROVE  c * a <= c * b
OBVIOUS

LEMMA QuotientMonotone ==
  ASSUME NEW a \in Nat, NEW b \in Nat, a <= b, NEW n \in Nat \ {0}
  PROVE  a \div n <= b \div n
OBVIOUS

\* A set of natural numbers has a least element: what holds of 0 and, with
\* every number, of the next one, fails nowhere.
LEMMA Least ==
  ASSUME NEW D, D \subseteq Nat, D # {}
  PROVE  \E x \in D : \A y \in D : x <= y
<1> DEFINE R == OpToRel(<, Nat)
<1>1. IsWellFoundedOn(R, Nat)
  BY NatLessThanWellFounded
<1>2. \A x, y \in Nat : x < y => <<x, y>> \in R
  BY DEF OpToRel
<1> HIDE DEF R
<1>3. PICK x \in D : \A y \in D : ~ (<<y, x>> \in R)
  BY <1>1, WFMin
<1>4. ASSUME NEW y \in D PROVE x <= y
  <2>1. x \in Nat /\ y \in Nat /\ ~ (y < x)
    BY <1>2, <1>3
  <2>2. QED
    BY <2>1
<1>5. QED
  BY <1>4

=============================================================================
