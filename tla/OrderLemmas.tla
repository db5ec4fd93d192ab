------------------------------ MODULE OrderLemmas ------------------------------
(***************************************************************************)
(* Facts about orders on finite sets that the proofs about pages share: a  *)
(* nonempty set of naturals has a smallest element, a finite ordered set   *)
(* has a first and a last one, and what a page of the first k holds.       *)
(*                                                                         *)
(* An order is a set of pairs.  Smallest stands in for induction: a        *)
(* statement about all finite sets holds because there is no smallest set  *)
(* it fails of.                                                            *)
(***************************************************************************)
EXTENDS Integers, FiniteSetTheorems, WellFoundedInduction, TLAPS

(* R is a strict total order on S. *)
IsOrder(R, S) ==
  /\ \A x \in S : <<x, x>> \notin R
  /\ \A x, y, z \in S : <<x, y>> \in R /\ <<y, z>> \in R => <<x, z>> \in R
  /\ \A x, y \in S : x = y \/ <<x, y>> \in R \/ <<y, x>> \in R

Before(R, x, S) == {y \in S : <<y, x>> \in R}

(* The first k of S. *)
FirstOf(R, k, S) == {x \in S : Cardinality(Before(R, x, S)) < k}

-----------------------------------------------------------------------------
LEMMA Smallest == ASSUME NEW T, T \subseteq Nat, T # {} PROVE \E x \in T : \A y \in T : x <= y
<1> DEFINE R == OpToRel(<, Nat)
<1>1. IsWellFoundedOn(R, Nat)
  BY NatLessThanWellFounded
<1>2. \A a, b \in Nat : a < b => <<a, b>> \in R
  BY DEF OpToRel
<1> HIDE DEF R
<1>3. PICK x \in T : \A y \in T : ~(<<y, x>> \in R)
  BY <1>1, WFMin
<1>4. ASSUME NEW y \in T PROVE x <= y
  <2>1. x \in Nat /\ y \in Nat
    OBVIOUS
  <2>2. ~(y < x)
    BY <1>2, <1>3, <2>1
  <2> QED
    BY <2>1, <2>2
<1> QED
  BY <1>4

(* A set of naturals that is bounded has a greatest element. *)
LEMMA Greatest ==
  ASSUME NEW T, NEW m \in Nat, T \subseteq 0..m, T # {}
  PROVE  \E x \in T : \A y \in T : y <= x
<1> DEFINE U == {n \in Nat : \E y \in T : n = m - y}
<1>1. PICK t \in T : TRUE
  OBVIOUS
<1>2. t \in 0..m /\ m - t \in Nat /\ m - t \in U
  BY <1>1
<1>3. PICK u \in U : \A v \in U : u <= v
  BY <1>2, Smallest
<1>4. PICK x \in T : u = m - x
  BY <1>3
<1>5. ASSUME NEW y \in T PROVE y <= x
  <2>1. x \in 0..m /\ y \in 0..m /\ m - y \in Nat
    BY <1>4
  <2>2. m - y \in U
    BY <2>1
  <2>3. m - x <= m - y
    BY <1>3, <1>4, <2>2
  <2> QED
    BY <2>1, <2>3
<1> QED
  BY <1>5

(* Of a nonempty set of finite sets, one has the fewest elements. *)
LEMMA SmallestSet ==
  ASSUME NEW C, C # {}, \A S \in C : IsFiniteSet(S)
  PROVE  \E S \in C : \A T \in C : Cardinality(S) <= Cardinality(T)
<1> DEFINE Sizes == {Cardinality(S) : S \in C}
<1>1. Sizes \subseteq Nat /\ Sizes # {}
  BY FS_CardinalityType
<1>2. PICK n \in Sizes : \A m \in Sizes : n <= m
  BY <1>1, Smallest
<1> QED
  BY <1>2

(* A part of a finite set that lacks one of its elements is smaller. *)
LEMMA ProperSubset ==
  ASSUME NEW S, IsFiniteSet(S), NEW T, T \subseteq S, NEW x \in S, x \notin T
  PROVE  IsFiniteSet(T) /\ Cardinality(T) < Cardinality(S)
<1>1. IsFiniteSet(T) /\ Cardinality(T) <= Cardinality(S) /\ (Cardinality(S) = Cardinality(T) => S = T)
  BY FS_Subset
<1>2. Cardinality(T) \in Nat /\ Cardinality(S) \in Nat
  BY <1>1, FS_CardinalityType
<1> QED
  BY <1>1, <1>2

-----------------------------------------------------------------------------
LEMMA BeforeFinite ==
  ASSUME NEW R, NEW S, IsFiniteSet(S), NEW x
  PROVE  IsFiniteSet(Before(R, x, S)) /\ Cardinality(Before(R, x, S)) \in Nat
<1>1. Before(R, x, S) \subseteq S
  BY DEF Before
<1> QED
  BY <1>1, FS_Subset, FS_CardinalityType

(* What comes before an earlier element is less. *)
LEMMA BeforeSmaller ==
  ASSUME NEW R, NEW S, IsFiniteSet(S), IsOrder(R, S), NEW x \in S, NEW y \in S, <<y, x>> \in R
  PROVE  /\ Before(R, y, S) \subseteq Before(R, x, S)
         /\ Cardinality(Before(R, y, S)) < Cardinality(Before(R, x, S))
<1>1. Before(R, y, S) \subseteq Before(R, x, S) /\ y \in Before(R, x, S) /\ y \notin Before(R, y, S)
  BY DEF Before, IsOrder
<1> QED
  BY <1>1, BeforeFinite, ProperSubset

LEMMA SubOrder ==
  ASSUME NEW R, NEW S, IsOrder(R, S), NEW T, T \subseteq S
  PROVE  IsOrder(R, T)
BY DEF IsOrder

LEMMA FirstExists ==
  ASSUME NEW R, NEW S, IsFiniteSet(S), IsOrder(R, S), S # {}
  PROVE  \E x \in S : (\A y \in S : y = x \/ <<x, y>> \in R) /\ Before(R, x, S) = {}
<1> DEFINE Sizes == {Cardinality(Before(R, x, S)) : x \in S}
<1>1. Sizes \subseteq Nat /\ Sizes # {}
  BY BeforeFinite
<1>2. PICK n \in Sizes : \A m \in Sizes : n <= m
  BY <1>1, Smallest
<1>3. PICK x \in S : n = Cardinality(Before(R, x, S))
  BY <1>2
<1>4. ASSUME NEW y \in S, <<y, x>> \in R PROVE FALSE
  <2>1. Cardinality(Before(R, y, S)) < n
    BY <1>3, <1>4, BeforeSmaller
  <2>2. n <= Cardinality(Before(R, y, S))
    BY <1>2
  <2> QED
    BY <1>1, <2>1, <2>2, BeforeFinite
<1> QED
  BY <1>4 DEF IsOrder, Before

LEMMA LastExists ==
  ASSUME NEW R, NEW S, IsFiniteSet(S), IsOrder(R, S), S # {}
  PROVE  \E x \in S : \A y \in S : y = x \/ <<y, x>> \in R
<1> DEFINE Q == {<<p[2], p[1]>> : p \in R \cap (S \X S)}
<1>1. \A x, y \in S : <<x, y>> \in Q <=> <<y, x>> \in R
  <2> TAKE x, y \in S
  <2>1. <<x, y>> \in Q => <<y, x>> \in R
    OBVIOUS
  <2>2. <<y, x>> \in R => <<x, y>> \in Q
    OBVIOUS
  <2> QED
    BY <2>1, <2>2
<1> HIDE DEF Q
<1>2. IsOrder(Q, S)
  BY <1>1 DEF IsOrder
<1>3. PICK x \in S : \A y \in S : y = x \/ <<x, y>> \in Q
  BY <1>2, FirstExists
<1> QED
  BY <1>1, <1>3

-----------------------------------------------------------------------------
(* The first k are those of S up to some place. *)
LEMMA FirstClosed ==
  ASSUME NEW R, NEW S, IsFiniteSet(S), IsOrder(R, S), NEW k \in Nat,
         NEW x \in FirstOf(R, k, S), NEW y \in S \ FirstOf(R, k, S)
  PROVE  <<x, y>> \in R
<1>1. CASE <<y, x>> \in R
  <2>1. Cardinality(Before(R, y, S)) < Cardinality(Before(R, x, S))
    BY <1>1, BeforeSmaller DEF FirstOf
  <2> QED
    BY <2>1, BeforeFinite DEF FirstOf
<1> QED
  BY <1>1 DEF IsOrder, FirstOf

LEMMA FirstNonempty ==
  ASSUME NEW R, NEW S, IsFiniteSet(S), IsOrder(R, S), S # {}, NEW k \in Nat \ {0}
  PROVE  FirstOf(R, k, S) # {}
<1>1. PICK x \in S : Before(R, x, S) = {}
  BY FirstExists
<1> QED
  BY <1>1, FS_EmptySet DEF FirstOf

LEMMA FirstFinite ==
  ASSUME NEW R, NEW S, IsFiniteSet(S), NEW k
  PROVE  FirstOf(R, k, S) \subseteq S /\ IsFiniteSet(FirstOf(R, k, S))
<1>1. FirstOf(R, k, S) \subseteq S
  BY DEF FirstOf
<1> QED
  BY <1>1, FS_Subset

LEMMA FirstShort ==
  ASSUME NEW R, NEW S, IsFiniteSet(S), IsOrder(R, S), NEW k \in Nat, ~(Cardinality(S) > k)
  PROVE  FirstOf(R, k, S) = S
<1>1. ASSUME NEW x \in S PROVE Cardinality(Before(R, x, S)) < k
  <2>1. Before(R, x, S) \subseteq S /\ x \notin Before(R, x, S)
    BY DEF Before, IsOrder
  <2>2. Cardinality(Before(R, x, S)) < Cardinality(S)
    BY <2>1, ProperSubset
  <2> QED
    BY <2>2, BeforeFinite, FS_CardinalityType
<1> QED
  BY <1>1 DEF FirstOf

(* If the first k of the first k + 1 are all of them, there are no more. *)
LEMMA FirstAll ==
  ASSUME NEW R, NEW S, IsFiniteSet(S), IsOrder(R, S), NEW k \in Nat,
         FirstOf(R, k, FirstOf(R, k + 1, S)) = FirstOf(R, k + 1, S)
  PROVE  FirstOf(R, k + 1, S) = S
<1> DEFINE F == FirstOf(R, k + 1, S)
           Rest == S \ F
<1>f. F \subseteq S /\ IsFiniteSet(F) /\ IsOrder(R, F)
  BY FirstFinite, SubOrder
<1> SUFFICES ASSUME Rest # {} PROVE FALSE
  BY <1>f
<1>1. IsFiniteSet(Rest) /\ IsOrder(R, Rest)
  BY FS_Difference, SubOrder
<1>2. PICK x \in Rest : \A y \in Rest : y = x \/ <<x, y>> \in R
  BY <1>1, FirstExists
<1>3. Before(R, x, S) \subseteq F
  BY <1>2 DEF Before, IsOrder
<1>4. Cardinality(Before(R, x, S)) \in Nat /\ ~(Cardinality(Before(R, x, S)) < k + 1)
  BY <1>2, BeforeFinite DEF FirstOf
<1>5. Cardinality(F) \in Nat /\ Cardinality(F) >= k + 1
  BY <1>3, <1>4, <1>f, FS_Subset, FS_CardinalityType
<1>6. F # {}
  BY <1>5, FS_EmptySet
<1>7. PICK l \in F : \A y \in F : y = l \/ <<y, l>> \in R
  BY <1>6, <1>f, LastExists
<1>8. Before(R, l, F) = F \ {l}
  BY <1>7, <1>f DEF Before, IsOrder
<1>9. Cardinality(F \ {l}) = Cardinality(F) - 1
  BY <1>f, FS_RemoveElement
<1>10. l \notin FirstOf(R, k, F)
  <2>1. Cardinality(Before(R, l, F)) = Cardinality(F) - 1
    BY <1>7, <1>8, <1>9
  <2>2. ~(Cardinality(F) - 1 < k)
    BY <1>5
  <2> QED
    BY <2>1, <2>2 DEF FirstOf
<1> QED
  BY <1>7, <1>10

(* A page is the first k of a query for k + 1: if it has not all of them, what it lacks  *)
(* comes after what it has, and it is not empty.                                         *)
LEMMA PageSplit ==
  ASSUME NEW R, NEW S, IsFiniteSet(S), IsOrder(R, S), NEW k \in Nat \ {0},
         NEW rows, NEW items, rows = FirstOf(R, k + 1, S), items = FirstOf(R, k, rows)
  PROVE  /\ items \subseteq rows /\ rows \subseteq S /\ IsFiniteSet(items) /\ IsOrder(R, items)
         /\ items = rows => items = S
         /\ items # rows => items # {}
         /\ \A x \in items, y \in S \ items : <<x, y>> \in R
<1>1. rows \subseteq S /\ IsFiniteSet(rows) /\ IsOrder(R, rows)
  BY FirstFinite, SubOrder
<1>2. items \subseteq rows /\ IsFiniteSet(items) /\ IsOrder(R, items)
  BY <1>1, FirstFinite, SubOrder
<1>3. items = rows => items = S
  BY FirstAll
<1>4. items # rows => items # {}
  BY <1>1, <1>2, FirstNonempty
<1>5. ASSUME NEW x \in items, NEW y \in S \ items PROVE <<x, y>> \in R
  <2>1. CASE y \in rows
    BY <1>1, <2>1, FirstClosed
  <2>2. CASE y \notin rows
    <3>1. x \in rows /\ y \in S \ rows /\ k + 1 \in Nat
      BY <1>2, <2>2
    <3> QED
      BY <3>1, FirstClosed
  <2> QED
    BY <2>1, <2>2
<1> QED
  BY <1>1, <1>2, <1>3, <1>4, <1>5
===============================================================================
