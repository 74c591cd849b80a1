----------------------------- MODULE PagesProofs -----------------------------
(***************************************************************************)
(* Lemmas about Pages: the positions of a list of n entries are 1..n, so   *)
(* that a page that is not full is the last one.                           *)
(***************************************************************************)
EXTENDS Pages, FiniteSetTheorems, TLAPS

\* The position of an entry is one of 1..n.
LEMMA PositionType ==
  ASSUME NEW list \in SUBSET Nat, IsFiniteSet(list), NEW x \in list
  PROVE  Position(list, x) \in 1..Cardinality(list)
<1> DEFINE S == {y \in list : y >= x}
<1>1. S \in SUBSET list /\ x \in S
  OBVIOUS
<1>2. /\ IsFiniteSet(S) /\ Cardinality(S) <= Cardinality(list)
      /\ Cardinality(S) \in Nat /\ Cardinality(list) \in Nat
  BY <1>1, FS_Subset, FS_CardinalityType
<1>3. Cardinality(S) # 0
  BY <1>1, <1>2, FS_EmptySet
<1> QED
  BY <1>2, <1>3 DEF Position

\* A later entry has a smaller position.
LEMMA PositionOrder ==
  ASSUME NEW list \in SUBSET Nat, IsFiniteSet(list),
         NEW x \in list, NEW y \in list, x < y
  PROVE  Position(list, y) < Position(list, x)
<1> DEFINE S == {z \in list : z >= x}
           T == {z \in list : z >= y}
<1>1. T \in SUBSET S /\ S \in SUBSET list /\ x \in S /\ x \notin T
  <2>1. x \in Nat /\ y \in Nat /\ \A z \in list : z \in Nat
    OBVIOUS
  <2>2. \A z \in list : z >= y => z >= x
    BY <2>1
  <2>3. ~ x >= y /\ x >= x
    BY <2>1
  <2> QED
    BY <2>2, <2>3
<1>2. IsFiniteSet(S)
  BY <1>1, FS_Subset
<1>3. Cardinality(T) <= Cardinality(S) /\ Cardinality(T) # Cardinality(S)
  <2>1. Cardinality(T) <= Cardinality(S) /\ (Cardinality(S) = Cardinality(T) => S = T)
    BY <1>1, <1>2, FS_Subset
  <2> QED
    BY <1>1, <2>1
<1>4. Cardinality(S) \in Nat /\ Cardinality(T) \in Nat
  BY <1>1, <1>2, FS_Subset, FS_CardinalityType
<1> QED
  BY <1>3, <1>4 DEF Position

\* No two entries have the same position.
LEMMA PositionInjective ==
  ASSUME NEW list \in SUBSET Nat, IsFiniteSet(list),
         NEW x \in list, NEW y \in list, Position(list, x) = Position(list, y)
  PROVE  x = y
<1>1. Position(list, x) \in Nat
  BY PositionType, FS_CardinalityType
<1>2. ~ x < y
  BY <1>1, PositionOrder
<1>3. ~ y < x
  BY <1>1, PositionOrder
<1> QED
  BY <1>2, <1>3

\* Every position is taken.
LEMMA PositionOnto ==
  ASSUME NEW list \in SUBSET Nat, IsFiniteSet(list),
         NEW n \in 1..Cardinality(list)
  PROVE  \E x \in list : Position(list, x) = n
<1> DEFINE f == [x \in list |-> Position(list, x)]
           N == Cardinality(list)
<1>1. N \in Nat
  BY FS_CardinalityType
<1>2. f \in [list -> 1..N]
  BY PositionType
<1>3. f \in Injection(list, 1..N)
  BY <1>2, PositionInjective DEF Injection, IsInjective
<1>4. IsFiniteSet(1..N) /\ Cardinality(1..N) = N
  BY <1>1, FS_Interval
<1>5. f \in Surjection(list, 1..N)
  BY <1>3, <1>4, FS_Injection
<1> QED
  BY <1>5 DEF Surjection

\* A page behind which there is an entry is full.
LEMMA FullPage ==
  ASSUME NEW list \in SUBSET Nat, IsFiniteSet(list), NEW p \in Nat \ {0},
         NEW x \in list, Position(list, x) > p * PageSize
  PROVE  Cardinality(Page(list, p)) = PageSize
<1> DEFINE a == (p - 1) * PageSize
           b == p * PageSize
           f == [y \in Page(list, p) |-> Position(list, y)]
<1>1. a \in Nat /\ b \in Nat /\ b = a + PageSize /\ PageSize \in Nat /\ PageSize > 0
  BY PageSizeAssumption
<1>2. f \in [Page(list, p) -> a + 1 .. b]
  BY DEF Page
<1>3. f \in Injection(Page(list, p), a + 1 .. b)
  BY <1>2, PositionInjective DEF Injection, IsInjective, Page
<1>4. Cardinality(list) \in Nat /\ Cardinality(list) > b
  BY <1>1, PositionType, FS_CardinalityType
<1>5. \A n \in a + 1 .. b : \E y \in Page(list, p) : f[y] = n
  <2> SUFFICES ASSUME NEW n \in a + 1 .. b PROVE \E y \in Page(list, p) : f[y] = n
    OBVIOUS
  <2>1. PICK y \in list : Position(list, y) = n
    BY <1>1, <1>4, PositionOnto
  <2> QED
    BY <2>1 DEF Page
<1>6. f \in Surjection(Page(list, p), a + 1 .. b)
  BY <1>2, <1>5 DEF Surjection
<1>7. IsFiniteSet(a + 1 .. b) /\ Cardinality(a + 1 .. b) = PageSize
  BY <1>1, FS_Interval
<1> QED
  BY <1>3, <1>6, <1>7, FS_Injection

\* All pages up to one that is not full are the whole list.
LEMMA LastPageEnds ==
  ASSUME NEW list \in SUBSET Nat, IsFiniteSet(list), NEW p \in Nat \ {0},
         NEW seen,
         \A x \in list : Position(list, x) <= (p - 1) * PageSize => x \in seen,
         Cardinality(Page(list, p)) < PageSize
  PROVE  list \subseteq seen \union Page(list, p)
<1> SUFFICES ASSUME NEW x \in list PROVE x \in seen \union Page(list, p)
  OBVIOUS
<1>1. /\ (p - 1) * PageSize \in Nat /\ p * PageSize \in Nat
      /\ Position(list, x) \in Nat
  BY PageSizeAssumption, PositionType, FS_CardinalityType
<1>2. ~ Position(list, x) > p * PageSize
  BY FullPage, PageSizeAssumption
<1> QED
  BY <1>1, <1>2 DEF Page

\* All pages up to one are the list up to its end.
LEMMA PageCounts ==
  ASSUME NEW list \in SUBSET Nat, IsFiniteSet(list), NEW p \in Nat \ {0},
         NEW seen,
         \A x \in list : Position(list, x) <= (p - 1) * PageSize => x \in seen,
         NEW x \in list, Position(list, x) <= p * PageSize
  PROVE  x \in seen \union Page(list, p)
<1>1. /\ (p - 1) * PageSize \in Nat /\ p * PageSize \in Nat
      /\ Position(list, x) \in Nat
  BY PageSizeAssumption, PositionType, FS_CardinalityType
<1> QED
  BY <1>1 DEF Page
=============================================================================
