----------------------------- MODULE LayoutProofs -----------------------------
(* Facts about Layout that the proofs of its users rest on. *)
EXTENDS Layout, FiniteSetTheorems, TLAPS

\* Every set of rows has a size.
LEMMA RowCountType == \A T \in SUBSET Rows : Cardinality(T) \in Nat
  BY LayoutAssumption, FS_Subset, FS_CardinalityType

\* What Hive counts is a natural number.
LEMMA VisibleCountType ==
  ASSUME NEW copies, NEW registered PROVE VisibleCount(copies, registered) \in Nat
  <1> DEFINE seen == {r \in Rows : PathOf[UnitOf[r]] \in registered}
             once == {r \in seen : copies[r] >= 1}
             more == {r \in seen : copies[r] >= 2}
  <1>1. Cardinality(once) \in Nat /\ Cardinality(more) \in Nat
    BY RowCountType
  <1> QED BY <1>1 DEF VisibleCount

\* What verify() may conclude from equal counts: when no row is there twice
\* and Hive counts as many rows as there are, it shows each of them.
LEMMA EqualCountsMeanComplete ==
  ASSUME NEW copies \in CopyCounts, NEW registered,
         \A r \in Rows : copies[r] # 2,
         VisibleCount(copies, registered) = Cardinality(Rows)
  PROVE  \A r \in Rows : copies[r] = 1 /\ PathOf[UnitOf[r]] \in registered
  <1> DEFINE seen == {r \in Rows : PathOf[UnitOf[r]] \in registered}
             once == {r \in seen : copies[r] >= 1}
             more == {r \in seen : copies[r] >= 2}
  <1>1. \A r \in Rows : copies[r] \in {0, 1}
    BY DEF CopyCounts
  <1>2. Cardinality(more) = 0
    BY <1>1, FS_EmptySet
  <1>3. Cardinality(once) \in Nat
    BY RowCountType
  <1>4. Cardinality(once) = Cardinality(Rows)
    BY <1>2, <1>3 DEF VisibleCount
  <1>5. once \in SUBSET Rows
    OBVIOUS
  <1> HIDE DEF once
  <1>6. once = Rows
    BY <1>4, <1>5, LayoutAssumption, FS_Subset
  <1> USE DEF once
  <1> QED BY <1>1, <1>6

\* The converse: a table that shows each row once has the count of the source.
LEMMA CompleteMeansEqualCounts ==
  ASSUME NEW copies, NEW registered,
         \A r \in Rows : copies[r] = 1 /\ PathOf[UnitOf[r]] \in registered
  PROVE  VisibleCount(copies, registered) = Cardinality(Rows)
  <1> DEFINE seen == {r \in Rows : PathOf[UnitOf[r]] \in registered}
             once == {r \in seen : copies[r] >= 1}
             more == {r \in seen : copies[r] >= 2}
  <1>1. once = Rows /\ more = {}
    OBVIOUS
  <1>2. Cardinality(more) = 0 /\ Cardinality(Rows) \in Nat
    BY <1>1, FS_EmptySet, RowCountType
  <1> QED BY <1>1, <1>2 DEF VisibleCount

\* What verify() may conclude from equal counts when every row is there and
\* every partition is registered: no row is there twice.
LEMMA EqualCountsMeanOnce ==
  ASSUME NEW copies \in CopyCounts, NEW registered,
         \A r \in Rows : copies[r] >= 1 /\ PathOf[UnitOf[r]] \in registered,
         VisibleCount(copies, registered) = Cardinality(Rows)
  PROVE  \A r \in Rows : copies[r] = 1 /\ PathOf[UnitOf[r]] \in registered
  <1> DEFINE seen == {r \in Rows : PathOf[UnitOf[r]] \in registered}
             once == {r \in seen : copies[r] >= 1}
             more == {r \in seen : copies[r] >= 2}
  <1>1. once = Rows /\ more = {r \in Rows : copies[r] >= 2}
    OBVIOUS
  <1>2. Cardinality(once) \in Nat /\ Cardinality(more) \in Nat
    BY RowCountType
  <1>3. Cardinality(more) = 0
    BY <1>1, <1>2 DEF VisibleCount
  <1>4. IsFiniteSet(more)
    BY <1>1, LayoutAssumption, FS_Subset
  <1>5. more = {}
    <2> HIDE DEF more
    <2> QED BY <1>3, <1>4, FS_EmptySet
  <1>6. \A r \in Rows : copies[r] \in 0..2 /\ ~(copies[r] >= 2)
    BY <1>1, <1>5 DEF CopyCounts
  <1> QED BY <1>6

\* A count of zero means that there are no rows at all.
LEMMA ZeroCountMeansNoRows == Cardinality(Rows) = 0 => Rows = {}
  BY LayoutAssumption, FS_EmptySet

----------------------------------------------------------------------------
(* Counting what is left to do *)

\* Every set of units has a size, no larger than that of all.
LEMMA UnitCount ==
  \A S \in SUBSET Units :
    /\ IsFiniteSet(S) /\ Cardinality(S) \in Nat /\ Cardinality(Units) \in Nat
    /\ Cardinality(S) <= Cardinality(Units)
  BY LayoutAssumption, FS_Subset, FS_CardinalityType

\* Units have no more paths than there are units.
LEMMA PathCount ==
  ASSUME NEW S \in SUBSET Units
  PROVE  /\ IsFiniteSet({PathOf[u] : u \in S})
         /\ Cardinality({PathOf[u] : u \in S}) \in Nat
         /\ Cardinality({PathOf[u] : u \in S}) <= Cardinality(Units)
  <1> DEFINE T == {PathOf[u] : u \in S}
             f == [u \in S |-> PathOf[u]]
  <1>1. f \in Surjection(S, T)
    BY DEF Surjection
  <1>2. IsFiniteSet(T) /\ Cardinality(T) <= Cardinality(S)
    <2> HIDE DEF T, f
    <2> QED BY <1>1, UnitCount, FS_Surjection
  <1>3. Cardinality(T) \in Nat
    <2> HIDE DEF T
    <2> QED BY <1>2, FS_CardinalityType
  <1>4. /\ Cardinality(S) \in Nat /\ Cardinality(Units) \in Nat
        /\ Cardinality(S) <= Cardinality(Units)
    BY UnitCount
  <1> HIDE DEF T, f
  <1>5. Cardinality(T) <= Cardinality(Units)
    BY <1>2, <1>3, <1>4
  <1> QED BY <1>2, <1>3, <1>5 DEF T

\* Whoever takes one thing off a finite set has one thing less to do.
LEMMA OneLess ==
  ASSUME NEW S, IsFiniteSet(S), NEW x \in S
  PROVE  /\ IsFiniteSet(S \ {x})
         /\ Cardinality(S) \in Nat /\ Cardinality(S \ {x}) \in Nat
         /\ Cardinality(S \ {x}) = Cardinality(S) - 1
  BY FS_RemoveElement, FS_CardinalityType

\* A part of a set of units and the rest of it add up.
LEMMA PartAndRest ==
  ASSUME NEW S \in SUBSET Units, NEW T \in SUBSET S
  PROVE  /\ Cardinality(S \ T) \in Nat /\ Cardinality(T) \in Nat
         /\ Cardinality(S \ T) = Cardinality(S) - Cardinality(T)
         /\ T # {} => Cardinality(T) >= 1
  <1>1. S \cap T = T /\ T \in SUBSET Units /\ S \ T \in SUBSET Units
    OBVIOUS
  <1>2. Cardinality(S \ T) = Cardinality(S) - Cardinality(S \cap T)
    BY UnitCount, FS_Difference
  <1>3. T # {} => Cardinality(T) # 0
    BY <1>1, UnitCount, FS_EmptySet
  <1> QED BY <1>1, <1>2, <1>3, UnitCount
===============================================================================
