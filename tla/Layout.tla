------------------------------- MODULE Layout -------------------------------
(***************************************************************************)
(* The data one (job, processing_date) is about, and the two stores its    *)
(* rows reach: objects under partition paths, and a metastore that shows   *)
(* the objects of the paths it has a partition for.                        *)
(***************************************************************************)
EXTENDS Integers, FiniteSets

CONSTANTS
  Units,      \* every possible (load_table, partition value) piece of work
  Paths,      \* target OBS partition paths, one per partition value
  PathOf,     \* PathOf[u]: where unit u is written (several units may share)
  Rows,       \* Teradata rows
  UnitOf      \* UnitOf[r]: the only unit whose WHERE clause selects row r

ASSUME LayoutAssumption ==
  /\ PathOf \in [Units -> Paths]
  /\ UnitOf \in [Rows -> Units]
  /\ IsFiniteSet(Units) /\ IsFiniteSet(Rows)

RowsOf(u) == {r \in Rows : UnitOf[r] = u}
RowsAt(p) == {r \in Rows : PathOf[UnitOf[r]] = p}

\* copies[r] is the number of copies of row r under its path: 0, 1, or 2 for
\* "more than one".
CopyCounts == [Rows -> 0..2]
NoCopies   == [r \in Rows |-> 0]

\* hdfswriter appends: what is already under the path stays
AfterLanding(copies, S) ==
  [r \in Rows |-> IF r \in S /\ copies[r] < 2 THEN copies[r] + 1 ELSE copies[r]]

\* delete_prefix over one path, of which the rows in K remain
AfterClearing(copies, p, K) ==
  [r \in Rows |-> IF r \in RowsAt(p) \ K THEN 0 ELSE copies[r]]

\* SELECT COUNT(*) ... WHERE processing_date=...: all registered partitions
VisibleCount(copies, registered) ==
  LET seen == {r \in Rows : PathOf[UnitOf[r]] \in registered}
  IN  Cardinality({r \in seen : copies[r] >= 1})
        + Cardinality({r \in seen : copies[r] >= 2})
=============================================================================
