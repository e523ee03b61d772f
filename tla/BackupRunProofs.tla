--------------------------- MODULE BackupRunProofs ---------------------------
(***************************************************************************)
(* Proofs about BackupRun for every set of units, rows and paths, every    *)
(* batch size and every number of faults.                                  *)
(***************************************************************************)
EXTENDS BackupRunProps, LayoutProofs

\* The fault kinds that leave rows behind or bring them in after the run they
\* belong to: no theorem about duplicates can hold with them.
ContainedFaults == "orphan" \notin FaultKinds /\ "delete" \notin FaultKinds

----------------------------------------------------------------------------
(* Type correctness *)

\* Init establishes the type invariant.
LEMMA InitTypeOK == Init => TypeOK
  <1> SUFFICES ASSUME Init PROVE TypeOK
    OBVIOUS
  <1>1. /\ csv \in [Units -> SUBSET Rows]
        /\ \A u \in Units : csv[u] = {}
    BY DEF Init
  <1>2. obs \in CopyCounts
    BY DEF Init, NoCopies, CopyCounts
  <1>3. /\ mem \in [Units -> Status]
        /\ disk \in [Units -> Status] /\ kept \in [Units -> Status]
    BY DEF Init, NoState, Status
  <1> QED BY <1>1, <1>2, <1>3 DEF Init, TypeOK, Phases

\* A path of a set of units is a path.
LEMMA PathType == \A u \in Units : PathOf[u] \in Paths
  BY LayoutAssumption

\* The planned units are units.
LEMMA PlanType == src \subseteq Rows => PlannedUnits \subseteq Units
  BY LayoutAssumption DEF PlannedUnits

\* Landing rows keeps every copy count within bounds.
LEMMA LandType ==
  ASSUME NEW S, Land(S), obs \in CopyCounts
  PROVE  obs' \in CopyCounts
  BY DEF Land, AfterLanding, CopyCounts

\* Clearing a path keeps every copy count within bounds.
LEMMA ClearType ==
  ASSUME NEW p, NEW K, Clear(p, K), obs \in CopyCounts
  PROVE  obs' \in CopyCounts
  BY DEF Clear, AfterClearing, CopyCounts

\* A count of finitely many rows is a natural number.
LEMMA CountType ==
  /\ src \subseteq Rows => Cardinality(SourceScope) \in Nat
  /\ HiveCount \in Nat
  <1>1. src \subseteq Rows => SourceScope \subseteq Rows
    BY DEF SourceScope
  <1> QED BY <1>1, RowCountType, VisibleCountType DEF HiveCount

\* When the process ends its variables are back at their initial values.
LEMMA EndType ==
  ASSUME TypeOK, End
  PROVE  /\ phase' \in Phases /\ mem' \in [Units -> Status]
         /\ plan' \subseteq Units /\ pending' \subseteq Units
         /\ batch' \subseteq Units /\ todo' \subseteq Units
         /\ paths' \subseteq Paths
         /\ srcCount' \in Nat /\ tgtCount' \in Nat
  BY DEF End, NoState, Phases, Status

\* Appending to the manifest keeps it well formed, also when that stops halfway.
LEMMA RecordType ==
  ASSUME TypeOK, NEW u, NEW s \in Status,
         RecordEvent(u, s) \/ \E whole \in BOOLEAN : TearEvent(u, s, whole)
  PROVE  disk' \in [Units -> Status] /\ kept' \in [Units -> Status] /\ torn' \in BOOLEAN
  BY DEF RecordEvent, TearEvent, TypeOK

\* Every step keeps the type invariant.
LEMMA NextTypeOK == TypeOK /\ [Next]_vars => TypeOK'
  <1> SUFFICES ASSUME TypeOK, [Next]_vars PROVE TypeOK'
    OBVIOUS
  <1> USE DEF TypeOK, manifest
  <1>1. CASE UNCHANGED vars
    BY <1>1 DEF vars, local, outside
  <1>2. CASE SkipRun
    BY <1>2, <1>1 DEF SkipRun
  <1>3. ASSUME NEW force \in BOOLEAN, StartRun(force) PROVE TypeOK'
    <2>1. plan' \subseteq Units /\ paths' \subseteq Paths
      BY <1>3, PlanType, PathType DEF StartRun, PathsToClear
    <2>2. mem' \in [Units -> Status]
      BY <1>3 DEF StartRun, NoState, Status
    <2> QED
      BY <1>3, <2>1, <2>2 DEF StartRun, Phases, outside
  <1>4. ASSUME NEW p \in paths, ClearPath(p) PROVE TypeOK'
    BY <1>4, ClearType DEF ClearPath, outside
  <1>5. ASSUME NEW p \in paths, NEW K, ClearPathLeavesRows(p, K) PROVE TypeOK'
    BY <1>5, ClearType DEF ClearPathLeavesRows, Fault
  <1>6. ASSUME NEW p \in paths, NEW K, DieClearing(p, K) PROVE TypeOK'
    BY <1>6, ClearType, EndType DEF DieClearing, Fault
  <1>7. CASE BeginUnits
    BY <1>7 DEF BeginUnits, UnitsToWrite, outside, Phases
  <1>8. ASSUME NEW b \in SUBSET pending, NextBatch(b) PROVE TypeOK'
    BY <1>8 DEF NextBatch, outside, Phases
  <1>9. ASSUME NEW u \in todo, ReuseExport(u) PROVE TypeOK'
    BY <1>9 DEF ReuseExport, outside
  <1>10. ASSUME NEW u \in todo, ExportUnit(u) PROVE TypeOK'
    BY <1>10, RecordType DEF ExportUnit, ExportedRows, outside, RowsOf, Status
  <1>11. ASSUME NEW u \in todo, NEW S \in SUBSET ExportedRows(u),
                DieExporting(u, S)
         PROVE TypeOK'
    BY <1>11, EndType DEF DieExporting, ExportedRows, Fault, RowsOf
  <1>12. CASE DataxSucceeds
    BY <1>12, LandType DEF DataxSucceeds, outside, Phases
  <1>13. ASSUME NEW S \in SUBSET BatchRows, DataxDropsRows(S) PROVE TypeOK'
    BY <1>13, LandType DEF DataxDropsRows, Fault, Phases
  <1>14. ASSUME NEW S \in SUBSET BatchRows, DieWriting(S) PROVE TypeOK'
    BY <1>14, LandType, EndType DEF DieWriting, Fault
  <1>15. CASE AbandonDatax
    <2>1. orphan' \subseteq Rows
      BY <1>15 DEF AbandonDatax, BatchRows
    <2> QED BY <1>15, <2>1, EndType DEF AbandonDatax
  <1>16. CASE OrphanLands
    BY <1>16, LandType DEF OrphanLands, local
  <1>17. ASSUME NEW u \in todo, UnlinkCsv(u) PROVE TypeOK'
    BY <1>17 DEF UnlinkCsv, outside, Phases
  <1>18. ASSUME NEW u \in todo, MarkWritten(u) PROVE TypeOK'
    BY <1>18, RecordType DEF MarkWritten, outside, Phases, Status
  <1>19. CASE EndUnits
    BY <1>19, PathType DEF EndUnits, outside, Phases
  <1>20. ASSUME NEW p \in paths, RegisterPartition(p) PROVE TypeOK'
    BY <1>20 DEF RegisterPartition, outside
  <1>21. ASSUME NEW p \in paths, RegisterFails(p) PROVE TypeOK'
    BY <1>21 DEF RegisterFails, Fault
  <1>22. CASE CountSource
    BY <1>22, CountType DEF CountSource, outside, Phases
  <1>23. CASE CountTarget
    BY <1>23, CountType DEF CountTarget, outside, Phases
  <1>24. CASE CountTargetFails
    BY <1>24 DEF CountTargetFails, Fault, Phases
  <1>25. CASE RecordSuccess
    BY <1>25 DEF RecordSuccess, outside, Phases
  <1>26. CASE RecordLost
    BY <1>26 DEF RecordLost, Fault, Phases
  <1>27. CASE RecordMismatch
    BY <1>27, EndType DEF RecordMismatch, outside
  <1>28. CASE ClearManifest
    BY <1>28, EndType DEF ClearManifest, outside, NoState, Status
  <1>29. CASE Crash
    BY <1>29, EndType DEF Crash, Fault
  <1>30. ASSUME NEW S \in SUBSET Rows, SourceChanges(S) PROVE TypeOK'
    BY <1>30 DEF SourceChanges, local
  <1>31. ASSUME NEW u \in todo, NEW whole \in BOOLEAN, DieMarkingExported(u, whole)
         PROVE  TypeOK'
    BY <1>31, EndType, RecordType
    DEF DieMarkingExported, ExportedRows, Fault, RowsOf, Status
  <1>32. ASSUME NEW u \in todo, NEW whole \in BOOLEAN, DieMarkingWritten(u, whole)
         PROVE  TypeOK'
    BY <1>32, EndType, RecordType DEF DieMarkingWritten, Fault, Status
  <1> QED
    BY <1>1, <1>2, <1>3, <1>4, <1>5, <1>6, <1>7, <1>8, <1>9, <1>10, <1>11,
       <1>12, <1>13, <1>14, <1>15, <1>16, <1>17, <1>18, <1>19, <1>20, <1>21,
       <1>22, <1>23, <1>24, <1>25, <1>26, <1>27, <1>28, <1>29, <1>30, <1>31,
       <1>32
    DEF Next, Start, Step, Failure

\* In every state of every execution the variables have their types.
THEOREM TypeCorrect == Spec => []TypeOK
  BY InitTypeOK, NextTypeOK, PTL DEF Spec

----------------------------------------------------------------------------
(* No row lands twice.  The argument: prepare empties every path that this *)
(* run is going to write, because with private paths the only planned      *)
(* units it skips are the written ones, and those the run does not write;  *)
(* between prepare and its one write a unit's path stays empty.            *)

\* Rows that land where there was no copy of them are there once.
LEMMA LandOnEmpty ==
  ASSUME NEW S, Land(S), TypeOK, NoRowLandsTwice, \A r \in Rows \cap S : obs[r] = 0
  PROVE  /\ \A r \in Rows : obs'[r] # 2
         /\ \A r \in Rows \ S : obs'[r] = obs[r]
  BY DEF Land, AfterLanding, CopyCounts, TypeOK, NoRowLandsTwice

\* Clearing adds no copy, and leaves none under the path it clears completely.
LEMMA ClearEffect ==
  ASSUME NEW p, NEW K, Clear(p, K), TypeOK
  PROVE  /\ \A r \in Rows : obs'[r] = obs[r] \/ obs'[r] = 0
         /\ K = {} => \A r \in RowsAt(p) : obs'[r] = 0
  BY DEF Clear, AfterClearing, CopyCounts, TypeOK, RowsAt

\* A batch about to be written goes to empty paths only.
LEMMA BatchIsFresh ==
  ASSUME DupInv, phase = "export"
  PROVE  /\ \A r \in BatchRows : r \in Rows /\ UnitOf[r] \in batch /\ obs[r] = 0
         /\ \A u \in pending : RowsOf(u) \cap BatchRows = {}
  BY DEF DupInv, TypeOK, TargetsAreEmpty, Empty, RowsOf, BatchRows

\* The initial state satisfies the invariant.
LEMMA InitDupInv == Init => DupInv
  BY InitTypeOK DEF Init, NoCopies, DupInv, NoRowLandsTwice, TargetsAreEmpty

\* Ending the run leaves nothing to protect.
LEMMA EndDupInv ==
  ASSUME End, TypeOK', orphan' = {}, \A r \in Rows : obs'[r] # 2
  PROVE  DupInv'
  BY DEF End, DupInv, NoRowLandsTwice, TargetsAreEmpty

\* Every step keeps the invariant.
LEMMA NextDupInv ==
  ASSUME PathsArePrivate, ContainedFaults
  PROVE  DupInv /\ [Next]_vars => DupInv'
  <1> SUFFICES ASSUME DupInv, [Next]_vars PROVE DupInv'
    OBVIOUS
  <1>t. TypeOK /\ TypeOK'
    BY NextTypeOK DEF DupInv
  <1> USE <1>t DEF DupInv
  <1>1. CASE UNCHANGED vars
    BY <1>1 DEF vars, local, outside, NoRowLandsTwice, TargetsAreEmpty, Empty
  <1>2. CASE SkipRun
    BY <1>2, <1>1 DEF SkipRun
  <1>3. ASSUME NEW force \in BOOLEAN, StartRun(force) PROVE DupInv'
    <2>1. \A u \in plan' : mem'[u] # "written" => PathOf[u] \in paths'
      BY <1>3, PlanType DEF StartRun, PathsToClear, PathsArePrivate, TypeOK
    <2> QED
      BY <1>3, <2>1 DEF StartRun, outside, NoRowLandsTwice, TargetsAreEmpty
  <1>4. ASSUME NEW p \in paths, ClearPath(p) PROVE DupInv'
    <2>1. \A r \in Rows : obs'[r] = obs[r] \/ obs'[r] = 0
      BY <1>4, ClearEffect DEF ClearPath
    <2>2. \A r \in RowsAt(p) : obs'[r] = 0
      BY <1>4, ClearEffect DEF ClearPath
    <2>3. TargetsAreEmpty'
      BY <1>4, <2>1, <2>2 DEF ClearPath, TargetsAreEmpty, Empty, RowsOf, RowsAt, TypeOK
    <2> QED
      BY <1>4, <2>1, <2>3 DEF ClearPath, outside, NoRowLandsTwice
  <1>5. ASSUME NEW p \in paths, NEW K, DieClearing(p, K) PROVE DupInv'
    BY <1>5, ClearEffect, EndDupInv DEF DieClearing, Fault, NoRowLandsTwice
  <1>6. CASE BeginUnits
    BY <1>6 DEF BeginUnits, UnitsToWrite, outside, NoRowLandsTwice, TargetsAreEmpty, Empty, TypeOK
  <1>7. ASSUME NEW b \in SUBSET pending, NextBatch(b) PROVE DupInv'
    BY <1>7 DEF NextBatch, outside, NoRowLandsTwice, TargetsAreEmpty, Empty
  <1>8. ASSUME NEW u \in todo, ReuseExport(u) PROVE DupInv'
    BY <1>8 DEF ReuseExport, outside, NoRowLandsTwice, TargetsAreEmpty, Empty
  <1>9. ASSUME NEW u \in todo, ExportUnit(u) PROVE DupInv'
    BY <1>9 DEF ExportUnit, outside, NoRowLandsTwice, TargetsAreEmpty, Empty
  <1>10. ASSUME NEW u \in todo, NEW S, DieExporting(u, S) PROVE DupInv'
    BY <1>10, EndDupInv DEF DieExporting, Fault, NoRowLandsTwice
  <1>11. ASSUME NEW S \in SUBSET BatchRows, phase = "export", Land(S)
         PROVE  /\ \A r \in Rows : obs'[r] # 2
                /\ \A u \in pending : \A r \in RowsOf(u) : obs'[r] = 0
    <2>1. \A r \in S : r \in Rows /\ obs[r] = 0
      BY <1>11, BatchIsFresh
    <2>2. /\ \A r \in Rows : obs'[r] # 2
          /\ \A r \in Rows \ S : obs'[r] = obs[r]
      BY <1>11, <2>1, LandOnEmpty
    <2>3. \A u \in pending : \A r \in RowsOf(u) : r \in Rows \ S /\ obs[r] = 0
      BY <1>11, BatchIsFresh DEF RowsOf, TargetsAreEmpty, Empty
    <2> QED BY <2>2, <2>3
  <1>12. CASE DataxSucceeds
    BY <1>12, <1>11 DEF DataxSucceeds, outside, NoRowLandsTwice, TargetsAreEmpty, Empty
  <1>13. ASSUME NEW S \in SUBSET BatchRows, DataxDropsRows(S) PROVE DupInv'
    BY <1>13, <1>11 DEF DataxDropsRows, Fault, NoRowLandsTwice, TargetsAreEmpty, Empty
  <1>14. ASSUME NEW S \in SUBSET BatchRows, DieWriting(S) PROVE DupInv'
    BY <1>14, <1>11, EndDupInv DEF DieWriting, Fault
  <1>15. ASSUME NEW u \in todo, UnlinkCsv(u) PROVE DupInv'
    BY <1>15 DEF UnlinkCsv, outside, NoRowLandsTwice, TargetsAreEmpty, Empty
  <1>16. ASSUME NEW u \in todo, MarkWritten(u) PROVE DupInv'
    BY <1>16 DEF MarkWritten, outside, NoRowLandsTwice, TargetsAreEmpty, Empty
  <1>17. CASE EndUnits
    BY <1>17 DEF EndUnits, outside, NoRowLandsTwice, TargetsAreEmpty
  <1>18. ASSUME NEW p \in paths, RegisterPartition(p) \/ RegisterFails(p) PROVE DupInv'
    BY <1>18 DEF RegisterPartition, RegisterFails, Fault, outside,
                 NoRowLandsTwice, TargetsAreEmpty
  <1>19. CASE CountSource \/ CountTarget \/ CountTargetFails
    BY <1>19 DEF CountSource, CountTarget, CountTargetFails, Fault, outside,
                 NoRowLandsTwice, TargetsAreEmpty
  <1>20. CASE RecordSuccess \/ RecordLost
    BY <1>20 DEF RecordSuccess, RecordLost, Fault, outside,
                 NoRowLandsTwice, TargetsAreEmpty
  <1>21. CASE RecordMismatch \/ ClearManifest \/ Crash
    BY <1>21, EndDupInv DEF RecordMismatch, ClearManifest, Crash, Fault, outside,
                 NoRowLandsTwice
  <1>22. ASSUME NEW S, SourceChanges(S) PROVE DupInv'
    BY <1>22 DEF SourceChanges, local, NoRowLandsTwice, TargetsAreEmpty, Empty
  <1>23. ~AbandonDatax /\ ~OrphanLands
    BY DEF AbandonDatax, OrphanLands, ContainedFaults
  <1>24. ASSUME NEW p, NEW K PROVE ~ClearPathLeavesRows(p, K)
    BY DEF ClearPathLeavesRows, Fault, ContainedFaults
  <1>25. ASSUME NEW u, NEW whole,
                DieMarkingExported(u, whole) \/ DieMarkingWritten(u, whole)
         PROVE  DupInv'
    BY <1>25, EndDupInv DEF DieMarkingExported, DieMarkingWritten, Fault,
                            NoRowLandsTwice
  <1> QED
    BY <1>1, <1>2, <1>3, <1>4, <1>5, <1>6, <1>7, <1>8, <1>9, <1>10, <1>12,
       <1>13, <1>14, <1>15, <1>16, <1>17, <1>18, <1>19, <1>20, <1>21, <1>22,
       <1>23, <1>24, <1>25
    DEF Next, Start, Step, Failure

\* However often the job is re-run, dies or is forced, and whatever happens to
\* the source meanwhile, no row lands twice when no two units share a path.
THEOREM NoDuplicates ==
  ASSUME PathsArePrivate, ContainedFaults
  PROVE  Spec => []NoRowLandsTwice
  <1>1. Init => DupInv
    BY InitDupInv
  <1>2. DupInv /\ [Next]_vars => DupInv'
    BY NextDupInv
  <1>3. DupInv => NoRowLandsTwice
    BY DEF DupInv
  <1> QED BY <1>1, <1>2, <1>3, PTL DEF Spec

----------------------------------------------------------------------------
(* A recorded success is the truth. Without duplicates the target count is *)
(* the size of a set of rows, and a set of rows as large as all of them is *)
(* all of them.                                                            *)

\* While the source holds all rows, verify() counts all of them.
LEMMA ScopeIsEverything ==
  ASSUME TypeOK, src = Rows, plan = PlannedUnits
  PROVE  SourceScope = Rows
  BY LayoutAssumption DEF SourceScope, PlannedUnits

\* The initial state satisfies the invariant.
LEMMA InitBackupInv == Init => BackupInv
  BY InitDupInv DEF Init, BackupInv, CountsAreCurrent, SuccessIsTruth

\* Ending the run leaves only the vouched-for table to protect.
LEMMA EndBackupInv ==
  ASSUME End, DupInv', src' = Rows, vouched' => audit', SuccessIsTruth'
  PROVE  BackupInv'
  BY DEF End, BackupInv, CountsAreCurrent

\* Every step keeps the invariant.
LEMMA NextBackupInv ==
  ASSUME PathsArePrivate, ContainedFaults, "drift" \notin FaultKinds
  PROVE  BackupInv /\ [Next]_vars => BackupInv'
  <1> SUFFICES ASSUME BackupInv, [Next]_vars PROVE BackupInv'
    OBVIOUS
  <1>d. DupInv /\ DupInv' /\ TypeOK
    BY NextDupInv DEF BackupInv, DupInv
  <1> USE <1>d DEF BackupInv, CountsAreCurrent, SuccessIsTruth, PlannedUnits
  <1>1. CASE UNCHANGED vars
    BY <1>1 DEF vars, local, outside, HiveCount
  <1>2. CASE SkipRun
    BY <1>2, <1>1 DEF SkipRun
  <1>3. ASSUME NEW force \in BOOLEAN, StartRun(force) PROVE BackupInv'
    BY <1>3 DEF StartRun, MayStart, outside, TypeOK
  <1>4. ASSUME NEW p \in paths, ClearPath(p) PROVE BackupInv'
    BY <1>4 DEF ClearPath, outside
  <1>5. ASSUME NEW p \in paths, NEW K, DieClearing(p, K) PROVE BackupInv'
    BY <1>5, EndBackupInv DEF DieClearing, Fault
  <1>6. CASE BeginUnits
    BY <1>6 DEF BeginUnits, outside
  <1>7. ASSUME NEW b \in SUBSET pending, NextBatch(b) PROVE BackupInv'
    BY <1>7 DEF NextBatch, outside
  <1>8. ASSUME NEW u \in todo, ReuseExport(u) \/ ExportUnit(u) PROVE BackupInv'
    BY <1>8 DEF ReuseExport, ExportUnit, outside
  <1>9. ASSUME NEW u \in todo, NEW S, DieExporting(u, S) PROVE BackupInv'
    BY <1>9, EndBackupInv DEF DieExporting, Fault
  <1>10. CASE DataxSucceeds
    BY <1>10 DEF DataxSucceeds, outside
  <1>11. ASSUME NEW S, DataxDropsRows(S) PROVE BackupInv'
    BY <1>11 DEF DataxDropsRows, Fault
  <1>12. ASSUME NEW S, DieWriting(S) PROVE BackupInv'
    BY <1>12, EndBackupInv DEF DieWriting, Fault
  <1>13. ASSUME NEW u \in todo, UnlinkCsv(u) \/ MarkWritten(u) PROVE BackupInv'
    BY <1>13 DEF UnlinkCsv, MarkWritten, outside
  <1>14. CASE EndUnits
    BY <1>14 DEF EndUnits, outside
  <1>15. ASSUME NEW p \in paths, RegisterPartition(p) \/ RegisterFails(p)
         PROVE  BackupInv'
    BY <1>15 DEF RegisterPartition, RegisterFails, Fault, outside
  <1>16. CASE CountSource
    BY <1>16, ScopeIsEverything DEF CountSource, outside
  <1>17. CASE CountTarget \/ CountTargetFails
    BY <1>17 DEF CountTarget, CountTargetFails, Fault, outside, HiveCount
  <1>18. CASE RecordSuccess
    <2>1. \A r \in Rows : obs[r] = 1 /\ PathOf[UnitOf[r]] \in registered
      <3>1. CASE tgtCount = HiveCount
        BY <1>18, <3>1, EqualCountsMeanComplete
        DEF RecordSuccess, DupInv, TypeOK, NoRowLandsTwice, HiveCount
      <3>2. CASE tgtCount = 0
        BY <1>18, <3>2, ZeroCountMeansNoRows DEF RecordSuccess
      <3> QED BY <1>18, <3>1, <3>2 DEF RecordSuccess
    <2> QED
      BY <1>18, <2>1 DEF RecordSuccess, outside
  <1>19. CASE RecordLost
    BY <1>19 DEF RecordLost, Fault
  <1>20. CASE RecordMismatch \/ ClearManifest \/ Crash
    BY <1>20, EndBackupInv DEF RecordMismatch, ClearManifest, Crash, Fault, outside
  <1>21. ~AbandonDatax /\ ~OrphanLands /\ \A S : ~SourceChanges(S)
    BY DEF AbandonDatax, OrphanLands, SourceChanges, ContainedFaults, DupInv
  <1>22. ASSUME NEW p, NEW K PROVE ~ClearPathLeavesRows(p, K)
    BY DEF ClearPathLeavesRows, Fault, ContainedFaults
  <1>23. ASSUME NEW u, NEW whole,
                DieMarkingExported(u, whole) \/ DieMarkingWritten(u, whole)
         PROVE  BackupInv'
    BY <1>23, EndBackupInv DEF DieMarkingExported, DieMarkingWritten, Fault
  <1> QED
    BY <1>1, <1>2, <1>3, <1>4, <1>5, <1>6, <1>7, <1>8, <1>9, <1>10, <1>11,
       <1>12, <1>13, <1>14, <1>15, <1>16, <1>17, <1>18, <1>19, <1>20, <1>21,
       <1>22, <1>23
    DEF Next, Start, Step, Failure

\* A success in the audit trail means that Hive shows every source row exactly
\* once, whatever DataX, beeline, the metastore and the process did on the way
\* there, when no two units share a path and the source does not change.
THEOREM SuccessTheorem ==
  ASSUME PathsArePrivate, ContainedFaults, "drift" \notin FaultKinds
  PROVE  Spec => []SuccessIsTruth
  <1>1. Init => BackupInv
    BY InitBackupInv
  <1>2. BackupInv /\ [Next]_vars => BackupInv'
    BY NextBackupInv
  <1>3. BackupInv => SuccessIsTruth
    BY DEF BackupInv
  <1> QED BY <1>1, <1>2, <1>3, PTL DEF Spec

\* The inductive invariant itself, which the runs check as well.
THEOREM BackupCorrect ==
  ASSUME PathsArePrivate, ContainedFaults, "drift" \notin FaultKinds
  PROVE  Spec => []BackupInv
  <1>1. Init => BackupInv
    BY InitBackupInv
  <1>2. BackupInv /\ [Next]_vars => BackupInv'
    BY NextBackupInv
  <1> QED BY <1>1, <1>2, PTL DEF Spec

----------------------------------------------------------------------------
(* The run implements BackupPromise. *)

\* A step that changes what Hive shows happens while nothing is vouched for,
\* and vouches for nothing itself.
LEMMA OnlyUnvouchedTablesChange ==
  ASSUME [Next]_vars, orphan = {}, vouched => phase \in {"idle", "clear"}
  PROVE  UNCHANGED <<obs, registered>> \/ (~vouched /\ ~vouched')
  <1>1. CASE UNCHANGED vars \/ SkipRun
    BY <1>1 DEF SkipRun, vars
  <1>2. ASSUME NEW force \in BOOLEAN, StartRun(force)
        PROVE  UNCHANGED <<obs, registered>>
    BY <1>2 DEF StartRun
  <1>3. CASE Step
    BY <1>3 DEF Step, ClearPath, RegisterPartition, NextBatch, ReuseExport,
      ExportUnit, UnlinkCsv, MarkWritten, BeginUnits, DataxSucceeds, EndUnits,
      CountSource, CountTarget, RecordSuccess, RecordMismatch, ClearManifest
  <1>4. CASE Failure
    BY <1>4 DEF Failure, ClearPathLeavesRows, DieClearing, RegisterFails,
      DieExporting, DieMarkingExported, DieMarkingWritten, DataxDropsRows, DieWriting,
      AbandonDatax, OrphanLands, CountTargetFails, RecordLost, Crash, SourceChanges
  <1> QED BY <1>1, <1>2, <1>3, <1>4 DEF Next, Start

\* The initial states are the promise's.
LEMMA InitKeepsPromise == Init => Promise!Init
  BY DEF Init, NoCopies, Promise!Init, ShownByHive

\* A step that changes no table under a success, and ends with a true one if it
\* ends with one, is a step of the promise.
LEMMA StepKeepsPromise ==
  ASSUME TypeOK, TypeOK', [Next]_vars, orphan = {},
         vouched => phase \in {"idle", "clear"}, SuccessIsTruth'
  PROVE  [Promise!Next]_<<ShownByHive, vouched>>
  <1>t. vouched \in BOOLEAN /\ vouched' \in BOOLEAN
    BY DEF TypeOK
  <1>1. CASE UNCHANGED <<obs, registered>>
    <2>1. ShownByHive' = ShownByHive
      BY <1>1 DEF ShownByHive
    <2>2. CASE vouched'
      <3>1. \A r \in Rows : ShownByHive'[r] = 1
        BY <2>2 DEF SuccessIsTruth, ShownByHive
      <3> QED BY <2>1, <2>2, <3>1, <1>t DEF Promise!Next, Promise!Vouch
    <2>3. CASE ~vouched'
      BY <2>1, <2>3, <1>t DEF Promise!Next, Promise!Reopen
    <2> QED BY <2>2, <2>3
  <1>2. CASE ~vouched /\ ~vouched'
    <2>1. ShownByHive' \in [Rows -> 0..2]
      BY DEF TypeOK, CopyCounts, ShownByHive
    <2> QED BY <1>2, <1>t, <2>1 DEF Promise!Next, Promise!Rework
  <1> QED BY <1>1, <1>2, OnlyUnvouchedTablesChange

\* Every execution of the run, its failures and re-runs included, is one the
\* abstract promise allows.
THEOREM Implementation ==
  ASSUME PathsArePrivate, ContainedFaults, "drift" \notin FaultKinds
  PROVE  Spec => KeepsPromise
  <1>1. Init => BackupInv
    BY InitBackupInv
  <1>2. BackupInv /\ [Next]_vars => BackupInv'
    BY NextBackupInv
  <1>3. BackupInv /\ BackupInv' /\ [Next]_vars
          => [Promise!Next]_<<ShownByHive, vouched>>
    BY StepKeepsPromise DEF BackupInv, DupInv
  <1> QED BY InitKeepsPromise, <1>1, <1>2, <1>3, PTL DEF Spec, KeepsPromise, Promise!Spec

----------------------------------------------------------------------------
(* What a run resumes from.  Exports do not die halfway, so files are whole *)
(* or gone; a unit enters the manifest as written after its rows landed,    *)
(* and no later run clears its path, whichever units share it.              *)

\* The fault kinds with which the manifest cannot be relied on: a re-export dies
\* under an older entry, the source changes, DataX lies, and a forced run forgets
\* the manifest but keeps the file.
ReliableManifest == FaultKinds \cap {"export", "drift", "lie", "force"} = {}

\* Landing takes nothing away and brings in the rows that land.
LEMMA LandKeeps ==
  ASSUME TypeOK, NEW S, Land(S)
  PROVE  /\ \A r \in Rows : obs[r] >= 1 => obs'[r] >= 1
         /\ \A r \in Rows \cap S : obs'[r] >= 1
  <1>1. \A r \in Rows : obs[r] \in 0..2
    BY DEF TypeOK, CopyCounts
  <1>2. \A r \in Rows : obs'[r] = IF r \in S /\ obs[r] < 2 THEN obs[r] + 1 ELSE obs[r]
    BY DEF Land, AfterLanding
  <1> QED
    BY <1>1, <1>2

\* While nothing is cleared what has landed stays.
LEMMA LandedStays ==
  ASSUME TypeOK, obs' = obs \/ \E S : Land(S)
  PROVE  \A u \in Units : Landed(u) => Landed(u)'
  BY LandKeeps DEF Landed, RowsOf

\* Clearing a path that no unit written under manifest m uses leaves their rows.
LEMMA ClearKeepsWritten ==
  ASSUME src = Rows, NEW m, NEW p \in paths, NEW K, Clear(p, K),
         \A u \in Units : m[u] = "written" => Landed(u),
         \A u \in PlannedUnits : m[u] = "written" => PathOf[u] \notin paths
  PROVE  \A u \in Units : m[u] = "written" => Landed(u)'
  <1> SUFFICES ASSUME NEW u \in Units, m[u] = "written", NEW r \in RowsOf(u)
               PROVE  obs'[r] >= 1
    BY DEF Landed, RowsOf
  <1>1. r \in Rows /\ UnitOf[r] = u
    BY DEF RowsOf
  <1>2. u \in PlannedUnits
    BY <1>1 DEF PlannedUnits
  <1>3. PathOf[UnitOf[r]] # p
    BY <1>1, <1>2
  <1>4. obs'[r] = obs[r]
    BY <1>1, <1>3 DEF Clear, AfterClearing, RowsAt
  <1>5. obs[r] >= 1
    BY DEF Landed
  <1> QED
    BY <1>4, <1>5

\* A line that says what is not yet known to be written, whole or torn, brings no
\* unit closer to it.
LEMMA ExportedKeepsManifest ==
  ASSUME ResumeInv, NEW u \in Units, mem[u] # "written", phase # "idle",
         RecordEvent(u, "exported") \/ \E whole \in BOOLEAN : TearEvent(u, "exported", whole)
  PROVE  /\ \A w \in Units : kept'[w] = "written" => disk'[w] = "written"
         /\ \A w \in Units : disk'[w] = "written" => disk[w] = "written" /\ w # u
  BY DEF RecordEvent, TearEvent, ResumeInv, ManifestHolds, TypeOK

\* A line that says u is written adds u at most.
LEMMA WrittenKeepsManifest ==
  ASSUME ResumeInv, NEW u \in Units,
         RecordEvent(u, "written") \/ \E whole \in BOOLEAN : TearEvent(u, "written", whole)
  PROVE  /\ \A w \in Units : kept'[w] = "written" => disk'[w] = "written"
         /\ \A w \in Units : disk'[w] = "written" => disk[w] = "written" \/ w = u
  BY DEF RecordEvent, TearEvent, ResumeInv, ManifestHolds, TypeOK

\* A run that ends leaves only files to speak about.
LEMMA EndResumeInv ==
  ASSUME End, TypeOK', src' = Rows, \A u \in Units : csv'[u] \in {{}, RowsOf(u)},
         \A u \in Units : kept'[u] = "written" => disk'[u] = "written",
         \A u \in Units : disk'[u] = "written" => Landed(u)'
  PROVE  ResumeInv'
  BY DEF End, ResumeInv, CsvHolds, LoopHolds, ManifestHolds, NoState

\* Initially there are no files and no manifest.
LEMMA InitResumeInv == Init => ResumeInv
  <1> SUFFICES ASSUME Init PROVE ResumeInv
    OBVIOUS
  <1>1. TypeOK
    BY InitTypeOK
  <1> QED
    BY <1>1 DEF Init, ResumeInv, CsvHolds, LoopHolds, ManifestHolds, NoState

\* Every step keeps the invariant.
LEMMA NextResumeInv ==
  ASSUME ReliableManifest
  PROVE  ResumeInv /\ [Next]_vars => ResumeInv'
  <1> SUFFICES ASSUME ResumeInv, [Next]_vars PROVE ResumeInv'
    OBVIOUS
  <1>t. TypeOK /\ TypeOK' /\ src = Rows
    BY NextTypeOK DEF ResumeInv
  <1>e. \A u \in Units : ExportedRows(u) = RowsOf(u)
    BY <1>t DEF ExportedRows, RowsOf
  <1>l. obs' = obs \/ (\E S : Land(S)) => \A u \in Units : Landed(u) => Landed(u)'
    BY <1>t, LandedStays
  <1> USE <1>t DEF ResumeInv
  <1>u. ASSUME UNCHANGED <<phase, mem, paths, pending, batch, todo, disk, kept, csv, src>>,
               obs' = obs \/ \E S : Land(S)
        PROVE  ResumeInv'
    <2>1. CsvHolds' /\ LoopHolds'
      BY <1>u DEF CsvHolds, LoopHolds
    <2>2. PlannedUnits' = PlannedUnits
      BY <1>u DEF PlannedUnits
    <2>3. ManifestHolds'
      BY <1>u, <1>l, <2>2 DEF ManifestHolds, TypeOK
    <2> QED
      BY <1>u, <2>1, <2>3
  <1>1. CASE UNCHANGED vars \/ SkipRun
    BY <1>1, <1>u DEF SkipRun, vars, local, manifest, outside
  <1>2. ASSUME NEW force \in BOOLEAN, StartRun(force) PROVE ResumeInv'
    <2>1. ~force
      BY <1>2 DEF StartRun, ReliableManifest
    <2>2. /\ mem' = disk /\ phase = "idle" /\ phase' = "prepare" /\ paths' = PathsToClear(disk)
          /\ UNCHANGED <<pending, batch, todo, disk, kept, csv, obs, src>>
      BY <1>2, <2>1 DEF StartRun, outside, manifest
    <2>3. \A u \in PlannedUnits : disk[u] = "written" => PathOf[u] \notin PathsToClear(disk)
      BY DEF PathsToClear
    <2>4. CsvHolds' /\ LoopHolds'
      BY <2>2 DEF CsvHolds, LoopHolds
    <2>5. ManifestHolds'
      BY <1>l, <2>2, <2>3 DEF ManifestHolds, PlannedUnits
    <2> QED
      BY <2>2, <2>4, <2>5
  <1>3. ASSUME NEW p \in paths, NEW K,
               ClearPath(p) \/ ClearPathLeavesRows(p, K) PROVE ResumeInv'
    <2>1. /\ phase = "prepare" /\ \E L : Clear(p, L)
          /\ paths' = paths \ {p} /\ src' = src
          /\ UNCHANGED <<phase, mem, pending, batch, todo, disk, kept, csv>>
      BY <1>3 DEF ClearPath, ClearPathLeavesRows, Fault, outside, manifest
    <2>2. \A u \in Units : disk[u] = "written" => Landed(u)'
      BY <2>1, ClearKeepsWritten DEF ManifestHolds
    <2>3. CsvHolds' /\ LoopHolds'
      BY <2>1 DEF CsvHolds, LoopHolds
    <2>4. ManifestHolds'
      BY <2>1, <2>2 DEF ManifestHolds, PlannedUnits
    <2> QED
      BY <2>1, <2>3, <2>4
  <1>4. ASSUME NEW p \in paths, NEW K, DieClearing(p, K) PROVE ResumeInv'
    <2>1. phase = "prepare" /\ Clear(p, K) /\ End /\ UNCHANGED <<disk, kept, csv, src>>
      BY <1>4 DEF DieClearing, Fault, manifest
    <2>2. \A u \in Units : disk[u] = "written" => Landed(u)'
      BY <2>1, ClearKeepsWritten DEF ManifestHolds
    <2> QED
      BY <2>1, <2>2, EndResumeInv DEF CsvHolds, ManifestHolds
  <1>5. CASE BeginUnits
    BY <1>5, <1>l DEF BeginUnits, UnitsToWrite, manifest, outside, CsvHolds, LoopHolds,
       ManifestHolds, PlannedUnits
  <1>6. ASSUME NEW b \in SUBSET pending, NextBatch(b) PROVE ResumeInv'
    BY <1>6, <1>l DEF NextBatch, manifest, outside, CsvHolds, LoopHolds, ManifestHolds,
       PlannedUnits
  <1>7. ASSUME NEW u \in todo, ReuseExport(u) PROVE ResumeInv'
    BY <1>7, <1>l DEF ReuseExport, Reusable, manifest, outside, CsvHolds, LoopHolds,
       ManifestHolds, PlannedUnits, TypeOK
  <1>8. ASSUME NEW u \in todo, ExportUnit(u) PROVE ResumeInv'
    <2>1. u \in Units /\ u \in batch /\ phase = "export" /\ mem[u] # "written"
      BY <1>8 DEF ExportUnit, LoopHolds, TypeOK
    <2>2. /\ \A w \in Units : kept'[w] = "written" => disk'[w] = "written"
          /\ \A w \in Units : disk'[w] = "written" => disk[w] = "written" /\ w # u
      BY <1>8, <2>1, ExportedKeepsManifest DEF ExportUnit
    <2>3. /\ csv' = [csv EXCEPT ![u] = RowsOf(u)] /\ mem' = [mem EXCEPT ![u] = "exported"]
          /\ todo' = todo \ {u} /\ UNCHANGED <<phase, pending, batch, paths, obs, src>>
      BY <1>8, <1>e, <2>1 DEF ExportUnit, outside
    <2>4. CsvHolds'
      BY <2>1, <2>3 DEF CsvHolds, TypeOK
    <2>5. LoopHolds'
      BY <2>1, <2>3 DEF LoopHolds, TypeOK
    <2>6. ManifestHolds'
      BY <1>l, <2>1, <2>2, <2>3 DEF ManifestHolds, TypeOK
    <2> QED
      BY <2>3, <2>4, <2>5, <2>6
  <1>9. ASSUME NEW u \in todo, NEW whole \in BOOLEAN, DieMarkingExported(u, whole)
        PROVE  ResumeInv'
    <2>1. u \in Units /\ phase = "export" /\ mem[u] # "written"
      BY <1>9 DEF DieMarkingExported, LoopHolds, TypeOK
    <2>2. /\ \A w \in Units : kept'[w] = "written" => disk'[w] = "written"
          /\ \A w \in Units : disk'[w] = "written" => disk[w] = "written" /\ w # u
      BY <1>9, <2>1, ExportedKeepsManifest DEF DieMarkingExported
    <2>3. /\ csv' = [csv EXCEPT ![u] = RowsOf(u)] /\ End /\ UNCHANGED <<obs, src>>
      BY <1>9, <1>e, <2>1 DEF DieMarkingExported, Fault
    <2>4. \A w \in Units : csv'[w] \in {{}, RowsOf(w)}
      BY <2>1, <2>3 DEF CsvHolds, TypeOK
    <2> QED
      BY <1>l, <2>2, <2>3, <2>4, EndResumeInv DEF ManifestHolds
  <1>10. CASE DataxSucceeds
    <2>1. /\ phase = "export" /\ todo = {} /\ Land(BatchRows) /\ phase' = "unlink" /\ todo' = batch
          /\ UNCHANGED <<mem, paths, pending, batch, disk, kept, csv, src>>
      BY <1>10 DEF DataxSucceeds, manifest, outside
    <2>2. \A u \in batch : Landed(u)'
      <3>1. \A u \in batch : csv[u] = RowsOf(u)
        BY <2>1 DEF CsvHolds
      <3>2. \A u \in batch : \A r \in RowsOf(u) : r \in Rows \cap BatchRows
        BY <3>1 DEF BatchRows, RowsOf
      <3> QED
        BY <2>1, <3>2, LandKeeps DEF Landed, RowsOf
    <2>3. CsvHolds' /\ LoopHolds'
      BY <2>1 DEF CsvHolds, LoopHolds
    <2>4. ManifestHolds'
      BY <1>l, <2>1, <2>2 DEF ManifestHolds
    <2> QED
      BY <2>1, <2>3, <2>4
  <1>11. ASSUME NEW S, DieWriting(S) PROVE ResumeInv'
    BY <1>11, <1>l, EndResumeInv DEF DieWriting, Fault, manifest, CsvHolds, ManifestHolds
  <1>12. CASE AbandonDatax
    BY <1>12, <1>l, EndResumeInv DEF AbandonDatax, manifest, CsvHolds, ManifestHolds
  <1>13. CASE OrphanLands
    BY <1>13, <1>u DEF OrphanLands, local, manifest
  <1>14. ASSUME NEW u \in todo, UnlinkCsv(u) PROVE ResumeInv'
    <2>1. /\ phase = "unlink" /\ phase' \in {"unlink", "mark"} /\ csv' = [csv EXCEPT ![u] = {}]
          /\ todo' \subseteq batch
          /\ UNCHANGED <<mem, paths, pending, batch, disk, kept, obs, src>>
      BY <1>14 DEF UnlinkCsv, manifest, outside, LoopHolds
    <2>2. CsvHolds'
      BY <2>1 DEF CsvHolds, TypeOK
    <2>3. LoopHolds'
      BY <2>1 DEF LoopHolds
    <2>4. \A w \in Units : Landed(w) => Landed(w)'
      BY <1>l, <2>1
    <2>5. \A w \in batch : Landed(w)'
      BY <2>1, <2>4 DEF ManifestHolds, TypeOK
    <2>6. ManifestHolds'
      BY <2>1, <2>4, <2>5 DEF ManifestHolds
    <2> QED
      BY <2>1, <2>2, <2>3, <2>6
  <1>15. ASSUME NEW u \in todo, MarkWritten(u) PROVE ResumeInv'
    <2>1. /\ u \in Units /\ u \in batch /\ phase = "mark" /\ todo' = todo \ {u}
          /\ mem' = [mem EXCEPT ![u] = "written"]
          /\ \/ phase' = "batch" /\ batch' = {} /\ todo' = {}
             \/ phase' = "mark" /\ batch' = batch
          /\ UNCHANGED <<pending, paths, csv, obs, src>>
      BY <1>15 DEF MarkWritten, outside, LoopHolds, TypeOK
    <2>2. /\ \A w \in Units : kept'[w] = "written" => disk'[w] = "written"
          /\ \A w \in Units : disk'[w] = "written" => disk[w] = "written" \/ w = u
      BY <1>15, <2>1, WrittenKeepsManifest DEF MarkWritten
    <2>3. CsvHolds'
      BY <2>1 DEF CsvHolds
    <2>4. LoopHolds'
      BY <2>1 DEF LoopHolds, TypeOK
    <2>5. ManifestHolds'
      BY <1>l, <2>1, <2>2 DEF ManifestHolds, TypeOK
    <2> QED
      BY <2>1, <2>3, <2>4, <2>5
  <1>16. ASSUME NEW u \in todo, NEW whole \in BOOLEAN, DieMarkingWritten(u, whole)
         PROVE  ResumeInv'
    <2>1. u \in Units /\ u \in batch /\ phase = "mark"
      BY <1>16 DEF DieMarkingWritten, LoopHolds, TypeOK
    <2>2. /\ \A w \in Units : kept'[w] = "written" => disk'[w] = "written"
          /\ \A w \in Units : disk'[w] = "written" => disk[w] = "written" \/ w = u
      BY <1>16, <2>1, WrittenKeepsManifest DEF DieMarkingWritten
    <2>3. End /\ UNCHANGED <<csv, obs, src>>
      BY <1>16 DEF DieMarkingWritten, Fault
    <2>4. \A w \in Units : disk'[w] = "written" => Landed(w)'
      BY <1>l, <2>1, <2>2, <2>3 DEF ManifestHolds
    <2> QED
      BY <2>2, <2>3, <2>4, EndResumeInv DEF CsvHolds
  <1>17. CASE EndUnits
    BY <1>17, <1>l DEF EndUnits, manifest, outside, CsvHolds, LoopHolds, ManifestHolds
  <1>18. ASSUME NEW p \in paths, RegisterPartition(p) \/ RegisterFails(p) PROVE ResumeInv'
    BY <1>18, <1>l DEF RegisterPartition, RegisterFails, Fault, manifest, outside, CsvHolds,
       LoopHolds, ManifestHolds
  <1>19. CASE CountSource \/ CountTarget \/ CountTargetFails \/ RecordSuccess \/ RecordLost
    BY <1>19, <1>l DEF CountSource, CountTarget, CountTargetFails, RecordSuccess, RecordLost,
       Fault, manifest, outside, CsvHolds, LoopHolds, ManifestHolds
  <1>20. CASE RecordMismatch \/ Crash
    BY <1>20, <1>l, EndResumeInv DEF RecordMismatch, Crash, Fault, manifest, outside, CsvHolds,
       ManifestHolds
  <1>21. CASE ClearManifest
    BY <1>21, EndResumeInv DEF ClearManifest, outside, CsvHolds, NoState
  <1>22. /\ \A u, S : ~DieExporting(u, S)
         /\ \A S : ~DataxDropsRows(S) /\ ~SourceChanges(S)
    BY DEF DieExporting, DataxDropsRows, SourceChanges, Fault, ReliableManifest
  <1> QED
    BY <1>1, <1>2, <1>3, <1>4, <1>5, <1>6, <1>7, <1>8, <1>9, <1>10, <1>11, <1>12, <1>13,
       <1>14, <1>15, <1>16, <1>17, <1>18, <1>19, <1>20, <1>21, <1>22
    DEF Next, Start, Step, Failure

\* The two properties follow.
LEMMA ResumeInvImplies == ResumeInv => WrittenMeansLanded /\ ReusedCsvIsWhole
  BY DEF ResumeInv, CsvHolds, ManifestHolds, LoopHolds, WrittenMeansLanded, Landed,
     ReusedCsvIsWhole

\* A unit that the manifest file calls written has landed, and stays, over crashes,
\* torn lines, incomplete deletes and JVMs left behind, with any sharing of paths.
THEOREM WrittenHasLanded ==
  ASSUME ReliableManifest PROVE Spec => []WrittenMeansLanded
  <1>1. ResumeInv /\ [Next]_vars => ResumeInv'
    BY NextResumeInv
  <1> QED BY InitResumeInv, <1>1, ResumeInvImplies, PTL DEF Spec

\* DataX is given whole files, reused or not.
THEOREM CsvsAreWhole ==
  ASSUME ReliableManifest PROVE Spec => []ReusedCsvIsWhole
  <1>1. ResumeInv /\ [Next]_vars => ResumeInv'
    BY NextResumeInv
  <1> QED BY InitResumeInv, <1>1, ResumeInvImplies, PTL DEF Spec
----------------------------------------------------------------------------
(* A recorded success is the truth for shared paths too.  A resumed run may *)
(* write a unit under a path it does not clear, and rows may be there twice *)
(* then; but every unit it plans has landed when verify() counts, and with  *)
(* no row missing equal counts leave no room for a second copy.             *)

\* The fault kinds that change the table behind a success, or hide rows from the
\* count that others make up for.
NothingHidden == FaultKinds \cap {"orphan", "register"} = {}

\* Once every planned unit is written and registered, no row is missing.
LEMMA NothingIsMissing ==
  ASSUME CompleteInv, phase \in {"count", "record", "clear"}
  PROVE  \A r \in Rows : obs[r] >= 1 /\ PathOf[UnitOf[r]] \in registered
  <1> SUFFICES ASSUME NEW r \in Rows
               PROVE  obs[r] >= 1 /\ PathOf[UnitOf[r]] \in registered
    OBVIOUS
  <1>1. plan = PlannedUnits /\ src = Rows
    BY DEF CompleteInv, CountsAreCurrent, ResumeInv
  <1>2. UnitOf[r] \in plan /\ UnitOf[r] \in Units
    BY <1>1, LayoutAssumption DEF PlannedUnits
  <1>3. mem[UnitOf[r]] = "written" /\ PathOf[UnitOf[r]] \in registered
    BY <1>2 DEF CompleteInv, NothingIsLeftOut
  <1>4. Landed(UnitOf[r])
    BY <1>2, <1>3 DEF CompleteInv, WrittenHolds
  <1> QED
    BY <1>3, <1>4 DEF Landed, RowsOf

\* Equal counts therefore mean that each row is there once.
LEMMA EqualCountsAreConclusive ==
  ASSUME CompleteInv, phase = "record", srcCount = tgtCount
  PROVE  \A r \in Rows : obs[r] = 1 /\ PathOf[UnitOf[r]] \in registered
  <1>1. srcCount = Cardinality(Rows) /\ tgtCount \in {0, HiveCount}
    BY DEF CompleteInv, CountsAreCurrent
  <1>2. CASE tgtCount = HiveCount
    BY <1>1, <1>2, NothingIsMissing, EqualCountsMeanOnce
    DEF CompleteInv, ResumeInv, TypeOK, HiveCount
  <1>3. CASE tgtCount = 0
    BY <1>1, <1>3, ZeroCountMeansNoRows
  <1> QED BY <1>1, <1>2, <1>3

\* The initial state satisfies the invariant.
LEMMA InitCompleteInv == Init => CompleteInv
  BY InitResumeInv
  DEF Init, CompleteInv, WrittenHolds, NothingIsLeftOut, CountsAreCurrent, SuccessIsTruth

\* A run that ends leaves only the vouched-for table to protect.
LEMMA EndCompleteInv ==
  ASSUME End, ResumeInv', orphan' = {}, vouched' => audit', SuccessIsTruth'
  PROVE  CompleteInv'
  BY DEF End, CompleteInv, WrittenHolds, NothingIsLeftOut, CountsAreCurrent

\* Every step keeps the invariant.
LEMMA NextCompleteInv ==
  ASSUME ReliableManifest, NothingHidden
  PROVE  CompleteInv /\ [Next]_vars => CompleteInv'
  <1> SUFFICES ASSUME CompleteInv, [Next]_vars PROVE CompleteInv'
    OBVIOUS
  <1>r. ResumeInv /\ ResumeInv' /\ TypeOK /\ src = Rows /\ src' = Rows
    BY NextResumeInv DEF CompleteInv, ResumeInv
  <1>p. PlannedUnits' = PlannedUnits
    BY <1>r DEF PlannedUnits
  <1>l. obs' = obs \/ (\E S : Land(S)) => \A u \in Units : Landed(u) => Landed(u)'
    BY <1>r, LandedStays
  <1>v. (vouched' => vouched) => SuccessIsTruth'
    BY OnlyUnvouchedTablesChange DEF CompleteInv, SuccessIsTruth
  <1>1. CASE UNCHANGED vars \/ SkipRun
    BY <1>1, <1>r, <1>p, <1>l, <1>v DEF SkipRun, vars, local, outside, HiveCount, CompleteInv,
       WrittenHolds, NothingIsLeftOut, CountsAreCurrent
  <1>2. ASSUME NEW force \in BOOLEAN, StartRun(force) PROVE CompleteInv'
    <2>1. /\ ~force /\ ~audit /\ ~vouched' /\ phase' = "prepare" /\ mem' = disk
          /\ paths' = PathsToClear(disk) /\ plan' = PlannedUnits
          /\ UNCHANGED <<obs, disk, orphan>>
      BY <1>2 DEF StartRun, MayStart, ReliableManifest, manifest, outside, CompleteInv
    <2>2. \A u \in Units : disk[u] = "written" => Landed(u)'
      BY <1>r, <1>l, <2>1 DEF ResumeInv, ManifestHolds
    <2>3. WrittenHolds'
      BY <1>p, <2>1, <2>2 DEF WrittenHolds, PathsToClear
    <2> QED
      BY <1>r, <1>p, <2>1, <2>3 DEF CompleteInv, NothingIsLeftOut, CountsAreCurrent,
         SuccessIsTruth
  <1>3. ASSUME NEW p \in paths, NEW K, ClearPath(p) \/ ClearPathLeavesRows(p, K)
        PROVE  CompleteInv'
    <2>1. /\ phase = "prepare" /\ \E L : Clear(p, L)
          /\ paths' = paths \ {p}
          /\ UNCHANGED <<phase, mem, plan, vouched, audit, orphan>>
      BY <1>3 DEF ClearPath, ClearPathLeavesRows, Fault, outside
    <2>2. \A u \in Units : mem[u] = "written" => Landed(u)'
      BY <1>r, <2>1, ClearKeepsWritten DEF CompleteInv, WrittenHolds
    <2>3. WrittenHolds'
      BY <1>p, <2>1, <2>2 DEF CompleteInv, WrittenHolds
    <2> QED
      BY <1>r, <1>p, <1>v, <2>1, <2>3 DEF CompleteInv, NothingIsLeftOut, CountsAreCurrent,
         SuccessIsTruth
  <1>4. CASE BeginUnits
    BY <1>4, <1>r, <1>p, <1>l, <1>v DEF BeginUnits, UnitsToWrite, outside, CompleteInv,
       WrittenHolds, NothingIsLeftOut, CountsAreCurrent
  <1>5. ASSUME NEW b \in SUBSET pending, NextBatch(b) PROVE CompleteInv'
    BY <1>5, <1>r, <1>p, <1>l, <1>v DEF NextBatch, outside, CompleteInv, WrittenHolds,
       NothingIsLeftOut, CountsAreCurrent, ResumeInv, LoopHolds
  <1>6. ASSUME NEW u \in todo, ReuseExport(u) \/ UnlinkCsv(u) PROVE CompleteInv'
    <2>1. /\ phase \in {"export", "unlink"} /\ phase' \in {"export", "unlink", "mark"}
          /\ phase' = "mark" => todo' = batch
          /\ UNCHANGED <<mem, plan, paths, pending, batch, obs, vouched, audit, orphan>>
      BY <1>6 DEF ReuseExport, UnlinkCsv, outside
    <2> QED
      BY <2>1, <1>r, <1>p, <1>l, <1>v DEF CompleteInv, WrittenHolds, NothingIsLeftOut,
         CountsAreCurrent
  <1>7. ASSUME NEW u \in todo, ExportUnit(u) PROVE CompleteInv'
    <2>1. /\ u \in Units /\ u \in batch /\ phase = "export" /\ mem[u] # "written"
          /\ mem' = [mem EXCEPT ![u] = "exported"]
          /\ UNCHANGED <<phase, plan, paths, pending, batch, obs, vouched, audit, orphan>>
      BY <1>7, <1>r DEF ExportUnit, outside, ResumeInv, LoopHolds, TypeOK
    <2>2. \A w \in Units : mem'[w] = "written" <=> mem[w] = "written"
      BY <2>1, <1>r DEF TypeOK
    <2>3. plan \subseteq Units
      BY <1>r DEF TypeOK
    <2>4. WrittenHolds' /\ NothingIsLeftOut'
      BY <2>1, <2>2, <2>3, <1>l DEF CompleteInv, WrittenHolds, NothingIsLeftOut
    <2> QED
      BY <2>1, <2>4, <1>r, <1>p, <1>v DEF CompleteInv, CountsAreCurrent
  <1>8. CASE DataxSucceeds
    BY <1>8, <1>r, <1>p, <1>l, <1>v DEF DataxSucceeds, outside, CompleteInv, WrittenHolds,
       NothingIsLeftOut, CountsAreCurrent
  <1>9. ASSUME NEW u \in todo, MarkWritten(u) PROVE CompleteInv'
    <2>1. /\ u \in Units /\ phase = "mark" /\ todo' = todo \ {u}
          /\ mem' = [mem EXCEPT ![u] = "written"]
          /\ \/ phase' = "batch" /\ todo' = {}
             \/ phase' = "mark"
          /\ UNCHANGED <<plan, paths, pending, obs, vouched, audit, orphan>>
      BY <1>9, <1>r DEF MarkWritten, outside, TypeOK
    <2>2. Landed(u)
      BY <1>9, <1>r, <2>1 DEF ResumeInv, LoopHolds, ManifestHolds
    <2>3. mem'[u] = "written" /\ \A w \in Units \ {u} : mem'[w] = mem[w]
      BY <2>1, <1>r DEF TypeOK
    <2>4. WrittenHolds'
      BY <2>1, <2>2, <2>3, <1>l DEF CompleteInv, WrittenHolds
    <2>5. NothingIsLeftOut'
      <3>1. \A w \in plan : mem[w] = "written" \/ w \in pending \cup todo
        BY <2>1 DEF CompleteInv, NothingIsLeftOut
      <3>2. \A w \in plan : mem'[w] = "written" \/ w \in pending \cup todo'
        BY <3>1, <2>1, <2>3, <1>r DEF TypeOK
      <3> QED
        BY <3>2, <2>1 DEF NothingIsLeftOut
    <2> QED
      BY <2>1, <2>4, <2>5, <1>r, <1>p, <1>v DEF CompleteInv, CountsAreCurrent
  <1>10. CASE EndUnits
    <2>1. /\ phase = "batch" /\ pending = {} /\ batch = {} /\ phase' = "register"
          /\ paths' = {PathOf[u] : u \in plan}
          /\ UNCHANGED <<mem, plan, obs, registered, vouched, audit, orphan>>
      BY <1>10, <1>r DEF EndUnits, outside, ResumeInv, LoopHolds
    <2>2. \A u \in plan : mem[u] = "written"
      BY <2>1 DEF CompleteInv, NothingIsLeftOut
    <2>3. WrittenHolds' /\ NothingIsLeftOut'
      BY <2>1, <2>2, <1>l DEF CompleteInv, WrittenHolds, NothingIsLeftOut
    <2> QED
      BY <2>1, <2>3, <1>r, <1>p, <1>v DEF CompleteInv, CountsAreCurrent
  <1>11. ASSUME NEW p \in paths, RegisterPartition(p) PROVE CompleteInv'
    BY <1>11, <1>r, <1>p, <1>l, <1>v DEF RegisterPartition, outside, CompleteInv,
       WrittenHolds, NothingIsLeftOut, CountsAreCurrent
  <1>12. CASE CountSource
    BY <1>12, <1>r, <1>p, <1>l, <1>v, ScopeIsEverything DEF CountSource, outside, CompleteInv,
       WrittenHolds, NothingIsLeftOut, CountsAreCurrent
  <1>13. CASE CountTarget \/ CountTargetFails
    BY <1>13, <1>r, <1>p, <1>l, <1>v DEF CountTarget, CountTargetFails, Fault, outside,
       HiveCount, CompleteInv, WrittenHolds, NothingIsLeftOut, CountsAreCurrent
  <1>14. CASE RecordSuccess
    <2>1. SuccessIsTruth'
      BY <1>14, EqualCountsAreConclusive DEF RecordSuccess, SuccessIsTruth
    <2> QED
      BY <1>14, <2>1, <1>r, <1>p, <1>l DEF RecordSuccess, outside, CompleteInv, WrittenHolds,
         NothingIsLeftOut, CountsAreCurrent
  <1>15. CASE RecordLost
    BY <1>15, <1>r, <1>p, <1>l, <1>v DEF RecordLost, Fault, CompleteInv, WrittenHolds,
       NothingIsLeftOut, CountsAreCurrent
  <1>16. CASE End /\ UNCHANGED <<vouched, audit, orphan>>
    BY <1>16, <1>r, <1>v, EndCompleteInv DEF CompleteInv, SuccessIsTruth
  <1>17. ASSUME NEW p, NEW K, DieClearing(p, K) PROVE CompleteInv'
    BY <1>17, <1>16 DEF DieClearing, Fault
  <1>18. ASSUME NEW u, NEW whole, DieMarkingExported(u, whole) \/ DieMarkingWritten(u, whole)
         PROVE  CompleteInv'
    BY <1>18, <1>16 DEF DieMarkingExported, DieMarkingWritten, Fault
  <1>19. ASSUME NEW S, DieWriting(S) PROVE CompleteInv'
    BY <1>19, <1>16 DEF DieWriting, Fault
  <1>20. CASE RecordMismatch \/ ClearManifest \/ Crash
    BY <1>20, <1>16 DEF RecordMismatch, ClearManifest, Crash, Fault, outside
  <1>21. /\ \A u, S : ~DieExporting(u, S)
         /\ \A S : ~DataxDropsRows(S) /\ ~SourceChanges(S)
         /\ \A p : ~RegisterFails(p)
         /\ ~AbandonDatax /\ ~OrphanLands
    BY DEF DieExporting, DataxDropsRows, SourceChanges, RegisterFails, AbandonDatax,
       OrphanLands, Fault, ReliableManifest, NothingHidden, CompleteInv
  <1> QED
    BY <1>1, <1>2, <1>3, <1>4, <1>5, <1>6, <1>7, <1>8, <1>9, <1>10, <1>11, <1>12, <1>13,
       <1>14, <1>15, <1>17, <1>18, <1>19, <1>20, <1>21
    DEF Next, Start, Step, Failure

\* A success in the audit trail means that Hive shows every source row exactly
\* once, also where units share paths and a resumed run appends to what another
\* one wrote: over crashes, torn manifest lines, half-written DataX jobs, deletes
\* that leave objects behind, failed counts and lost audit records.
THEOREM SuccessOverSharedPaths ==
  ASSUME ReliableManifest, NothingHidden PROVE Spec => []SuccessIsTruth
  <1>1. CompleteInv /\ [Next]_vars => CompleteInv'
    BY NextCompleteInv
  <1>2. CompleteInv => SuccessIsTruth
    BY DEF CompleteInv
  <1> QED BY InitCompleteInv, <1>1, <1>2, PTL DEF Spec

\* The run then implements BackupPromise for shared paths as well.
THEOREM ImplementationOverSharedPaths ==
  ASSUME ReliableManifest, NothingHidden PROVE Spec => KeepsPromise
  <1>1. CompleteInv /\ [Next]_vars => CompleteInv'
    BY NextCompleteInv
  <1>2. CompleteInv /\ CompleteInv' /\ [Next]_vars
          => [Promise!Next]_<<ShownByHive, vouched>>
    BY StepKeepsPromise DEF CompleteInv, ResumeInv
  <1> QED BY InitKeepsPromise, InitCompleteInv, <1>1, <1>2, PTL
          DEF Spec, KeepsPromise, Promise!Spec
----------------------------------------------------------------------------
(* No run goes on for ever: every step of the process takes one of finitely  *)
(* many things off its list, and no fault puts one back.                     *)

\* What prepare clears and reconcile registers is finitely many paths.
FinitePaths == TypeOK /\ IsFiniteSet(paths)

\* A process that has ended has nothing left to do.
LEMMA EndedRunIsDone == End => StepsLeft' = 0 /\ IsFiniteSet(paths)'
  BY FS_EmptySet DEF End, StepsLeft

\* A process that has not ended has something left to do.
LEMMA StepsLeftType ==
  ASSUME FinitePaths
  PROVE  StepsLeft \in Nat /\ (phase # "idle" => StepsLeft >= 1)
  <1>1. /\ Cardinality(paths) \in Nat /\ Cardinality(Units) \in Nat
        /\ Cardinality(pending) \in Nat /\ Cardinality(todo) \in Nat
        /\ Cardinality(batch) \in Nat
    BY UnitCount, FS_CardinalityType DEF FinitePaths, TypeOK
  <1>2. BatchWork \in Nat
    BY <1>1 DEF BatchWork
  <1> QED BY <1>1, <1>2 DEF StepsLeft, FinitePaths, TypeOK, Phases

\* Every step keeps the paths finitely many.
LEMMA NextFinitePaths == FinitePaths /\ [Next]_vars => FinitePaths'
  <1> SUFFICES ASSUME FinitePaths, [Next]_vars PROVE FinitePaths'
    OBVIOUS
  <1>t. TypeOK /\ TypeOK' /\ IsFiniteSet(paths)
    BY NextTypeOK DEF FinitePaths
  <1>1. CASE paths' = paths
    BY <1>1, <1>t DEF FinitePaths
  <1>2. ASSUME NEW p \in paths, paths' = paths \ {p} PROVE FinitePaths'
    BY <1>2, <1>t, OneLess DEF FinitePaths
  <1>3. CASE End
    BY <1>3, <1>t, EndedRunIsDone DEF FinitePaths
  <1>4. ASSUME NEW force \in BOOLEAN, StartRun(force) PROVE FinitePaths'
    <2>1. IsFiniteSet({PathOf[u] : u \in PlannedUnits})
      BY <1>t, PlanType, PathCount DEF TypeOK
    <2>2. paths' \in SUBSET {PathOf[u] : u \in PlannedUnits}
      BY <1>4 DEF StartRun, PathsToClear
    <2> QED BY <1>t, <2>1, <2>2, FS_Subset DEF FinitePaths
  <1>5. CASE EndUnits
    BY <1>5, <1>t, PathCount DEF EndUnits, TypeOK, FinitePaths
  <1>6. CASE UNCHANGED vars \/ SkipRun
    BY <1>6, <1>1 DEF SkipRun, vars, local
  <1>7. CASE Step
    BY <1>7, <1>1, <1>2, <1>3, <1>5 DEF Step, ClearPath, RegisterPartition, NextBatch,
       ReuseExport, ExportUnit, UnlinkCsv, MarkWritten, BeginUnits, DataxSucceeds,
       CountSource, CountTarget, RecordSuccess, RecordMismatch, ClearManifest
  <1>8. CASE Failure
    BY <1>8, <1>1, <1>2, <1>3 DEF Failure, ClearPathLeavesRows, DieClearing, RegisterFails,
       DieExporting, DieMarkingExported, DieMarkingWritten, DataxDropsRows, DieWriting,
       AbandonDatax, OrphanLands, CountTargetFails, RecordLost, Crash, SourceChanges, local
  <1> QED BY <1>4, <1>6, <1>7, <1>8 DEF Next, Start

\* Whatever a run does, fault or not, brings its end closer.
LEMMA EveryStepCounts ==
  ASSUME FinitePaths, Next, phase # "idle", local' # local
  PROVE  StepsLeft' < StepsLeft
  <1> DEFINE n == Cardinality(Units)
  <1>t. TypeOK /\ IsFiniteSet(paths) /\ FinitePaths' /\ StepsLeft \in Nat /\ StepsLeft >= 1
    BY NextFinitePaths, StepsLeftType DEF FinitePaths
  <1>n. /\ n \in Nat /\ Cardinality(paths) \in Nat
        /\ \A S \in SUBSET Units : Cardinality(S) \in Nat /\ Cardinality(S) <= n
    BY <1>t, UnitCount, FS_CardinalityType
  <1>u. pending \in SUBSET Units /\ batch \in SUBSET Units /\ todo \in SUBSET Units
    BY <1>t DEF TypeOK
  <1>m. /\ IsFiniteSet(todo) /\ Cardinality({}) = 0
        /\ Cardinality(pending) \in Nat /\ Cardinality(batch) \in Nat
        /\ Cardinality(todo) \in Nat
    BY <1>n, <1>u, UnitCount, FS_EmptySet
  <1>1. CASE End
    BY <1>1, <1>t, EndedRunIsDone
  <1>2. ASSUME NEW p \in paths, phase \in {"prepare", "register"},
               paths' = paths \ {p}, phase' = phase
        PROVE  StepsLeft' < StepsLeft
    <2>1. Cardinality(paths') = Cardinality(paths) - 1
      BY <1>2, <1>t, OneLess
    <2> QED BY <1>2, <1>n, <2>1 DEF StepsLeft
  <1>3. CASE BeginUnits
    <2>1. /\ phase = "prepare" /\ phase' = "batch" /\ pending' \in SUBSET Units
      BY <1>3, <1>t DEF BeginUnits, UnitsToWrite, TypeOK
    <2>2. Cardinality(pending') \in Nat /\ Cardinality(pending') <= n
      BY <2>1, <1>n
    <2> QED BY <2>1, <2>2, <1>n DEF StepsLeft, BatchWork
  <1>4. ASSUME NEW b \in SUBSET pending, NextBatch(b) PROVE StepsLeft' < StepsLeft
    <2>1. /\ phase = "batch" /\ phase' = "export" /\ b # {}
          /\ pending' = pending \ b /\ batch' = b /\ todo' = b
      BY <1>4 DEF NextBatch
    <2>2. /\ Cardinality(pending') \in Nat /\ Cardinality(b) \in Nat /\ Cardinality(b) >= 1
          /\ Cardinality(pending') = Cardinality(pending) - Cardinality(b)
      BY <2>1, <1>u, PartAndRest
    <2> QED BY <2>1, <2>2, <1>n, <1>m DEF StepsLeft, BatchWork
  <1>5. ASSUME NEW u \in todo, ReuseExport(u) \/ ExportUnit(u) PROVE StepsLeft' < StepsLeft
    <2>1. /\ phase = "export" /\ phase' = "export" /\ pending' = pending
          /\ batch' = batch /\ todo' = todo \ {u}
      BY <1>5 DEF ReuseExport, ExportUnit
    <2>2. Cardinality(todo') \in Nat /\ Cardinality(todo') = Cardinality(todo) - 1
      BY <2>1, <1>m, OneLess
    <2> QED BY <2>1, <2>2, <1>n, <1>m DEF StepsLeft, BatchWork
  <1>6. ASSUME NEW S, DataxSucceeds \/ DataxDropsRows(S) PROVE StepsLeft' < StepsLeft
    <2>1. /\ phase = "export" /\ phase' = "unlink" /\ pending' = pending
          /\ batch' = batch /\ todo' = batch
      BY <1>6 DEF DataxSucceeds, DataxDropsRows
    <2> QED BY <2>1, <1>n, <1>m DEF StepsLeft, BatchWork
  <1>7. ASSUME NEW u \in todo, UnlinkCsv(u) \/ MarkWritten(u) PROVE StepsLeft' < StepsLeft
    <2>1. Cardinality(todo \ {u}) \in Nat /\ Cardinality(todo \ {u}) = Cardinality(todo) - 1
      BY <1>m, OneLess
    <2>2. CASE todo = {u} /\ UnlinkCsv(u)
      <3>1. /\ phase = "unlink" /\ phase' = "mark" /\ pending' = pending /\ todo' = batch
        BY <2>2 DEF UnlinkCsv
      <3>2. Cardinality(todo) >= 1
        BY <2>1, <1>m
      <3> QED BY <3>1, <3>2, <1>n, <1>m DEF StepsLeft, BatchWork
    <2>3. CASE todo # {u} /\ UnlinkCsv(u)
      <3>1. /\ phase = "unlink" /\ phase' = "unlink" /\ pending' = pending
            /\ batch' = batch /\ todo' = todo \ {u}
        BY <2>3 DEF UnlinkCsv
      <3> QED BY <3>1, <2>1, <1>n, <1>m DEF StepsLeft, BatchWork
    <2>4. CASE todo = {u} /\ MarkWritten(u)
      <3>1. /\ phase = "mark" /\ phase' = "batch" /\ pending' = pending
        BY <2>4 DEF MarkWritten
      <3>2. Cardinality(todo) >= 1
        BY <2>1, <1>m
      <3> QED BY <3>1, <3>2, <1>n, <1>m DEF StepsLeft, BatchWork
    <2>5. CASE todo # {u} /\ MarkWritten(u)
      <3>1. /\ phase = "mark" /\ phase' = "mark" /\ pending' = pending /\ todo' = todo \ {u}
        BY <2>5 DEF MarkWritten
      <3> QED BY <3>1, <2>1, <1>n, <1>m DEF StepsLeft, BatchWork
    <2> QED BY <1>7, <2>2, <2>3, <2>4, <2>5
  <1>8. CASE EndUnits
    <2>1. /\ phase = "batch" /\ phase' = "register" /\ paths' = {PathOf[u] : u \in plan}
      BY <1>8 DEF EndUnits
    <2>2. Cardinality(paths') \in Nat /\ Cardinality(paths') <= n
      BY <2>1, <1>t, PathCount DEF TypeOK
    <2> QED BY <2>1, <2>2, <1>n, <1>m DEF StepsLeft, BatchWork
  <1>9. CASE CountSource \/ CountTarget \/ CountTargetFails \/ RecordSuccess \/ RecordLost
    BY <1>9, <1>n DEF CountSource, CountTarget, CountTargetFails, RecordSuccess, RecordLost,
       StepsLeft
  <1>10. CASE Step
    BY <1>10, <1>1, <1>2, <1>3, <1>4, <1>5, <1>6, <1>7, <1>8, <1>9
    DEF Step, ClearPath, RegisterPartition, RecordMismatch, ClearManifest
  <1>11. CASE Failure
    BY <1>11, <1>1, <1>2, <1>6, <1>9 DEF Failure, ClearPathLeavesRows, DieClearing,
       RegisterFails, DieExporting, DieMarkingExported, DieMarkingWritten, DieWriting,
       AbandonDatax, OrphanLands, Crash, SourceChanges
  <1>12. ~Start /\ ~SkipRun
    BY DEF Start, StartRun, SkipRun
  <1> QED BY <1>10, <1>11, <1>12 DEF Next

\* A run that is under way makes at most StepsLeft steps, whatever goes wrong.
THEOREM RunsEndInTime == Spec => RunsAreBounded
  <1>1. Init => FinitePaths
    BY InitTypeOK, FS_EmptySet DEF Init, FinitePaths
  <1>2. FinitePaths /\ [Next]_vars => FinitePaths'
    BY NextFinitePaths
  <1>3. FinitePaths /\ [Next]_vars
          => [phase # "idle" /\ local' # local => StepsLeft' < StepsLeft]_vars
    BY EveryStepCounts
  <1> QED BY <1>1, <1>2, <1>3, PTL DEF Spec, RunsAreBounded
==============================================================================
