--------------------------- MODULE BackupRunProps ---------------------------
(***************************************************************************)
(* What JobRunner.run promises about one (job, processing_date).           *)
(***************************************************************************)
EXTENDS BackupRun

\* The values each variable takes; the local ones are reset between runs.
TypeOK ==
  /\ phase \in Phases
  /\ mem \in [Units -> Status] /\ disk \in [Units -> Status]
  /\ kept \in [Units -> Status] /\ torn \in BOOLEAN
  /\ plan \subseteq Units /\ pending \subseteq Units
  /\ batch \subseteq Units /\ todo \subseteq Units
  /\ paths \subseteq Paths /\ registered \subseteq Paths
  /\ srcCount \in Nat /\ tgtCount \in Nat
  /\ csv \in [Units -> SUBSET Rows]
  /\ \A u \in Units : \A r \in csv[u] : UnitOf[r] = u
  /\ obs \in CopyCounts
  /\ audit \in BOOLEAN /\ vouched \in BOOLEAN
  /\ src \subseteq Rows /\ orphan \subseteq Rows /\ faults \in Nat

\* However often a run fails, dies and is started again, no row ends up twice
\* under its partition path: prepare clears every path this run will write
\* and leaves alone exactly those whose unit is already written.
NoRowLandsTwice == \A r \in Rows : obs[r] # 2

\* As long as the last word of the audit trail is a success (and nobody forced
\* a new run since), every source row is in the table exactly once and under
\* a partition Hive knows: the count comparison of verify() is conclusive.
SuccessIsTruth ==
  vouched => \A r \in Rows : obs[r] = 1 /\ PathOf[UnitOf[r]] \in registered

\* The run implements the promise made to readers of the audit trail: a
\* success is recorded only over a complete table, and no step of a later
\* run (skipped, resumed, dying anywhere) touches the table under it.
ShownByHive ==
  [r \in Rows |-> IF PathOf[UnitOf[r]] \in registered THEN obs[r] ELSE 0]
Promise == INSTANCE BackupPromise WITH table <- ShownByHive
KeepsPromise == Promise!Spec

\* A unit the manifest calls written has all its rows in object storage, so
\* skipping it in a later run loses nothing.
WrittenMeansLanded ==
  \A u \in Units : disk[u] = "written" => \A r \in RowsOf(u) : obs[r] >= 1

\* When DataX starts on a batch, the files it is given hold the whole of every
\* unit, also where _run_batch reused the files of an earlier run.
ReusedCsvIsWhole ==
  phase = "export" /\ todo = {} => \A u \in batch : csv[u] = RowsOf(u)

----------------------------------------------------------------------------
(* The strengthening of NoRowLandsTwice and SuccessIsTruth that is         *)
(* inductive when each unit has a path of its own.                         *)

PathsArePrivate == \A u, w \in Units : PathOf[u] = PathOf[w] => u = w

Empty(u) == \A r \in RowsOf(u) : obs[r] = 0

\* whatever the run is still going to write goes to an empty path
TargetsAreEmpty ==
  /\ phase = "prepare" =>
       \A u \in plan : mem[u] # "written" /\ PathOf[u] \notin paths => Empty(u)
  /\ phase \in {"batch", "export", "unlink", "mark"} =>
       \A u \in pending : Empty(u)
  /\ phase = "export" => \A u \in batch : Empty(u)

\* the counts verify() compares are those of the table as it still is
CountsAreCurrent ==
  /\ phase # "idle" => plan = PlannedUnits
  /\ phase \in {"count", "record"} => srcCount = Cardinality(Rows)
  /\ phase = "record" => tgtCount \in {0, HiveCount}

DupInv ==
  /\ TypeOK /\ orphan = {}
  /\ pending \cap batch = {}
  /\ phase \in {"idle", "prepare", "batch"} => batch = {}
  /\ NoRowLandsTwice
  /\ TargetsAreEmpty

\* The whole inductive invariant: what prepare cleared stays clear until it is
\* written, and a success rests on counts taken of the table as it is.
BackupInv ==
  /\ DupInv
  /\ src = Rows
  /\ CountsAreCurrent
  /\ vouched => audit /\ phase \in {"idle", "clear"}
  /\ SuccessIsTruth

----------------------------------------------------------------------------
(* The strengthening of WrittenMeansLanded and ReusedCsvIsWhole that is    *)
(* inductive, for paths shared by units too, while no export dies halfway, *)
(* nobody forces a run and DataX does not lie.                             *)

Landed(u) == \A r \in RowsOf(u) : obs[r] >= 1

\* files are whole or gone, and what a batch is written from is there
CsvHolds ==
  /\ \A u \in Units : csv[u] \in {{}, RowsOf(u)}
  /\ phase = "export" => \A u \in batch \ todo : csv[u] = RowsOf(u)

\* the local variables of the loop over batches
LoopHolds ==
  /\ todo \subseteq batch /\ pending \cap batch = {}
  /\ phase \notin {"batch", "export", "unlink", "mark"} => pending = {}
  /\ phase \notin {"export", "unlink", "mark"} => batch = {}
  /\ \A u \in pending \cup (IF phase = "mark" THEN todo ELSE batch) : mem[u] # "written"

\* no line of the manifest, whole or torn, is ahead of what landed or of what the
\* run has in memory, and prepare leaves the paths of written units alone
ManifestHolds ==
  /\ \A u \in Units : kept[u] = "written" => disk[u] = "written"
  /\ \A u \in Units : disk[u] = "written" => Landed(u)
  /\ phase # "idle" => \A u \in Units : disk[u] = "written" => mem[u] = "written"
  /\ phase \in {"unlink", "mark"} => \A u \in batch : Landed(u)
  /\ phase = "prepare" =>
       \A u \in PlannedUnits : disk[u] = "written" => PathOf[u] \notin paths

ResumeInv == TypeOK /\ src = Rows /\ CsvHolds /\ LoopHolds /\ ManifestHolds

----------------------------------------------------------------------------
(* The strengthening of SuccessIsTruth that is inductive for shared paths. *)
(* Rows may land twice here, when a resumed run appends to a path that it  *)
(* does not clear; but none is missing when verify() counts, so the counts *)
(* differ.                                                                 *)

\* what this run calls written has landed, and prepare leaves it alone
WrittenHolds ==
  /\ phase # "idle" => \A u \in Units : mem[u] = "written" => Landed(u)
  /\ phase = "prepare" =>
       \A u \in PlannedUnits : mem[u] = "written" => PathOf[u] \notin paths

\* no planned unit gets lost between plan() and verify(), nor does its partition
NothingIsLeftOut ==
  /\ phase \in {"batch", "export", "unlink", "mark"} =>
       \A u \in plan : \/ mem[u] = "written"
                       \/ u \in pending \cup (IF phase = "mark" THEN todo ELSE batch)
  /\ phase \in {"register", "count", "record", "clear"} =>
       \A u \in plan : /\ mem[u] = "written"
                       /\ PathOf[u] \in registered \cup paths
  /\ phase \in {"count", "record", "clear"} => paths = {}

CompleteInv ==
  /\ ResumeInv /\ orphan = {}
  /\ WrittenHolds
  /\ NothingIsLeftOut
  /\ CountsAreCurrent
  /\ vouched => audit /\ phase \in {"idle", "clear"}
  /\ SuccessIsTruth

----------------------------------------------------------------------------
(* The safety half of RunsEnd: a run cannot go on for ever.                *)

\* what the loop over batches has before it: five steps for a unit in no batch yet
\* (batch, export, DataX, unlink, mark), of the batch at hand what is left of it
BatchWork ==
  5 * Cardinality(pending)
    + CASE phase = "export" -> Cardinality(todo) + 2 * Cardinality(batch) + 1
        [] phase = "unlink" -> Cardinality(todo) + Cardinality(batch)
        [] phase = "mark"   -> Cardinality(todo)
        [] OTHER            -> 0

\* no more steps than this until the process has ended
StepsLeft ==
  CASE phase = "prepare" -> Cardinality(paths) + 6 * Cardinality(Units) + 6
    [] phase \in {"batch", "export", "unlink", "mark"} -> BatchWork + Cardinality(Units) + 5
    [] phase = "register" -> Cardinality(paths) + 4
    [] phase = "count" -> 3 [] phase = "record" -> 2 [] phase = "clear" -> 1
    [] phase = "idle"  -> 0

\* Whatever a run does, fault or not, brings its end closer.
RunsAreBounded == [][phase # "idle" /\ local' # local => StepsLeft' < StepsLeft]_vars

----------------------------------------------------------------------------
\* Every started run comes to an end.
RunsEnd == (phase # "idle") ~> (phase = "idle")

\* With re-runs and only finitely many failures the job succeeds for good.
EventuallySucceeds == <>[](audit /\ vouched)
=============================================================================
