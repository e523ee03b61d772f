----------------------------- MODULE BackupRun -----------------------------
(***************************************************************************)
(* JobRunner.run for one (job, processing_date), re-run any number of      *)
(* times: idempotency check, manifest, plan, prepare, batched export and   *)
(* DataX write, reconcile, audit (td2hive/job_runner.py), with the         *)
(* manifest of run_manifest.py, the OBS prefixes of obs_client.py, the     *)
(* metastore of partition_registrar.py and the count check of verify.py.   *)
(* One coordinator process; it may die at every step, and every outside    *)
(* system may fail the way the code is exposed to.                         *)
(***************************************************************************)
EXTENDS Layout

CONSTANTS
  TableOf,    \* TableOf[u]: position of u's table in source.load_tables
  Dynamic,    \* TRUE iff the job has dynamic partition columns
  BatchSize,  \* units per DataX job: max_channels_per_job \div speed_channel
  FaultKinds, \* what the environment of this instance may do
  MaxFaults   \* bound on how often it does

AllFaults == {"force", "crash", "torn", "export", "datax", "lie", "orphan",
              "delete", "register", "count", "audit", "drift"}

ASSUME BoundsAssumption ==
  /\ TableOf \in [Units -> Nat]
  /\ Dynamic \in BOOLEAN
  /\ BatchSize \in Nat \ {0}
  /\ FaultKinds \subseteq AllFaults
  /\ MaxFaults \in Nat

VARIABLES
  \* the coordinator process: gone when it ends or dies
  phase,      \* what run() is doing
  mem,        \* RunManifest.units: status of each unit as this run sees it
  plan,       \* the units plan() returned
  paths,      \* paths still to clear (prepare) or to register (reconcile)
  pending,    \* units run_units has not put into a batch yet
  batch,      \* the units of the DataX job at hand
  todo,       \* members of batch the per-unit loop at hand has not reached
  srcCount,   \* verify()'s two counts
  tgtCount,
  \* what survives it
  disk,       \* the manifest file, as load_state would read it
  kept,       \* the same without its last line if that has no line end
  torn,       \* the last line has no line end
  csv,        \* csv[u]: rows in the unit's local export files; {} if unusable
  obs,        \* obs[r]: copies of row r under its path: 0, 1, or 2 for "more"
  registered, \* paths the Hive metastore has a partition for
  audit,      \* find_success: a success record exists
  src,        \* rows the Teradata source holds
  orphan,     \* rows a DataX JVM that outlived its run has yet to write
  faults,     \* faults so far
  vouched     \* history: the last word of the audit trail is a success and
              \* no --force run has started since

local   == <<phase, mem, plan, paths, pending, batch, todo, srcCount, tgtCount>>
outside == <<src, orphan, faults>>
manifest == <<disk, kept, torn>>
vars    == <<local, manifest, csv, obs, registered, audit, vouched, outside>>

Phases == {"idle", "prepare", "batch", "export", "unlink", "mark", "register",
           "count", "record", "clear"}
Status == {"none", "exported", "written"}
NoState == [u \in Units |-> "none"]

\* plan(): SELECT DISTINCT per load table, or one unit per table
PlannedUnits ==
  IF Dynamic THEN {UnitOf[r] : r \in src} ELSE Units

\* run() goes on: forced, or no success on record
MayStartUnchecked(force) == TRUE                        \* mutant
MayStart(force) == force \/ ~audit

\* the paths prepare clears under manifest m: never one that a unit already
\* written uses
PathsToClearAll(m) == {PathOf[u] : u \in PlannedUnits}  \* mutant
PathsToClear(m) ==
  {PathOf[u] : u \in PlannedUnits}
    \ {PathOf[u] : u \in {w \in PlannedUnits : m[w] = "written"}}

\* the units run_units passes on to batches
UnitsToWriteAll(m) == plan                              \* mutant
UnitsToWriteUnseen(m) == {u \in plan : m[u] = "none"}   \* mutant
UnitsToWrite(m) == {u \in plan : m[u] # "written"}

\* SELECT ... WHERE <this unit's partition value>, in a run without --row-limit
ExportedRowsUnscoped(u) == src                          \* mutant
ExportedRows(u) == RowsOf(u) \cap src

\* valid_exported_csv_paths: marked exported, files present and non-empty
ReusableByStatus(u) == mem[u] = "exported"              \* mutant
Reusable(u) == mem[u] = "exported" /\ csv[u] # {}

\* record_event appends a line; on an unterminated one it becomes part of a
\* line that load_state cannot decode and skips
RecordEvent(u, status) ==
  /\ kept' = IF torn THEN kept ELSE [disk EXCEPT ![u] = status]
  /\ disk' = kept' /\ torn' = FALSE

\* the append stops halfway (disk full, death), perhaps just before the line end
TearEvent(u, status, whole) ==
  /\ torn' = TRUE /\ kept' = kept
  /\ disk' = IF whole /\ ~torn THEN [disk EXCEPT ![u] = status] ELSE kept

BatchRows == UNION {csv[u] : u \in batch}

Land(S) == obs' = AfterLanding(obs, S)

ClearNothing(p, K) == UNCHANGED obs                     \* mutant
Clear(p, K) == obs' = AfterClearing(obs, p, K)

\* source_where: the values of this run's units, nothing if there are none
SourceScope ==
  IF Dynamic /\ plan # {}
    THEN {r \in src : PathOf[UnitOf[r]] \in {PathOf[u] : u \in plan}}
    ELSE src

HiveCountOfFiles == VisibleCount(obs, Paths)            \* mutant
HiveCount == VisibleCount(obs, registered)

\* the environment uses up one of its faults
Fault(kind) ==
  /\ kind \in FaultKinds /\ faults < MaxFaults
  /\ faults' = faults + 1
  /\ UNCHANGED <<src, orphan>>

\* the process ends, by returning, raising or dying: only files remain
End ==
  /\ phase' = "idle" /\ mem' = NoState
  /\ plan' = {} /\ paths' = {} /\ pending' = {} /\ batch' = {} /\ todo' = {}
  /\ srcCount' = 0 /\ tgtCount' = 0

Init ==
  /\ phase = "idle" /\ mem = NoState
  /\ plan = {} /\ paths = {} /\ pending = {} /\ batch = {} /\ todo = {}
  /\ srcCount = 0 /\ tgtCount = 0
  /\ disk = NoState /\ kept = NoState /\ torn = FALSE
  /\ csv = [u \in Units |-> {}]
  /\ obs = NoCopies
  /\ registered = {}
  /\ audit = FALSE /\ vouched = FALSE
  /\ src = Rows /\ orphan = {} /\ faults = 0

----------------------------------------------------------------------------
(* run(): start, plan, prepare *)

\* already succeeded: run() returns None
SkipRun ==
  /\ phase = "idle" /\ audit
  /\ UNCHANGED vars

\* find_success, manifest.load (not under --force), plan, and prepare's
\* choice of paths
StartRun(force) ==
  /\ phase = "idle"
  /\ force => "force" \in FaultKinds
  /\ MayStart(force)
  /\ phase' = "prepare"
  /\ mem' = IF force THEN NoState ELSE disk
  /\ plan' = PlannedUnits
  /\ paths' = PathsToClear(mem')
  /\ vouched' = (vouched /\ ~force)
  /\ UNCHANGED <<pending, batch, todo, srcCount, tgtCount, manifest, csv, obs,
                 registered, audit, outside>>

ClearPath(p) ==
  /\ phase = "prepare" /\ p \in paths
  /\ Clear(p, {})
  /\ paths' = paths \ {p}
  /\ UNCHANGED <<phase, mem, plan, pending, batch, todo, srcCount, tgtCount,
                 manifest, csv, registered, audit, vouched, outside>>

\* delete_objects answers with per-key errors, which delete_prefix ignores
ClearPathLeavesRows(p, K) ==
  /\ phase = "prepare" /\ p \in paths
  /\ Fault("delete")
  /\ Clear(p, K)
  /\ paths' = paths \ {p}
  /\ UNCHANGED <<phase, mem, plan, pending, batch, todo, srcCount, tgtCount,
                 manifest, csv, registered, audit, vouched>>

\* death between two delete requests for one path
DieClearing(p, K) ==
  /\ phase = "prepare" /\ p \in paths
  /\ Fault("crash")
  /\ Clear(p, K)
  /\ End
  /\ UNCHANGED <<manifest, csv, registered, audit, vouched>>

----------------------------------------------------------------------------
(* run_units, _run_batch *)

\* units already written are not touched again
BeginUnits ==
  /\ phase = "prepare" /\ paths = {}
  /\ phase' = "batch"
  /\ pending' = UnitsToWrite(mem)
  /\ UNCHANGED <<mem, plan, paths, batch, todo, srcCount, tgtCount, manifest, csv,
                 obs, registered, audit, vouched, outside>>

\* greedy batches in plan order: load table by load table, and within one
\* table in whatever order SELECT DISTINCT returned
NextBatch(b) ==
  /\ phase = "batch" /\ b \subseteq pending /\ b # {}
  /\ Cardinality(b) = BatchSize \/ (b = pending /\ Cardinality(b) < BatchSize)
  /\ \A u \in b, w \in pending \ b : TableOf[u] <= TableOf[w]
  /\ phase' = "export"
  /\ batch' = b /\ todo' = b /\ pending' = pending \ b
  /\ UNCHANGED <<mem, plan, paths, srcCount, tgtCount, manifest, csv, obs,
                 registered, audit, vouched, outside>>

ReuseExport(u) ==
  /\ phase = "export" /\ u \in todo /\ Reusable(u)
  /\ todo' = todo \ {u}
  /\ UNCHANGED <<phase, mem, plan, paths, pending, batch, srcCount, tgtCount,
                 manifest, csv, obs, registered, audit, vouched, outside>>

\* TPTExporter.export overwrites the unit's files, then mark_exported
ExportUnit(u) ==
  /\ phase = "export" /\ u \in todo /\ ~Reusable(u)
  /\ csv' = [csv EXCEPT ![u] = ExportedRows(u)]
  /\ mem' = [mem EXCEPT ![u] = "exported"]
  /\ RecordEvent(u, "exported")
  /\ todo' = todo \ {u}
  /\ UNCHANGED <<phase, plan, paths, pending, batch, srcCount, tgtCount, obs,
                 registered, audit, vouched, outside>>

\* tbuild fails, or the process dies before mark_exported: the files hold
\* whatever was written so far
DieExporting(u, S) ==
  /\ phase = "export" /\ u \in todo /\ ~Reusable(u)
  /\ Fault("export")
  /\ csv' = [csv EXCEPT ![u] = S]
  /\ End
  /\ UNCHANGED <<manifest, obs, registered, audit, vouched>>

\* mark_exported raises or the process dies while appending to the manifest
DieMarkingExported(u, whole) ==
  /\ phase = "export" /\ u \in todo /\ ~Reusable(u)
  /\ Fault("torn")
  /\ csv' = [csv EXCEPT ![u] = ExportedRows(u)]
  /\ TearEvent(u, "exported", whole)
  /\ End
  /\ UNCHANGED <<obs, registered, audit, vouched>>

DataxSucceeds ==
  /\ phase = "export" /\ todo = {}
  /\ Land(BatchRows)
  /\ phase' = "unlink" /\ todo' = batch
  /\ UNCHANGED <<mem, plan, paths, pending, batch, srcCount, tgtCount, manifest,
                 csv, registered, audit, vouched, outside>>

\* success reported, within error_limit, but not every row is there
DataxDropsRows(S) ==
  /\ phase = "export" /\ todo = {}
  /\ Fault("lie")
  /\ Land(S)
  /\ phase' = "unlink" /\ todo' = batch
  /\ UNCHANGED <<mem, plan, paths, pending, batch, srcCount, tgtCount, manifest,
                 csv, registered, audit, vouched>>

\* RuntimeError, or the process dies with the JVM
DieWriting(S) ==
  /\ phase = "export" /\ todo = {}
  /\ Fault("datax")
  /\ Land(S)
  /\ End
  /\ UNCHANGED <<manifest, csv, registered, audit, vouched>>

\* the 3600 s timeout kills datax.py, not its JVM, which may write later
AbandonDatax ==
  /\ phase = "export" /\ todo = {} /\ orphan = {}
  /\ "orphan" \in FaultKinds /\ faults < MaxFaults
  /\ faults' = faults + 1
  /\ orphan' = BatchRows
  /\ End
  /\ UNCHANGED <<manifest, csv, obs, registered, audit, vouched, src>>

OrphanLands ==
  /\ orphan # {}
  /\ Land(orphan)
  /\ orphan' = {}
  /\ UNCHANGED <<local, manifest, csv, registered, audit, vouched, src, faults>>

UnlinkCsv(u) ==
  /\ phase = "unlink" /\ u \in todo
  /\ csv' = [csv EXCEPT ![u] = {}]
  /\ phase' = IF todo = {u} THEN "mark" ELSE "unlink"
  /\ todo' = IF todo = {u} THEN batch ELSE todo \ {u}
  /\ UNCHANGED <<mem, plan, paths, pending, batch, srcCount, tgtCount, manifest,
                 obs, registered, audit, vouched, outside>>

MarkWritten(u) ==
  /\ phase = "mark" /\ u \in todo
  /\ mem' = [mem EXCEPT ![u] = "written"]
  /\ RecordEvent(u, "written")
  /\ todo' = todo \ {u}
  /\ phase' = IF todo = {u} THEN "batch" ELSE "mark"
  /\ batch' = IF todo = {u} THEN {} ELSE batch
  /\ UNCHANGED <<plan, paths, pending, srcCount, tgtCount, csv, obs,
                 registered, audit, vouched, outside>>

DieMarkingWritten(u, whole) ==
  /\ phase = "mark" /\ u \in todo
  /\ Fault("torn")
  /\ TearEvent(u, "written", whole)
  /\ End
  /\ UNCHANGED <<csv, obs, registered, audit, vouched>>

----------------------------------------------------------------------------
(* reconcile, verify, audit *)

EndUnits ==
  /\ phase = "batch" /\ pending = {}
  /\ phase' = "register"
  /\ paths' = {PathOf[u] : u \in plan}
  /\ UNCHANGED <<mem, plan, pending, batch, todo, srcCount, tgtCount, manifest,
                 csv, obs, registered, audit, vouched, outside>>

RegisterPartition(p) ==
  /\ phase = "register" /\ p \in paths
  /\ registered' = registered \cup {p}
  /\ paths' = paths \ {p}
  /\ UNCHANGED <<phase, mem, plan, pending, batch, todo, srcCount, tgtCount,
                 manifest, csv, obs, audit, vouched, outside>>

\* add_partition swallows the error and returns False, which nobody reads
RegisterFails(p) ==
  /\ phase = "register" /\ p \in paths
  /\ Fault("register")
  /\ paths' = paths \ {p}
  /\ UNCHANGED <<phase, mem, plan, pending, batch, todo, srcCount, tgtCount,
                 manifest, csv, obs, registered, audit, vouched>>

CountSource ==
  /\ phase = "register" /\ paths = {}
  /\ phase' = "count"
  /\ srcCount' = Cardinality(SourceScope)
  /\ UNCHANGED <<mem, plan, paths, pending, batch, todo, tgtCount, manifest, csv,
                 obs, registered, audit, vouched, outside>>

CountTarget ==
  /\ phase = "count"
  /\ phase' = "record"
  /\ tgtCount' = HiveCount
  /\ UNCHANGED <<mem, plan, paths, pending, batch, todo, srcCount, manifest, csv,
                 obs, registered, audit, vouched, outside>>

\* get_table_count turns a failed query into 0
CountTargetFails ==
  /\ phase = "count"
  /\ Fault("count")
  /\ phase' = "record"
  /\ tgtCount' = 0
  /\ UNCHANGED <<mem, plan, paths, pending, batch, todo, srcCount, manifest, csv,
                 obs, registered, audit, vouched>>

RecordSuccess ==
  /\ phase = "record" /\ srcCount = tgtCount
  /\ audit' = TRUE /\ vouched' = TRUE
  /\ phase' = "clear"
  /\ UNCHANGED <<mem, plan, paths, pending, batch, todo, srcCount, tgtCount,
                 manifest, csv, obs, registered, outside>>

\* CompositeAuditSink swallows the error of the sink find_success reads
RecordLost ==
  /\ phase = "record" /\ srcCount = tgtCount
  /\ Fault("audit")
  /\ phase' = "clear"
  /\ UNCHANGED <<mem, plan, paths, pending, batch, todo, srcCount, tgtCount,
                 manifest, csv, obs, registered, audit, vouched>>

\* mutant: count again until the counts agree
RecordMismatchRetries ==
  /\ phase = "record" /\ srcCount # tgtCount
  /\ phase' = "count"
  /\ UNCHANGED <<mem, plan, paths, pending, batch, todo, srcCount, tgtCount,
                 manifest, csv, obs, registered, audit, vouched, outside>>

\* dq_mismatch: the manifest stays
RecordMismatch ==
  /\ phase = "record" /\ srcCount # tgtCount
  /\ End
  /\ UNCHANGED <<manifest, csv, obs, registered, audit, vouched, outside>>

ClearManifest ==
  /\ phase = "clear"
  /\ disk' = NoState /\ kept' = NoState /\ torn' = FALSE
  /\ End
  /\ UNCHANGED <<csv, obs, registered, audit, vouched, outside>>

----------------------------------------------------------------------------
(* the rest of the environment *)

\* death, or an exception of any call, between two of the steps above
Crash ==
  /\ phase # "idle"
  /\ Fault("crash")
  /\ End
  /\ UNCHANGED <<manifest, csv, obs, registered, audit, vouched>>

\* rows arrive in or leave the source tables
SourceChanges(S) ==
  /\ "drift" \in FaultKinds /\ faults < MaxFaults /\ S # src
  /\ faults' = faults + 1
  /\ src' = S
  /\ UNCHANGED <<local, manifest, csv, obs, registered, audit, vouched, orphan>>

\* the steps the coordinator takes when nothing goes wrong
Step ==
  \/ \E p \in paths : ClearPath(p) \/ RegisterPartition(p)
  \/ \E b \in SUBSET pending : NextBatch(b)
  \/ \E u \in todo : ReuseExport(u) \/ ExportUnit(u) \/ UnlinkCsv(u) \/ MarkWritten(u)
  \/ BeginUnits \/ DataxSucceeds \/ EndUnits
  \/ CountSource \/ CountTarget
  \/ RecordSuccess \/ RecordMismatch \/ ClearManifest

Failure ==
  \/ \E p \in paths : \E K \in SUBSET RowsAt(p) :
       ClearPathLeavesRows(p, K) \/ DieClearing(p, K)
  \/ \E p \in paths : RegisterFails(p)
  \/ \E u \in todo : \E S \in SUBSET ExportedRows(u) : DieExporting(u, S)
  \/ \E u \in todo, whole \in BOOLEAN :
       DieMarkingExported(u, whole) \/ DieMarkingWritten(u, whole)
  \/ \E S \in SUBSET BatchRows : DataxDropsRows(S) \/ DieWriting(S)
  \/ AbandonDatax \/ OrphanLands
  \/ CountTargetFails \/ RecordLost \/ Crash
  \/ \E S \in SUBSET Rows : SourceChanges(S)

Start == \E force \in BOOLEAN : StartRun(force)

Next == SkipRun \/ Start \/ Step \/ Failure

Spec == Init /\ [][Next]_vars

\* The process keeps executing, and whoever schedules it (cron, Airflow)
\* re-runs a job that has not succeeded. Nothing in the environment is fair.
FairSpec == Spec /\ WF_vars(Step) /\ WF_vars(StartRun(FALSE))
=============================================================================
