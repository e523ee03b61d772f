# td2hive, formally

td2hive copies Teradata load tables into partitioned Hive tables, one *job* per target
table and one *processing date* at a time: TPT exports each `(load_table, partition
value)` to local CSV files, DataX appends those files as ORC to an object-storage (OBS)
path, Hive is told about the partition, the row counts of both sides are compared, and
the outcome goes to an audit trail.  Around that core lie the commands that bring a table
into `jobs/`, the one that expires old partitions, and the scripts that run and deploy
all of it on a host.  What can go wrong is a matter of *when*: a process that dies between
two stores, a pod that is started twice, a path that two load tables share, a container
that outlives the command that started it.  These modules model the program, check it with
TLC and prove most of the safety properties with TLAPS.

1. [The system](#1-the-system)
2. [The modules](#2-the-modules)
3. [What is checked](#3-what-is-checked)
4. [What is proved](#4-what-is-proved)
5. [What is not modelled](#5-what-is-not-modelled)
6. [Where to go on](#6-where-to-go-on)

## 1. The system

| component | state it keeps | operations | talks to |
|---|---|---|---|
| run coordinator, `job_runner.py` | one process: plan, batch, counts; nothing survives it | `run`, `plan`, `prepare`, `run_units`/`_run_batch`, `run_unit`, `reconcile` | everything below, by blocking calls |
| fan-out drivers, `cli.py` primitives, `k8s/`, `integrations/` | result files, one per pod; pod retries | plan, prepare, run-unit in parallel pods, reconcile | object storage and metastore, shared by the pods |
| `run` and `run-all`, `cli.py` | position in the list of jobs, a failure count | load specs, build a runner per job, exit code | coordinator, audit trail |
| run manifest, `run_manifest.py` | append-only JSONL of unit events per (job, date) | `record_event`, `load_state`, `clear` | read by a re-run |
| object storage client, `obs_client.py` | objects under partition prefixes | `ensure_prefix_exists`, `delete_prefix`, `list_dated_partitions` | DataX writes the same prefixes |
| metastore client, `partition_registrar.py` | partitions and definition of Hive tables | `add_partition`, `drop_partition`, `get_table_count`, `describe_table`, `create_external_table`, over a `beeline` child process with two reader threads | verify, retention, onboarding |
| verification, `verify.py` | none | two counts and their comparison | Teradata, metastore |
| TPT export, `reader.py` | local CSV files, a docker container | `export` by local `tbuild` or a container polled for its logs | manifest says which files may be reused |
| DataX runner, `datax/` | a JVM below a python process | job JSON, `run` with a 3600 s timeout, the distribution's path through `current` | object storage |
| audit, `audit/` | JSONL file, SQL table, alerts | `record` through every sink, `find_success` through one | idempotency check of the next run |
| retention, `retention.py`, `cli.py` | none | list, delete objects, drop partition | object storage, metastore |
| `create-target`, `validate`, `cli.py` | the real Hive table; a scratch table and its objects | DDL, a trial run, teardown | metastore, object storage, coordinator |
| scaffolding, `scripts/scaffold_job.py`, `column_types.py`, `jobspec.py` | job YAML | draft a spec from the legacy configuration, resolve column types, load a spec | Hive, Teradata |
| host guard, `run_guarded.sh` | lock files | claim a slot, run, free it | other invocations on the host |
| deployment scripts | `current` links, version directories | deploy, smoke test, rollback, teardown | operators; running JVMs |

**What is hard, and what makes each part correct**

* *Coordinator*: every step of `run()` is a call to another system, and the process may end
  at each of them.  A re-run must neither lose a row nor write one twice, and a recorded
  success must be true and stay true.
* *Fan-out*: pods append to shared paths at the same time, an orchestrator starts them again, and
  `reconcile` sees only the result files that exist.  The verdict must cover the whole plan.
* *Manifest*: it describes objects that live elsewhere; it must never claim more than is
  there, also after a torn append, an incomplete delete or a JVM that outlived its run.
* *Metastore and audit clients*: they swallow failures (`add_partition` gives `False`,
  a failed count gives 0, a failing sink is skipped), so correctness rests on what their callers
  make of the value.
* *Audit trail*: several processes and several sinks, one of which answers `find_success`; exit
  codes and alerts must tell the truth about what landed.
* *Pipe reading*: a child, two threads and a caller; no line may be lost, and the call must end.
* *Retention*: the one component that destroys data, from a listing and a cutoff that age while it
  works, next to backups of the same tables.
* *Onboarding*: files are matched to the table by position, through five places that compare
  column names differently; a PASS of `validate` is what admits a table to `jobs/`.
* *Host*: locks are inherited by children, tools outlive commands, and versions are replaced
  under them.

## 2. The modules

| module | what it is |
|---|---|
| `Layout` | rows, units, partition paths; what appending, clearing and counting do to copies of rows |
| `BackupRun` | `JobRunner.run` for one (job, date), re-run any number of times, one coordinator process |
| `BackupPromise` | abstract: what a reader of the audit trail relies on; implemented by `BackupRun` and by `FanOut` |
| `FanOut` | plan, prepare, one pod per unit, reconcile, under the shipped orchestrators |
| `AuditTrail` | `run` and `run-all` processes over lists of jobs and the sinks they share |
| `Beeline` | one beeline call: child, pipes, reader threads, queues, caller |
| `Retention` | `retention run-all`, composed with `Beeline`, against backups and the calendar |
| `Onboarding` | scaffold, `create-target`, `validate`, promotion and loads of one table |
| `GuardedRun` | `run_guarded.sh` and the tools of the commands it runs |
| `Host` | `GuardedRun` composed with deployment, rollback and teardown |
| `<M>Props` | the properties of module `M`, and the inductive invariants behind them |
| `<M>Proofs`, `LayoutProofs` | the theorems |
| `MC<M>` | the small instances TLC checks |

`BackupRun` and `FanOut` both extend `Layout`.  They are two ways to drive the same
`JobRunner` methods and are not composed: a job is run by one or by the other.  `Retention` extends
`Beeline` and `Host` extends `GuardedRun`; both share the state of what they extend.  The
others meet at an interface: what `BackupRun` does in thirty actions is one step of success, mismatch
or exception in `AuditTrail`, one write and one registration in `Retention`, and one `Load` in
`Onboarding`.

### Data

A *row* belongs to exactly one unit (`UnitOf`), the one whose `WHERE` clause selects it; a
unit is written to one path (`PathOf`), and load tables of a job share the path of a partition
value.  `obs[r]` counts the copies of row `r` in the files under its path: 0, 1, or 2 for *more
than one*; nothing in the code can tell two from three.  File names, SQL, JSON
and row contents are left out.  `Retention` needs only how much of a partition is there (`none`,
`some`, `all`); `Onboarding` counts scratch rows; in both an outside system misbehaves
as in the others, by *faults*, of which `FaultKinds` names the possible ones of an instance and
`MaxFaults` their number.

### BackupRun

| state | in the code |
|---|---|
| `phase` | where `run()` is; `idle` between runs |
| `mem` | `RunManifest.units` of the running process |
| `plan`, `pending`, `batch`, `todo`, `paths` | locals of `run`, `run_units`, `_run_batch`, `prepare`, `reconcile` |
| `srcCount`, `tgtCount` | the counts of `verify()` |
| `disk`, `kept`, `torn` | the manifest file: what `load_state` makes of it now, what it makes of it when the unterminated last line is spoiled by the next append, whether there is such a line |
| `csv` | rows in the unit's export files; `{}` when missing or empty |
| `obs`, `registered`, `audit`, `src` | OBS objects, metastore partitions, a success record, the Teradata rows |
| `orphan` | rows a JVM left behind by the timeout has yet to write |
| `vouched` | history: the audit trail's last word is a success and nobody has forced a run since |

| actions | in the code |
|---|---|
| `SkipRun`, `StartRun` | `run` 602-616: idempotency check, manifest (not under `--force`), plan, prepare's choice of paths (a path used by a unit that is already written is not cleared) |
| `ClearPath`, `ClearPathLeavesRows`, `DieClearing` | `delete_prefix`: whole; some keys answered with errors nobody reads; death between two requests |
| `BeginUnits`, `NextBatch` | `run_units`: written units are skipped, the others put into batches in plan order |
| `ReuseExport`, `ExportUnit`, `DieExporting`, `DieMarkingExported` | `_run_batch`: reuse of the CSVs of an earlier run, export, `mark_exported` |
| `DataxSucceeds`, `DataxDropsRows`, `DieWriting`, `AbandonDatax`, `OrphanLands` | the DataX run: success; success with rows lost within `error_limit`; failure after any part of the rows; timeout that leaves the JVM |
| `UnlinkCsv`, `MarkWritten`, `DieMarkingWritten` | the two loops after DataX, in that order |
| `EndUnits`, `RegisterPartition`, `RegisterFails` | `reconcile`: one `add_partition` per path |
| `CountSource`, `CountTarget`, `CountTargetFails` | `verify`: source scoped to the plan's values, then Hive |
| `RecordSuccess`, `RecordLost`, `RecordMismatch`, `ClearManifest` | the audit record and the manifest's removal after a success |
| `Crash` | death, or an exception of any call, between two of these steps |
| `SourceChanges` | the source is read three times by one run; rows come and go |

`force` is the one fault kind that is an operator's choice and not counted.

### FanOut

`step` is the workflow's position, `pod[u]` what the unit's pod has done (`exported`,
`written`, `reported`), `results[u]` its result file, `made` the paths that exist for
`hdfswriter`, `status` the verdict `reconcile` recorded for this workflow, or for the last one
when none is under way.  `ClearPath`, `ClearPathLeavesRows` (per-key errors that nobody reads), `PrepareDies`
and `FanOut` are `prepare`; `Export`, `Write`, `WriteResult` are
`run-unit`; `WriteRefused` is a missing path; `DieBeforeWritten` and `DieReporting` are pods
that fail with part or all of their rows already appended and no, or half, a result file; `Reconcile`,
`NoVerdict`, `Register`, `Verify` are `reconcile` and what the driver does when it cannot run.
Two variables are history: `surplus`, the rows OBS kept back from the last prepare of their path, and `withheld`, the
silent faults of the workflow under way that hide rows (`lie`: DataX loses some and reports success;
`register`: a partition is not added).
The drivers differ in four constants:

| | `Prepares` | `WaitsForAll` | `OneResultFile` | `MaxRetries` |
|---|---|---|---|---|
| `k8s/run-all.sh` | no | yes (`kubectl wait`, `set -e`) | no | `backoffLimit` 2 |
| Argo example | yes | no (`onExit`) | no | 0 unless configured |
| Airflow example | yes | no (`all_done`) | yes | task retries |

### AuditTrail

Each process `p` has a list of jobs `JobList[p]`, of length 1 for `run`, and a position `at[p]` in it;
`pc[p]` says whether it is building the runner, at work, in `record()` (`sink[p]` is the position
`CompositeAuditSink` has reached), or sending alerts (`pending[p]`: recipients to come).
`stored[s]` are the successes that can be read back from the JSONL file and from the SQL table,
`torn` an unfinished last line of the file, `told` and `missed` the alerts; `landed` and `lost` are
history: jobs with a verified success, and successes the JSONL file failed to keep.  `BuildFails`
includes the constructor of `SQLAuditSink`, which connects; `WorkRaises` is an exception of plan,
prepare, export or write, which never reaches `record()`; `JsonlFails`, `SqlFails` and `SendAlert`
have the failures that `CompositeAuditSink.record` and `_send` swallow.  `Equipped` are the processes whose Python
has `requests`; in the others `_send` raises and `record()` passes the alerting sink over (`EndAlert`).  A process dies at any
step (`Crash`), in the middle of a line if it was writing one.

### Beeline

`_run_command` line by line: the child prints into two pipes of `PipeSize` lines and blocks when one is
full; a thread per pipe moves lines to a queue and puts `None` (`End`) behind the last; the caller asks
the queues in turn (`TakeLine`, `PollTimesOut`) until both have ended, and only then waits for
the child with a timeout (`WaitReturns`, `WaitTimesOut`).  The child ends well, fails, closes its
pipes without exiting, or hangs with its pipes open.

### Retention

`step`, `dry`, `table`, `cutoff`, `listed`, `current`, `hadErrors` are the command's locals; `obs[t][d]`
and `part[t][d]` the objects and the metastore entry of table `t` for date `d`.  `List` reads the calendar
and the listing once per table; `KeepOrPretend` and `BeginExpiry` take the listed dates in order;
`DeleteObjects`, `DeleteLeavesObjects` (per-key errors that nobody reads), `DeleteFails` are
`delete_prefix`; the drop is a `Beeline` call whose effect on `part` is the child's, so that a call may
fail with or without it.  `Midnight`, `BackupLands` and `BackupRegisters` go on in between.
`reported`, `cut` and `refused` are history: dates whose error was printed, that were in work when
a command died, and whose keys OBS refused to delete.

### Onboarding

A column name is a column and a spelling, since some comparisons of the code ignore case and others do
not.  `types` (type codes of each column over the load tables) and `keyCase` (how the legacy
configuration spells the partition column) are fixed per behaviour; `table` is the real
table's column order, `files` the orders of the files under it, `draft` and `job` the YAML scaffolded
last and the one in `jobs/`.  `Scaffold` drafts from the Hive table if `table_exists` says there
is one, else from Teradata; `AskCreate`, `Create`, `CreateFails` are `create-target`, asked and executed
at different moments, with the draft that was loaded when it was asked; `StartValidate` to `Sweep` are
`validate` with its `try`, its verdict and its cleanup, whose deletions (`Deletes`) may return with keys refused
(`refused` is history: the units that kept rows); `Promote` and `Load` are what comes after.  `SpecOf`, `WrittenColumns`, `DdlColumns`,
`PlanRefuses` and `Resolve` are the five places where names and types are decided.

### GuardedRun and Host

`guard[i]`, `try[i]`, `slot[i]` are an invocation of the guard, the lock file its scan is at and the lock it
holds; `cmd[i]` the command it runs and `tool[i]` the process at the command's work: a TPT container
(`idle` once tbuild is done: the container does not exit by itself), then a DataX JVM.  The
command inherits the open lock file, so that a killed guard leaves its slot taken (`KillGuard`) until
the command ends (`CmdBecomes`).  Containers and JVMs outlive a command whose `docker run` or `docker rm`
exceeds its deadline, whose JVM does, or that is killed (`abandoned`).

`Host` adds the directories `dir[c][v]` of the app and the DataX distribution, the link `current[c]`, and
scripts as `<<name, component, version, step>>` of an operator: `StartDeploy`, `BeginExtract`,
`EndExtract`, `Check` (the import test, or the smoke test that writes and reads back), `Link`;
`StartRollback`; `StartTeardown`, `Confirm`, `Remove`; `ScriptDies`.  A command launches its JVM through the
link, unresolved (`LaunchJvm`), or finds no usable distribution there (`LaunchFails`); the JVM goes on
looking files up through the link, and may end in any way.  `Imports` are the app versions that import, `Writes` the
DataX versions that write real data, `Claims` those that say so; what else an app does is beyond its check
and beyond the model.  `risky` is history: what an operator did that no script prevents, namely redeploying the
current version and rolling back to something whose check never passed.

## 3. What is checked

The runs that must pass:

| run | instance | properties |
|---|---|---|
| `backup_private` | one load table, two values, both in one batch; nine kinds of fault, up to 4 | `TypeOK`, `NoRowLandsTwice`, `SuccessIsTruth`, `BackupInv`, `KeepsPromise` |
| `backup_shared` | two load tables, three units on two paths, batches of two; leftover JVM, incomplete delete, torn manifest, up to 3 faults | `WrittenMeansLanded`, `ReusedCsvIsWhole` |
| `backup_drift` | the source changes at any moment, up to 3 faults | `NoRowLandsTwice` |
| `backup_live` | a scheduler re-runs the job, up to 3 failures | `RunsEnd`, `EventuallySucceeds` |
| `fanout_once` | three pods, two on one path, prepare first, no retries, two workflows, 3 faults of five kinds | `OnlySurplusLandsTwice`, `CleanRunSucceeds`, `FanOutInv` (with `TypeOK`), `KeepsPromise` |
| `fanout_k8s` | no prepare (paths may exist from before), two retries, 3 faults (pods, counts) | `ReportedMeansLanded`, `VerdictIsHonest`, `WorkflowEnds` |
| `audit_trail` | `run-all` over two jobs and a forced `run` of one of them, three starts, only the first with `requests`, JSONL, SQL and two recipients, 3 faults of eight kinds | `TypeOK`, `ExitZeroMeansLanded`, `FirstSinkKnows`, `MismatchIsTold`, `ProcessesEnd` |
| `retention` | two tables kept 1 and 2 days, two dates, two midnights, two lines on stderr through a pipe of one, one fault of seven kinds | `TypeOK`, `DanglingIsReported`, `OutputIsWhole`, `OnlyExpiredIsLost`, `DropHidesNothing`, `ExpiredDataGoes` |
| `onboarding` | four columns with the partition columns between the others, three type configurations, both spellings, a table that exists in another order or none, two units, 2 faults of ten kinds | `TypeOK`, `PositionsAgree`, `PassIsEarned`, `ScratchIsCleared`, `TableStaysUnlessForced`, `ValidateEnds` |
| `host` | two invocations of one job, one or two slots, three versions (of DataX, one claims to write and does not; of the app, one imports), one operator, two scripts, one fault of seven kinds | `TypeOK`, `AtMostSlots`, `OneWriterPerJob`, `CurrentIsProven`, `EveryInvocationRuns` |

*The job and its pods*

* `NoRowLandsTwice`: however a job fails and is started again, no row is twice under its path.
* `OnlySurplusLandsTwice`: neither is it when pods append to shared paths at the same time, unless OBS kept a
  copy back from the prepare before, in per-key errors that `delete_prefix` does not read.
* `SuccessIsTruth`: under a recorded success Hive shows every row exactly once.  It rests on a
  sum of counts, which is conclusive only because no row is there twice.
* `KeepsPromise`: `BackupRun` implements `BackupPromise`, and so do the workflows of `FanOut`; in
  particular a success is recorded over a whole table only, and no step of a later run, and no pod,
  touches the table under it.  For `FanOut` a success is exempt that two silent faults mask: rows kept back from prepare
  make up in the sums for rows that DataX or the metastore withheld (`Masked`).
* `WrittenMeansLanded`: what the manifest calls written is in storage, so skipping it loses nothing.
* `ReusedCsvIsWhole`: the files DataX gets are complete exports, also when they were reused.
* `RunsEnd`, `EventuallySucceeds`: runs end; with finitely many failures and re-runs the job succeeds for good.
* `ReportedMeansLanded`, `VerdictIsHonest`, `CleanRunSucceeds`, `WorkflowEnds`: the same
  questions for pods: no pod takes another's rows away, a success covers the plan (unless `Masked`), a
  workflow without faults succeeds, and every workflow ends.

*Processes and their audit trail*

* `ExitZeroMeansLanded`: exit code 0 means that every job of the process has had a verified success.
* `FirstSinkKnows`: `find_success` asks one sink; a success that another one has is known to it, unless it
  failed to store that line itself.
* `MismatchIsTold`: when `record()` of a mismatch is over, each recipient has been sent the alert or the
  gateway refused it, whatever the sinks in front did; in a Python with `requests`.
* `ProcessesEnd`: no failing job, sink or gateway keeps a process from the end of its list.

*Retention and beeline*

* `OnlyExpiredIsLost`: no step takes anything from a partition that is young on the day of the step, and a
  dry run takes nothing.
* `DropHidesNothing`: objects first, then the entry: no drop hides a whole partition unless OBS refused the
  deletion in an answer that nobody reads.
* `DanglingIsReported`: an entry over missing data is in work, was reported, or was left by a death.
* `OutputIsWhole`: a beeline call that ends well has handed over every line of both streams in order.
* `ExpiredDataGoes`: expired objects go, whatever fails finitely often, except behind a beeline that hangs.

*Onboarding*

* `PositionsAgree`: every file holds each of the table's columns at the table's position.
* `PassIsEarned`: PASS means that there was a row, and that each attempted unit is there with exactly its rows, whatever
  earlier validations left behind, unless OBS refused unnoticed to delete some of that before the load.
* `ScratchIsCleared`: a validate whose cleanup did not fail leaves no scratch table, and no objects but those OBS refused
  to delete just then.
* `TableStaysUnlessForced`: no step but a forced `create-target` changes a table or takes its partitions.
* `ValidateEnds`: a validate comes to its end through its cleanup.

*Host*

* `AtMostSlots`: never more commands at work than slots, also when guards are killed.
* `OneWriterPerJob`: with one slot, two processes write one job's files only if a kill or a timeout
  left one of them behind.
* `CurrentIsProven`: what `current` points at is whole, an app there imports and a DataX there writes real data, unless an
  operator rolled back to something unproven or redeployed the current version.
* `EveryInvocationRuns`: every invocation gets its turn.

### Where the code does something else than its documentation

Two runs are expected to violate a sentence of the repository.

| run | violated | what happens |
|---|---|---|
| `resume_shared_path` | `NoRowLandsTwice` | Two load tables share a path.  The batch of one is written, that of the other fails after appending rows.  The re-run does not clear the path (one unit on it is written) and appends the rows again. README.md:366 calls re-runs safe by construction. |
| `create_unforced` | `TableStaysUnlessForced` | DESCRIBE fails for a table that exists, `table_exists` answers False, and `create-target` without `--force` drops and recreates the table.  cli.py:456 says it refuses to touch an existing table. |

The same modules show the following when constants of a configuration are changed as given.

In `BackupRun` (the instance of `backup_drift` unless something else is said):

* `ReusedCsvIsWhole` with `{"crash","export"}`: a re-export dies under an older `exported` entry; what
  it left is not empty and is taken for a complete export (job_runner.py:404-410).
* `WrittenMeansLanded` with `{"force","crash"}`: `--force` leaves the old
  manifest in place, whose `written` entries outlive the data a forced run clears.  Under the same
  faults a forced run over a successful date may clear and die, and bare re-runs are then skipped as already
  succeeded over an empty table.
* `SuccessIsTruth` over shared paths with `{"datax","register"}` and `BatchSize = 1`: a row too many at
  one path hides rows that another, unregistered path does not show.
* `EventuallySucceeds` (`FairSpec`) with `{"lie"}`: rows lost within the error limit are never redone, since the
  unit is marked written before the counts are compared; only `--force` helps, while README.md:249 speaks of
  self-healing.
* `job_runner.py` unlinks the CSVs of a batch before `mark_written`, while README.md:371 deletes them
  after verification; a death in between costs a re-export.
* The comment at `run_manifest.py:69-72` says a torn last line loses that one event.  The next event is
  appended to the same line and is lost as well; what follows from
  it is a repeated export or write, not lost data.

In `FanOut` (the instance of `fanout_once`, with `MaxRuns = 1` except for the first):

* `VerdictIsHonest` and `KeepsPromise` without `Masked`, with `{"delete","lie"}` or `{"delete","register"}`: `delete_prefix`
  returns normally over per-key errors (obs_client.py:108-113), so the second workflow appends to rows of the first.
  Without another fault the sums differ and a mismatch is recorded; with as many rows lost as are there twice they
  agree, and a success is recorded over a wrong table.
* `OnlySurplusLandsTwice` with `MaxRetries = 2` and `{"pod"}`: a pod fails after its rows were appended; its retry
  appends them again.
* `VerdictIsHonest` with `WaitsForAll = FALSE` and `{"pod"}`: a failed pod has no result file, so its value is
  missing from both counts; success is recorded.
* `VerdictIsHonest` with `OneResultFile = TRUE` and `WaitsForAll = FALSE`, without faults: the Airflow example's
  tasks overwrite one result file, and reconcile judges the last one alone.
* `CleanRunSucceeds` with `Prepares = FALSE` and no faults: `run-all.sh` has no prepare step; `hdfswriter`
  refuses the missing paths and a workflow in which nothing fails ends without a success.

In `AuditTrail`, `Retention`, `Onboarding` and `Host`:

* No alert is sent for a run that raises (`WorkRaises`, `BuildFails`): they end before `record()`, although
  alerting_sink.py:2 "fires an alert for any run that didn't succeed".  The exit code tells,
  which is why `ExitZeroMeansLanded` matters.
* A sink "must never block the others or the run itself" (audit/__init__.py:66-67), but `SQLAuditSink`
  connects in its constructor: a database that is down fails every job (`BuildFails`).
* `DropHidesNothing` with `Backfill = TRUE`: a backup of an expired date may land between the deletion
  and the drop.
* Per-key errors of `delete_objects` are not read (obs_client.py:108-113), so retention drops the entry over
  data that is all there and reports success; retention.py:19-22 means to leave the entry in
  that case.
* The alerting sink imports `requests` outside the `try` of `_send` (alerting_sink.py:69), and pyproject.toml does not
  ask for it.  Where it is missing, the first recipient's ImportError ends the alert for all of them, and
  `CompositeAuditSink` only logs it; `MismatchIsTold` is about `Equipped` processes.
* A beeline that hangs with its pipes open is never timed out: the timeout is applied after both pipes have
  ended (partition_registrar.py:253).  `ExpiredDataGoes` names it as the exception.
* `PositionsAgree` with `NewSpellings = {"upper","lower"}`: build_job_json leaves out the
  partition column only where it is spelled as in the spec (job_spec.py:96-107), while the DDL leaves it out
  however spelled, so a file holds a column that the table does not.  The same comparison lets a VARCHAR partition
  column past its check (job_runner.py:240-248).
* `PassIsEarned` with `BatchSize = 2`: DataX's count is spread over the units of a batch by integer division
  (job_runner.py:462); with a row lost the sum of the shares may agree with Hive's count.
* `PassIsEarned` without `refused = {}`: rows that `--keep-scratch` left and OBS refused to delete in the next validate's
  prepare make up for as many rows that DataX loses, and validate says PASS.  Likewise
  `ScratchIsCleared` cannot say more than that a refused key stays: validate does not hear of it.
* `ScratchIsCleared` with `LowerTableName = FALSE`: cleanup deletes under the table's name as spelled
  (cli.py:569, 664), the data lies under its lower-case form (jobspec.py:36-44).
* `TableStaysUnlessForced` with two `Creators`: one asks while the table does not exist yet, the other makes
  it, the first one replaces it.
* `create-target --force` drops the partition entries of the table along with its definition; the premise
  `halfReplaced` of `PositionsAgree` is a replacement that ended between DROP and CREATE.
* `CurrentIsProven` with two `Operators`: teardown looks at `current` before it asks
  for confirmation and removes afterwards; a rollback or deployment in between makes the doomed version
  current.
* A JVM does not run from one version: `resolve_datax_home` returns the link unresolved (distribution.py:60-63) and
  the runner starts `<current>/bin/datax.py` (runner.py:82).  A script that moves the link, or removes what it
  pointed at (deploy_datax_dist.sh:45), while a load runs mixes versions or takes files away from it; no script and no
  lock keeps them apart.  The model lets such a JVM end in any way and promises nothing of it.

### Bounds

Two or three units, two paths and three rows make every case that the code
distinguishes: two rows of one unit (a write that stops in the middle), two units in one batch, two units of
different tables on one path, a second path.  A third copy of a row is not told from a second.  The number of
re-runs is not bounded in `BackupRun`; in `FanOut`, `MaxRuns` bounds the workflows, in `AuditTrail`, `MaxStarts` the
processes, in `Host`, `MaxScripts` the scripts.  `AuditTrail` has a process with two jobs, so that a failure of
the first is followed by another job, and a concurrent process at the second, so that lines meet in one
file.  `Retention` needs two tables with different retention (a cutoff carried from one to
the next) and three days (a date young at the first listing, expired at the second); stderr has one line more than its
pipe while stdout is silent, the case in which reading one pipe after the other deadlocks.
`Onboarding` has the partition columns between data columns, so that positions shift when one is
left out.  `Host` needs two invocations for a race and two scripts for a race of a script with a link
that another has moved.

`MaxFaults` is 1 to 4.  Each divergence above needs at most two faults; the runs that pass with one fault,
`retention` and `host`, are those where faults of different actors multiply the states and where the theorems of
section 4 cover the safety properties for every number of them.

Which faults a passing run allows is part of its claim.  `backup_private` leaves out
`orphan`, `delete` and `drift`, with which `SuccessIsTruth` is false; `backup_shared` leaves out `force` and
`export`, whose effects on its two properties are the divergences above; `fanout_k8s` leaves out `lie` and `register`, with which retried pods can end in a false success, and `delete`, since
there is no prepare; `fanout_once` has them all.  `onboarding` leaves out
`describe`, which is the run `create_unforced`.

`CHECK_DEADLOCK FALSE` in the configurations of `AuditTrail`, `Retention`, `Onboarding` and `Host`: processes exit and are
not started again beyond their bound, the calendar ends, operators stop.

### Fairness

* `BackupRun`: weak fairness on `Step`, the coordinator's own next step (a live process goes on; its calls
  return), and on the unforced `StartRun` (cron or a DAG starts the job daily until it succeeds).
* `FanOut`: weak fairness on the pods and steps of the workflow as a whole and on starting it.
* `AuditTrail`: weak fairness on the next step of each process; starting one is nobody's duty.
* `Retention`: weak fairness on the calendar, on the command's own steps, on the child's printing and success, on
  each reader thread and on the caller; strong fairness on starting the command without dry run, since
  dry runs may come in between, and cron starts it nevertheless.
* `Onboarding`: weak fairness on the steps of a validate that has started.  Operators owe nothing.
* `Host`: weak fairness for each invocation.  Invocations are started once and their commands end, so that a
  scan that comes round again finds a slot in the end.

No fault is fair.  `EventuallySucceeds` also needs `MaxFaults`: a system that fails forever never succeeds.

## 4. What is proved

Every theorem holds for all values of the constants that satisfy the assumptions of its module (any number of
units, rows, paths, processes, tables, dates, invocations, versions; any bound and any fault kinds), and under
what the last column says.

| module | theorem | states | under |
|---|---|---|---|
| `BackupRunProofs` | `TypeCorrect` | `[]TypeOK` | |
| | `NoDuplicates` | `[]NoRowLandsTwice` | paths are private; no `orphan`, no `delete` fault |
| | `SuccessTheorem`, `BackupCorrect` | `[]SuccessIsTruth`, `[]BackupInv` | the same, and no `drift` |
| | `Implementation` | `KeepsPromise` | the same |
| | `SuccessOverSharedPaths`, `ImplementationOverSharedPaths` | `[]SuccessIsTruth`, `KeepsPromise` | paths shared or not; `ReliableManifest` (below), no `orphan`, no `register` |
| | `RunsEndInTime` | `RunsAreBounded` | |
| | `WrittenHasLanded`, `CsvsAreWhole` | `[]WrittenMeansLanded`, `[]ReusedCsvIsWhole` | `ReliableManifest`: no `export`, `drift`, `lie`, `force`; paths shared or not |
| `FanOutProofs` | `TypeCorrect` | `[]TypeOK` | |
| | `NoDuplicates` | `[]OnlySurplusLandsTwice` | prepare first, no retries (so for the Argo example, whatever its reconcile reads) |
| | `FanOutCorrect`, `HonestVerdict`, `Implementation` | `[]FanOutInv`, `VerdictIsHonest`, `KeepsPromise` | the same; reconcile waits for all pods, one result file each |
| | `HonestVerdictOverRetries`, `ImplementationOverRetries` | `VerdictIsHonest`, `KeepsPromise` | reconcile waits for all pods, one result file each; no `lie`, no `register`; any retries, prepared or not |
| | `WorkflowsEndInTime` | `WorkflowsAreBounded` | |
| | `CleanRunsSucceed` | `[]CleanRunSucceeds` | prepare first, no retries, one result file each (the Argo example again), and something is planned |
| | `ReportsAreTrue` | `[]ReportedMeansLanded` | no `lie`; any retries, prepared or not |
| `AuditTrailProofs` | `TypeCorrect`, `TrailCorrect` | `[]TypeOK`, `[]TrailInv` | |
| | `ExitCodeIsHonest` | `[]ExitZeroMeansLanded` | |
| | `AskingOneSinkSuffices` | `[]FirstSinkKnows` | |
| | `NoMismatchGoesUntold` | `MismatchIsTold` | |
| `RetentionProofs` | `RetentionTypes`, `RetentionCorrect` | `[]TypeOK`, `[]RetentionInv` | |
| | `NoSilentDangling` | `[]DanglingIsReported` | |
| | `BeelineLosesNothing` | `[]OutputIsWhole` | |
| | `NobodyWaitsOnEverybody` | `[]CallMoves` | |
| | `CallsEndOrPoll` | `CallsWindDown` | |
| | `RetentionIsKept` | `OnlyExpiredIsLost` | |
| | `DropsComeLast` | `DropHidesNothing` | `Backfill = FALSE` |
| `HostProofs` | `HostTypes`, `HostCorrect` | `[]TypeOK`, `[]HostInv` | |
| | `SlotsBoundTheHost` | `[]AtMostSlots` | |
| | `OneSlotKeepsWritersApart` | `[]OneWriterPerJob` | |
| | `CurrentStaysProven` | `[]CurrentIsProven` | one operator |
| `OnboardingProofs` | `TypeCorrect` | `[]TypeOK` | |
| | `FilesFitTheTable` | `[]PositionsAgree` | `FaithfulNames`: no `describe`, a partition column only Teradata knows is spelled as there |
| | `PassesAreEarned` | `[]PassIsEarned` | `BatchSize = 1` |
| | `TablesStay` | `TableStaysUnlessForced` | one creator, no `describe` |
| | `ValidateCleansUp` | `[]ScratchIsCleared` | the table's name is in lower case |

`LayoutProofs` and `BeelineProofs` hold lemmas for these.  The side conditions are needed: each excludes a
divergence of section 3, except those of `NoDuplicates` for `BackupRun`, where rows that an incomplete delete leaves
or a leftover JVM adds are there twice after the next write, and `orphan` wherever it is excluded for a success: a
leftover JVM may append to a table that has been verified.

*`BackupRun`, private paths.*  `NoRowLandsTwice` alone is not inductive: a write could hit a path that
holds rows.  `DupInv` adds that the targets of everything yet to be written are empty
(`TargetsAreEmpty`): in `prepare` for every path that is not waiting to be cleared, later for
every pending unit, and for the batch until DataX runs.  Private paths are what lets clearing one path, or
skipping it, speak of one unit.  `BackupInv` then adds that the counts are those of the table
as it is (`CountsAreCurrent`) and that a success is only on record while the process is idle or
about to remove its manifest.  Lemma `EqualCountsMeanComplete` of `LayoutProofs` closes the
gap between equal counts and equal contents: if no row counts twice, as many
visible rows as source rows means all of them.  `ZeroCountMeansNoRows` does the same for
the 0 of a failed query.  Refinement follows step by step: only `RecordSuccess` is `Vouch`, a forced start is
`Reopen`, everything that changes the table happens while nothing is vouched for.

*`BackupRun`, shared paths.*  `ResumeInv` is another invariant, for any sharing and with deaths, torn lines, incomplete
deletes and JVMs left behind.  `ManifestHolds` orders the three views of a unit: a line that
survives tearing is in the file, what the file calls written has landed and is written in memory too, and prepare has no
path of a written unit to clear.  That last point is the reason why skipping is per path and not
per unit.  `LoopHolds` keeps the two loops after DataX from marking what the batch did not write, `CsvHolds` says that
files are whole or gone.

A success over shared paths has an argument of its own, since rows may be there twice.  `CompleteInv` adds to `ResumeInv`
that each planned unit is waiting to be written, in the batch, or has landed (`WrittenHolds`, `NothingIsLeftOut`), and
that its path is registered before verify counts.  So no row is missing when the counts are compared, and lemma
`EqualCountsMeanOnce` concludes the other way round: if every source row counts at least once, equal sums leave room for
no second copy.  A registration that fails would hide rows that a second copy elsewhere makes up for; that is why
`register` is excluded.

*`FanOut`.*  `FanOutInv` says that what a pod may still write is not there yet, or is `surplus` (`PodsAppendOnce`), and that
reconcile has a whole result of every planned unit (`ReportsAreKept`); pods on one path do not disturb each other because
they append disjoint rows and only `prepare` clears.  With retries, duplicates appear but nothing is lost: `RetryInv`
keeps only that a pod which has written has landed.  `CleanInv` follows a workflow without faults through its steps: paths are
made, rows are written, results are whole, partitions are registered.  `VerdictInv` is what a verdict over retried pods
needs: a result file, once whole, stays, and a partition counted has been added; with no planned row missing,
`EqualCountsMeanOnce` again excludes the duplicates that retries leave, so that a success is true and duplicates end
in a mismatch.  For the refinement `PromiseInv` adds that a workflow under way has no verdict; its first step is the
`Reopen` of the promise, its last one the only `Vouch`, and all pods work in between.

*Termination.*  `RunsEnd`, `WorkflowEnds` and the calls inside `ExpiredDataGoes` need fairness, which says that enabled
steps are taken; that they cannot be taken for ever is safety, and proved.  `RunsAreBounded` and `WorkflowsAreBounded`
say that a number (`StepsLeft`), fixed when a run or a workflow starts by what it plans and may retry, falls with every
step of it, whatever fails.  `CallsWindDown` says so of a beeline call except for polls that find nothing, and
`CallMoves` that until the call ends somebody can make such a step: a full pipe has a thread that reads it, and an open
stream whose thread is done has its end in the queue.  The one exception is a child that hangs.

*`AuditTrail`.*  `PositionsHold` (a process that counts no failure has passed only landed jobs), `SuccessesHold` (a success on
its way through the sinks has landed, and behind the first sink it is stored there or lost), `AlertsHold` (the
recipients not pending have been dealt with, in an `Equipped` process).  None of it depends on what other processes do to the last line of the
file, which may turn a success into a lost one and never into a false one.

*`Beeline` and `Retention`.*  `InOrder` says for each stream that what the caller has, followed by the queue, followed by the
pipe, is a prefix of what the child prints; `EndsHold` that the end marker is the last entry of the queue of a thread
that is done.  Together with `CallHolds` a successful call has everything.  `BeelineInv` is proved once for the steps
of `Beeline` and reused in `RetentionInv`, which adds that the date in work had expired
when its table was listed, hence has expired now (`ExpiryHolds`), and what the drop may find (`DropHolds`).

*`GuardedRun` and `Host`.*  `SlotsHold`: a command at work holds a slot, and no two invocations hold the same one; the
bound on commands is the cardinality of an injective image (lemma `SlotsBoundCommands`).  `ToolsHold`: a process that writes
belongs to a command at work or was abandoned.  `DeployHolds`, for one operator: what is current has been proven, a
script works on a version that is not current, and what it links has been proven.

*`Onboarding`.*  Without a failing DESCRIBE an unforced request is pending only while there is no table (`TablesStay`); the
sweep takes the whole scratch prefix, with what earlier validations left under it, but for keys refused
(`ValidateCleansUp`).
Columns: some order `o`, that of the Hive table or that of Teradata without the partition columns, is the table's, and every
spec is the one drafted from `o`, and every file begins with `o` (`ColumnsInv`); a replaced or promoted spec cannot leave `o`,
because re-scaffolding reads it back from the table.  A PASS: while a validate works, the first `n` units are loaded, what is
counted is the sum of the first `w`, and a row lost shows as one unit below its rows (`Progress`, `CountsInv`); equal totals
then exclude a loss, because a sum whose terms are nowhere larger and somewhere smaller is smaller.  Both rest on lemmas
about filtered lists and sums of lists, which are proved from the definitions: the functions in `SelectSeq` and in the sum
are exhibited for every length by the principle that a set of numbers with 0 and all successors is `Nat`.

Only model-checked: the liveness properties (`RunsEnd`, `EventuallySucceeds`, `WorkflowEnds`, `ProcessesEnd`,
`ExpiredDataGoes`, `ValidateEnds`, `EveryInvocationRuns`), since fairness and `ENABLED` are outside what the prover handles.
Every invariant and every action property that a passing run checks is a theorem, under the hypotheses listed;
what a run checks beyond them is the same property with a fault that the hypotheses exclude, on its instance.
`CompleteInv`, `VerdictInv`, `PromiseInv`, `RunsAreBounded`, `WorkflowsAreBounded`, `CallMoves` and `CallsWindDown` hold by
theorem for all instances and are in no configuration; a configuration that checks them is made by naming them in
`backup_shared.cfg`, `fanout_once.cfg`, `fanout_k8s.cfg` or `retention.cfg`.

## 5. What is not modelled

* Two coordinators for one (job, date) inside `BackupRun`: nothing in the code excludes them; there, the model has
  one.  `AuditTrail` has concurrent processes over one job, `Host` the case that two of them write its files.
* `--row-limit`: the `TOP` that it adds to the export (reader.py:166) is left out of `BackupRun` and `FanOut`; only validate
  has it, in `Onboarding`'s `Rows`.  A limited run writes the same manifest entries and OBS files as a full one and ends in a mismatch when there
  are more rows than the limit, after which an unforced full run finds its units written, skips them and ends in a
  mismatch again, until it is forced.
* Result files left over by the workflow of another date; `repair_table`, which no command calls.
* `ObsUploader` in `reader.py` and the OpenLineage sink: wired in by no command.
* `classify_legacy_tables.py` and `list-jobs`: they read and print.
* The build and packaging scripts of the DataX distribution: they work on a developer's machine and keep no state; what
  a launch finds under `current` is `Host`'s.
* Generated text (TPT scripts, DataX JSON, SQL, DDL, job YAML) beyond the columns, their order and their spelling;
  column lengths and casts.
* Row contents: two rows are either the same row or not.
* Time, except as the order of things: a timeout is a fault that may strike while what it limits is under way.

## 6. Where to go on

1. `BackupRun` with a second coordinator for the same (job, date): which of its properties survive, and what a lock
   per (job, date) would restore.
2. `Manifest`: the JSONL file as a sequence of lines, shown to implement the `disk`/`kept`/`torn` abstraction of
   `BackupRun`.
3. `NoRowLandsTwice` over shared paths under the condition that no batch splits a path; a death between two marks of
   one batch has to be excluded as well, since it leaves a path half written in the manifest.
4. `FanOut` with the result files of earlier dates in the same directory.
5. The step from the bounds of section 4 to the liveness properties, with a prover that handles `ENABLED`.
