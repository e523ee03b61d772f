------------------------------ MODULE Onboarding ------------------------------
(***************************************************************************)
(* A table's way into jobs/: scaffold_job.py drafts a job spec from the    *)
(* legacy configuration, `create-target` makes the real Hive table from a  *)
(* draft, `validate` proves a draft on a scratch table, the operator       *)
(* promotes it and runs load the table (BackupRun has their phases).       *)
(*                                                                         *)
(* A column name is <<column, spelling>>: Hive and Teradata ignore the     *)
(* spelling, some comparisons of the code do not.  hdfswriter writes       *)
(* columns by position and Hive reads them back by position.               *)
(***************************************************************************)
EXTENDS Integers, Sequences, FiniteSets

CONSTANTS
  TdColumns,      \* the source's columns in the order of DBC.ColumnsV
  HiveOrders,     \* orders of a Hive table that may exist already
  Key, Static,    \* the dynamic partition column, the static ones
  TypeChoices,    \* [columns -> set of type codes over the load tables]
  KeySpellings,   \* how the legacy configuration may spell Key ...
  NewSpellings,   \* ... and may spell it when there is no Hive table yet
  Units, Rows,    \* validate's units in plan order; Rows[u]: rows it exports
  Limits,         \* values of --partition-limit
  BatchSize,      \* units per DataX run (max_channels_per_job)
  LowerTableName, \* the spec's table_name has no upper case (scaffolded ones have not)
  Creators,       \* operators who may run create-target
  NoTable, NoSpec,
  FaultKinds,     \* what the environment of this instance may do
  MaxFaults       \* bound on how often it does

AllFaults == {"describe", "ddl", "source", "datax", "lose", "register", "count",
              "drop", "delete", "keys", "crash"}
UnitSet == {Units[i] : i \in 1..Len(Units)}
Columns == {TdColumns[i] : i \in 1..Len(TdColumns)}
Spellings == {"upper", "lower"}

ASSUME OnboardingAssumption ==
  /\ TdColumns \in Seq(Columns) /\ Key \in Columns /\ Static \subseteq Columns \ {Key}
  /\ HiveOrders \subseteq Seq(Columns \ {Key}) /\ NoTable \notin HiveOrders
  /\ KeySpellings \cup NewSpellings \subseteq Spellings
  /\ Units \in Seq(UnitSet)
  /\ \A i, j \in 1..Len(Units) : Units[i] = Units[j] => i = j
  /\ Rows \in [UnitSet -> Nat] /\ Limits \subseteq Nat \ {0}
  /\ BatchSize \in Nat \ {0} /\ LowerTableName \in BOOLEAN
  /\ MaxFaults \in Nat /\ FaultKinds \subseteq AllFaults

VARIABLES
  types, keyCase, \* of this table, fixed
  table,          \* the real table's data columns in order, or NoTable
  registered,     \* the partitions of the loads are in its metastore entry
  files,          \* column orders of the files under its location
  draft, job,     \* the YAML scaffolded last; the one in jobs/
  creating,       \* creating[c]: NoSpec, or the spec c loaded and whether with --force
  vstep,          \* where validate is; "off", "ended" (all cleared) between
  attempted,      \* the units of this validate
  toWrite,        \* those DataX has not been run for
  verdict,        \* "none", "PASS" or "FAIL" for the draft
  keep,           \* --keep-scratch
  scratch,        \* the scratch table: NoTable, or the units registered in it
  scratchObs,     \* rows under each unit's scratch path
  reported,       \* DataX's own count
  refused,        \* history: units of which the last delete kept rows unnoticed
  halfReplaced,   \* history: a forced DROP was not followed by its CREATE
  faults

tableVars    == <<table, registered, files, halfReplaced>>
specVars     == <<draft, job>>
request      == <<attempted, toWrite, keep>>
counts       == <<reported, refused>>
validateVars == <<vstep, request, scratch, scratchObs, counts>>
vars == <<types, keyCase, tableVars, specVars, creating, validateVars, verdict, faults>>

Fault(kind) ==
  kind \in FaultKinds /\ faults < MaxFaults /\ faults' = faults + 1

Ids(names)   == [i \in DOMAIN names |-> names[i][1]]
RangeOf(s)   == {s[i] : i \in DOMAIN s}

Total(numbers) ==
  LET upTo[i \in 0..Len(numbers)] == IF i = 0 THEN 0 ELSE upTo[i-1] + numbers[i]
  IN  upTo[Len(numbers)]

AppendUnless(s, e, out) == IF e \in out THEN s ELSE Append(s, e)
Without(s, out) ==
  LET kept[i \in 0..Len(s)] ==
        IF i = 0 THEN <<>> ELSE AppendUnless(kept[i-1], s[i], out)
  IN  kept[Len(s)]

\* what the registered paths of the scratch table hold
Held(u)      == IF u \in scratch THEN scratchObs[u] ELSE 0
ScratchCount == Total([i \in 1..Len(Units) |-> Held(Units[i])])

----------------------------------------------------------------------------
(* types and columns *)

\* resolve_column_types, for the type codes of one column in all load tables
Resolve(codes) ==
  CASE codes \cap {"D", "F", "N"} # {}            -> "FLOAT"
    [] codes \cap {"DA", "TS", "SZ"} # {}         -> "VARCHAR"
    [] codes \subseteq {"I", "I1", "I2", "I8"}    -> "INTEGER"
    [] codes \subseteq {"CV", "CF"}               -> "VARCHAR"
    [] OTHER                                      -> "unsupported"

Resolves(names) ==
  \A n \in RangeOf(names) :
    /\ n[1] \in Columns /\ types[n[1]] # {} /\ Resolve(types[n[1]]) # "unsupported"

\* DESCRIBE lists the partition columns behind the data columns, in lower case
RealSourceColumns ==
  [i \in 1..Len(table) + 1 |->
     <<IF i <= Len(table) THEN table[i] ELSE Key, "lower">>]

TeradataSourceColumns ==
  Without([i \in 1..Len(TdColumns) |-> <<TdColumns[i], "upper">>], Static \X {"upper"})

\* what _render_yaml writes and load_jobspec reads
SpecOf(columns) == [columns |-> columns, dynamic |-> <<Key, keyCase>>]

\* build_job_json leaves out a column spelled exactly as the partition
WrittenIgnoringKey(spec) == Ids(spec.columns)           \* mutant
WrittenColumns(spec) == Ids(Without(spec.columns, {spec.dynamic}))

DdlColumnsAll(spec) == Ids(spec.columns)                \* mutant
\* create-target and validate leave it out however it is spelled
DdlColumns(spec) == Ids(Without(spec.columns, {spec.dynamic[1]} \X Spellings))

\* _partition_value_scopes: a VARCHAR partition column is refused, if it is found
PlanRefuses(spec) ==
  spec.dynamic \in RangeOf(spec.columns) /\ Resolve(types[Key]) = "VARCHAR"

Init ==
  /\ types \in TypeChoices
  /\ \/ table = NoTable /\ keyCase \in NewSpellings
     \/ table \in HiveOrders /\ keyCase \in KeySpellings
  /\ registered = FALSE /\ files = {} /\ halfReplaced = FALSE
  /\ draft = NoSpec /\ job = NoSpec
  /\ creating = [c \in Creators |-> NoSpec]
  /\ vstep = "off" /\ attempted = <<>> /\ toWrite = <<>> /\ keep = FALSE
  /\ scratch = NoTable /\ scratchObs = [u \in UnitSet |-> 0] /\ reported = 0
  /\ refused = {}
  /\ verdict = "none" /\ faults = 0

----------------------------------------------------------------------------
(* scaffold_job.py *)

\* table_exists answers False when DESCRIBE fails, for whatever reason
Seen(exists) ==
  \/ exists = (table # NoTable) /\ UNCHANGED faults
  \/ ~exists /\ table # NoTable /\ Fault("describe")

DraftAs(columns) ==
  /\ Resolves(columns)
  /\ draft' = SpecOf(columns) /\ verdict' = "none"
  /\ UNCHANGED <<types, keyCase, tableVars, job, creating, validateVars>>

Scaffold ==
  /\ vstep \in {"off", "ended"}
  /\ \/ Seen(TRUE)  /\ DraftAs(RealSourceColumns)
     \/ Seen(FALSE) /\ DraftAs(TeradataSourceColumns)

----------------------------------------------------------------------------
(* create-target *)

MayReplaceAlways(exists, force) == TRUE                 \* mutant
MayReplace(exists, force) == force \/ ~exists

AskCreate(c) ==
  /\ creating[c] = NoSpec /\ draft # NoSpec
  /\ \E exists, force \in BOOLEAN :
       /\ Seen(exists) /\ MayReplace(exists, force)
       /\ creating' = [creating EXCEPT ![c] = [spec |-> draft, forced |-> force]]
  /\ UNCHANGED <<types, keyCase, tableVars, specVars, validateVars, verdict>>

\* DROP TABLE IF EXISTS takes the metastore's partitions along, the files stay
Create(c) ==
  /\ creating[c] # NoSpec
  /\ IF Resolves(creating[c].spec.columns)
       THEN table' = DdlColumns(creating[c].spec) /\ registered' = FALSE
       ELSE UNCHANGED <<table, registered>>
  /\ creating' = [creating EXCEPT ![c] = NoSpec]
  /\ UNCHANGED <<types, keyCase, files, halfReplaced, specVars, validateVars,
                 verdict, faults>>

\* beeline fails before the DROP, or between it and the CREATE
CreateFails(c) ==
  /\ creating[c] # NoSpec /\ Fault("ddl")
  /\ \/ UNCHANGED <<table, registered, halfReplaced>>
     \/ /\ table' = NoTable /\ registered' = FALSE
        /\ halfReplaced' = (halfReplaced \/ table # NoTable)
  /\ creating' = [creating EXCEPT ![c] = NoSpec]
  /\ UNCHANGED <<types, keyCase, files, specVars, validateVars, verdict>>

----------------------------------------------------------------------------
(* validate *)

Unmoved == <<types, keyCase, tableVars, specVars, creating>>

\* validate's process ends: what it held is gone
Ends ==
  /\ attempted' = <<>> /\ toWrite' = <<>> /\ keep' = FALSE /\ reported' = 0
Quits == Ends /\ vstep' = "off" /\ refused' = {}

FirstOf(s, n) == SubSeq(s, 1, IF n < Len(s) THEN n ELSE Len(s))

\* the scratch table is dropped and created, from a draft that resolves
StartValidate(limit, kept) ==
  /\ vstep \in {"off", "ended"} /\ draft # NoSpec /\ Resolves(draft.columns)
  /\ scratch' = {} /\ vstep' = IF PlanRefuses(draft) THEN "cleanup" ELSE "prepare"
  /\ attempted' = FirstOf(Units, limit) /\ toWrite' = FirstOf(Units, limit)
  /\ keep' = kept /\ reported' = 0 /\ refused' = {} /\ verdict' = "none"
  /\ UNCHANGED <<Unmoved, scratchObs, faults>>

\* outside the try: nothing is cleaned up
ScratchDdlFails ==
  /\ vstep \in {"off", "ended"} /\ draft # NoSpec /\ Resolves(draft.columns)
  /\ Fault("ddl") /\ Quits /\ scratch' \in {scratch, NoTable} /\ verdict' = "none"
  /\ UNCHANGED <<Unmoved, scratchObs>>

\* what a delete that does not reach or is refused some keys may leave under paths us
Leftovers(us) ==
  {left \in [us -> UNION {0..scratchObs[u] : u \in us}] : \A u \in us : left[u] <= scratchObs[u]}
Leaves(left) ==
  scratchObs' = [u \in UnitSet |-> IF u \in DOMAIN left THEN left[u] ELSE scratchObs[u]]

\* delete_prefix of us returns; nobody reads the errors of single keys
Deletes(us) ==
  \/ Leaves([u \in us |-> 0]) /\ refused' = {} /\ UNCHANGED faults
  \/ /\ Fault("keys")
     /\ \E left \in Leftovers(us) :
          Leaves(left) /\ refused' = {u \in us : left[u] > 0} /\ refused' # {}

PrepareNothing ==                                       \* mutant
  /\ vstep = "prepare" /\ vstep' = "write"
  /\ UNCHANGED <<Unmoved, request, scratch, scratchObs, counts, verdict, faults>>
Prepare ==
  /\ vstep = "prepare" /\ vstep' = "write"
  /\ Deletes(RangeOf(attempted))
  /\ UNCHANGED <<Unmoved, request, scratch, reported, verdict>>

Batch == FirstOf(toWrite, BatchSize)

\* the share of each unit of a batch in what DataX read, rounded down
ReportedFor(batch) ==
  Len(batch) * (Total([i \in 1..Len(batch) |-> Rows[batch[i]]]) \div Len(batch))

Lands(rows) ==
  scratchObs' = [u \in UnitSet |-> scratchObs[u] + (IF u \in DOMAIN rows THEN rows[u] ELSE 0)]
BatchRows == [u \in RangeOf(Batch) |-> Rows[u]]

\* DataX says it is done: with all rows, or having lost one of u's
WriteBatch ==
  /\ vstep = "write" /\ toWrite # <<>>
  /\ \/ Lands(BatchRows) /\ UNCHANGED faults
     \/ \E u \in RangeOf(Batch) :
          Rows[u] > 0 /\ Fault("lose") /\ Lands([BatchRows EXCEPT ![u] = @ - 1])
  /\ toWrite' = SubSeq(toWrite, Len(Batch) + 1, Len(toWrite))
  /\ reported' = reported + ReportedFor(Batch)
  /\ UNCHANGED <<Unmoved, vstep, attempted, keep, scratch, refused, verdict>>

StepFailsForGood ==                                     \* mutant
  /\ vstep \in {"prepare", "write", "register", "count"} /\ Fault("source")
  /\ vstep' = "failed"
  /\ UNCHANGED <<Unmoved, request, scratch, scratchObs, counts, verdict>>
\* an exception anywhere in the try leads to the cleanup
StepFails ==
  /\ vstep \in {"prepare", "write", "register", "count"}
  /\ \/ /\ Fault("datax") /\ vstep = "write" /\ toWrite # <<>>
        /\ \E u \in RangeOf(Batch) : \E n \in 0..Rows[u] : Lands([BatchRows EXCEPT ![u] = n])
     \/ /\ Fault("delete") /\ vstep = "prepare"
        /\ \E left \in Leftovers(RangeOf(attempted)) : Leaves(left)
     \/ Fault("source") /\ UNCHANGED scratchObs
  /\ vstep' = "cleanup"
  /\ UNCHANGED <<Unmoved, request, scratch, counts, verdict>>

EndWriting ==
  /\ vstep = "write" /\ toWrite = <<>> /\ vstep' = "register"
  /\ UNCHANGED <<Unmoved, request, scratch, scratchObs, counts, verdict, faults>>

\* add_partition of every path, whose False nobody looks at
RegisterScratch ==
  /\ vstep = "register" /\ vstep' = "count"
  /\ \/ scratch' = RangeOf(attempted) /\ UNCHANGED faults
     \/ \E u \in RangeOf(attempted) :
          Fault("register") /\ scratch' = RangeOf(attempted) \ {u}
  /\ UNCHANGED <<Unmoved, request, scratchObs, counts, verdict>>

\* get_table_count, or its 0, and the verdict
Judge ==
  /\ vstep = "count" /\ vstep' = "cleanup"
  /\ \E counted \in {0, ScratchCount} :
       /\ \/ counted = ScratchCount /\ UNCHANGED faults
          \/ counted = 0 /\ Fault("count")
       /\ verdict' = IF counted > 0 /\ counted = reported THEN "PASS" ELSE "FAIL"
  /\ UNCHANGED <<Unmoved, request, scratch, scratchObs, counts>>

KeepScratch ==
  /\ vstep = "cleanup" /\ keep /\ Quits
  /\ UNCHANGED <<Unmoved, scratch, scratchObs, verdict, faults>>

\* drop_table only warns when it fails
DropScratch ==
  /\ vstep = "cleanup" /\ ~keep
  /\ \/ scratch' = NoTable /\ vstep' = "sweep" /\ UNCHANGED faults
     \/ Fault("drop") /\ vstep' = "sweep_left" /\ UNCHANGED scratch
  /\ UNCHANGED <<Unmoved, request, scratchObs, counts, verdict>>

SweepAttempted ==                                       \* mutant
  /\ vstep \in {"sweep", "sweep_left"}
  /\ Deletes(RangeOf(attempted))
  /\ Ends /\ vstep' = IF vstep = "sweep" THEN "ended" ELSE "off"
  /\ UNCHANGED <<Unmoved, scratch, verdict>>
\* delete_prefix over the scratch directory as the table's name spells it, while
\* TargetSpec put everything under the lower-case one
Swept == IF LowerTableName THEN UnitSet ELSE {}
Sweep ==
  /\ vstep \in {"sweep", "sweep_left"}
  /\ Deletes(Swept)
  /\ Ends /\ vstep' = IF vstep = "sweep" THEN "ended" ELSE "off"
  /\ UNCHANGED <<Unmoved, scratch, verdict>>

SweepFails ==
  /\ vstep \in {"sweep", "sweep_left"} /\ Fault("delete") /\ Quits
  /\ \E left \in Leftovers(Swept) : Leaves(left)
  /\ UNCHANGED <<Unmoved, scratch, verdict>>

ValidateDies ==
  /\ vstep \notin {"off", "ended"} /\ Fault("crash") /\ Quits
  /\ UNCHANGED <<Unmoved, scratch, scratchObs, verdict>>

----------------------------------------------------------------------------
(* jobs/ *)

\* "a table only belongs in jobs/ after this passes"
Promote ==
  /\ draft # NoSpec /\ verdict = "PASS" /\ job # draft /\ job' = draft
  /\ UNCHANGED <<types, keyCase, tableVars, draft, creating, validateVars, verdict, faults>>

\* a run of the promoted job: its files, and partitions if there is a table
Load ==
  /\ job # NoSpec /\ Resolves(job.columns) /\ ~PlanRefuses(job)
  /\ files' = files \cup {WrittenColumns(job)}
  /\ registered' = (table # NoTable)
  /\ UNCHANGED <<types, keyCase, table, halfReplaced, specVars, creating,
                 validateVars, verdict, faults>>

ValidateStep ==
  \/ Prepare \/ WriteBatch \/ StepFails \/ EndWriting \/ RegisterScratch \/ Judge
  \/ KeepScratch \/ DropScratch \/ Sweep \/ SweepFails

Next ==
  \/ Scaffold \/ Promote \/ Load
  \/ \E c \in Creators : AskCreate(c) \/ Create(c) \/ CreateFails(c)
  \/ \E limit \in Limits, kept \in BOOLEAN : StartValidate(limit, kept)
  \/ ScratchDdlFails \/ ValidateStep \/ ValidateDies

Spec     == Init /\ [][Next]_vars
FairSpec == Spec /\ WF_vars(ValidateStep)
=============================================================================
