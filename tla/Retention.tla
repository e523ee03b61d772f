------------------------------ MODULE Retention ------------------------------
(***************************************************************************)
(* `td2hive retention run-all` (cli.py, retention.py) over the tables that *)
(* opted in, while backups write and register partitions of the same       *)
(* tables: list the dated prefixes, delete the objects of the expired      *)
(* ones, then drop their metastore entries through beeline (Beeline).      *)
(* Dates are numbers of days.                                              *)
(***************************************************************************)
EXTENDS Beeline

CONSTANTS
  NumTables,     \* tables 1..NumTables, in the order of load_jobs_dir
  RetentionDays, \* RetentionDays[t]
  Dates,         \* processing dates that occur
  MaxToday,      \* bound on the calendar
  Backfill,      \* TRUE iff dates that have expired are backed up as well
  FaultKinds,    \* what the environment of this instance may do
  MaxFaults      \* bound on how often it does

AllFaults == {"list", "delete", "keys", "hive", "close", "hang", "crash"}
Tables    == 1..NumTables

ASSUME RetentionAssumption ==
  /\ NumTables \in Nat \ {0} /\ MaxToday \in Nat /\ MaxFaults \in Nat
  /\ RetentionDays \in [Tables -> Nat] /\ Dates \subseteq Nat
  /\ Backfill \in BOOLEAN /\ FaultKinds \subseteq AllFaults

VARIABLES
  today,
  step,      \* where process_retention is; "off" between commands
  dry,       \* the command runs without --no-dry-run
  table,     \* the table it is at
  cutoff,    \* its cutoff date
  listed,    \* dates listed and not yet looked at
  current,   \* the date in work
  hadErrors, \* the command will exit 1
  obs,       \* obs[t][d]: the objects of a partition: "none", "some", "all"
  part,      \* part[t][d]: the metastore has an entry for it
  reported,  \* history: <<t, d>> whose expiry an error message was printed for
  cut,       \* history: <<t, d>> in work when a command died
  refused,   \* history: <<t, d>> some of whose keys OBS did not delete
  faults

commandVars == <<step, dry, table, cutoff, listed, current, hadErrors>>
worldVars   == <<today, obs, part, reported, cut, refused>>
vars == <<commandVars, worldVars, faults, beelineVars>>

Steps == {"off", "list", "each", "delete", "drop", "exit0", "exit1"}

Fault(kind) ==
  kind \in FaultKinds /\ faults < MaxFaults /\ faults' = faults + 1

Init ==
  /\ BeelineInit
  /\ today = 1 /\ step = "off" /\ dry = TRUE /\ table = 1 /\ cutoff = 0
  /\ listed = {} /\ current = 0 /\ hadErrors = FALSE
  /\ obs = [t \in Tables |-> [d \in Dates |-> "none"]]
  /\ part = [t \in Tables |-> [d \in Dates |-> FALSE]]
  /\ reported = {} /\ cut = {} /\ refused = {} /\ faults = 0

----------------------------------------------------------------------------
(* the world around it *)

Midnight ==
  /\ today < MaxToday /\ today' = today + 1
  /\ UNCHANGED <<commandVars, obs, part, reported, cut, refused, faults, beelineVars>>

Young(t, d) == d + RetentionDays[t] > today

MayBackUp(t, d) == d <= today /\ (Backfill \/ Young(t, d))

\* a backup run's write and its registration (BackupRun has the rest)
BackupLands(t, d) ==
  /\ MayBackUp(t, d) /\ obs' = [obs EXCEPT ![t][d] = "all"]
  /\ UNCHANGED <<commandVars, today, part, reported, cut, refused, faults, beelineVars>>

BackupRegisters(t, d) ==
  /\ MayBackUp(t, d) /\ obs[t][d] = "all"
  /\ part' = [part EXCEPT ![t][d] = TRUE]
  /\ UNCHANGED <<commandVars, today, obs, reported, cut, refused, faults, beelineVars>>

----------------------------------------------------------------------------
(* the command *)

StartCommand(isDry) ==
  /\ step \in {"off", "exit0", "exit1"}
  /\ step' = "list" /\ dry' = isDry
  /\ UNCHANGED <<table, cutoff, listed, current, hadErrors, worldVars, faults,
                 beelineVars>>

\* the process ends and its locals with it
Stop(outcome) ==
  /\ step' = outcome /\ dry' = TRUE /\ table' = 1 /\ cutoff' = 0
  /\ listed' = {} /\ current' = 0 /\ hadErrors' = FALSE

CutoffOfFirst(t) == today - RetentionDays[1]            \* mutant
CutoffOf(t)      == today - RetentionDays[t]

\* partition_date > cutoff_date is kept
Expired(d) == d <= cutoff

\* list_dated_partitions: the prefixes that hold any object
Listed(t) == {d \in Dates : obs[t][d] # "none"}

List ==
  /\ step = "list"
  /\ cutoff' = CutoffOf(table) /\ listed' = Listed(table) /\ step' = "each"
  /\ UNCHANGED <<dry, table, current, hadErrors, worldVars, faults, beelineVars>>

\* not caught: the tables after this one are not looked at
ListFails ==
  /\ step = "list" /\ Fault("list") /\ Stop("exit1")
  /\ UNCHANGED <<worldVars, beelineVars>>

IsNext(d) == d \in listed /\ \A e \in listed : d <= e

MayDelete(d) == Expired(d) /\ ~dry

KeepOrPretend(d) ==
  /\ step = "each" /\ IsNext(d) /\ ~MayDelete(d)
  /\ listed' = listed \ {d}
  /\ UNCHANGED <<step, dry, table, cutoff, current, hadErrors, worldVars,
                 faults, beelineVars>>

BeginExpiry(d) ==
  /\ step = "each" /\ IsNext(d) /\ MayDelete(d)
  /\ listed' = listed \ {d} /\ current' = d /\ step' = "delete"
  /\ UNCHANGED <<dry, table, cutoff, hadErrors, worldVars, faults, beelineVars>>

ObsBecomes(state) == obs' = [obs EXCEPT ![table][current] = state]

ExpiryFailsQuietly ==                                   \* mutant
  step' = "each" /\ UNCHANGED <<hadErrors, reported>>
\* the error goes into the result, the loop goes on
ExpiryFails ==
  /\ hadErrors' = TRUE /\ reported' = reported \cup {<<table, current>>}
  /\ step' = "each"

DropBeforeDelete ==                                     \* mutant
  /\ step = "delete" /\ step' = "drop" /\ Launch
  /\ UNCHANGED <<dry, table, cutoff, listed, current, hadErrors, worldVars, faults>>
\* delete_prefix, and the query for the metastore entry
DeleteObjects ==
  /\ step = "delete" /\ ObsBecomes("none") /\ step' = "drop" /\ Launch
  /\ UNCHANGED <<dry, table, cutoff, listed, current, hadErrors, today, part,
                 reported, cut, refused, faults>>

\* per-key errors in the response are not read: OBS may refuse every key
DeleteLeavesObjects ==
  /\ step = "delete" /\ Fault("keys") /\ obs[table][current] # "none"
  /\ \E state \in {"some", obs[table][current]} : ObsBecomes(state)
  /\ refused' = refused \cup {<<table, current>>} /\ step' = "drop" /\ Launch
  /\ UNCHANGED <<dry, table, cutoff, listed, current, hadErrors, today, part,
                 reported, cut>>

DeleteFails ==
  /\ step = "delete" /\ Fault("delete")
  /\ \E state \in {"none", "some", obs[table][current]} : ObsBecomes(state)
  /\ ExpiryFails
  /\ UNCHANGED <<dry, table, cutoff, listed, current, today, part, cut, refused,
                 beelineVars>>

\* ALTER TABLE ... DROP IF EXISTS PARTITION has its effect in the child
DropTakesEffect == part' = [part EXCEPT ![table][current] = FALSE]

BeelineSucceeds ==
  /\ child \in {"running", "closed"} /\ AllPrinted
  /\ ChildEnds("exited0") /\ DropTakesEffect
  /\ UNCHANGED <<commandVars, today, obs, reported, cut, refused, faults>>

\* it fails, closes its pipes without exiting, or never answers
BeelineFails ==
  /\ \/ Fault("hive") /\ ChildEnds("exited1")
     \/ Fault("close") /\ child = "running" /\ AllPrinted /\ ChildEnds("closed")
     \/ Fault("hang") /\ child = "running" /\ ChildEnds("hung")
  /\ DropTakesEffect \/ UNCHANGED part
  /\ UNCHANGED <<commandVars, today, obs, reported, cut, refused>>

BeelineProceeds == BeelineStep /\ UNCHANGED <<commandVars, worldVars, faults>>

\* drop_partition returns True, or False
DropSucceeds ==
  /\ step = "drop" /\ Return("ok") /\ step' = "each"
  /\ UNCHANGED <<dry, table, cutoff, listed, current, hadErrors, worldVars, faults>>

DropFails ==
  /\ step = "drop" /\ Return("error") /\ ExpiryFails
  /\ UNCHANGED <<dry, table, cutoff, listed, current, today, obs, part, cut,
                 refused, faults>>

NextTable ==
  /\ step = "each" /\ listed = {} /\ table < NumTables
  /\ table' = table + 1 /\ step' = "list"
  /\ UNCHANGED <<dry, cutoff, listed, current, hadErrors, worldVars, faults, beelineVars>>

EndCommand ==
  /\ step = "each" /\ listed = {} /\ table = NumTables
  /\ Stop(IF hadErrors THEN "exit1" ELSE "exit0")
  /\ UNCHANGED <<worldVars, faults, beelineVars>>

\* the process dies; a beeline it started is not modelled further
Crash ==
  /\ step \in {"list", "each", "delete", "drop"} /\ Fault("crash")
  /\ Stop("off")
  /\ IF caller = "idle" THEN UNCHANGED beelineVars ELSE Return(caller)
  /\ IF step \in {"delete", "drop"}
       THEN /\ cut' = cut \cup {<<table, current>>}
            /\ obs' \in {[obs EXCEPT ![table][current] = state] :
                          state \in IF step = "delete"
                                      THEN {"none", "some", obs[table][current]}
                                      ELSE {obs[table][current]}}
       ELSE UNCHANGED <<cut, obs>>
  /\ UNCHANGED <<today, part, reported, refused>>

Backups == \E t \in Tables, d \in Dates : BackupLands(t, d) \/ BackupRegisters(t, d)

Command ==
  \/ List \/ ListFails \/ NextTable \/ EndCommand
  \/ \E d \in Dates : KeepOrPretend(d) \/ BeginExpiry(d)
  \/ DeleteObjects \/ DeleteLeavesObjects \/ DeleteFails
  \/ DropSucceeds \/ DropFails

Next ==
  \/ Midnight \/ Backups
  \/ \E isDry \in BOOLEAN : StartCommand(isDry)
  \/ Command \/ Crash
  \/ BeelineSucceeds \/ BeelineFails \/ BeelineProceeds

Quiet == UNCHANGED <<commandVars, worldVars, faults>>
Caller == TakeLine \/ PollTimesOut \/ EndPolling \/ WaitReturns \/ WaitTimesOut

Spec     == Init /\ [][Next]_vars
FairSpec ==
  /\ Spec
  /\ WF_vars(Midnight) /\ SF_vars(StartCommand(FALSE)) /\ WF_vars(Command)
  /\ WF_vars(BeelineSucceeds) /\ WF_vars(Caller /\ Quiet)
  /\ \A s \in Streams : /\ WF_vars(PrintLine(s) /\ Quiet)
                        /\ WF_vars((ReadLine(s) \/ ReadEof(s)) /\ Quiet)
=============================================================================
